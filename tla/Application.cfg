SPECIFICATION AppSpec
CONSTANTS
  Request = {r1, r2, r3}
  Id = {i1}
  Email = {alice}
  Password = {p1}
  Name = {ann}
  SeedRow <- MCSeedRow
  Seed = seeded
  None = None
  Offered = {"forgotPassword", "resetPassword", "changePassword", "register", "readUser", "updateProfile"}
  AccessSecret = accessKey
  RefreshSecret = refreshKey
  AccessTime = 2
  RefreshTime = 3
  MaxTime = 2
  p1 = p1
  ann = ann
  seeded = seeded
SYMMETRY Symmetry
INVARIANT ChangedByItsAccount
PROPERTIES ImplementsAuthService ImplementsSessions
