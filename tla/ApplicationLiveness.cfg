SPECIFICATION AppFairSpec
CONSTANTS
  Request = {r1, r2}
  Id = {i1, i2}
  Email = {alice, bob}
  Password = {p1}
  Name = {ann}
  SeedRow <- MCSeedRow
  Seed = seeded
  None = None
  Offered = {"forgotPassword", "resetPassword", "changePassword", "register", "readUser", "updateProfile"}
  AccessSecret = key
  RefreshSecret = key
  AccessTime = 1
  RefreshTime = 2
  MaxTime = 1
  p1 = p1
  ann = ann
  seeded = seeded
INVARIANT ChangedByItsAccount
PROPERTY EveryRequestEnds
