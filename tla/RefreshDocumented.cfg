SPECIFICATION SessionSpec
CONSTANTS
  Request = {r1, r2}
  Id = {i1, i2}
  Email = {alice, bob}
  Password = {p1}
  Name = {ann}
  SeedRow <- MCSeedRow
  Seed = seeded
  None = None
  AccessSecret = accessKey
  RefreshSecret = refreshKey
  AccessTime = 1
  RefreshTime = 2
  MaxTime = 2
  alice = alice
  bob = bob
  p1 = p1
  ann = ann
  seeded = seeded
SYMMETRY Symmetry
INVARIANT RefreshTokenRefreshes
