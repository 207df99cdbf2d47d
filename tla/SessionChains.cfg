SPECIFICATION SessionSpecHistory
CONSTANTS
  Request = {r1, r2, r3}
  Id = {i1}
  Email = {alice}
  Password = {p1, p2}
  Name = {ann}
  SeedRow <- MCSeedRow
  Seed = seeded
  None = None
  AccessSecret = key
  RefreshSecret = key
  AccessTime = 1
  RefreshTime = 2
  MaxTime = 3
  alice = alice
  p1 = p1
  ann = ann
  seeded = seeded
SYMMETRY Symmetry
INVARIANTS SessionTypeOK TokensNameTheirAccount EveryTokenFromLogin RefreshNeedsActiveAccount
