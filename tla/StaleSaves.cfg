SPECIFICATION SpecHistory
CONSTANTS
  Request = {r1, r2, r3}
  Id = {i1}
  Email = {alice}
  Password = {p1}
  Name = {ann, bea}
  SeedRow <- MCSeedRow
  Seed = seeded
  None = None
  alice = alice
  p1 = p1
  ann = ann
  seeded = seeded
SYMMETRY Symmetry
INVARIANT AcknowledgedWriteWasVisible
PROPERTY StaleWriteWindow
