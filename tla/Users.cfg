SPECIFICATION Spec
CONSTANTS
  Request = {r1, r2, r3}
  Id = {i1, i2}
  Email = {alice, bob}
  Password = {p1}
  Name = {ann}
  SeedRow <- MCSeedRow
  Seed = seeded
  None = None
  alice = alice
  bob = bob
  p1 = p1
  ann = ann
  seeded = seeded
SYMMETRY Symmetry
INVARIANTS TypeOK EmailUnique RegistrationSticks
PROPERTY ImplementsDirectory
