SPECIFICATION AuthSpecHistory
CONSTANTS
  Request = {r1, r2, r3}
  Id = {i1}
  Email = {alice}
  Password = {p1, p2}
  Name = {ann, bea}
  SeedRow <- MCSeedRow
  Seed = seeded
  None = None
  Offered = {"forgotPassword", "resetPassword", "changePassword", "updateProfile", "register"}
  p1 = p1
  ann = ann
  seeded = seeded
SYMMETRY Symmetry
INVARIANTS OutcomeMatchesCommit ChangesWereEntitled
