------------------------ MODULE MCUsersServiceHistory ------------------------
(* A small instance of UsersServiceHistory for TLC: one or two accounts in *)
(* the table, two names, so that two profile edits can interleave.         *)
EXTENDS UsersServiceHistory, TLC

CONSTANTS alice, p1, ann, seeded

MCSeedRow ==
  {[email |-> alice, password |-> [plain |-> p1, salt |-> seeded],
    firstName |-> ann, lastName |-> ann, role |-> "user", status |-> "active"]}

Symmetry == Permutations(Request)

=============================================================================
