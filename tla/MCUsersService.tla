--------------------------- MODULE MCUsersService ---------------------------
(* Small instances of UsersService for TLC: the table is empty or holds    *)
(* one user, one admin or both, and the three calls are interchangeable.   *)
EXTENDS UsersService, TLC

CONSTANTS alice, bob, p1, ann, seeded

MCSeedRow ==
  {[email |-> alice, password |-> [plain |-> p1, salt |-> seeded],
    firstName |-> ann, lastName |-> ann, role |-> "user", status |-> "active"],
   [email |-> bob, password |-> [plain |-> p1, salt |-> seeded],
    firstName |-> None, lastName |-> None, role |-> "admin", status |-> "active"]}

Symmetry == Permutations(Request) \cup Permutations(Id)

=============================================================================
