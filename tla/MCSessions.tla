----------------------------- MODULE MCSessions -----------------------------
(* Small instances of Sessions for TLC: a user and an admin, each in the   *)
(* table at the start or not.                                              *)
EXTENDS Sessions, TLC

CONSTANTS alice, bob, p1, ann, seeded

MCSeedRow ==
  {[email |-> alice, password |-> [plain |-> p1, salt |-> seeded],
    firstName |-> ann, lastName |-> ann, role |-> "user", status |-> "active"],
   [email |-> bob, password |-> [plain |-> p1, salt |-> seeded],
    firstName |-> None, lastName |-> None, role |-> "admin", status |-> "active"]}

Symmetry == Permutations(Request) \cup Permutations(Id)

=============================================================================
