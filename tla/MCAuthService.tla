---------------------------- MODULE MCAuthService ----------------------------
(* Small instances of AuthService for TLC: each account is in the table at *)
(* the start or not.                                                       *)
EXTENDS AuthService, TLC

CONSTANTS p1, ann, seeded

MCSeedRow ==
  {[email |-> e, password |-> [plain |-> p1, salt |-> seeded],
    firstName |-> ann, lastName |-> ann, role |-> "user", status |-> "active"] : e \in Email}

Symmetry == Permutations(Request) \cup Permutations(Id) \cup Permutations(Email)

=============================================================================
