---------------------------- MODULE MCApplication ----------------------------
(* Small instances of Application for TLC: an account that may be in the   *)
(* table at the start.                                                     *)
EXTENDS Application, TLC

CONSTANTS p1, ann, seeded

MCSeedRow ==
  {[email |-> e, password |-> [plain |-> p1, salt |-> seeded],
    firstName |-> ann, lastName |-> ann, role |-> "user", status |-> "active"] : e \in Email}

Symmetry == Permutations(Request)

=============================================================================
