------------------------ MODULE MCAuthServiceHistory -------------------------
(* A small instance of AuthServiceHistory for TLC: one account, two        *)
(* passwords and two names.                                                *)
EXTENDS AuthServiceHistory, TLC

CONSTANTS p1, ann, seeded

MCSeedRow ==
  {[email |-> e, password |-> [plain |-> p1, salt |-> seeded],
    firstName |-> ann, lastName |-> ann, role |-> "user", status |-> "active"] : e \in Email}

Symmetry == Permutations(Request)

=============================================================================
