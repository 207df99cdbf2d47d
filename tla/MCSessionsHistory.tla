-------------------------- MODULE MCSessionsHistory --------------------------
(* A small instance of SessionsHistory for TLC: one account, of a user or  *)
(* of an admin, and two passwords.                                         *)
EXTENDS SessionsHistory, TLC

CONSTANTS alice, p1, ann, seeded

MCSeedRow ==
  {[email |-> alice, password |-> [plain |-> p1, salt |-> seeded],
    firstName |-> ann, lastName |-> ann, role |-> role, status |-> "active"] : role \in Role}

Symmetry == Permutations(Request)

=============================================================================
