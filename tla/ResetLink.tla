------------------------------ MODULE ResetLink ------------------------------
(***************************************************************************)
(* What password-reset links promise.  An account has at most one link     *)
(* that opens it.  A link is mailed after it became valid and was settled: *)
(* from then on it can only lose its validity, for good: by the next link, *)
(* by being used, or by growing old, even before its mail is written.  A   *)
(* reset is let through by a link that was mailed and is valid at that     *)
(* moment.                                                                 *)
(***************************************************************************)
EXTENDS Naturals

CONSTANTS Request, Account, None

VARIABLES
  valid,      \* the link that opens each account, or None
  settled,    \* the links about to be mailed
  mailed,     \* the links that were mailed
  accepted    \* the link that let each reset through, or None

linkVars == <<valid, settled, mailed, accepted>>

Init ==
  /\ valid = [a \in Account |-> None]
  /\ settled = {}
  /\ mailed = {}
  /\ accepted = [r \in Request |-> None]

Renew(a, link) ==
  /\ link \notin settled \cup mailed
  /\ \A b \in Account \ {a} : valid[b] # link
  /\ valid' = [valid EXCEPT ![a] = link]

Issue(a, link) == Renew(a, link) /\ UNCHANGED <<settled, mailed, accepted>>

Settle(a, link) ==
  /\ Renew(a, link)
  /\ settled' = settled \cup {link}
  /\ UNCHANGED <<mailed, accepted>>

(* The mail of a settled link is written, or never will be.                *)
Mail(link) ==
  /\ link \in settled
  /\ settled' = settled \ {link}
  /\ mailed' \in {mailed, mailed \cup {link}}
  /\ UNCHANGED <<valid, accepted>>

Invalidate(a) ==
  /\ valid' = [valid EXCEPT ![a] = None]
  /\ UNCHANGED <<settled, mailed, accepted>>

Use(r, a, link) ==
  /\ accepted[r] = None
  /\ link \in mailed
  /\ valid[a] = link
  /\ accepted' = [accepted EXCEPT ![r] = link]
  /\ UNCHANGED <<valid, settled, mailed>>

Next ==
  \/ \E a \in Account, link \in Request : Issue(a, link) \/ Settle(a, link)
  \/ \E link \in Request : Mail(link)
  \/ \E a \in Account : Invalidate(a)
  \/ \E r, link \in Request, a \in Account : Use(r, a, link)

Spec == Init /\ [][Next]_linkVars

=============================================================================
