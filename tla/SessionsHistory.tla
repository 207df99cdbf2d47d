--------------------------- MODULE SessionsHistory ---------------------------
(***************************************************************************)
(* Sessions with a record of who proved to know a password, and of which   *)
(* accounts have been active while a refresh was under way.                *)
(***************************************************************************)
EXTENDS Sessions

VARIABLES
  proved,       \* accounts whose password was presented at a login
  wasActive     \* accounts that were active since each refresh arrived

sessionHistory == <<proved, wasActive>>

ActiveAccounts == {id \in Id : InTable(id) /\ users[id].status = "active"}

SessionInitHistory ==
  /\ proved = {}
  /\ wasActive = [r \in Request |-> {}]

SessionBegins == SessionInit /\ SessionInitHistory

Presented ==
  {id \in Id : InTable(id) /\ \E r \in Request :
     /\ gate[r] = "validating"
     /\ visit[r].email = users[id].email
     /\ visit[r].password = users[id].password.plain}

UnderWay(r) == gate[r] \in {"refreshing", "signing"}

SessionNextHistory ==
  /\ proved' = proved \cup Presented
  /\ wasActive' = [r \in Request |->
       IF UnderWay(r)' THEN wasActive[r] \cup ActiveAccounts' ELSE wasActive[r]]

SessionSpecHistory ==
  /\ SessionBegins
  /\ [][SessionNext /\ SessionNextHistory]_<<sessionAllVars, sessionHistory>>

-----------------------------------------------------------------------------
(* Every token goes back to a login: however long the chain of refreshes,  *)
(* a login of that account presented the password it had at the time.      *)
EveryTokenFromLogin == \A t \in tokens : t.sub \in proved

(* Deactivation ends refreshing, but for what is in flight: refreshToken   *)
(* decides on, and answers 200 with, new tokens only if the account was    *)
(* active at some moment since that very request arrived.  A refresh that  *)
(* arrives after the deactivation gets none, and so no chain of refreshes  *)
(* goes on from it; one that was under way may sign after the deactivation *)
(* and with a clock read after it.  (A login does not look at the status.) *)
RefreshNeedsActiveAccount ==
  \A r \in Request :
    (visit[r] # None /\ visit[r].op = "refresh" /\ (gate[r] = "signing" \/ answer[r] = 200))
    => visit[r].token.sub \in wasActive[r]

=============================================================================
