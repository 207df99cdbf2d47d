------------------------- MODULE AuthServiceHistory --------------------------
(***************************************************************************)
(* AuthService with a record of the password changes that ever committed   *)
(* (a request's hash may be overwritten later, by a newer password or by a *)
(* stale save, and its reply may come long after) and of the requests that *)
(* ever were entitled to one: what a handler compares its password or its  *)
(* token with may have changed by the time it saves.                       *)
(***************************************************************************)
EXTENDS AuthService

VARIABLES
  committed,  \* requests whose hash has been in the table
  entitled    \* requests that gave the password, or the link, of a moment they were under way

historyVars == <<authAllVars, committed, entitled>>

Salts == {users[id].password.salt : id \in {i \in Id : InTable(i)}} \cap Request

(* At this moment, before the decision, what the request gave is right.    *)
EntitledNow(r) ==
  \/ /\ stage[r] = "findUser" /\ IsChange(r)
     /\ InTable(body[r].id)
     /\ users[body[r].id].password.plain = body[r].current
  \/ /\ stage[r] = "redisGet"
     /\ body[r].token # None
     /\ redis[body[r].email] = body[r].token

EntitledRequests == {r \in Request : EntitledNow(r)}

RecordStep ==
  /\ committed' = committed \cup Salts'
  /\ entitled' = entitled \cup EntitledRequests'

AuthSpecHistory ==
  /\ AuthInit /\ committed = {} /\ entitled = {}
  /\ [][AuthNext /\ RecordStep]_historyVars

ChangesPassword(r) == IsReset(r) \/ IsChange(r)

(* No success without the fact and no refusal with it: a 200, a mail "Your *)
(* password has been changed successfully" and the deletion of the reset   *)
(* token come only after the new password was committed, and a call that   *)
(* is refused (400, 404) never changed a password.                         *)
OutcomeMatchesCommit ==
  \A r \in Request : ChangesPassword(r) =>
    /\ reply[r] = 200 => r \in committed
    /\ (\E m \in outbox \cup inbox : m.kind = "notice" /\ m.of = r) => r \in committed
    /\ stage[r] = "redisDel" => r \in committed
    /\ reply[r] \in {400, 404} => r \notin committed

(* Whoever changed a password was entitled to it while the request was     *)
(* under way: it gave the password the account had, or the link that was   *)
(* valid, at a moment after the request came in.  A change that commits    *)
(* between the comparison and the save may be overwritten, but never by a  *)
(* caller who only knows a password, or has a link, of an earlier time.    *)
ChangesWereEntitled == \A r \in committed : ChangesPassword(r) => r \in entitled

=============================================================================
