------------------------- MODULE UsersServiceHistory -------------------------
(***************************************************************************)
(* UsersService with a record of what happened to a row while a handler    *)
(* held a copy of it.  The two history variables are read by no action:    *)
(* they only let the properties speak of earlier states.                   *)
(***************************************************************************)
EXTENDS UsersService

VARIABLES
  overtaken,   \* columns of its row changed between a handler's find and save()'s SELECT
  seen         \* columns of a call that have held the value it wants, since its find

historyVars == <<overtaken, seen>>
allVars == <<vars, historyVars>>

Target(r) == call[r].id

(* The step changes column c of the account id.                            *)
Changed(id, c) == InTable(id) /\ users'[id][c] # users[id][c]

(* Before the step column c of r's account holds what r asks for.          *)
AsWanted(r, c) == InTable(Target(r)) /\ Edited(r, users[Target(r)])[c] = users[Target(r)][c]

InitHistory ==
  /\ overtaken = [r \in Request |-> {}]
  /\ seen = [r \in Request |-> {}]

Writing(r) == pc[r] \in {"find", "load", "update"} /\ Own(call[r]) # {}

NextHistory ==
  /\ overtaken' = [r \in Request |->
       IF pc[r] = "load"
       THEN overtaken[r] \cup {c \in Column : Changed(Target(r), c)}
       ELSE overtaken[r]]
  /\ seen' = [r \in Request |->
       IF Writing(r)
       THEN seen[r] \cup {c \in Own(call[r]) : AsWanted(r, c) \/ AsWanted(r, c)'}
       ELSE seen[r]]

SpecHistory == Init /\ InitHistory /\ [][Next /\ NextHistory]_allVars

-----------------------------------------------------------------------------
(* The lost-update window of save(), and nothing wider: a save changes a   *)
(* column its operation is not about only when somebody else changed that  *)
(* column after the handler read the row and before save() read it again.  *)
(* So a profile edit can put back an old password hash or an old status    *)
(* in that window, but it never undoes a commit made before its find or    *)
(* after the SELECT of its save().                                         *)
StaleWriteWindow ==
  [][\A r \in Request :
       (pc[r] = "update" /\ users' # users /\ pc'[r] # "update") =>
         \A c \in Column \ Own(call[r]) : Changed(Target(r), c) => c \in overtaken[r]]_allVars

(* A 200 is earned column by column: every column the call asked to change *)
(* held the requested value at some instant between its find and its       *)
(* answer, although the answer may come without an UPDATE (names already   *)
(* equal, nothing different at save()) and another request may win later.  *)
AcknowledgedWriteWasVisible ==
  \A r \in Request :
    (pc[r] = "returned" /\ result[r] = 200) => seen[r] = Own(call[r])

=============================================================================
