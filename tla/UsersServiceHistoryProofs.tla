---------------------- MODULE UsersServiceHistoryProofs ----------------------
(***************************************************************************)
(* Proofs about UsersServiceHistory: how far a save reaches back, and what *)
(* a 200 means, for any set of requests and any table.                     *)
(***************************************************************************)
EXTENDS UsersServiceHistory, UsersServiceProofs

(* What the operation of r writes into one of its own columns.             *)
Wants(r, c) == IF c = "password" THEN HashOf(r, call[r].password)
               ELSE IF c = "firstName" THEN call[r].firstName
               ELSE call[r].lastName

(* A column that is not r's own differs from the row only after somebody   *)
(* overtook it, and save() writes it only in that case.                    *)
OvertakenHeld(r) ==
  /\ pc[r] = "load" =>
       \A c \in Column \ Own(call[r]) :
         entity[r][c] = users[Target(r)][c] \/ c \in overtaken[r]
  /\ pc[r] = "update" => dirty[r] \ Own(call[r]) \subseteq overtaken[r]

(* The entity holds what r wants; a column of r's own that save() does not *)
(* write has been seen with that value.                                    *)
SeenHeld(r) ==
  /\ pc[r] \in {"idle", "existsBy", "insert"} => seen[r] = {}
  /\ pc[r] \in {"find", "load", "update"} => seen[r] \subseteq Own(call[r])
  /\ pc[r] \in {"load", "update"} => \A c \in Own(call[r]) : entity[r][c] = Wants(r, c)
  /\ pc[r] = "update" => Own(call[r]) \ dirty[r] \subseteq seen[r]
  /\ pc[r] = "returned" /\ result[r] = 200 => seen[r] = Own(call[r])

HistoryInv == Inv /\ \A r \in Request : OvertakenHeld(r) /\ SeenHeld(r)

-----------------------------------------------------------------------------
(* The own columns are columns; readers and registrations have none.       *)
LEMMA OwnColumns ==
  ASSUME NEW c
  PROVE  /\ Own(c) \subseteq Column
         /\ c \in RegisterCall \cup ReadCall => Own(c) = {}
         /\ c \in PasswordCall => Own(c) = {"password"}
         /\ c \in ProfileCall => Own(c) = {"firstName", "lastName"}
  BY DEF Own, Column, RegisterCall, ReadCall, PasswordCall, ProfileCall

(* An edit puts what is wanted into the own columns and keeps the others.  *)
LEMMA EditedColumns ==
  ASSUME NEW r \in Request, NEW row \in Row, call[r] \in PasswordCall \cup ProfileCall
  PROVE  /\ \A c \in Own(call[r]) : Edited(r, row)[c] = Wants(r, c)
         /\ \A c \in Column \ Own(call[r]) : Edited(r, row)[c] = row[c]
<1>1. CASE call[r] \in PasswordCall
  <2>1. Edited(r, row) = [row EXCEPT !.password = HashOf(r, call[r].password)]
    BY <1>1 DEF Edited, PasswordCall
  <2>2. Own(call[r]) = {"password"}
    BY <1>1, OwnColumns
  <2> QED BY <2>1, <2>2 DEF Row, Column, Wants
<1>2. CASE call[r] \in ProfileCall
  <2>1. Edited(r, row) = [row EXCEPT !.firstName = call[r].firstName,
                                     !.lastName = call[r].lastName]
    BY <1>2 DEF Edited, ProfileCall
  <2>2. Own(call[r]) = {"firstName", "lastName"}
    BY <1>2, OwnColumns
  <2> QED BY <2>1, <2>2 DEF Row, Column, Wants
<1> QED BY <1>1, <1>2

(* A column of a row of the table is as wanted exactly when it has the     *)
(* wanted value.                                                           *)
LEMMA AsWantedMeans ==
  ASSUME TypeOK, NEW r \in Request, call[r] \in PasswordCall \cup ProfileCall,
         InTable(Target(r)), NEW c \in Own(call[r])
  PROVE  AsWanted(r, c) <=> users[Target(r)][c] = Wants(r, c)
<1>1. users[Target(r)] \in Row
  BY RowNotNone DEF TypeOK, InTable, Target, PasswordCall, ProfileCall
<1> QED BY <1>1, EditedColumns DEF AsWanted

-----------------------------------------------------------------------------
(* While a request does not move, the history follows its row.             *)
LEMMA HistoryIsStable ==
  ASSUME Inv, NextHistory, NEW r \in Request, SameRequest(r), OvertakenHeld(r), SeenHeld(r)
  PROVE  OvertakenHeld(r)' /\ SeenHeld(r)'
<1>1. OvertakenHeld(r)'
  <2>1. CASE pc[r] = "load"
    <3>1. InTable(Target(r))
      BY <2>1 DEF Inv, Held, Target
    <3>2. overtaken'[r] = overtaken[r] \cup {c \in Column : Changed(Target(r), c)}
      BY <2>1 DEF NextHistory
    <3>3. Target(r)' = Target(r) /\ call'[r] = call[r] /\ entity'[r] = entity[r] /\ pc'[r] = pc[r]
      BY DEF Target, SameRequest
    <3>4. ASSUME NEW c \in Column \ Own(call[r])
          PROVE  entity[r][c] = users'[Target(r)][c] \/ c \in overtaken'[r]
      BY <2>1, <3>1, <3>2 DEF OvertakenHeld, Changed
    <3> QED BY <2>1, <3>3, <3>4 DEF OvertakenHeld
  <2>2. CASE pc[r] # "load"
    <3>1. overtaken'[r] = overtaken[r]
      BY <2>2 DEF NextHistory
    <3> QED BY <2>2, <3>1 DEF OvertakenHeld, SameRequest
  <2> QED BY <2>1, <2>2
<1>2. SeenHeld(r)'
  <2>1. seen[r] \subseteq seen'[r] /\ seen'[r] \subseteq seen[r] \cup Own(call[r])
    BY DEF NextHistory
  <2>2. \A c : Wants(r, c)' = Wants(r, c)
    BY DEF Wants, HashOf, SameRequest
  <2>3. Writing(r) => pc[r] \in {"find", "load", "update"}
    BY DEF Writing
  <2>4. ~Writing(r) => seen'[r] = seen[r]
    BY DEF NextHistory
  <2> QED BY <2>1, <2>2, <2>3, <2>4 DEF SeenHeld, SameRequest
<1> QED BY <1>1, <1>2

(* The steps of r itself: the columns it may overwrite.                    *)
LEMMA StepOvertaken ==
  ASSUME Inv, NextHistory, NEW r \in Request, StepOf(r), OvertakenHeld(r)
  PROVE  OvertakenHeld(r)'
<1>1. TypeOK /\ Held(r)
  BY DEF Inv
<1>2. CASE Find(r) /\ pc'[r] = "load"
  <2>1. /\ ~NothingToSave(r) /\ InTable(call[r].id)
        /\ entity'[r] = Edited(r, users[call[r].id])
        /\ call' = call /\ users' = users /\ pc[r] = "find"
    BY <1>1, <1>2 DEF Find, Answer, TypeOK
  <2>2. call[r] \in PasswordCall \cup ProfileCall
    BY <1>1, <2>1 DEF Held, NothingToSave, Call, ReadCall
  <2>3. users[call[r].id] \in Row
    BY <1>1, <2>1, <2>2, RowNotNone DEF TypeOK, InTable, PasswordCall, ProfileCall
  <2>4. \A c \in Column \ Own(call[r]) : entity'[r][c] = users[call[r].id][c]
    BY <2>1, <2>2, <2>3, EditedColumns
  <2> QED BY <1>2, <2>1, <2>4 DEF OvertakenHeld, Target
<1>3. CASE Load(r) /\ pc'[r] = "update"
  <2>1. dirty'[r] = Diff(entity[r], users[call[r].id]) /\ call' = call /\ pc[r] = "load"
    BY <1>1, <1>3 DEF Load, Answer, TypeOK
  <2>2. overtaken[r] \subseteq overtaken'[r]
    BY DEF NextHistory
  <2> QED BY <1>3, <2>1, <2>2 DEF OvertakenHeld, Target, Diff
<1>4. CASE pc'[r] \notin {"load", "update"}
  BY <1>4 DEF OvertakenHeld
<1>5. \/ Find(r) /\ pc'[r] = "load"
      \/ Load(r) /\ pc'[r] = "update"
      \/ pc'[r] \notin {"load", "update"}
  BY <1>1
  DEF TypeOK, StepOf, Progress, Disturb, Accept, ExistsBy, Insert, InsertDuplicate, Find, Load,
      Update, QueryFails, CommitUnacknowledged, Crash, Await, Answer, Die
<1> QED BY <1>2, <1>3, <1>4, <1>5

-----------------------------------------------------------------------------
(* A request that is not writing sees nothing.                             *)
LEMMA SeenGrows ==
  ASSUME NextHistory, NEW r \in Request
  PROVE  /\ seen[r] \subseteq seen'[r]
         /\ seen'[r] \subseteq seen[r] \cup Own(call[r])
         /\ ~Writing(r) => seen'[r] = seen[r]
         /\ Writing(r) => \A c \in Own(call[r]) :
              AsWanted(r, c) \/ AsWanted(r, c)' => c \in seen'[r]
  BY DEF NextHistory

(* The steps of r itself: what it has seen when it is answered.            *)
LEMMA StepSeen ==
  ASSUME Inv, TypeOK', NextHistory, NEW r \in Request, StepOf(r), SeenHeld(r)
  PROVE  SeenHeld(r)'
<1>1. TypeOK /\ Held(r)
  BY DEF Inv
<1>2. ASSUME NEW c \in Call, Accept(r, c) PROVE SeenHeld(r)'
  <2>1. pc[r] = "idle" /\ seen'[r] = {} /\ pc'[r] \in {"existsBy", "find"}
    BY <1>1, <1>2, SeenGrows DEF SeenHeld, Writing, Accept, Await, TypeOK
  <2> QED BY <2>1 DEF SeenHeld
<1>3. CASE pc[r] = "existsBy" /\ pc'[r] = "insert"
  BY <1>3, SeenGrows DEF SeenHeld, Writing
<1>4. CASE pc'[r] = "crashed"
  BY <1>4 DEF SeenHeld
<1>5. CASE pc'[r] = "returned" /\ result'[r] # 200
  BY <1>5 DEF SeenHeld
<1>6. CASE Find(r) /\ pc'[r] = "load"
  <2>1. /\ ~NothingToSave(r) /\ InTable(call[r].id)
        /\ entity'[r] = Edited(r, users[call[r].id])
        /\ call' = call /\ pc[r] = "find"
    BY <1>1, <1>6 DEF Find, Answer, TypeOK
  <2>2. call[r] \in PasswordCall \cup ProfileCall
    BY <1>1, <2>1 DEF Held, NothingToSave, Call, ReadCall
  <2>3. users[call[r].id] \in Row
    BY <1>1, <2>1, <2>2, RowNotNone DEF TypeOK, InTable, PasswordCall, ProfileCall
  <2>4. \A c \in Own(call[r]) : entity'[r][c] = Wants(r, c)
    BY <2>1, <2>2, <2>3, EditedColumns
  <2>5. \A c : Wants(r, c)' = Wants(r, c)
    BY <2>1 DEF Wants, HashOf
  <2> QED BY <1>6, <2>1, <2>4, <2>5, SeenGrows DEF SeenHeld
<1>7. CASE Find(r) /\ pc'[r] = "returned" /\ result'[r] = 200
  <2>1. NothingToSave(r) /\ InTable(call[r].id) /\ call' = call /\ pc[r] = "find"
    BY <1>1, <1>7 DEF Find, Answer, Await, TypeOK
  <2>2. CASE call[r] \in ReadCall
    <3>1. Own(call[r]) = {}
      BY <2>2, OwnColumns
    <3> QED BY <1>7, <2>1, <3>1, SeenGrows DEF SeenHeld
  <2>3. CASE call[r] \in ProfileCall
    <3>1. \A c \in Own(call[r]) : users[Target(r)][c] = Wants(r, c)
      BY <2>1, <2>3, OwnColumns DEF NothingToSave, Wants, Target, ProfileCall
    <3>2. \A c \in Own(call[r]) : AsWanted(r, c)
      BY <1>1, <2>1, <2>3, <3>1, AsWantedMeans DEF Target
    <3>3. Writing(r)
      BY <2>1, <2>3, OwnColumns DEF Writing
    <3> QED BY <1>7, <2>1, <3>2, <3>3, SeenGrows DEF SeenHeld
  <2>4. call[r] \notin PasswordCall
    BY <2>1 DEF NothingToSave, PasswordCall
  <2> QED BY <1>1, <2>1, <2>2, <2>3, <2>4 DEF Held, Call
<1>8. CASE pc[r] = "load" /\ Load(r)
  <2>1. /\ call[r] \in PasswordCall \cup ProfileCall /\ InTable(Target(r))
        /\ call' = call /\ Writing(r)
    BY <1>1, <1>8, OwnColumns DEF Held, Load, Answer, Writing, Target
  <2>2. \A c \in Own(call[r]) : c \in Column /\ entity[r][c] = Wants(r, c)
    BY <1>8, OwnColumns DEF SeenHeld
  <2>3. \A c \in Own(call[r]) \ Diff(entity[r], users[Target(r)]) : c \in seen'[r]
    BY <1>1, <2>1, <2>2, AsWantedMeans, SeenGrows DEF Diff
  <2>4. \A c : Wants(r, c)' = Wants(r, c)
    BY <2>1 DEF Wants, HashOf
  <2>5. seen'[r] \subseteq Own(call[r])
    BY <1>8, SeenGrows DEF SeenHeld
  <2>6. CASE pc'[r] = "update" /\ entity' = entity /\ dirty'[r] = Diff(entity[r], users[Target(r)])
    BY <2>1, <2>2, <2>3, <2>4, <2>5, <2>6 DEF SeenHeld
  <2>7. CASE pc'[r] = "returned" /\ Diff(entity[r], users[Target(r)]) = {}
    <3>1. Own(call[r]) \subseteq seen'[r]
      BY <2>3, <2>7
    <3>2. seen'[r] = Own(call'[r])
      BY <2>1, <2>5, <3>1
    <3> QED BY <2>7, <3>2 DEF SeenHeld
  <2> QED BY <1>1, <1>8, <2>6, <2>7 DEF Load, Answer, Await, TypeOK, Target
<1>9. CASE Update(r)
  <2>1. /\ call[r] \in PasswordCall \cup ProfileCall /\ InTable(Target(r))
        /\ call' = call /\ Writing(r) /\ pc[r] = "update" /\ pc'[r] = "returned"
    <3>1. pc[r] = "update" /\ call' = call /\ pc'[r] = "returned"
      BY <1>1, <1>9 DEF Update, UpdateRow, Answer, TypeOK
    <3>2. call[r] \in PasswordCall \cup ProfileCall /\ InTable(Target(r))
      BY <1>1, <3>1 DEF Held, Target
    <3>3. Writing(r)
      BY <3>1, <3>2, OwnColumns DEF Writing
    <3> QED BY <3>1, <3>2, <3>3
  <2>2. users'[Target(r)] = Merge(users[Target(r)], entity[r], dirty[r])
    BY <1>1, <1>9, <2>1 DEF Update, UpdateRow, Target, TypeOK, PasswordCall, ProfileCall
  <2>3. InTable(Target(r))' /\ Target(r)' = Target(r) /\ \A c : Wants(r, c)' = Wants(r, c)
    BY <1>9, <2>1, StepGrows DEF AccountsGrow, Target, Wants, HashOf, PasswordCall, ProfileCall
  <2>4. ASSUME NEW c \in Own(call[r]) \cap dirty[r] PROVE c \in seen'[r]
    <3>1. users'[Target(r)][c] = Wants(r, c)
      BY <2>1, <2>2, OwnColumns DEF SeenHeld, Merge
    <3>2. users'[Target(r)] \in Row
      BY <2>1, <2>3, RowNotNone DEF TypeOK, InTable, Target, PasswordCall, ProfileCall
    <3>3. Edited(r, users'[Target(r)])[c] = Wants(r, c)
      BY <2>1, <3>2, EditedColumns
    <3>4. Edited(r, users[Target(r)])' = Edited(r, users'[Target(r)])
      BY <2>1 DEF Edited, HashOf, Target
    <3>5. AsWanted(r, c)'
      BY <2>3, <3>1, <3>3, <3>4 DEF AsWanted
    <3> QED BY <2>1, <3>5, SeenGrows
  <2>5. Own(call[r]) \subseteq seen'[r] /\ seen'[r] \subseteq Own(call[r])
    BY <2>1, <2>4, SeenGrows DEF SeenHeld
  <2> QED BY <2>1, <2>5 DEF SeenHeld
<1>10. \/ \E c \in Call : Accept(r, c)
       \/ pc[r] = "existsBy" /\ pc'[r] = "insert"
       \/ pc'[r] = "crashed"
       \/ pc'[r] = "returned" /\ result'[r] # 200
       \/ Find(r) /\ pc'[r] = "load"
       \/ Find(r) /\ pc'[r] = "returned" /\ result'[r] = 200
       \/ pc[r] = "load" /\ Load(r)
       \/ Update(r)
  BY <1>1
  DEF TypeOK, StepOf, Progress, Disturb, ExistsBy, Insert, InsertDuplicate, Find, Load,
      QueryFails, CommitUnacknowledged, Crash, Await, Answer, Die
<1> QED BY <1>2, <1>3, <1>4, <1>5, <1>6, <1>7, <1>8, <1>9, <1>10

-----------------------------------------------------------------------------
(* Nobody has overtaken or seen anything before the calls arrive.          *)
LEMMA InitHistoryInv == Init /\ InitHistory => HistoryInv
<1> SUFFICES ASSUME Init, InitHistory PROVE HistoryInv
  OBVIOUS
<1>1. \A r \in Request : pc[r] = "idle" /\ seen[r] = {}
  BY DEF Init, InitHistory
<1> QED BY <1>1, InitInv DEF HistoryInv, OvertakenHeld, SeenHeld

(* The invariant is inductive, with the history beside every step.         *)
LEMMA NextHistoryInv == HistoryInv /\ [Next /\ NextHistory]_allVars => HistoryInv'
<1> SUFFICES ASSUME HistoryInv, [Next /\ NextHistory]_allVars PROVE HistoryInv'
  OBVIOUS
<1>1. Inv /\ Inv'
  BY NextInv DEF HistoryInv, allVars
<1>2. ASSUME NextHistory, NEW q \in Request, StepOf(q), NEW r \in Request
      PROVE  OvertakenHeld(r)' /\ SeenHeld(r)'
  <2>1. CASE r = q
    BY <1>1, <1>2, <2>1, StepOvertaken, StepSeen DEF HistoryInv, Inv
  <2>2. CASE r # q
    BY <1>1, <1>2, <2>2, StepFrame, HistoryIsStable DEF HistoryInv, Inv
  <2> QED BY <2>1, <2>2
<1>3. ASSUME NextHistory, UNCHANGED <<pc, call, entity, dirty, result>>, NEW r \in Request
      PROVE  OvertakenHeld(r)' /\ SeenHeld(r)'
  BY <1>1, <1>3, HistoryIsStable DEF HistoryInv, SameRequest
<1>4. CASE UNCHANGED allVars
  BY <1>1, <1>4 DEF HistoryInv, allVars, historyVars, vars, OvertakenHeld, SeenHeld, Target, Wants
<1> QED
  BY <1>1, <1>2, <1>3, <1>4 DEF HistoryInv, Next, StepOf, OperatorSetStatus, Finished, vars

(* The history beside every behaviour.                                     *)
LEMMA HistoryInvariance == SpecHistory => []HistoryInv
  BY InitHistoryInv, NextHistoryInv, PTL DEF SpecHistory

(* A 200 of updatePassword or updateProfile is earned: each column it asks *)
(* for held the wanted value during the call.                              *)
THEOREM AcknowledgedWritesWereVisible == SpecHistory => []AcknowledgedWriteWasVisible
<1>1. HistoryInv => AcknowledgedWriteWasVisible
  BY DEF HistoryInv, SeenHeld, AcknowledgedWriteWasVisible
<1> QED BY <1>1, HistoryInvariance, PTL

(* One step: a save writes a column that is not its own only when somebody *)
(* overtook it.                                                            *)
LEMMA StaleWriteStep ==
  ASSUME HistoryInv, Next, NEW r \in Request,
         pc[r] = "update", users' # users, pc'[r] # "update",
         NEW c \in Column \ Own(call[r]), Changed(Target(r), c)
  PROVE  c \in overtaken[r]
<1>1. Inv /\ TypeOK /\ Held(r) /\ OvertakenHeld(r)
  BY DEF HistoryInv, Inv
<1>2. StepOf(r)
  <2>1. ASSUME NEW q \in Request, StepOf(q) PROVE q = r
    BY <1>1, <2>1, StepFrame DEF SameRequest
  <2> QED BY <2>1 DEF Next, StepOf, OperatorSetStatus, Finished, vars
<1>3. UpdateRow(r)
  BY <1>2
  DEF StepOf, Progress, Disturb, Accept, ExistsBy, Insert, InsertRow, InsertDuplicate, Find, Load,
      Update, QueryFails, CommitUnacknowledged, Crash
<1>4. users'[Target(r)] = Merge(users[Target(r)], entity[r], dirty[r])
  BY <1>1, <1>3 DEF UpdateRow, Target, TypeOK, Held, PasswordCall, ProfileCall
<1>5. c \in dirty[r]
  BY <1>4 DEF Changed, Merge
<1> QED BY <1>1, <1>5 DEF OvertakenHeld

(* save() puts back only what was changed between the handler's SELECT and *)
(* its own, however many handlers hold copies of the row.                  *)
THEOREM StaleWritesStayInTheirWindow == SpecHistory => StaleWriteWindow
<1> DEFINE InWindow ==
      \A r \in Request :
        (pc[r] = "update" /\ users' # users /\ pc'[r] # "update") =>
          \A c \in Column \ Own(call[r]) : Changed(Target(r), c) => c \in overtaken[r]
<1>1. HistoryInv /\ [Next /\ NextHistory]_allVars => [InWindow]_allVars
  BY StaleWriteStep
<1>2. StaleWriteWindow <=> [][InWindow]_allVars
  BY DEF StaleWriteWindow
<1> QED BY <1>1, <1>2, HistoryInvariance, PTL DEF SpecHistory

=============================================================================
