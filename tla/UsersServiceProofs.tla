------------------------- MODULE UsersServiceProofs -------------------------
(***************************************************************************)
(* Proofs about UsersService, for any set of requests and any table.       *)
(***************************************************************************)
EXTENDS UsersService, TLAPS

(* What a suspended handler may rely on: its arguments fit the query it is *)
(* suspended at, and the entity it holds, however stale, is a copy of a    *)
(* row that still exists and has the same email and role.                  *)
Held(r) ==
  /\ pc[r] \in Awaiting \cup Ended => call[r] \in Call
  /\ pc[r] \in {"existsBy", "insert"} => call[r] \in RegisterCall
  /\ pc[r] = "find" => call[r] \in Call \ RegisterCall
  /\ pc[r] \in {"load", "update"} =>
       /\ call[r] \in PasswordCall \cup ProfileCall
       /\ InTable(call[r].id)
       /\ entity[r] \in Row
       /\ entity[r].email = users[call[r].id].email
       /\ entity[r].role = users[call[r].id].role
  /\ Registered(r) => call[r] \in RegisterCall

Inv ==
  /\ TypeOK
  /\ EmailUnique
  /\ \A r \in Request : Held(r)
  /\ RegistrationSticks

(* The step leaves every account where it is, with its email and role.     *)
SameAccounts ==
  \A id \in Id : /\ InTable(id)' <=> InTable(id)
                 /\ InTable(id) => /\ users'[id].email = users[id].email
                                   /\ users'[id].role = users[id].role

(* No account is lost, and none changes its email or role.                 *)
AccountsGrow ==
  \A id \in Id : InTable(id) => /\ InTable(id)'
                                /\ users'[id].email = users[id].email
                                /\ users'[id].role = users[id].role

(* The step is one of request r: it leaves the others where they are.      *)
StepOf(r) == (\E c \in Call : Accept(r, c)) \/ Progress(r) \/ Disturb(r)

SameRequest(q) ==
  /\ pc'[q] = pc[q]
  /\ call'[q] = call[q]
  /\ entity'[q] = entity[q]
  /\ dirty'[q] = dirty[q]
  /\ result'[q] = result[q]

-----------------------------------------------------------------------------
(* The null value is neither a row nor a call.                             *)
LEMMA RowNotNone == None \notin Row /\ None \notin Call
  BY NoneAssumption

(* The UPDATE of a save yields a row, with the same address and role as    *)
(* long as the stale entity has them too.                                  *)
LEMMA MergeIsRow ==
  ASSUME NEW row \in Row, NEW e \in Row, NEW columns \in SUBSET Column,
         e.email = row.email, e.role = row.role
  PROVE  /\ Merge(row, e, columns) \in Row
         /\ Merge(row, e, columns).email = row.email
         /\ Merge(row, e, columns).role = row.role
  BY DEF Merge, Row, Column

(* An operation edits a row into a row, and touches neither the address    *)
(* nor the role.                                                           *)
LEMMA EditedIsRow ==
  ASSUME NEW r \in Request, NEW row \in Row, call[r] \in PasswordCall \cup ProfileCall
  PROVE  /\ Edited(r, row) \in Row
         /\ Edited(r, row).email = row.email
         /\ Edited(r, row).role = row.role
<1>1. CASE call[r] \in PasswordCall
  <2>1. call[r].op = "updatePassword" /\ HashOf(r, call[r].password) \in Hash
    BY <1>1 DEF PasswordCall, Hash, HashOf
  <2>2. Edited(r, row) = [row EXCEPT !.password = HashOf(r, call[r].password)]
    BY <2>1 DEF Edited
  <2> QED BY <2>1, <2>2 DEF Row
<1>2. CASE call[r] \in ProfileCall
  <2>1. call[r].op # "updatePassword" /\ call[r].firstName \in Name /\ call[r].lastName \in Name
    BY <1>2 DEF ProfileCall
  <2>2. Edited(r, row) = [row EXCEPT !.firstName = call[r].firstName,
                                     !.lastName = call[r].lastName]
    BY <2>1 DEF Edited
  <2> QED BY <2>1, <2>2 DEF Row
<1> QED BY <1>1, <1>2

(* A registration writes a row with the address and role it asked for.     *)
LEMMA NewRowIsRow ==
  ASSUME NEW r \in Request, call[r] \in RegisterCall
  PROVE  /\ NewRow(r) \in Row
         /\ NewRow(r).email = call[r].email
         /\ NewRow(r).role = call[r].role
  BY DEF NewRow, Row, RegisterCall, Hash, HashOf, Role, Status

-----------------------------------------------------------------------------
(* The two writes and the operator, as seen by the accounts.               *)
LEMMA UpdateKeepsAccounts ==
  ASSUME Inv, NEW r \in Request, UpdateRow(r)
  PROVE  users' \in [Id -> Row \cup {None}] /\ SameAccounts
<1> DEFINE i == call[r].id
<1> DEFINE new == Merge(users[i], entity[r], dirty[r])
<1>1. i \in Id /\ users[i] \in Row /\ entity[r] \in Row /\ dirty[r] \in SUBSET Column
  BY RowNotNone DEF Inv, TypeOK, Held, UpdateRow, InTable, PasswordCall, ProfileCall
<1>2. entity[r].email = users[i].email /\ entity[r].role = users[i].role
  BY DEF Inv, Held, UpdateRow
<1>3. new \in Row /\ new.email = users[i].email /\ new.role = users[i].role
  BY <1>1, <1>2, MergeIsRow
<1>4. users' = [users EXCEPT ![i] = new]
  BY DEF UpdateRow
<1>5. users \in [Id -> Row \cup {None}]
  BY DEF Inv, TypeOK
<1> HIDE DEF new, i
<1> QED BY <1>1, <1>3, <1>4, <1>5, RowNotNone DEF SameAccounts, InTable

(* So does an operator who sets a status.                                  *)
LEMMA OperatorKeepsAccounts ==
  ASSUME Inv, NEW i \in Id, NEW status \in Status, OperatorSetStatus(i, status)
  PROVE  users' \in [Id -> Row \cup {None}] /\ SameAccounts
<1> DEFINE new == [users[i] EXCEPT !.status = status]
<1>1. users \in [Id -> Row \cup {None}] /\ users[i] \in Row
  BY RowNotNone DEF Inv, TypeOK, OperatorSetStatus, InTable
<1>2. new \in Row /\ new.email = users[i].email /\ new.role = users[i].role
  BY <1>1 DEF Row
<1>3. users' = [users EXCEPT ![i] = new]
  BY DEF OperatorSetStatus
<1> HIDE DEF new
<1> QED BY <1>1, <1>2, <1>3, RowNotNone DEF SameAccounts, InTable

(* An INSERT adds one account and keeps the others.                        *)
LEMMA InsertAddsAccount ==
  ASSUME Inv, NEW r \in Request, InsertRow(r)
  PROVE  /\ users' \in [Id -> Row \cup {None}]
         /\ call[r] \in RegisterCall
         /\ ~EmailTaken(call[r].email)
         /\ \E i \in Id :
              /\ ~InTable(i)
              /\ users'[i] \in Row
              /\ users'[i].email = call[r].email
              /\ users'[i].role = call[r].role
              /\ \A j \in Id \ {i} : users'[j] = users[j]
<1>1. call[r] \in RegisterCall /\ users \in [Id -> Row \cup {None}]
  BY DEF Inv, TypeOK, Held, InsertRow
<1>2. PICK i \in Id : ~InTable(i) /\ users' = [users EXCEPT ![i] = NewRow(r)]
  BY DEF InsertRow
<1>3. NewRow(r) \in Row /\ NewRow(r).email = call[r].email /\ NewRow(r).role = call[r].role
  BY <1>1, NewRowIsRow
<1> QED BY <1>1, <1>2, <1>3 DEF InsertRow

(* What a step does to the table: nothing that the accounts notice, or the *)
(* insertion of one.                                                       *)
LEMMA StepOnTable ==
  ASSUME Inv, NEW r \in Request, StepOf(r)
  PROVE  /\ users' \in [Id -> Row \cup {None}]
         /\ SameAccounts \/ InsertRow(r)
<1>1. CASE InsertRow(r)
  BY <1>1, InsertAddsAccount
<1>2. CASE UpdateRow(r)
  BY <1>2, UpdateKeepsAccounts
<1>3. CASE UNCHANGED users
  BY <1>3 DEF Inv, TypeOK, SameAccounts, InTable
<1> QED
  BY <1>1, <1>2, <1>3
  DEF StepOf, Progress, Disturb, Accept, ExistsBy, Insert, InsertDuplicate, Find, Load, Update,
      QueryFails, CommitUnacknowledged, Crash

(* No step of a request removes an account or replaces its address or its  *)
(* role.                                                                   *)
LEMMA StepGrows ==
  ASSUME Inv, NEW r \in Request, StepOf(r)
  PROVE  AccountsGrow
<1>1. CASE SameAccounts
  BY <1>1 DEF SameAccounts, AccountsGrow
<1>2. CASE InsertRow(r)
  <2>1. PICK i \in Id : ~InTable(i) /\ \A j \in Id \ {i} : users'[j] = users[j]
    BY <1>2, InsertAddsAccount
  <2> QED BY <2>1 DEF AccountsGrow, InTable
<1> QED BY <1>1, <1>2, StepOnTable

(* A step of one request leaves the others where they are.                 *)
LEMMA StepFrame ==
  ASSUME TypeOK, NEW r \in Request, StepOf(r), NEW q \in Request, q # r
  PROVE  SameRequest(q)
  BY DEF StepOf, Progress, Disturb, Accept, ExistsBy, Insert, InsertDuplicate, Find, Load, Update,
         QueryFails, CommitUnacknowledged, Crash, Await, Answer, Die, SameRequest, TypeOK

-----------------------------------------------------------------------------
(* The invariant holds of every initial table.                             *)
LEMMA InitInv == Init => Inv
<1> SUFFICES ASSUME Init PROVE Inv
  OBVIOUS
<1>1. TypeOK
  BY RowAssumption DEF Init, TypeOK
<1>2. EmailUnique
  BY DEF Init, EmailUnique
<1>3. \A r \in Request : pc[r] = "idle"
  BY DEF Init
<1>4. \A r \in Request : Held(r)
  BY <1>3 DEF Held, Awaiting, Ended, Registered
<1>5. RegistrationSticks
  BY <1>3 DEF RegistrationSticks, Registered
<1> QED BY <1>1, <1>2, <1>4, <1>5 DEF Inv

(* One step per action: the variables keep their types.                    *)
LEMMA StepTypeOK ==
  ASSUME Inv, NEW r \in Request, StepOf(r)
  PROVE  TypeOK'
<1>1. users' \in [Id -> Row \cup {None}]
  BY StepOnTable
<1> USE DEF TypeOK
<1>2. ASSUME NEW c \in Call, Accept(r, c) PROVE TypeOK'
  BY <1>1, <1>2 DEF Inv, Accept, Await, Awaiting
<1>3. CASE ExistsBy(r)
  BY <1>1, <1>3 DEF Inv, ExistsBy, Await, Answer, Awaiting, Ended
<1>4. CASE Insert(r) \/ InsertDuplicate(r)
  BY <1>1, <1>4 DEF Inv, Insert, InsertRow, InsertDuplicate, Answer, Ended
<1>5. CASE Find(r)
  <2>1. CASE Answer(r, 404) \/ Answer(r, 200)
    BY <1>1, <2>1 DEF Inv, Answer, Ended
  <2>2. CASE ~NothingToSave(r) /\ InTable(call[r].id) /\ Await(r, "load")
    <3>1. call[r] \in PasswordCall \cup ProfileCall
      BY <1>5, <2>2 DEF Inv, Held, Find, NothingToSave, Call, ReadCall
    <3>2. users[call[r].id] \in Row
      BY <3>1, <2>2, RowNotNone DEF Inv, InTable, PasswordCall, ProfileCall
    <3>3. Edited(r, users[call[r].id]) \in Row
      BY <3>1, <3>2, EditedIsRow
    <3> QED BY <1>1, <1>5, <2>2, <3>3 DEF Inv, Find, Await, Answer, Awaiting
  <2> QED BY <1>5, <2>1, <2>2 DEF Find
<1>6. CASE Load(r)
  BY <1>1, <1>6 DEF Inv, Load, Diff, Await, Answer, Awaiting, Ended
<1>7. CASE Update(r)
  BY <1>1, <1>7 DEF Inv, Update, Answer, Ended
<1>8. CASE Disturb(r)
  BY <1>1, <1>8 DEF Inv, Disturb, QueryFails, CommitUnacknowledged, Crash, Answer, Die, Ended
<1> QED BY <1>2, <1>3, <1>4, <1>5, <1>6, <1>7, <1>8 DEF StepOf, Progress

(* A request that does not move keeps what it relies on while accounts grow.*)
LEMMA HeldIsStable ==
  ASSUME Inv, AccountsGrow, NEW q \in Request, SameRequest(q)
  PROVE  Held(q)'
<1>1. Held(q)
  BY DEF Inv
<1>2. CASE pc[q] \in {"load", "update"}
  <2>1. call[q].id \in Id
    BY <1>1, <1>2 DEF Held, PasswordCall, ProfileCall
  <2> QED BY <1>1, <1>2, <2>1 DEF Held, SameRequest, AccountsGrow, Registered
<1>3. CASE pc[q] \notin {"load", "update"}
  BY <1>1, <1>3 DEF Held, SameRequest, Registered
<1> QED BY <1>2, <1>3

(* What a request relies on across its awaits holds after each of its own  *)
(* steps.                                                                  *)
LEMMA StepHeld ==
  ASSUME Inv, NEW r \in Request, StepOf(r)
  PROVE  Held(r)'
<1>1. TypeOK /\ Held(r)
  BY DEF Inv
<1> USE <1>1
<1>2. ASSUME NEW c \in Call, Accept(r, c) PROVE Held(r)'
  <2>1. call'[r] = c /\ pc'[r] = (IF c.op = "register" THEN "existsBy" ELSE "find")
    BY <1>2 DEF TypeOK, Accept, Await
  <2>2. c.op = "register" <=> c \in RegisterCall
    BY DEF Call, RegisterCall, PasswordCall, ProfileCall, ReadCall
  <2> QED BY <2>1, <2>2 DEF Held, Registered
<1>3. ASSUME NEW status \in Nat, pc[r] \in Awaiting, Answer(r, status), status = 201 => pc[r] = "insert"
      PROVE  Held(r)'
  BY <1>3 DEF TypeOK, Held, Answer, Registered, Awaiting, Ended
<1>4. ASSUME pc[r] \in Awaiting, Die(r) PROVE Held(r)'
  BY <1>4 DEF TypeOK, Held, Die, Registered, Awaiting, Ended
<1>5. CASE ExistsBy(r) /\ Await(r, "insert") /\ UNCHANGED call
  BY <1>5 DEF ExistsBy, Await, TypeOK, Held, Registered, Awaiting
<1>6. CASE Find(r) /\ ~NothingToSave(r) /\ InTable(call[r].id) /\ Await(r, "load") /\ UNCHANGED call
  <2>1. call[r] \in PasswordCall \cup ProfileCall
    BY <1>6 DEF Held, Find, NothingToSave, Call, ReadCall
  <2>2. users[call[r].id] \in Row
    BY <2>1, <1>6, RowNotNone DEF TypeOK, InTable, PasswordCall, ProfileCall
  <2> DEFINE e == Edited(r, users[call[r].id])
  <2>3. e \in Row /\ e.email = users[call[r].id].email /\ e.role = users[call[r].id].role
    BY <2>1, <2>2, EditedIsRow
  <2>4. pc'[r] = "load" /\ call'[r] = call[r] /\ users' = users /\ pc[r] = "find"
    BY <1>6 DEF TypeOK, Await, Find
  <2>5. Find(r) => entity'[r] = e \/ pc'[r] = "returned"
    BY DEF Find, Answer, TypeOK
  <2> HIDE DEF e
  <2>6. entity'[r] = e
    BY <2>4, <2>5, <1>6
  <2> QED BY <1>6, <2>1, <2>3, <2>4, <2>6 DEF Held, InTable, Registered, Call
<1>7. CASE Load(r) /\ Await(r, "update") /\ UNCHANGED <<call, entity>>
  BY <1>7 DEF Load, Await, TypeOK, Held, Registered, Awaiting, InTable
<1> QED
  BY <1>2, <1>3, <1>4, <1>5, <1>6, <1>7
  DEF StepOf, Progress, Disturb, ExistsBy, Insert, InsertRow, InsertDuplicate, Find, Load, Update,
      UpdateRow, QueryFails, CommitUnacknowledged, Crash, Awaiting

(* Only an INSERT could break uniqueness, and the index forbids it.        *)
LEMMA StepEmailUnique ==
  ASSUME Inv, NEW r \in Request, StepOf(r)
  PROVE  EmailUnique'
<1>1. EmailUnique
  BY DEF Inv
<1>2. CASE SameAccounts
  BY <1>1, <1>2 DEF EmailUnique, SameAccounts, InTable
<1>3. CASE InsertRow(r)
  <2>1. PICK i \in Id : /\ ~InTable(i)
                       /\ users'[i].email = call[r].email
                       /\ \A j \in Id \ {i} : users'[j] = users[j]
    BY <1>3, InsertAddsAccount
  <2>2. \A j \in Id \ {i} : InTable(j) => users[j].email # call[r].email
    BY <1>3, InsertAddsAccount DEF EmailTaken
  <2> QED BY <1>1, <2>1, <2>2 DEF EmailUnique, InTable
<1> QED BY <1>2, <1>3, StepOnTable

(* A registration is answered 201 by the step that inserts its row.        *)
LEMMA StepRegisters ==
  ASSUME Inv, NEW r \in Request, StepOf(r), ~Registered(r), Registered(r)'
  PROVE  Insert(r) /\ call'[r] = call[r]
  BY DEF Inv, TypeOK, StepOf, Progress, Disturb, Accept, ExistsBy, Insert, InsertDuplicate, Find,
         Load, Update, QueryFails, CommitUnacknowledged, Crash, Await, Answer, Die, Registered

(* A registration answered 201 keeps its answer and its call.              *)
LEMMA RegisteredIsStable ==
  ASSUME Inv, NEW r \in Request, StepOf(r), Registered(r)
  PROVE  call'[r] = call[r] /\ UNCHANGED users
  BY DEF Registered, StepOf, Progress, Disturb, Accept, ExistsBy, Insert, InsertRow,
         InsertDuplicate, Find, Load, Update, UpdateRow, QueryFails, CommitUnacknowledged, Crash,
         Awaiting

(* Accounts only grow, and the address of a new 201 was free: no two       *)
(* answers for one address.                                                *)
LEMMA StepRegistrationSticks ==
  ASSUME Inv, NEW r \in Request, StepOf(r)
  PROVE  RegistrationSticks'
<1>1. AccountsGrow
  BY StepGrows
<1>2. ASSUME NEW q \in Request, Registered(q)
      PROVE  /\ call'[q] = call[q]
             /\ call[q] \in RegisterCall
             /\ \E id \in Id : /\ InTable(id)
                               /\ users[id].email = call[q].email
                               /\ users[id].role = call[q].role
             /\ \E id \in Id : /\ InTable(id)'
                               /\ users'[id].email = call'[q].email
                               /\ users'[id].role = call'[q].role
  <2>1. call'[q] = call[q]
    BY <1>2, StepFrame, RegisteredIsStable DEF SameRequest, Inv
  <2>2. PICK id \in Id : /\ InTable(id)
                        /\ users[id].email = call[q].email
                        /\ users[id].role = call[q].role
    BY <1>2 DEF Inv, RegistrationSticks
  <2> QED BY <1>1, <1>2, <2>1, <2>2 DEF Inv, Held, AccountsGrow
<1>3. ASSUME NEW q \in Request, Registered(q)', ~Registered(q)
      PROVE  q = r /\ Insert(r) /\ call'[r] = call[r]
  BY <1>3, StepFrame, StepRegisters DEF SameRequest, Registered, Inv
<1>4. ASSUME NEW q \in Request, Registered(q)'
      PROVE  \E id \in Id : /\ InTable(id)'
                           /\ users'[id].email = call'[q].email
                           /\ users'[id].role = call'[q].role
  <2>1. CASE Registered(q)
    BY <1>2, <2>1
  <2>2. CASE ~Registered(q)
    <3>1. q = r /\ InsertRow(r) /\ call'[r] = call[r]
      BY <1>3, <1>4, <2>2 DEF Insert
    <3> QED BY <3>1, InsertAddsAccount, RowNotNone DEF InTable
  <2> QED BY <2>1, <2>2
<1>5. ASSUME NEW q \in Request, NEW s \in Request, q # s, Registered(q)', Registered(s)'
      PROVE  call'[s].email # call'[q].email
  <2>1. CASE Registered(q) /\ Registered(s)
    BY <1>2, <1>5, <2>1 DEF Inv, RegistrationSticks
  <2>2. CASE Registered(q) /\ ~Registered(s)
    <3>1. s = r /\ InsertRow(r) /\ call'[r] = call[r]
      BY <1>3, <1>5, <2>2 DEF Insert
    <3> QED BY <1>2, <2>2, <3>1, InsertAddsAccount DEF EmailTaken
  <2>3. CASE ~Registered(q) /\ Registered(s)
    <3>1. q = r /\ InsertRow(r) /\ call'[r] = call[r]
      BY <1>3, <1>5, <2>3 DEF Insert
    <3> QED BY <1>2, <2>3, <3>1, InsertAddsAccount DEF EmailTaken
  <2> QED BY <1>3, <1>5, <2>1, <2>2, <2>3
<1> QED BY <1>4, <1>5 DEF RegistrationSticks

(* An operator's step preserves the invariant.                             *)
LEMMA OperatorInv ==
  ASSUME Inv, NEW i \in Id, NEW status \in Status, OperatorSetStatus(i, status)
  PROVE  Inv'
<1>1. users' \in [Id -> Row \cup {None}] /\ SameAccounts
  BY OperatorKeepsAccounts
<1>2. UNCHANGED <<pc, call, entity, dirty, result>>
  BY DEF OperatorSetStatus
<1>3. TypeOK'
  BY <1>1, <1>2 DEF Inv, TypeOK
<1>4. EmailUnique'
  BY <1>1 DEF Inv, EmailUnique, SameAccounts, InTable
<1>5. AccountsGrow
  BY <1>1 DEF SameAccounts, AccountsGrow
<1>6. \A q \in Request : Held(q)'
  BY <1>2, <1>5, HeldIsStable DEF SameRequest
<1>7. RegistrationSticks'
  BY <1>2, <1>5 DEF Inv, RegistrationSticks, Registered, AccountsGrow
<1> QED BY <1>3, <1>4, <1>6, <1>7 DEF Inv

(* The invariant is inductive.                                             *)
LEMMA NextInv == Inv /\ [Next]_vars => Inv'
<1> SUFFICES ASSUME Inv, [Next]_vars PROVE Inv'
  OBVIOUS
<1>1. ASSUME NEW r \in Request, StepOf(r) PROVE Inv'
  <2>1. \A q \in Request : Held(q)'
    BY <1>1, StepHeld, StepGrows, StepFrame, HeldIsStable DEF Inv
  <2> QED BY <1>1, <2>1, StepTypeOK, StepEmailUnique, StepRegistrationSticks DEF Inv
<1>2. ASSUME NEW id \in Id, NEW status \in Status, OperatorSetStatus(id, status) PROVE Inv'
  BY <1>2, OperatorInv
<1>3. CASE UNCHANGED vars
  BY <1>3 DEF vars, Inv, TypeOK, EmailUnique, Held, RegistrationSticks, Registered, InTable
<1> QED BY <1>1, <1>2, <1>3 DEF Next, StepOf, Finished

(* The inductive invariant holds in every reachable state of               *)
(* UsersService.                                                           *)
THEOREM Invariance == Spec => []Inv
  BY InitInv, NextInv, PTL DEF Spec

(* Type correctness of the users component.                                *)
THEOREM TypeCorrect == Spec => []TypeOK
<1>1. Inv => TypeOK
  BY DEF Inv
<1> QED BY <1>1, Invariance, PTL

(* The unique index keeps one account per address through every race of    *)
(* createNewUser calls.                                                    *)
THEOREM EmailsAreUnique == Spec => []EmailUnique
<1>1. Inv => EmailUnique
  BY DEF Inv
<1> QED BY <1>1, Invariance, PTL

(* A registration answered 201 is never undone, taken over or promoted, by *)
(* any number of registrations and of saves of stale entities.             *)
THEOREM RegistrationsStick == Spec => []RegistrationSticks
<1>1. Inv => RegistrationSticks
  BY DEF Inv
<1> QED BY <1>1, Invariance, PTL

-----------------------------------------------------------------------------
(* The refinement of AccountDirectory.                                     *)
Listing == [id \in Id |-> IF InTable(id)
                          THEN [email |-> users[id].email, role |-> users[id].role]
                          ELSE None]

(* Initial tables map to initial directories.                              *)
LEMMA DirectoryInit == Init => Directory!Init
<1> SUFFICES ASSUME Init PROVE Directory!Init
  OBVIOUS
<1>1. users \in [Id -> Row \cup {None}]
  BY RowAssumption DEF Init
<1>2. \A id \in Id : InTable(id) => users[id].email \in Email /\ users[id].role \in Role
  BY <1>1 DEF InTable, Row
<1> QED BY <1>1, <1>2 DEF Init, InTable, Directory!Init, Directory!Account

(* Every step maps to the creation of an account or to a stutter.          *)
LEMMA DirectoryStep == Inv /\ [Next]_vars => [Directory!Next]_Listing
<1> SUFFICES ASSUME Inv, [Next]_vars PROVE Directory!Next \/ UNCHANGED Listing
  BY DEF Listing
<1>1. CASE SameAccounts
  BY <1>1 DEF SameAccounts, Listing
<1>2. ASSUME NEW r \in Request, InsertRow(r) PROVE Directory!Next
  <2>1. PICK i \in Id : /\ ~InTable(i)
                       /\ users'[i] \in Row
                       /\ users'[i].email = call[r].email
                       /\ users'[i].role = call[r].role
                       /\ \A j \in Id \ {i} : users'[j] = users[j]
    BY <1>2, InsertAddsAccount
  <2> DEFINE created == [email |-> call[r].email, role |-> call[r].role]
  <2>2. created \in Directory!Account
    BY <1>2, InsertAddsAccount DEF Directory!Account, RegisterCall
  <2>3. Listing[i] = None
    BY <2>1 DEF Listing
  <2>4. \A id \in Id : Listing[id] # None => Listing[id].email # created.email
    BY <1>2, InsertAddsAccount DEF Listing, EmailTaken
  <2>5. InTable(i)' /\ \A j \in Id \ {i} : InTable(j)' <=> InTable(j)
    BY <2>1, RowNotNone DEF InTable
  <2>6. Listing' = [Listing EXCEPT ![i] = created]
    BY <2>1, <2>5 DEF Listing
  <2> HIDE DEF created
  <2>7. \E id \in Id, account \in Directory!Account :
          /\ Listing[id] = None
          /\ \A other \in Id : Listing[other] # None => Listing[other].email # account.email
          /\ Listing' = [Listing EXCEPT ![id] = account]
    BY <2>2, <2>3, <2>4, <2>6
  <2> QED BY <2>7 DEF Directory!Next, Directory!Create, Directory!Listed, Listing
<1>3. CASE UNCHANGED vars
  BY <1>3 DEF vars, Listing, InTable
<1>4. ASSUME NEW r \in Request, StepOf(r) PROVE SameAccounts \/ InsertRow(r)
  BY <1>4, StepOnTable
<1>5. ASSUME NEW id \in Id, NEW status \in Status, OperatorSetStatus(id, status) PROVE SameAccounts
  BY <1>5, OperatorKeepsAccounts
<1> QED BY <1>1, <1>2, <1>3, <1>4, <1>5 DEF Next, StepOf, Finished

(* The users table implements the directory: accounts are created once per *)
(* address, and no step removes one or replaces its address or its role.   *)
THEOREM UsersImplementDirectory == Spec => ImplementsDirectory
  BY DirectoryInit, DirectoryStep, Invariance, PTL
  DEF Spec, ImplementsDirectory, Directory!Spec, Listing

=============================================================================
