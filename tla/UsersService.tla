---------------------------- MODULE UsersService ----------------------------
(***************************************************************************)
(* The accounts of the service: the MySQL table `users` and the operations *)
(* of UsersService on it (src/src/modules/users/users.service.ts).         *)
(*                                                                         *)
(* Every operation is an async function, so it is a sequence of steps, one *)
(* per awaited query, and the queries of concurrent requests interleave    *)
(* freely.  pc[r] names the query that request r is suspended at; what the *)
(* handler holds in local variables across the await is entity[r] (the     *)
(* UserEntity it read and edited) and dirty[r] (the columns that TypeORM's *)
(* save() found to differ and will write).                                 *)
(*                                                                         *)
(* Repository.save(entity) of an entity with an id is three steps of the   *)
(* code: SELECT the row again, compare every column of the entity with it, *)
(* and, when some differ, UPDATE exactly those columns in a transaction.   *)
(* The comparison is against the row as it is at the second SELECT, so a   *)
(* column another request changed after the first one counts as different  *)
(* and is written back with the old value.                                 *)
(*                                                                         *)
(* A Request is one call of one operation, by an HTTP client or by the     *)
(* generate-admin script; a process may die at any await.                  *)
(***************************************************************************)
EXTENDS Naturals, FiniteSets

CONSTANTS
  Request,   \* the calls made during a behaviour
  Id,        \* primary keys
  Email,
  Password,  \* clear-text passwords
  Name,      \* values of firstName and lastName
  SeedRow,   \* the rows the table may already hold
  Seed,      \* salt of the hashes of those rows
  None       \* null, undefined, no row

VARIABLES
  users,     \* the table: Id -> Row or None
  pc,        \* the await each request is suspended at
  call,      \* the operation and its arguments
  entity,    \* the UserEntity the handler holds, already edited
  dirty,     \* the columns save() is going to write
  result     \* the HTTP status the call ended with

vars == <<users, pc, call, entity, dirty, result>>

Role == {"user", "admin"}
Status == {"active", "inactive"}

(* bcrypt draws a new salt for every hash: two hashes of one password are  *)
(* different values, and a request hashes at most once.                    *)
Hash == [plain : Password, salt : Request \cup {Seed}]

Column == {"email", "password", "firstName", "lastName", "role", "status"}

Row == [email     : Email,
        password  : Hash,
        firstName : Name \cup {None},
        lastName  : Name \cup {None},
        role      : Role,
        status    : Status]

RegisterCall == [op : {"register"}, email : Email, password : Password, role : Role]
PasswordCall == [op : {"updatePassword"}, id : Id, password : Password]
ProfileCall == [op : {"updateProfile"}, id : Id, firstName : Name, lastName : Name]
ReadCall == [op : {"readUser"}, id : Id]

Call == RegisterCall \cup PasswordCall \cup ProfileCall \cup ReadCall

ASSUME RowAssumption == SeedRow \subseteq Row
ASSUME NoneAssumption == None \notin Row \cup Call \cup Nat
ASSUME SaltAssumption == Seed \notin Request /\ \A row \in SeedRow : row.password.salt = Seed

-----------------------------------------------------------------------------
Awaiting == {"existsBy", "insert", "find", "load", "update"}
Ended == {"returned", "crashed"}

HashOf(r, password) == [plain |-> password, salt |-> r]

InTable(id) == users[id] # None

EmailTaken(email) == \E id \in Id : InTable(id) /\ users[id].email = email

(* The columns an operation means to write, and what it means to write.    *)
Own(c) == IF c.op = "updatePassword" THEN {"password"}
          ELSE IF c.op = "updateProfile" THEN {"firstName", "lastName"}
          ELSE {}

Edited(r, row) ==
  IF call[r].op = "updatePassword"
  THEN [row EXCEPT !.password = HashOf(r, call[r].password)]
  ELSE [row EXCEPT !.firstName = call[r].firstName, !.lastName = call[r].lastName]

(* Mutants of NewRow: no default for status; the caller's role dropped.    *)
NewRowWithoutStatus(r) == [email |-> call[r].email, password |-> HashOf(r, call[r].password),
                           firstName |-> None, lastName |-> None,
                           role |-> call[r].role, status |-> None]
NewRowAlwaysUser(r) == [email |-> call[r].email, password |-> HashOf(r, call[r].password),
                        firstName |-> None, lastName |-> None,
                        role |-> "user", status |-> "active"]

(* What is written for a registration: the columns it does not name get    *)
(* their defaults.                                                         *)
NewRow(r) == [email     |-> call[r].email,
              password  |-> HashOf(r, call[r].password),
              firstName |-> None,
              lastName  |-> None,
              role      |-> call[r].role,
              status    |-> "active"]

(* The two halves of save(): the columns that differ, and the UPDATE.      *)
Diff(e, row) == {c \in Column : e[c] # row[c]}
Merge(row, e, columns) == [c \in Column |-> IF c \in columns THEN e[c] ELSE row[c]]

-----------------------------------------------------------------------------
Init ==
  /\ users \in [Id -> SeedRow \cup {None}]
  /\ \A i, j \in Id : InTable(i) /\ InTable(j) /\ users[i].email = users[j].email => i = j
  /\ pc = [r \in Request |-> "idle"]
  /\ call = [r \in Request |-> None]
  /\ entity = [r \in Request |-> None]
  /\ dirty = [r \in Request |-> {}]
  /\ result = [r \in Request |-> None]

Await(r, query) ==
  /\ pc' = [pc EXCEPT ![r] = query]
  /\ UNCHANGED result

(* The handler ends, its locals are gone, the client reads the status.     *)
Answer(r, status) ==
  /\ pc' = [pc EXCEPT ![r] = "returned"]
  /\ result' = [result EXCEPT ![r] = status]
  /\ entity' = [entity EXCEPT ![r] = None]
  /\ dirty' = [dirty EXCEPT ![r] = {}]
  /\ UNCHANGED call

Die(r) ==
  /\ pc' = [pc EXCEPT ![r] = "crashed"]
  /\ entity' = [entity EXCEPT ![r] = None]
  /\ dirty' = [dirty EXCEPT ![r] = {}]
  /\ UNCHANGED <<call, result>>

-----------------------------------------------------------------------------
(* A call arrives and the handler runs up to its first query.              *)
Accept(r, c) ==
  /\ pc[r] = "idle"
  /\ call' = [call EXCEPT ![r] = c]
  /\ Await(r, IF c.op = "register" THEN "existsBy" ELSE "find")
  /\ UNCHANGED <<users, entity, dirty>>

(* createNewUser: existsBy({email}), then either Errors.USER_EXISTS or     *)
(* save() of a new row.                                                    *)
ExistsBy(r) ==
  /\ pc[r] = "existsBy"
  /\ UNCHANGED users
  /\ \/ /\ EmailTaken(call[r].email)
        /\ Answer(r, 400)
     \/ /\ ~EmailTaken(call[r].email)
        /\ Await(r, "insert")
        /\ UNCHANGED <<call, entity, dirty>>

(* Mutants of InsertRow: no unique index; an upsert in place of an INSERT. *)
InsertWithoutIndex(r) ==
  /\ pc[r] = "insert"
  /\ \E id \in Id : ~InTable(id) /\ users' = [users EXCEPT ![id] = NewRow(r)]
Upsert(r) ==
  /\ pc[r] = "insert"
  /\ \E id \in Id : /\ InTable(id) => users[id].email = call[r].email
                    /\ EmailTaken(call[r].email) => InTable(id)
                    /\ users' = [users EXCEPT ![id] = NewRow(r)]

(* The INSERT, under the unique index on email.                            *)
InsertRow(r) ==
  /\ pc[r] = "insert"
  /\ ~EmailTaken(call[r].email)
  /\ \E id \in Id : /\ ~InTable(id)
                    /\ users' = [users EXCEPT ![id] = NewRow(r)]

Insert(r) == InsertRow(r) /\ Answer(r, 201)

(* ER_DUP_ENTRY is a QueryFailedError, which the filter answers with 500.  *)
InsertDuplicate(r) ==
  /\ pc[r] = "insert"
  /\ EmailTaken(call[r].email)
  /\ Answer(r, 500)
  /\ UNCHANGED users

(* Mutant of NothingToSave: an early return when either name is as wanted. *)
NothingToSaveEither(r) ==
  \/ call[r].op = "readUser"
  \/ /\ call[r].op = "updateProfile"
     /\ \/ users[call[r].id].firstName = call[r].firstName
        \/ users[call[r].id].lastName = call[r].lastName

(* findOneByOrFail({id}), and the code up to the next query: the entity is *)
(* edited, or the call ends (a plain read, or names already as wanted).    *)
NothingToSave(r) ==
  \/ call[r].op = "readUser"
  \/ /\ call[r].op = "updateProfile"
     /\ users[call[r].id].firstName = call[r].firstName
     /\ users[call[r].id].lastName = call[r].lastName

Find(r) ==
  /\ pc[r] = "find"
  /\ UNCHANGED users
  /\ \/ /\ ~InTable(call[r].id)
        /\ Answer(r, 404)
     \/ /\ InTable(call[r].id)
        /\ NothingToSave(r)
        /\ Answer(r, 200)
     \/ /\ InTable(call[r].id)
        /\ ~NothingToSave(r)
        /\ entity' = [entity EXCEPT ![r] = Edited(r, users[call[r].id])]
        /\ Await(r, "load")
        /\ UNCHANGED <<call, dirty>>

(* save(): SELECT the row again and compare.                               *)
Load(r) ==
  LET differing == Diff(entity[r], users[call[r].id]) IN
  /\ pc[r] = "load"
  /\ UNCHANGED users
  /\ \/ /\ differing = {}
        /\ Answer(r, 200)
     \/ /\ differing # {}
        /\ dirty' = [dirty EXCEPT ![r] = differing]
        /\ Await(r, "update")
        /\ UNCHANGED <<call, entity>>

(* Mutant of UpdateRow: save() writes every column of the entity.          *)
UpdateWholeRow(r) ==
  /\ pc[r] = "update"
  /\ users' = [users EXCEPT ![call[r].id] = entity[r]]

(* save(): the transaction that writes the columns found to differ.        *)
UpdateRow(r) ==
  /\ pc[r] = "update"
  /\ users' = [users EXCEPT ![call[r].id] = Merge(@, entity[r], dirty[r])]

Update(r) == UpdateRow(r) /\ Answer(r, 200)

-----------------------------------------------------------------------------
(* A query is rejected and has no effect: 500.                             *)
QueryFails(r) ==
  /\ pc[r] \in Awaiting
  /\ Answer(r, 500)
  /\ UNCHANGED users

(* The write commits, but the process never learns of it: the connection   *)
(* or the process itself is lost before the acknowledgement.               *)
CommitUnacknowledged(r) ==
  /\ InsertRow(r) \/ UpdateRow(r)
  /\ Answer(r, 500) \/ Die(r)

(* The process dies while the request is suspended.                        *)
Crash(r) ==
  /\ pc[r] \in Awaiting
  /\ Die(r)
  /\ UNCHANGED users

(* No code writes `status`: an account is deactivated, and activated again,*)
(* by an operator who updates that column.                                 *)
OperatorSetStatus(id, status) ==
  /\ InTable(id)
  /\ users' = [users EXCEPT ![id].status = status]
  /\ UNCHANGED <<pc, call, entity, dirty, result>>

(* Every call has ended.                                                   *)
Finished ==
  /\ \A r \in Request : pc[r] \in Ended
  /\ UNCHANGED vars

Progress(r) ==
  ExistsBy(r) \/ Insert(r) \/ InsertDuplicate(r) \/ Find(r) \/ Load(r) \/ Update(r)

Disturb(r) == QueryFails(r) \/ CommitUnacknowledged(r) \/ Crash(r)

Next ==
  \/ \E r \in Request : \/ \E c \in Call : Accept(r, c)
                        \/ Progress(r)
                        \/ Disturb(r)
  \/ \E id \in Id, status \in Status : OperatorSetStatus(id, status)
  \/ Finished

Spec == Init /\ [][Next]_vars

-----------------------------------------------------------------------------
(* Every variable has its shape, whatever mixture of a stale entity and a  *)
(* newer row save() writes.                                                *)
TypeOK ==
  /\ users \in [Id -> Row \cup {None}]
  /\ pc \in [Request -> {"idle"} \cup Awaiting \cup Ended]
  /\ call \in [Request -> Call \cup {None}]
  /\ entity \in [Request -> Row \cup {None}]
  /\ dirty \in [Request -> SUBSET Column]
  /\ result \in [Request -> {None, 200, 201, 400, 404, 500}]

(* The table never holds two accounts for one address, although existsBy   *)
(* and the INSERT are separate queries (createNewUser, unique index).      *)
EmailUnique ==
  \A i, j \in Id : InTable(i) /\ InTable(j) /\ users[i].email = users[j].email => i = j

Registered(r) == pc[r] = "returned" /\ result[r] = 201

(* A registration answered 201 is never undone, taken over or promoted: at *)
(* any later time the address has an account with the role it asked for,   *)
(* and no second registration of the address is answered 201, however the  *)
(* two interleave and whatever stale entities are saved in between.        *)
RegistrationSticks ==
  \A r \in Request : Registered(r) =>
    /\ \E id \in Id : /\ InTable(id)
                      /\ users[id].email = call[r].email
                      /\ users[id].role = call[r].role
    /\ \A s \in Request \ {r} : Registered(s) => call[s].email # call[r].email

(* Each account as its address and role.                                   *)
Directory ==
  INSTANCE AccountDirectory
  WITH directory <- [id \in Id |-> IF InTable(id)
                                   THEN [email |-> users[id].email, role |-> users[id].role]
                                   ELSE None]

(* Through any interleaving of saves the table implements the directory.   *)
ImplementsDirectory == Directory!Spec

=============================================================================
