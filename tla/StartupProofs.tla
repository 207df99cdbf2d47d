---------------------------- MODULE StartupProofs ----------------------------
(***************************************************************************)
(* Proofs about Startup, for any number of processes, attempts and faults. *)
(***************************************************************************)
EXTENDS Startup, TLAPS

(* At most one process is between its CREATE TABLE and its record, and     *)
(* nothing is recorded while it is.                                        *)
HalfWay ==
  \A p \in Process : phase[p] = "record" =>
    /\ table /\ records = 0
    /\ \A q \in Process \ {p} : phase[q] # "record"

(* A script that has registered its admin, or exited after it.             *)
Done(p) == phase[p] = "close" \/ code[p] = 0

ScriptsHeld ==
  /\ \A p \in Process : /\ phase[p] \in Registering => p \in Script /\ email[p] \in Email
                        /\ code[p] # None => phase[p] = "exited"
  /\ \A p \in Script : Done(p) => email[p] \in Email /\ accounts[email[p]] = "admin"
  /\ \A p, q \in Script : p # q /\ Done(p) /\ Done(q) => email[p] # email[q]

StartupInv ==
  StartupTypeOK /\ MigratedOnce /\ ServesOnSchema /\ HalfWay /\ ScriptsHeld

-----------------------------------------------------------------------------
(* The null value, against what it stands beside.                          *)
LEMMA NoneIsNothing ==
  None \notin Email /\ None # "user" /\ None # "admin" /\ \A c \in {0, 1, 137, 255} : None # c
  BY NoAddressAssumption

(* A failed attempt starts over or gives up.                               *)
LEMMA AttemptFailsMoves ==
  ASSUME StartupTypeOK, NEW p \in Process, AttemptFails(p)
  PROVE  /\ phase' \in {[phase EXCEPT ![p] = "connect"], [phase EXCEPT ![p] = "exited"]}
         /\ code' = code \/ (phase' = [phase EXCEPT ![p] = "exited"]
                             /\ code' = [code EXCEPT ![p] = 1])
         /\ attempts' \in [Process -> 0 .. MaxAttempts]
         /\ email' = email
<1>1. attempts[p] \in 0 .. MaxAttempts /\ Limit(p) \in Nat /\ Limit(p) <= MaxAttempts
  BY AttemptsAssumption DEF StartupTypeOK, Limit
<1>2. CASE attempts[p] + 1 < Limit(p) /\ attempts' = [attempts EXCEPT ![p] = @ + 1]
  BY <1>1, <1>2, AttemptsAssumption DEF AttemptFails, StartupTypeOK, Exit
<1>3. CASE Exit(p, 1)
  BY <1>3 DEF Exit, StartupTypeOK
<1> QED BY <1>2, <1>3 DEF AttemptFails

(* What a fault does to its process: it tries again or exits.              *)
LEMMA FaultMoves ==
  ASSUME StartupTypeOK, NEW p \in Process, Fault(p)
  PROVE  /\ \E next \in {"connect", "exited"} : phase' = [phase EXCEPT ![p] = next]
         /\ code' = code \/ (phase'[p] = "exited"
                             /\ \E c \in {1, 137, 255} : code' = [code EXCEPT ![p] = c])
         /\ attempts' \in [Process -> 0 .. MaxAttempts]
         /\ email' = email
<1>1. ASSUME NEW c \in {1, 137, 255}, Exit(p, c)
      PROVE  /\ phase' = [phase EXCEPT ![p] = "exited"] /\ phase'[p] = "exited"
             /\ code' = [code EXCEPT ![p] = c]
             /\ attempts' \in [Process -> 0 .. MaxAttempts]
             /\ email' = email
  BY <1>1 DEF Exit, StartupTypeOK
<1>2. CASE AttemptFails(p)
  BY <1>2, AttemptFailsMoves DEF StartupTypeOK
<1>3. CASE Exit(p, 1) \/ Exit(p, 137) \/ Exit(p, 255)
  BY <1>1, <1>3
<1> QED BY <1>2, <1>3 DEF Fault, Rejected

(* A table that exists goes on existing.                                   *)
LEMMA TablesStay ==
  ASSUME StartupTypeOK, NEW p \in Process,
         UNCHANGED database \/ MakeLog(p) \/ MakeTable(p) \/ MakeRecord(p) \/ MakeAdmin(p)
  PROVE  logTable' \in BOOLEAN /\ table' \in BOOLEAN
<1>1. (logTable' = logTable \/ logTable' = TRUE) /\ (table' = table \/ table' = TRUE)
  BY Zenon DEF MakeLog, MakeTable, MakeRecord, MakeAdmin, database
<1> QED BY <1>1, Zenon DEF StartupTypeOK

(* The shapes.                                                             *)
LEMMA StepTyped ==
  ASSUME StartupTypeOK, NEW p \in Process, Start(p) \/ Step(p) \/ Fault(p)
  PROVE  StartupTypeOK'
<1>1. CASE Start(p)
  BY <1>1, AttemptsAssumption DEF Start, StartupTypeOK, Running, Connecting, database
<1>2. CASE CreateLog(p)
  <2>1. logTable' \in BOOLEAN /\ table' \in BOOLEAN
    BY <1>2, TablesStay DEF CreateLog
  <2> QED BY <1>2, <2>1, AttemptFailsMoves
          DEF CreateLog, MakeLog, Goto, StartupTypeOK, Running, Connecting, database
<1>3. CASE CreateTable(p)
  <2>1. logTable' \in BOOLEAN /\ table' \in BOOLEAN
    BY <1>3, TablesStay DEF CreateTable
  <2> QED BY <1>3, <2>1, AttemptFailsMoves
          DEF CreateTable, MakeTable, Goto, StartupTypeOK, Running, Connecting, database
<1>4. CASE Record(p)
  BY <1>4 DEF Record, MakeRecord, Goto, StartupTypeOK, Running, Up
<1>5. CASE Insert(p)
  BY <1>5 DEF Insert, MakeAdmin, Goto, Exit, StartupTypeOK, Running, Up, Registering, database
<1>6. CASE Connect(p) \/ HasLog(p) \/ LoadLog(p) \/ Ready(p) \/ ExistsBy(p) \/ Close(p)
  BY <1>6 DEF Connect, HasLog, LoadLog, Ready, ExistsBy, Close, Goto, Exit, StartupTypeOK,
              Running, Connecting, Up, Registering, database
<1>7. CASE Fault(p)
  <2>1. /\ phase' \in [Process -> Running \cup {"stopped", "exited"}]
        /\ attempts' \in [Process -> 0 .. MaxAttempts]
        /\ code' \in [Process -> {None, 0, 1, 137, 255}]
        /\ email' \in [Process -> Email \cup {None}]
    BY <1>7, FaultMoves DEF StartupTypeOK, Running, Connecting
  <2>2. logTable' \in BOOLEAN /\ table' \in BOOLEAN
    BY <1>7, TablesStay DEF Fault
  <2>3. records' \in Nat /\ faults' \in Nat /\ accounts' \in [Email -> {None, "user", "admin"}]
    BY <1>7 DEF Fault, MakeLog, MakeTable, MakeRecord, MakeAdmin, StartupTypeOK, database
  <2> QED BY <2>1, <2>2, <2>3 DEF StartupTypeOK
<1> QED BY <1>1, <1>2, <1>3, <1>4, <1>5, <1>6, <1>7 DEF Step

-----------------------------------------------------------------------------
(* The migration: what is recorded, by whom, and who is let past it.       *)
Migrated == MigratedOnce /\ ServesOnSchema /\ HalfWay

LEMMA StepMigrated ==
  ASSUME StartupTypeOK, Migrated, NEW p \in Process, Start(p) \/ Step(p) \/ Fault(p)
  PROVE  Migrated'
<1> USE DEF Migrated, StartupTypeOK, MigratedOnce, ServesOnSchema, HalfWay,
            Up, Registering, Migrates
<1>1. CASE Start(p)
  BY <1>1 DEF Start, database
<1>2. CASE CreateLog(p)
  BY <1>2, AttemptFailsMoves DEF CreateLog, MakeLog, Goto, database
<1>3. CASE CreateTable(p)
  BY <1>3, AttemptFailsMoves DEF CreateTable, MakeTable, Goto, database
<1>4. CASE Record(p)
  BY <1>4 DEF Record, MakeRecord, Goto
<1>5. CASE Insert(p)
  BY <1>5 DEF Insert, MakeAdmin, Goto, Exit, database
<1>6. CASE Connect(p) \/ HasLog(p) \/ LoadLog(p)
  BY <1>6 DEF Connect, HasLog, LoadLog, Goto, database
<1>7. CASE Ready(p) \/ ExistsBy(p) \/ Close(p)
  BY <1>7 DEF Ready, ExistsBy, Close, Goto, Exit, database
<1>8. CASE Fault(p)
  <2>1. PICK next \in {"connect", "exited"} : phase' = [phase EXCEPT ![p] = next]
    BY <1>8, FaultMoves
  <2>2. \/ table' = table /\ records' = records
        \/ phase[p] = "createTable" /\ ~table /\ table' = TRUE /\ records' = records
        \/ phase[p] = "record" /\ table' = table /\ records' = records + 1
    BY <1>8 DEF Fault, MakeLog, MakeTable, MakeRecord, MakeAdmin, database
  <2> QED BY <2>1, <2>2
<1> QED BY <1>1, <1>2, <1>3, <1>4, <1>5, <1>6, <1>7, <1>8 DEF Step

-----------------------------------------------------------------------------
(* The accounts of admins are nobody else's: no step takes a role away.    *)
LEMMA RolesStay ==
  ASSUME StartupTypeOK, NEW p \in Process,
         UNCHANGED database \/ MakeLog(p) \/ MakeTable(p) \/ MakeRecord(p) \/ MakeAdmin(p)
  PROVE  \A e \in Email : accounts[e] = "admin" => accounts'[e] = "admin"
  BY DEF MakeLog, MakeTable, MakeRecord, MakeAdmin, database, StartupTypeOK

(* The scripts: what each has registered stays, and is its own.            *)
LEMMA StepScripts ==
  ASSUME StartupTypeOK, ScriptsHeld, NEW p \in Process, Start(p) \/ Step(p) \/ Fault(p)
  PROVE  ScriptsHeld'
<1> USE NoneIsNothing DEF ScriptsHeld, StartupTypeOK, Done, Registering
<1>1. CASE Start(p)
  <2>1. /\ phase' = [phase EXCEPT ![p] = "connect"] /\ code' = [code EXCEPT ![p] = None]
        /\ accounts' = accounts
        /\ \A q \in Process \ {p} : email'[q] = email[q]
    BY <1>1 DEF Start, database
  <2> QED BY <2>1 DEF Process
<1>2. CASE CreateLog(p) \/ CreateTable(p) \/ Record(p)
  <2>1. \/ \E next \in Running \ Registering : phase' = [phase EXCEPT ![p] = next] /\ code' = code
        \/ phase' = [phase EXCEPT ![p] = "exited"] /\ code' = [code EXCEPT ![p] = 1]
    <3>1. CASE AttemptFails(p)
      BY <3>1 DEF AttemptFails, Exit, Running, Connecting
    <3> QED BY <1>2, <3>1 DEF CreateLog, CreateTable, Record, Goto, Running, Connecting, Up
  <2>2. email' = email /\ accounts' = accounts
    BY <1>2 DEF CreateLog, CreateTable, Record, MakeLog, MakeTable, MakeRecord, Goto,
                AttemptFails, Exit, database
  <2>3. code[p] = None
    BY <1>2 DEF CreateLog, CreateTable, Record, MakeLog, MakeTable, MakeRecord
  <2> QED BY <2>1, <2>2, <2>3 DEF Process, Running, Connecting, Up
<1>3. CASE Connect(p) \/ HasLog(p) \/ LoadLog(p)
  BY <1>3 DEF Connect, HasLog, LoadLog, Goto, database, Process
<1>4. CASE Ready(p)
  BY <1>4, ProcessAssumption DEF Ready, Goto, Exit, database, Process
<1>5. CASE ExistsBy(p) \/ Close(p)
  BY <1>5 DEF ExistsBy, Close, Goto, Exit, database, Process
<1>6. CASE Insert(p)
  <2>1. CASE MakeAdmin(p) /\ Goto(p, "close")
    <3>1. /\ p \in Script /\ email[p] \in Email /\ accounts[email[p]] = None
          /\ phase' = [phase EXCEPT ![p] = "close"] /\ code' = code /\ email' = email
          /\ accounts' = [accounts EXCEPT ![email[p]] = "admin"]
      BY <2>1 DEF MakeAdmin, Goto
    <3>2. \A q \in Script \ {p} : Done(q)' => Done(q) /\ email[q] # email[p]
      BY <3>1 DEF Process
    <3>3. Done(p)' /\ ~Done(p) /\ accounts'[email[p]] = "admin"
      BY <3>1, <2>1 DEF MakeAdmin, Process
    <3>4. \A q \in Script \ {p} : Done(q)' => accounts'[email[q]] = "admin"
      BY <3>1, <3>2
    <3>5. \A q \in Process : /\ phase'[q] \in Registering => q \in Script /\ email'[q] \in Email
                             /\ code'[q] # None => phase'[q] = "exited"
      BY <3>1, <2>1 DEF MakeAdmin
    <3> QED BY <3>1, <3>2, <3>3, <3>4, <3>5
  <2>2. CASE Exit(p, 255) /\ UNCHANGED database
    BY <2>2 DEF Exit, database, Process
  <2> QED BY <1>6, <2>1, <2>2 DEF Insert
<1>7. CASE Fault(p)
  <2>1. PICK next \in {"connect", "exited"} : phase' = [phase EXCEPT ![p] = next]
    BY <1>7, FaultMoves
  <2>2. /\ email' = email
        /\ \/ code' = code
           \/ next = "exited" /\ \E c \in {1, 137, 255} : code' = [code EXCEPT ![p] = c]
    <3>1. phase'[p] = next
      BY <2>1
    <3> QED BY <1>7, <3>1, FaultMoves
  <2>3. \A e \in Email : accounts[e] = "admin" => accounts'[e] = "admin"
    BY <1>7, RolesStay DEF Fault
  <2>4. code[p] = None
    BY <1>7 DEF Fault, Rejected, Running, Connecting, Up
  <2> QED BY <2>1, <2>2, <2>3, <2>4 DEF Process
<1> QED BY <1>1, <1>2, <1>3, <1>4, <1>5, <1>6, <1>7 DEF Step

-----------------------------------------------------------------------------
(* The invariant holds on an empty database, and every step preserves it.  *)
LEMMA StartupInitInv == StartupInit => StartupInv
<1> SUFFICES ASSUME StartupInit PROVE StartupInv
  OBVIOUS
<1>1. logTable = FALSE /\ table = FALSE
  BY DEF StartupInit
<1>2. logTable \in BOOLEAN /\ table \in BOOLEAN
  BY <1>1
<1>3. StartupTypeOK
  BY <1>2, AttemptsAssumption DEF StartupInit, StartupTypeOK
<1>4. MigratedOnce /\ ServesOnSchema /\ HalfWay /\ ScriptsHeld
  BY NoneIsNothing DEF StartupInit, MigratedOnce, ServesOnSchema, HalfWay, ScriptsHeld,
                       Done, Up, Registering, Process
<1> QED BY <1>3, <1>4 DEF StartupInv

LEMMA StartupNextInv == StartupInv /\ [StartupNext]_startupVars => StartupInv'
<1> SUFFICES ASSUME StartupInv, [StartupNext]_startupVars
             PROVE  StartupInv'
  OBVIOUS
<1>1. ASSUME NEW p \in Process, Start(p) \/ Step(p) \/ Fault(p)
      PROVE  StartupInv'
  BY <1>1, StepTyped, StepMigrated, StepScripts DEF StartupInv, Migrated
<1>2. ASSUME NEW e \in Email, SignUp(e)
      PROVE  StartupInv'
  <2>1. /\ UNCHANGED <<process, logTable, records, table, faults>>
        /\ accounts[e] = None /\ accounts' = [accounts EXCEPT ![e] = "user"]
    BY <1>2 DEF SignUp
  <2>2. StartupTypeOK'
    BY <2>1 DEF StartupInv, StartupTypeOK, process
  <2>3. MigratedOnce' /\ ServesOnSchema' /\ HalfWay'
    BY <2>1 DEF StartupInv, MigratedOnce, ServesOnSchema, HalfWay, process
  <2>4. ScriptsHeld'
    BY <2>1, NoneIsNothing DEF StartupInv, StartupTypeOK, ScriptsHeld, Done, process
  <2> QED BY <2>2, <2>3, <2>4 DEF StartupInv
<1>3. CASE UNCHANGED startupVars
  BY <1>3 DEF StartupInv, startupVars, process, database, StartupTypeOK, MigratedOnce,
              ServesOnSchema, HalfWay, ScriptsHeld, Done
<1> QED BY <1>1, <1>2, <1>3 DEF StartupNext, StartupFinished

(* The inductive invariant holds in every reachable state of Startup.      *)
THEOREM StartupInvariance == StartupSpec => []StartupInv
  BY StartupInitInv, StartupNextInv, PTL DEF StartupSpec

(* Type correctness of the start-up.                                       *)
THEOREM StartupTypeCorrect == StartupSpec => []StartupTypeOK
<1>1. StartupInv => StartupTypeOK
  BY DEF StartupInv
<1> QED BY <1>1, StartupInvariance, PTL

(* Any number of processes that find the migration pending leave at most   *)
(* one record of it, and never one without the table.                      *)
THEOREM MigrationRunsOnce == StartupSpec => []MigratedOnce
<1>1. StartupInv => MigratedOnce
  BY DEF StartupInv
<1> QED BY <1>1, StartupInvariance, PTL

(* No process gets past its migrations before the schema is there.         *)
THEOREM NobodyServesWithoutSchema == StartupSpec => []ServesOnSchema
<1>1. StartupInv => ServesOnSchema
  BY DEF StartupInv
<1> QED BY <1>1, StartupInvariance, PTL

(* An exit code 0 of generate-admin tells the truth, for good.             *)
THEOREM ExitZeroIsAdmin == StartupSpec => []ExitZeroMeansAdmin
<1>1. StartupInv => ExitZeroMeansAdmin
  BY NoneIsNothing DEF StartupInv, ScriptsHeld, ExitZeroMeansAdmin, Done
<1> QED BY <1>1, StartupInvariance, PTL

-----------------------------------------------------------------------------
(* The refinement of AccountDirectory: a sign-up or a script that inserts  *)
(* its admin creates an account, and nothing else touches one.             *)
LEMMA RegisteringCreates ==
  ASSUME StartupTypeOK, NEW e \in Email, NEW role \in {"user", "admin"},
         accounts[e] = None, accounts' = [accounts EXCEPT ![e] = role]
  PROVE  Registry!Next
<1> DEFINE account == [email |-> e, role |-> role]
<1>1. account \in Registry!Account
  BY DEF Registry!Account
<1>2. Registered[e] = None /\ ~Registry!Listed(e)
  BY DEF Registered, Registry!Listed
<1>3. Registered' = [Registered EXCEPT ![e] = account]
  <2>1. accounts \in [Email -> {None, "user", "admin"}]
    BY DEF StartupTypeOK
  <2>2. role # None
    BY NoneIsNothing
  <2>3. \A f \in Email : Registered'[f] = [Registered EXCEPT ![e] = account][f]
    BY <2>1, <2>2 DEF Registered
  <2> QED BY <2>3 DEF Registered
<1>4. Registry!Create(e, account)
  BY <1>2, <1>3 DEF Registry!Create
<1> QED BY <1>1, <1>4 DEF Registry!Next

LEMMA RegistryInit == StartupInit => Registry!Init
<1> SUFFICES ASSUME StartupInit PROVE Registry!Init
  OBVIOUS
<1>1. \A e \in Email : Registered[e] = None
  BY DEF StartupInit, Registered
<1> QED BY <1>1 DEF Registered, Registry!Init

LEMMA RegistryStep == StartupInv /\ [StartupNext]_startupVars => [Registry!Next]_Registered
<1> SUFFICES ASSUME StartupInv, [StartupNext]_startupVars
             PROVE  Registry!Next \/ UNCHANGED Registered
  OBVIOUS
<1>1. StartupTypeOK /\ ScriptsHeld
  BY DEF StartupInv
<1>2. ASSUME NEW e \in Email, SignUp(e) PROVE Registry!Next
  BY <1>1, <1>2, RegisteringCreates DEF SignUp
<1>3. ASSUME NEW p \in Process, MakeAdmin(p) PROVE Registry!Next
  <2>1. email[p] \in Email
    BY <1>1, <1>3 DEF MakeAdmin, ScriptsHeld, Registering
  <2> QED BY <1>1, <1>3, <2>1, RegisteringCreates DEF MakeAdmin
<1>4. ASSUME accounts' = accounts PROVE UNCHANGED Registered
  BY <1>4 DEF Registered
<1>5. ASSUME NEW p \in Process, Start(p) \/ Step(p) \/ Fault(p), ~MakeAdmin(p)
      PROVE  accounts' = accounts
  BY <1>5 DEF Start, Step, Connect, HasLog, CreateLog, LoadLog, CreateTable, Record, Ready,
              ExistsBy, Insert, Close, Fault, MakeLog, MakeTable, MakeRecord, database
<1>6. CASE UNCHANGED startupVars
  BY <1>4, <1>6 DEF startupVars, database
<1> QED BY <1>2, <1>3, <1>4, <1>5, <1>6 DEF StartupNext, StartupFinished

(* While any number of servers, scripts and commands come up at once, fail *)
(* and are restarted, the table implements AccountDirectory.               *)
THEOREM StartupIsDirectory == StartupSpec => StartupImplementsDirectory
  BY RegistryInit, RegistryStep, StartupInvariance, PTL
  DEF StartupSpec, StartupImplementsDirectory, Registry!Spec

=============================================================================
