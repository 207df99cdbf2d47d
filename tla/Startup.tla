------------------------------- MODULE Startup -------------------------------
(***************************************************************************)
(* How the processes of the service come up on one database: the server    *)
(* (main.ts, restarted by docker whenever it exits), the generate-admin    *)
(* script and the migration:run command, all at once if need be.           *)
(*                                                                         *)
(* Each process connects through typeOrmConfig.  When migrations run on    *)
(* start-up, connecting goes on to TypeORM's migration executor: look for  *)
(* the table that logs migrations, create it, load it, run up() of the one *)
(* migration if it is not logged, log it.  MySQL commits a CREATE TABLE by *)
(* itself, so what looks like a transaction is one step per query, and a   *)
(* process may end between any two.  A failed attempt is repeated by       *)
(* TypeOrmModule; when all attempts are used up the process exits.         *)
(***************************************************************************)
EXTENDS Naturals

CONSTANTS
  Server, Script, Command,   \* processes, by what they run
  Email,                     \* addresses the script may be given
  None,                      \* an argument that is missing
  OnStartUp,                 \* database.migrationOnStartup: its type, and its value
  MaxAttempts,               \* attempts of TypeOrmModule to initialize
  MaxFaults                  \* bound on failed queries and crashes

VARIABLES
  phase,      \* where each process is
  attempts,   \* attempts that have failed since it was started
  code,       \* the code it exited with, None while it runs
  email,      \* the address the script was given
  logTable,   \* whether the table `migrations` exists
  records,    \* how often the migration is recorded in it
  table,      \* whether the table `users` exists
  accounts,   \* the role of each address in it, or None
  faults      \* failures so far

process == <<phase, attempts, code, email>>
database == <<logTable, records, table, accounts>>
startupVars == <<process, database, faults>>

Process == Server \cup Script \cup Command

ASSUME ProcessAssumption ==
  Server \cap Script = {} /\ Server \cap Command = {} /\ Script \cap Command = {}
ASSUME AttemptsAssumption == MaxAttempts \in Nat \ {0} /\ MaxFaults \in Nat
ASSUME NoAddressAssumption == None \notin Email \cup {"user", "admin"} \cup Nat

-----------------------------------------------------------------------------
Connecting == {"connect", "hasLog", "createLog", "loadLog", "createTable", "record"}
Registering == {"existsBy", "insert", "close"}
Up == {"ready", "listening"} \cup Registering
Running == Connecting \cup Up

(* Helpers.tryTransformBooleanString, of a boolean from a YAML file or the *)
(* text of an environment variable.                                        *)
TransformBoolean(value) ==
  IF value.type = "boolean" THEN value.of ELSE value.of \notin {"false", ""}

(* The command runs migrations whatever the setting, and tries once.       *)
Migrates(p) == p \in Command \/ TransformBoolean(OnStartUp)
Limit(p) == IF p \in Command THEN 1 ELSE MaxAttempts

StartupInit ==
  /\ phase = [p \in Process |-> "stopped"]
  /\ attempts = [p \in Process |-> 0]
  /\ code = [p \in Process |-> None]
  /\ email = [p \in Process |-> None]
  /\ logTable = FALSE /\ records = 0 /\ table = FALSE
  /\ accounts = [e \in Email |-> None]
  /\ faults = 0

Goto(p, next) ==
  /\ phase' = [phase EXCEPT ![p] = next]
  /\ UNCHANGED <<attempts, code, email>>

Exit(p, status) ==
  /\ phase' = [phase EXCEPT ![p] = "exited"]
  /\ code' = [code EXCEPT ![p] = status]
  /\ UNCHANGED <<attempts, email>>

(* Mutant of AttemptFails: no limit to the attempts.                       *)
AttemptFailsForever(p) ==
  /\ phase' = [phase EXCEPT ![p] = "connect"]
  /\ attempts' = [attempts EXCEPT ![p] = @ + 1]
  /\ UNCHANGED <<code, email>>

(* TypeOrmModule: another attempt, until there are none left.              *)
AttemptFails(p) ==
  \/ /\ attempts[p] + 1 < Limit(p)
     /\ phase' = [phase EXCEPT ![p] = "connect"]
     /\ attempts' = [attempts EXCEPT ![p] = @ + 1]
     /\ UNCHANGED <<code, email>>
  \/ /\ attempts[p] + 1 >= Limit(p)
     /\ Exit(p, 1)

-----------------------------------------------------------------------------
(* Mutant of Startable: a container that is not restarted.                 *)
StartableOnce(p) == phase[p] = "stopped"

(* Docker starts the server, and again whenever it has exited.             *)
Startable(p) == phase[p] = "stopped" \/ (p \in Server /\ phase[p] = "exited")

Start(p) ==
  /\ Startable(p)
  /\ phase' = [phase EXCEPT ![p] = "connect"]
  /\ attempts' = [attempts EXCEPT ![p] = 0]
  /\ code' = [code EXCEPT ![p] = None]
  /\ IF p \in Script
     THEN \E e \in Email \cup {None} : email' = [email EXCEPT ![p] = e]
     ELSE UNCHANGED email
  /\ UNCHANGED <<database, faults>>

(* The attempt reaches the database; without migrations that is all.       *)
Connect(p) ==
  /\ phase[p] = "connect"
  /\ Goto(p, IF Migrates(p) THEN "hasLog" ELSE "ready")
  /\ UNCHANGED <<database, faults>>

HasLog(p) ==
  /\ phase[p] = "hasLog"
  /\ Goto(p, IF logTable THEN "loadLog" ELSE "createLog")
  /\ UNCHANGED <<database, faults>>

MakeLog(p) ==
  /\ phase[p] = "createLog" /\ ~logTable
  /\ logTable' = TRUE
  /\ UNCHANGED <<records, table, accounts>>

CreateLog(p) ==
  /\ UNCHANGED faults
  /\ \/ MakeLog(p) /\ Goto(p, "loadLog")
     \/ /\ phase[p] = "createLog" /\ logTable
        /\ AttemptFails(p)
        /\ UNCHANGED database

LoadLog(p) ==
  /\ phase[p] = "loadLog"
  /\ Goto(p, IF records > 0 THEN "ready" ELSE "createTable")
  /\ UNCHANGED <<database, faults>>

(* InitUserTable.up: CREATE TABLE, an error when the table is there.       *)
MakeTable(p) ==
  /\ phase[p] = "createTable" /\ ~table
  /\ table' = TRUE
  /\ UNCHANGED <<logTable, records, accounts>>

(* Mutants of CreateTable: IF NOT EXISTS; a table that exists taken for a  *)
(* migration that is done.                                                 *)
CreateTableIfNotExists(p) ==
  /\ phase[p] = "createTable"
  /\ table' = TRUE
  /\ Goto(p, "record")
  /\ UNCHANGED <<logTable, records, accounts, faults>>
CreateTableOrReady(p) ==
  /\ UNCHANGED faults
  /\ \/ MakeTable(p) /\ Goto(p, "record")
     \/ phase[p] = "createTable" /\ table /\ Goto(p, "ready") /\ UNCHANGED database

CreateTable(p) ==
  /\ UNCHANGED faults
  /\ \/ MakeTable(p) /\ Goto(p, "record")
     \/ /\ phase[p] = "createTable" /\ table
        /\ AttemptFails(p)
        /\ UNCHANGED database

MakeRecord(p) ==
  /\ phase[p] = "record"
  /\ records' = records + 1
  /\ UNCHANGED <<logTable, table, accounts>>

Record(p) == MakeRecord(p) /\ Goto(p, "ready") /\ UNCHANGED faults

-----------------------------------------------------------------------------
(* bootstrap listens; main() of the script checks its arguments, which it  *)
(* does after it has connected; the command has done its work.             *)
Ready(p) ==
  /\ phase[p] = "ready"
  /\ UNCHANGED <<database, faults>>
  /\ \/ p \in Server /\ Goto(p, "listening")
     \/ p \in Command /\ Exit(p, 0)
     \/ p \in Script /\ email[p] = None /\ Exit(p, 255)
     \/ p \in Script /\ email[p] # None /\ Goto(p, "existsBy")

(* Mutants of ExistsBy: the catch of process() does not rethrow; run() has *)
(* no catch, and the open connections keep the process alive.              *)
ExistsBySwallowed(p) ==
  /\ phase[p] = "existsBy"
  /\ Goto(p, IF table /\ accounts[email[p]] = None THEN "insert" ELSE "close")
  /\ UNCHANGED <<database, faults>>
ExistsByOrHang(p) ==
  /\ phase[p] = "existsBy"
  /\ table /\ accounts[email[p]] = None
  /\ Goto(p, "insert")
  /\ UNCHANGED <<database, faults>>

(* registerUPUser: any error ends the script with -1.                      *)
ExistsBy(p) ==
  /\ phase[p] = "existsBy"
  /\ UNCHANGED <<database, faults>>
  /\ IF table /\ accounts[email[p]] = None THEN Goto(p, "insert") ELSE Exit(p, 255)

(* Mutant of MakeAdmin: an upsert of the address.                          *)
UpsertAdmin(p) ==
  /\ phase[p] = "insert"
  /\ accounts' = [accounts EXCEPT ![email[p]] = "admin"]
  /\ UNCHANGED <<logTable, records, table>>

MakeAdmin(p) ==
  /\ phase[p] = "insert" /\ accounts[email[p]] = None
  /\ accounts' = [accounts EXCEPT ![email[p]] = "admin"]
  /\ UNCHANGED <<logTable, records, table>>

Insert(p) ==
  /\ UNCHANGED faults
  /\ \/ MakeAdmin(p) /\ Goto(p, "close")
     \/ /\ phase[p] = "insert" /\ accounts[email[p]] # None
        /\ Exit(p, 255)
        /\ UNCHANGED database

Close(p) ==
  /\ phase[p] = "close"
  /\ Exit(p, 0)
  /\ UNCHANGED <<database, faults>>

(* A client of a server that listens signs up.                             *)
SignUp(e) ==
  /\ \E s \in Server : phase[s] = "listening"
  /\ table /\ accounts[e] = None
  /\ accounts' = [accounts EXCEPT ![e] = "user"]
  /\ UNCHANGED <<process, logTable, records, table, faults>>

-----------------------------------------------------------------------------
(* What an error does to the process it occurs in.  Nobody catches the one *)
(* of listen() in main.ts; run() of the script catches them all.           *)
Rejected(p) ==
  \/ phase[p] \in Connecting /\ AttemptFails(p)
  \/ phase[p] = "ready" /\ p \in Server /\ Exit(p, 1)
  \/ phase[p] \in Registering /\ Exit(p, 255)

(* A query, listen() or close() is rejected; or takes effect and is        *)
(* rejected all the same; or the process dies, before it or after it.      *)
Fault(p) ==
  /\ faults < MaxFaults /\ faults' = faults + 1
  /\ UNCHANGED database \/ MakeLog(p) \/ MakeTable(p) \/ MakeRecord(p) \/ MakeAdmin(p)
  /\ \/ Rejected(p)
     \/ phase[p] \in Running /\ Exit(p, 137)

Step(p) ==
  \/ Connect(p) \/ HasLog(p) \/ CreateLog(p) \/ LoadLog(p) \/ CreateTable(p) \/ Record(p)
  \/ Ready(p) \/ ExistsBy(p) \/ Insert(p) \/ Close(p)

StartupFinished ==
  /\ \A p \in Process : phase[p] \in {"listening", "exited"}
  /\ UNCHANGED startupVars

StartupNext ==
  \/ \E p \in Process : Start(p) \/ Step(p) \/ Fault(p)
  \/ \E e \in Email : SignUp(e)
  \/ StartupFinished

StartupSpec == StartupInit /\ [][StartupNext]_startupVars

(* Docker starts what it is to keep running, and queries are answered.     *)
StartupFairSpec ==
  /\ StartupSpec
  /\ \A p \in Process : WF_startupVars(Step(p))
  /\ \A s \in Server : WF_startupVars(Start(s))

-----------------------------------------------------------------------------
(* Every variable has its shape.                                           *)
StartupTypeOK ==
  /\ phase \in [Process -> Running \cup {"stopped", "exited"}]
  /\ attempts \in [Process -> 0 .. MaxAttempts]
  /\ code \in [Process -> {None, 0, 1, 137, 255}]
  /\ email \in [Process -> Email \cup {None}]
  /\ logTable \in BOOLEAN /\ table \in BOOLEAN
  /\ records \in Nat /\ faults \in Nat
  /\ accounts \in [Email -> {None, "user", "admin"}]

(* However many processes find the migration pending at once, and however  *)
(* often attempts fail and are repeated, it is recorded once at most, and  *)
(* never without the table it makes (InitUserTable.up and its record are   *)
(* separate commits).                                                      *)
MigratedOnce == records <= 1 /\ (records = 1 => table)

(* A process that runs migrations and gets past them has the schema: it    *)
(* neither listens nor registers while another one is half way.            *)
ServesOnSchema ==
  \A p \in Process : Migrates(p) /\ phase[p] \in Up => table /\ records = 1

(* generate-admin exits with 0 only when the admin was registered by it:   *)
(* the address belongs to an admin from then on, whoever else signs up,    *)
(* and no second run for the address exits with 0.                         *)
ExitZeroMeansAdmin ==
  \A p \in Script : code[p] = 0 =>
    /\ email[p] # None
    /\ accounts[email[p]] = "admin"
    /\ \A q \in Script \ {p} : code[q] = 0 => email[q] # email[p]

(* Only one of a server and the scripts creates the account of an address, *)
(* and no later registration takes it over: the table is AccountDirectory, *)
(* which UsersService was shown to be once the service runs.               *)
Registered ==
  [e \in Email |-> IF accounts[e] = None THEN None ELSE [email |-> e, role |-> accounts[e]]]
Registry ==
  INSTANCE AccountDirectory
    WITH Id <- Email, Role <- {"user", "admin"}, directory <- Registered
StartupImplementsDirectory == Registry!Spec

(* The table was created and nobody is left to record it.                  *)
Interrupted == table /\ records = 0 /\ \A p \in Process : phase[p] # "record"

(* Once the faults are over the service comes up and stays up: lost races  *)
(* for the migration, outages and crashes are survived by the attempts and *)
(* the restarts.  The one exception is a process that ended between        *)
(* CREATE TABLE and the record, after which no start succeeds any more.    *)
ServiceComesUp ==
  \A s \in Server : <>[](phase[s] = "listening") \/ <>[]Interrupted

(* The script and the command always end, with a code.                     *)
EveryRunEnds ==
  \A p \in Script \cup Command : phase[p] # "stopped" ~> phase[p] = "exited" /\ code[p] # None

=============================================================================
