----------------------------- MODULE AuthService -----------------------------
(***************************************************************************)
(* The password operations of AuthService                                  *)
(* (src/src/modules/auth/auth.service.ts) on top of UsersService, Redis    *)
(* and the mailer: forgotPassword, resetPassword, updatePassword.  Sign-up *)
(* and the endpoints of UsersController call UsersService directly.        *)
(*                                                                         *)
(* stage[r] names the await of the auth handler that request r is          *)
(* suspended at.  While it is "savePassword" the handler waits for         *)
(* UsersService.updatePassword, whose own awaits are in pc[r].             *)
(*                                                                         *)
(* A reset token is random, so it is identified with the forgot-password   *)
(* request that drew it.  Redis keeps its bcrypt hash under a key made     *)
(* from the address; compare(token, hash) holds of that token only.        *)
(*                                                                         *)
(* Redis commands wait through an outage (maxRetriesPerRequest: null) and  *)
(* ioredis sends a command again when the connection is lost before its    *)
(* reply, so a SET or DEL may take effect more than once before the        *)
(* handler goes on; in cluster mode a command may also be rejected.        *)
(***************************************************************************)
EXTENDS UsersService

CONSTANT Offered   \* the operations clients use, by name

VARIABLES
  stage,    \* the await each auth handler is suspended at
  body,     \* the operation and its arguments
  redis,    \* the token stored for each address, or None
  outbox,   \* mails handed to the mailer: their sending is not awaited
  inbox,    \* mails delivered
  reply     \* the HTTP status the handler answered with

authVars == <<stage, body, redis, outbox, inbox, reply>>
authAllVars == <<vars, authVars>>

ForgotBody == [op : {"forgotPassword"}, email : Email]
ResetBody == [op : {"resetPassword"}, email : Email,
              token : Request \cup {None}, password : Password]
ChangeBody == [op : {"changePassword"}, id : Id, current : Password, password : Password]

Body == ForgotBody \cup ResetBody \cup ChangeBody

ASSUME AuthNoneAssumption == None \notin Request \cup Body

(* A link mail carries the token of request `of`; a notice says that the   *)
(* reset of request `of` changed the password.                             *)
Mail == [kind : {"link", "notice"}, to : Email, of : Request]

(* A query or a command is under way; "sendLink": its answer has come and  *)
(* the handler is about to run on.                                         *)
Commanding == {"findUser", "redisSet", "redisGet", "redisDel"}
Suspended == Commanding \cup {"sendLink", "savePassword"}

-----------------------------------------------------------------------------
IsReset(r) == body[r] # None /\ body[r].op = "resetPassword"
IsChange(r) == body[r] # None /\ body[r].op = "changePassword"

AuthInit ==
  /\ Init
  /\ stage = [r \in Request |-> "idle"]
  /\ body = [r \in Request |-> None]
  /\ redis = [e \in Email |-> None]
  /\ outbox = {}
  /\ inbox = {}
  /\ reply = [r \in Request |-> None]

Goto(r, next) ==
  /\ stage' = [stage EXCEPT ![r] = next]
  /\ UNCHANGED <<body, reply>>

Reply(r, status) ==
  /\ stage' = [stage EXCEPT ![r] = "ended"]
  /\ reply' = [reply EXCEPT ![r] = status]
  /\ UNCHANGED body

(* mailService.send...(): the promise is not awaited.                      *)
Send(kind, to, of) == outbox' = outbox \cup {[kind |-> kind, to |-> to, of |-> of]}

SavePassword(r, id) ==
  /\ Accept(r, [op |-> "updatePassword", id |-> id, password |-> body[r].password])
  /\ Goto(r, "savePassword")

-----------------------------------------------------------------------------
(* A client knows the tokens of the links it was mailed, and can make up   *)
(* one that was never drawn (None).                                        *)
Known(b) == b.op = "resetPassword" =>
              b.token \in {None} \cup {m.of : m \in {n \in inbox : n.kind = "link"}}

Receive(r, b) ==
  /\ stage[r] = "idle" /\ pc[r] = "idle"
  /\ b.op \in Offered
  /\ Known(b)
  /\ stage' = [stage EXCEPT ![r] = "findUser"]
  /\ body' = [body EXCEPT ![r] = b]
  /\ UNCHANGED <<vars, redis, outbox, inbox, reply>>

(* signUp, the generate-admin script, readMe and updateProfile.            *)
CallUsers(r, c) ==
  /\ stage[r] = "idle"
  /\ c.op \in Offered \ {"updatePassword"}
  /\ Accept(r, c)
  /\ UNCHANGED authVars

(* findByEmailOrFail, or findByIdOrFail of the session's user.             *)
Wanted(r, id) == InTable(id) /\ IF body[r].op = "changePassword"
                                THEN id = body[r].id
                                ELSE users[id].email = body[r].email

(* Mutant of RightPassword: the two passwords of the body are mixed up.    *)
RightPasswordSwapped(r, id) == users[id].password.plain = body[r].password

(* changePassword: compare(currentPassword, hash).                         *)
RightPassword(r, id) == users[id].password.plain = body[r].current

FindUser(r) ==
  /\ stage[r] = "findUser"
  /\ UNCHANGED <<redis, outbox, inbox>>
  /\ \/ /\ \A id \in Id : ~Wanted(r, id)
        /\ Reply(r, 404)
        /\ UNCHANGED vars
     \/ /\ \E id \in Id : Wanted(r, id)
        /\ body[r].op = "forgotPassword"
        /\ Goto(r, "redisSet")
        /\ UNCHANGED vars
     \/ /\ \E id \in Id : Wanted(r, id)
        /\ body[r].op = "resetPassword"
        /\ Goto(r, "redisGet")
        /\ UNCHANGED vars
     \/ /\ body[r].op = "changePassword"
        /\ \E id \in Id : /\ Wanted(r, id)
                          /\ IF RightPassword(r, id)
                             THEN SavePassword(r, id)
                             ELSE Reply(r, 400) /\ UNCHANGED vars

-----------------------------------------------------------------------------
(* Mutant of StoreToken: SET with NX, an older token is not replaced.      *)
StoreTokenIfAbsent(r) ==
  /\ stage[r] = "redisSet"
  /\ redis' = IF redis[body[r].email] = None THEN [redis EXCEPT ![body[r].email] = r] ELSE redis

(* forgotPassword: SET key hash EX ttl.                                    *)
StoreToken(r) ==
  /\ stage[r] = "redisSet"
  /\ redis' = [redis EXCEPT ![body[r].email] = r]

SetToken(r) ==
  /\ StoreToken(r)
  /\ Goto(r, "sendLink")
  /\ UNCHANGED <<vars, outbox, inbox>>

(* The reply of SET has arrived: the mail, which nobody awaits.  Another   *)
(* forgotPassword may have replaced the token since.                       *)
SendLink(r) ==
  /\ stage[r] = "sendLink"
  /\ Send("link", body[r].email, r)
  /\ Reply(r, 201)
  /\ UNCHANGED <<vars, redis, inbox>>

(* Mutant of Accepted: the key does not depend on the address.             *)
AcceptedForAnyone(r) == body[r].token # None /\ \E e \in Email : redis[e] = body[r].token

(* resetPassword: GET and compare, then UsersService.updatePassword.  The  *)
(* row id was read by FindUser; it is the only row with that address.      *)
Accepted(r) == body[r].token # None /\ redis[body[r].email] = body[r].token

CheckToken(r) ==
  /\ stage[r] = "redisGet"
  /\ UNCHANGED <<redis, outbox, inbox>>
  /\ \/ /\ Accepted(r)
        /\ \E id \in Id : Wanted(r, id) /\ SavePassword(r, id)
     \/ /\ ~Accepted(r)
        /\ Reply(r, 400)
        /\ UNCHANGED vars

(* Mutants of Saved: the error of the inner call is swallowed; it is never *)
(* passed on.                                                              *)
SavedRegardless(r) ==
  /\ stage[r] = "savePassword" /\ pc[r] = "returned"
  /\ UNCHANGED <<vars, redis, inbox>>
  /\ IF IsReset(r)
     THEN Send("notice", body[r].email, r) /\ Goto(r, "redisDel")
     ELSE Reply(r, 200) /\ UNCHANGED outbox
SavedOrStuck(r) ==
  /\ stage[r] = "savePassword" /\ pc[r] = "returned" /\ result[r] = 200
  /\ UNCHANGED <<vars, redis, inbox>>
  /\ IF IsReset(r)
     THEN Send("notice", body[r].email, r) /\ Goto(r, "redisDel")
     ELSE Reply(r, 200) /\ UNCHANGED outbox

(* The code after `await userService.updatePassword(...)`.                 *)
Saved(r) ==
  /\ stage[r] = "savePassword" /\ pc[r] = "returned"
  /\ UNCHANGED <<vars, redis, inbox>>
  /\ \/ /\ result[r] # 200
        /\ Reply(r, result[r])
        /\ UNCHANGED outbox
     \/ /\ result[r] = 200
        /\ IsChange(r)
        /\ Reply(r, 200)
        /\ UNCHANGED outbox
     \/ /\ result[r] = 200
        /\ IsReset(r)
        /\ Send("notice", body[r].email, r)
        /\ Goto(r, "redisDel")

(* Mutant of DropToken: the key is blanked, not deleted.                   *)
BlankToken(r) ==
  /\ stage[r] = "redisDel"
  /\ redis' = [redis EXCEPT ![body[r].email] = ""]

(* resetPassword: DEL of the key, whatever token is under it by now.       *)
DropToken(r) ==
  /\ stage[r] = "redisDel"
  /\ redis' = [redis EXCEPT ![body[r].email] = None]

(* Mutant of DelToken: the token is left for Redis to expire.              *)
LeaveToken(r) ==
  /\ stage[r] = "redisDel"
  /\ Reply(r, 200)
  /\ UNCHANGED <<vars, redis, outbox, inbox>>

DelToken(r) ==
  /\ DropToken(r)
  /\ Reply(r, 200)
  /\ UNCHANGED <<vars, outbox, inbox>>

-----------------------------------------------------------------------------
(* The command takes effect, its reply is lost and it will be sent again.  *)
RedisReplyLost(r) ==
  /\ StoreToken(r) \/ DropToken(r)
  /\ UNCHANGED <<vars, stage, body, outbox, inbox, reply>>

(* The user lookup or a Redis command is rejected: 500.                    *)
AwaitFails(r) ==
  /\ stage[r] \in Commanding
  /\ Reply(r, 500)
  /\ UNCHANGED <<vars, redis, outbox, inbox>>

AuthCrash(r) ==
  /\ stage[r] \in Suspended \ {"savePassword"}
  /\ Goto(r, "crashed")
  /\ UNCHANGED <<vars, redis, outbox, inbox>>

(* Redis drops a key when its time to live is over: at any time, to a      *)
(* program that does not know how long its awaits take.                    *)
Expire(e) ==
  /\ redis[e] # None
  /\ redis' = [redis EXCEPT ![e] = None]
  /\ UNCHANGED <<vars, stage, body, outbox, inbox, reply>>

(* sendMail swallows the error of a mail that cannot be sent; a mail not   *)
(* yet sent dies with its process.                                         *)
Deliver(m) ==
  /\ m \in outbox
  /\ outbox' = outbox \ {m}
  /\ inbox' = inbox \cup {m}
  /\ UNCHANGED <<vars, stage, body, redis, reply>>

LoseMail(m) ==
  /\ m \in outbox
  /\ outbox' = outbox \ {m}
  /\ UNCHANGED <<vars, stage, body, redis, inbox, reply>>

UsersStep(r) == (Progress(r) \/ Disturb(r)) /\ UNCHANGED authVars

OperatorStep(id, status) == OperatorSetStatus(id, status) /\ UNCHANGED authVars

(* A handler whose inner call died with the process died with it.          *)
AuthEnded(r) ==
  \/ stage[r] \in {"ended", "crashed"}
  \/ stage[r] = "idle" /\ pc[r] \in Ended
  \/ stage[r] = "savePassword" /\ pc[r] = "crashed"

AuthFinished ==
  /\ \A r \in Request : AuthEnded(r)
  /\ UNCHANGED authAllVars

AuthProgress(r) ==
  \/ FindUser(r) \/ SetToken(r) \/ SendLink(r) \/ CheckToken(r) \/ Saved(r) \/ DelToken(r)
  \/ Progress(r) /\ UNCHANGED authVars

AuthNext ==
  \/ \E r \in Request : \/ \E b \in Body : Receive(r, b)
                        \/ \E c \in Call : CallUsers(r, c)
                        \/ FindUser(r) \/ SetToken(r) \/ SendLink(r) \/ CheckToken(r) \/ Saved(r)
                        \/ DelToken(r)
                        \/ RedisReplyLost(r) \/ AwaitFails(r) \/ AuthCrash(r)
                        \/ UsersStep(r)
  \/ \E id \in Id, status \in Status : OperatorStep(id, status)
  \/ \E e \in Email : Expire(e)
  \/ \E m \in outbox : Deliver(m) \/ LoseMail(m)
  \/ AuthFinished

AuthSpec == AuthInit /\ [][AuthNext]_authAllVars

-----------------------------------------------------------------------------
(* Every variable has its shape.                                           *)
AuthTypeOK ==
  /\ TypeOK
  /\ stage \in [Request -> Suspended \cup {"idle", "ended", "crashed"}]
  /\ body \in [Request -> Body \cup {None}]
  /\ redis \in [Email -> Request \cup {None}]
  /\ outbox \subseteq Mail
  /\ inbox \subseteq Mail
  /\ reply \in [Request -> {None, 200, 201, 400, 404, 500}]

(* A password in the table was put there by somebody entitled to it: a     *)
(* reset wrote it to the account whose address the reset link was asked    *)
(* for and mailed to, a change to the account of its own session, and it   *)
(* stays on that account through every stale save.                         *)
PasswordWrittenByOwner ==
  \A id \in Id, r \in Request :
    InTable(id) /\ users[id].password.salt = r =>
      /\ IsReset(r) => /\ users[id].email = body[r].email
                       /\ body[r].token # None
                       /\ body[body[r].token] = [op |-> "forgotPassword", email |-> users[id].email]
      /\ IsChange(r) => id = body[r].id
      /\ IsReset(r) \/ IsChange(r) \/ call[r].op = "register"

(* Once a reset is answered 200 its link is dead: no interleaving of       *)
(* forgotPassword calls, resent commands and other resets stores it again. *)
ConsumedTokenIsDead ==
  \A r \in Request : IsReset(r) /\ reply[r] = 200 =>
    \A e \in Email : redis[e] # body[r].token

(* The links as their owners see them: `accepted` holds the link that the  *)
(* check of a reset has let through.                                       *)
Links ==
  INSTANCE ResetLink
  WITH Account <- Email,
       valid <- redis,
       settled <- {r \in Request : stage[r] = "sendLink"},
       mailed <- {r \in Request : stage[r] = "ended" /\ reply[r] = 201},
       accepted <- [r \in Request |-> IF IsReset(r) /\ pc[r] # "idle" THEN body[r].token ELSE None]

(* Redis and the handlers implement the life cycle of reset links.         *)
ImplementsResetLinks == Links!Spec

=============================================================================
