-------------------------- MODULE AuthServiceProofs --------------------------
(***************************************************************************)
(* Proofs about AuthService, for any sets of requests, accounts and        *)
(* passwords.  What is proved of UsersService alone carries over, because  *)
(* every step of AuthService is a step of UsersService or leaves its       *)
(* variables alone.                                                        *)
(***************************************************************************)
EXTENDS AuthServiceHistory, UsersServiceProofs

Mailed(t) == stage[t] = "ended" /\ reply[t] = 201

(* What an auth handler may rely on at each await.                         *)
AuthHeld(r) ==
  /\ stage[r] = "idle" => body[r] = None /\ reply[r] = None
  /\ stage[r] # "idle" => body[r] \in Body
  /\ stage[r] \in {"redisSet", "sendLink"} => body[r] \in ForgotBody
  /\ stage[r] \in {"redisGet", "redisDel"} => body[r] \in ResetBody
  /\ stage[r] = "savePassword" => body[r] \in ResetBody \cup ChangeBody /\ call[r] \in PasswordCall
  /\ stage[r] \in {"findUser", "redisSet", "sendLink", "redisGet"} => pc[r] = "idle"
  /\ pc[r] = "returned" /\ stage[r] = "savePassword" => result[r] # 201

(* Tokens are stored under their own address only, and are known to        *)
(* clients only after they were mailed.                                    *)
LinksHeld ==
  /\ \A e \in Email : redis[e] # None =>
       body[redis[e]] \in ForgotBody /\ body[redis[e]].email = e
  /\ \A m \in outbox \cup inbox : m.kind = "link" => Mailed(m.of)
  /\ \A r \in Request : IsReset(r) /\ body[r].token # None => Mailed(body[r].token)

AuthTyped ==
  /\ stage \in [Request -> Suspended \cup {"idle", "ended", "crashed"}]
  /\ body \in [Request -> Body \cup {None}]
  /\ redis \in [Email -> Request \cup {None}]
  /\ outbox \subseteq Mail
  /\ inbox \subseteq Mail
  /\ reply \in [Request -> {None, 200, 201, 400, 404, 500}]

AuthInv ==
  /\ Inv
  /\ AuthTyped
  /\ \A r \in Request : AuthHeld(r)
  /\ LinksHeld

-----------------------------------------------------------------------------
(* The null value is neither a request nor a body.                         *)
LEMMA NoneIsNoBody == None \notin Request /\ None \notin Body
  BY AuthNoneAssumption

(* Handlers call UsersService with arguments it accepts.                   *)
LEMMA SavePasswordAccepts ==
  ASSUME AuthInv, NEW r \in Request, NEW id \in Id, SavePassword(r, id),
         body[r] \in ResetBody \cup ChangeBody
  PROVE  /\ \E c \in Call : Accept(r, c)
         /\ call'[r] \in PasswordCall
<1> DEFINE c == [op |-> "updatePassword", id |-> id, password |-> body[r].password]
<1>1. c \in PasswordCall
  BY DEF PasswordCall, ResetBody, ChangeBody
<1>2. Accept(r, c)
  BY DEF SavePassword
<1> HIDE DEF c
<1>3. call'[r] = c
  BY <1>2 DEF Accept, AuthInv, Inv, TypeOK
<1> QED BY <1>1, <1>2, <1>3 DEF Call

(* Composition: a step of AuthService is a step of UsersService or a       *)
(* stutter of it.                                                          *)
LEMMA AuthStepIsUsersStep == AuthInv /\ [AuthNext]_authAllVars => [Next]_vars
<1> SUFFICES ASSUME AuthInv, AuthNext PROVE [Next]_vars
  BY DEF authAllVars
<1>1. ASSUME NEW r \in Request, FindUser(r) PROVE [Next]_vars
  <2>1. CASE UNCHANGED vars
    BY <2>1
  <2>2. ASSUME NEW id \in Id, SavePassword(r, id), body[r].op = "changePassword" PROVE [Next]_vars
    <3>1. body[r] \in ChangeBody
      BY <1>1, <2>2 DEF AuthInv, AuthHeld, FindUser, Body, ForgotBody, ResetBody
    <3> QED BY <2>2, <3>1, SavePasswordAccepts DEF Next
  <2> QED BY <1>1, <2>1, <2>2 DEF FindUser
<1>2. ASSUME NEW r \in Request, CheckToken(r) PROVE [Next]_vars
  BY <1>2, SavePasswordAccepts DEF CheckToken, Next, AuthInv, AuthHeld
<1>3. ASSUME NEW r \in Request, NEW c \in Call, CallUsers(r, c) PROVE [Next]_vars
  BY <1>3 DEF CallUsers, Next
<1>4. ASSUME NEW r \in Request, UsersStep(r) PROVE [Next]_vars
  BY <1>4 DEF UsersStep, Next
<1>5. ASSUME NEW id \in Id, NEW status \in Status, OperatorStep(id, status) PROVE [Next]_vars
  BY <1>5 DEF OperatorStep, Next
<1> QED
  BY <1>1, <1>2, <1>3, <1>4, <1>5
  DEF AuthNext, Receive, SetToken, SendLink, Saved, DelToken, RedisReplyLost, AwaitFails, AuthCrash, Expire,
      Deliver, LoseMail, AuthFinished, authAllVars

-----------------------------------------------------------------------------
(* The steps taken by one request, and what they leave to the others.      *)
AuthStepOf(r) ==
  \/ \E b \in Body : Receive(r, b)
  \/ \E c \in Call : CallUsers(r, c)
  \/ FindUser(r) \/ SetToken(r) \/ SendLink(r) \/ CheckToken(r) \/ Saved(r) \/ DelToken(r)
  \/ RedisReplyLost(r) \/ AwaitFails(r) \/ AuthCrash(r)
  \/ UsersStep(r)

SameHandler(q) ==
  /\ stage'[q] = stage[q]
  /\ body'[q] = body[q]
  /\ reply'[q] = reply[q]
  /\ pc'[q] = pc[q]
  /\ call'[q] = call[q]
  /\ result'[q] = result[q]

(* The steps of the environment: time, the mail system, the operator.      *)
Outside ==
  \/ \E id \in Id, status \in Status : OperatorStep(id, status)
  \/ \E e \in Email : Expire(e)
  \/ \E m \in outbox : Deliver(m) \/ LoseMail(m)
  \/ UNCHANGED authAllVars

(* A step of the composed system is a step of one request or happens       *)
(* outside the handlers.                                                   *)
LEMMA AuthStepCases ==
  ASSUME [AuthNext]_authAllVars
  PROVE  (\E r \in Request : AuthStepOf(r)) \/ Outside
  BY DEF AuthNext, AuthStepOf, Outside, AuthFinished

(* What happens outside the handlers leaves every handler where it is.     *)
LEMMA OutsideFrame ==
  ASSUME Outside, NEW q \in Request
  PROVE  SameHandler(q)
  BY DEF Outside, OperatorStep, OperatorSetStatus, Expire, Deliver, LoseMail, SameHandler,
         authAllVars, authVars, vars

(* The step of one request leaves the UsersService calls of the others     *)
(* alone.                                                                  *)
LEMMA UsersFrame ==
  ASSUME AuthInv, NEW r \in Request, AuthStepOf(r), NEW q \in Request, q # r
  PROVE  pc'[q] = pc[q] /\ call'[q] = call[q] /\ result'[q] = result[q]
<1> USE DEF AuthInv, Inv, TypeOK
<1>1. CASE UNCHANGED vars
  BY <1>1 DEF vars
<1>2. ASSUME NEW c, Accept(r, c)
      PROVE  pc'[q] = pc[q] /\ call'[q] = call[q] /\ result'[q] = result[q]
  BY <1>2 DEF Accept, Await
<1>3. CASE UsersStep(r)
  BY <1>3, StepFrame DEF UsersStep, StepOf, SameRequest
<1> QED
  BY <1>1, <1>2, <1>3
  DEF AuthStepOf, Receive, CallUsers, FindUser, SetToken, SendLink, CheckToken, Saved, DelToken,
      RedisReplyLost, AwaitFails, AuthCrash, SavePassword

(* The step of one request leaves the handlers of the others alone.        *)
LEMMA HandlerFrame ==
  ASSUME AuthInv, NEW r \in Request, AuthStepOf(r), NEW q \in Request, q # r
  PROVE  SameHandler(q)
<1> DEFINE Same == stage'[q] = stage[q] /\ body'[q] = body[q] /\ reply'[q] = reply[q]
<1>1. Same
  <2> USE DEF AuthInv, AuthTyped
  <2>1. ASSUME NEW x, Goto(r, x) \/ Reply(r, x) PROVE Same
    BY <2>1 DEF Goto, Reply
  <2>2. ASSUME NEW b \in Body, Receive(r, b) PROVE Same
    BY <2>2 DEF Receive
  <2>3. CASE UNCHANGED <<stage, body, reply>>
    BY <2>3
  <2>4. FindUser(r) \/ CheckToken(r) => \E x : Goto(r, x) \/ Reply(r, x)
    BY DEF FindUser, CheckToken, SavePassword
  <2>5. Saved(r) \/ SetToken(r) \/ SendLink(r) \/ DelToken(r) => \E x : Goto(r, x) \/ Reply(r, x)
    BY DEF Saved, SetToken, SendLink, DelToken
  <2>6. AwaitFails(r) \/ AuthCrash(r) => \E x : Goto(r, x) \/ Reply(r, x)
    BY DEF AwaitFails, AuthCrash
  <2> HIDE DEF Same, AuthInv, AuthTyped
  <2> QED
    BY <2>1, <2>2, <2>3, <2>4, <2>5, <2>6
    DEF AuthStepOf, CallUsers, RedisReplyLost, UsersStep, authVars
<1> QED BY <1>1, UsersFrame DEF SameHandler

(* A handler that does not move keeps what it relies on.                   *)
LEMMA AuthHeldIsStable ==
  ASSUME NEW q \in Request, AuthHeld(q), SameHandler(q)
  PROVE  AuthHeld(q)'
  BY DEF AuthHeld, SameHandler

(* The invariant holds initially.                                          *)
LEMMA AuthInitInv == AuthInit => AuthInv
<1> SUFFICES ASSUME AuthInit PROVE AuthInv
  OBVIOUS
<1>1. Inv
  BY InitInv DEF AuthInit
<1>2. AuthTyped
  BY DEF AuthInit, AuthTyped
<1>3. \A r \in Request : AuthHeld(r)
  BY DEF AuthInit, Init, AuthHeld
<1>4. LinksHeld
  BY DEF AuthInit, LinksHeld, IsReset
<1> QED BY <1>1, <1>2, <1>3, <1>4 DEF AuthInv

(* What a handler relies on holds after each of its own steps.             *)
LEMMA StepAuthHeld ==
  ASSUME AuthInv, NEW r \in Request, AuthStepOf(r)
  PROVE  AuthHeld(r)'
<1>1. AuthHeld(r) /\ AuthTyped /\ TypeOK /\ Held(r)
  BY DEF AuthInv, Inv
<1> USE <1>1
<1>2. ASSUME NEW b \in Body, Receive(r, b) PROVE AuthHeld(r)'
  BY <1>2 DEF Receive, AuthHeld, AuthTyped, vars
<1>3. ASSUME NEW c \in Call, CallUsers(r, c) PROVE AuthHeld(r)'
  BY <1>3 DEF CallUsers, AuthHeld, authVars
<1>4. ASSUME NEW status, stage[r] # "idle", Reply(r, status) PROVE AuthHeld(r)'
  BY <1>4 DEF Reply, AuthHeld, AuthTyped
<1>5. ASSUME NEW id \in Id, SavePassword(r, id), body[r] \in ResetBody \cup ChangeBody
      PROVE  AuthHeld(r)'
  <2>1. call'[r] \in PasswordCall
    BY <1>5, SavePasswordAccepts
  <2>2. stage'[r] = "savePassword" /\ body'[r] = body[r] /\ pc'[r] # "returned"
    BY <1>5 DEF SavePassword, Goto, Accept, Await, AuthTyped, TypeOK
  <2> QED BY <1>5, <2>1, <2>2 DEF AuthHeld, Body
<1>6. ASSUME FindUser(r) PROVE AuthHeld(r)'
  <2>1. body[r] \in Body /\ pc[r] = "idle"
    BY <1>6 DEF AuthHeld, FindUser
  <2>2. CASE body[r].op = "forgotPassword" /\ Goto(r, "redisSet") /\ UNCHANGED vars
    BY <2>1, <2>2 DEF Body, ForgotBody, ResetBody, ChangeBody, Goto, AuthHeld, AuthTyped, vars
  <2>3. CASE body[r].op = "resetPassword" /\ Goto(r, "redisGet") /\ UNCHANGED vars
    BY <2>1, <2>3 DEF Body, ForgotBody, ResetBody, ChangeBody, Goto, AuthHeld, AuthTyped, vars
  <2>4. ASSUME NEW id \in Id, body[r].op = "changePassword", SavePassword(r, id)
        PROVE  AuthHeld(r)'
    BY <1>5, <2>1, <2>4 DEF Body, ForgotBody, ResetBody, ChangeBody
  <2> QED BY <1>4, <1>6, <2>2, <2>3, <2>4 DEF FindUser
<1>7. ASSUME CheckToken(r) PROVE AuthHeld(r)'
  BY <1>4, <1>5, <1>7 DEF CheckToken, AuthHeld
<1>8. ASSUME Saved(r) PROVE AuthHeld(r)'
  <2>1. CASE IsReset(r) /\ Goto(r, "redisDel") /\ UNCHANGED vars
    BY <1>8, <2>1 DEF Saved, Goto, AuthHeld, AuthTyped, Body, ForgotBody, ResetBody, ChangeBody,
                      IsReset, vars
  <2> QED BY <1>4, <1>8, <2>1 DEF Saved
<1>9. ASSUME SendLink(r) \/ DelToken(r) \/ AwaitFails(r) PROVE AuthHeld(r)'
  BY <1>4, <1>9 DEF SendLink, DelToken, DropToken, AwaitFails, Commanding
<1>13. ASSUME SetToken(r) PROVE AuthHeld(r)'
  BY <1>13 DEF SetToken, StoreToken, Goto, AuthHeld, AuthTyped, Body, vars
<1>10. ASSUME RedisReplyLost(r) PROVE AuthHeld(r)'
  BY <1>10 DEF RedisReplyLost, AuthHeld, vars
<1>11. ASSUME AuthCrash(r) PROVE AuthHeld(r)'
  BY <1>11 DEF AuthCrash, Goto, AuthHeld, AuthTyped, Suspended, Commanding, vars
<1>12. ASSUME UsersStep(r) PROVE AuthHeld(r)'
  <2>1. pc[r] \in Awaiting /\ call'[r] = call[r] /\ UNCHANGED authVars
    BY <1>12 DEF UsersStep, Progress, Disturb, ExistsBy, Insert, InsertRow, InsertDuplicate, Find,
                 Load, Update, UpdateRow, QueryFails, CommitUnacknowledged, Crash, Answer, Die,
                 Awaiting
  <2>2. Registered(r)' => call'[r] \in RegisterCall
    BY <1>12, StepHeld DEF AuthInv, UsersStep, StepOf, Held
  <2>3. call[r] \in PasswordCall => call[r] \notin RegisterCall
    BY DEF PasswordCall, RegisterCall
  <2> QED BY <2>1, <2>2, <2>3 DEF AuthHeld, authVars, Registered, Awaiting
<1> QED
  BY <1>2, <1>3, <1>6, <1>7, <1>8, <1>9, <1>10, <1>11, <1>12, <1>13 DEF AuthStepOf

-----------------------------------------------------------------------------
(* The types of the handlers' variables, action by action.                 *)
LEMMA StepAuthTyped ==
  ASSUME AuthInv, NEW r \in Request, AuthStepOf(r)
  PROVE  AuthTyped'
<1>1. AuthTyped /\ AuthHeld(r) /\ TypeOK
  BY DEF AuthInv, Inv
<1> USE <1>1
<1> DEFINE Rest == /\ redis' \in [Email -> Request \cup {None}]
                   /\ outbox' \subseteq Mail
                   /\ inbox' \subseteq Mail
<1>2. ASSUME NEW b \in Body, Receive(r, b) PROVE AuthTyped'
  BY <1>2 DEF Receive, AuthTyped, Suspended, Commanding
<1>3. ASSUME NEW next \in Suspended \cup {"crashed"}, Goto(r, next), Rest PROVE AuthTyped'
  BY <1>3 DEF Goto, AuthTyped
<1>4. ASSUME NEW status \in {None, 200, 201, 400, 404, 500}, Reply(r, status), Rest PROVE AuthTyped'
  BY <1>4 DEF Reply, AuthTyped
<1>5. CASE UNCHANGED authVars
  BY <1>5 DEF authVars, AuthTyped
<1>6. UNCHANGED <<redis, outbox, inbox>> => Rest
  BY DEF AuthTyped
<1>7. ASSUME NEW id \in Id, SavePassword(r, id), UNCHANGED <<redis, outbox, inbox>> PROVE AuthTyped'
  BY <1>3, <1>6, <1>7 DEF SavePassword, Suspended
<1>8. ASSUME FindUser(r) \/ CheckToken(r) \/ AwaitFails(r) \/ AuthCrash(r) PROVE AuthTyped'
  <2> HIDE DEF Rest
  <2> QED BY <1>3, <1>4, <1>6, <1>7, <1>8 DEF FindUser, CheckToken, AwaitFails, AuthCrash,
                                              Suspended, Commanding
<1>9. ASSUME SetToken(r) PROVE AuthTyped'
  <2>1. Rest
    BY <1>9 DEF SetToken, StoreToken, AuthTyped
  <2> HIDE DEF Rest
  <2> QED BY <1>3, <1>9, <2>1 DEF SetToken, Suspended
<1>13. ASSUME SendLink(r) PROVE AuthTyped'
  <2>1. body[r].email \in Email
    BY <1>13 DEF SendLink, AuthHeld, ForgotBody
  <2>2. Rest
    BY <1>13, <2>1 DEF SendLink, Send, Mail, AuthTyped
  <2> QED BY <1>4, <1>13, <2>2 DEF SendLink
<1>10. ASSUME DelToken(r) PROVE AuthTyped'
  <2>1. Rest
    BY <1>10 DEF DelToken, DropToken, AuthTyped
  <2> QED BY <1>4, <1>10, <2>1 DEF DelToken
<1>11. ASSUME Saved(r) PROVE AuthTyped'
  <2>1. result[r] \in {None, 200, 201, 400, 404, 500}
    BY DEF TypeOK
  <2>2. IsReset(r) => body[r].email \in Email
    BY <1>11 DEF Saved, IsReset, AuthHeld, ResetBody, ChangeBody
  <2>3. Rest
    BY <1>11, <2>2 DEF Saved, Send, Mail, AuthTyped
  <2> HIDE DEF Rest
  <2> QED BY <1>3, <1>4, <1>11, <2>1, <2>3 DEF Saved, Suspended, Commanding
<1>12. ASSUME RedisReplyLost(r) PROVE AuthTyped'
  BY <1>12 DEF RedisReplyLost, StoreToken, DropToken, AuthTyped
<1> QED
  BY <1>2, <1>5, <1>8, <1>9, <1>10, <1>11, <1>12, <1>13 DEF AuthStepOf, CallUsers, UsersStep

(* What happens outside the handlers keeps the types.                      *)
LEMMA OutsideAuthTyped ==
  ASSUME AuthInv, Outside
  PROVE  AuthTyped'
<1>1. AuthTyped
  BY DEF AuthInv
<1> QED
  BY <1>1 DEF Outside, OperatorStep, Expire, Deliver, LoseMail, authAllVars, authVars, AuthTyped

-----------------------------------------------------------------------------
(* A mailed link stays mailed, and a body stays what it was.               *)
LEMMA HandlerIsStable ==
  ASSUME AuthInv, NEW r \in Request, AuthStepOf(r), NEW q \in Request
  PROVE  /\ Mailed(q) => Mailed(q)'
         /\ body[q] # None => body'[q] = body[q]
<1>1. CASE q # r
  BY <1>1, HandlerFrame DEF SameHandler, Mailed
<1>2. CASE q = r
  <2>1. AuthHeld(r)
    BY DEF AuthInv
  <2>2. stage[r] # "idle" => body'[r] = body[r]
    BY DEF AuthStepOf, Receive, CallUsers, FindUser, SetToken, SendLink, CheckToken, Saved, DelToken,
           RedisReplyLost, AwaitFails, AuthCrash, UsersStep, SavePassword, Goto, Reply, authVars
  <2>3. stage[r] = "ended" => stage'[r] = stage[r] /\ reply'[r] = reply[r]
    BY DEF AuthStepOf, Receive, CallUsers, FindUser, SetToken, SendLink, StoreToken, CheckToken, Saved,
           DelToken, DropToken, RedisReplyLost, AwaitFails, AuthCrash, UsersStep, Suspended,
           Commanding, authVars
  <2> QED BY <1>2, <2>1, <2>2, <2>3 DEF Mailed, AuthHeld
<1> QED BY <1>1, <1>2

(* Which links a step stores and which mails it sends.                     *)
LEMMA StepRedis ==
  ASSUME AuthInv, NEW r \in Request, AuthStepOf(r)
  PROVE  \/ UNCHANGED redis
         \/ StoreToken(r)
         \/ DropToken(r)
  BY DEF AuthStepOf, Receive, CallUsers, FindUser, SetToken, SendLink, CheckToken, Saved, DelToken,
         RedisReplyLost, AwaitFails, AuthCrash, UsersStep, authVars

(* A step mails the link of its own request only, and only when it ends    *)
(* with 201.                                                               *)
LEMMA StepLinkMails ==
  ASSUME AuthInv, NEW r \in Request, AuthStepOf(r), NEW m \in outbox' \cup inbox', m.kind = "link"
  PROVE  m \in outbox \cup inbox \/ (m.of = r /\ Mailed(r)')
<1>1. CASE SendLink(r)
  <2>1. Mailed(r)'
    BY <1>1 DEF SendLink, Reply, Mailed, AuthInv, AuthTyped
  <2> QED BY <1>1, <2>1 DEF SendLink, Send
<1>2. CASE Saved(r)
  BY <1>2 DEF Saved, Send
<1>3. CASE UNCHANGED <<outbox, inbox>>
  BY <1>3
<1> QED
  BY <1>1, <1>2, <1>3
  DEF AuthStepOf, Receive, CallUsers, FindUser, SetToken, CheckToken, DelToken, RedisReplyLost,
      AwaitFails, AuthCrash, UsersStep, authVars

(* Stored and mailed links stay the links of forgot-password requests for  *)
(* that address.                                                           *)
LEMMA StepLinksHeld ==
  ASSUME AuthInv, NEW r \in Request, AuthStepOf(r)
  PROVE  LinksHeld'
<1>1. LinksHeld /\ AuthTyped /\ AuthHeld(r)
  BY DEF AuthInv
<1>2. ASSUME NEW e \in Email, redis'[e] # None
      PROVE  body'[redis'[e]] \in ForgotBody /\ body'[redis'[e]].email = e
  <2>1. CASE redis'[e] = redis[e]
    <3>1. redis[e] \in Request /\ body[redis[e]] \in ForgotBody /\ body[redis[e]].email = e
      BY <1>1, <1>2, <2>1 DEF LinksHeld, AuthTyped
    <3>2. body[redis[e]] # None
      BY <3>1, NoneIsNoBody DEF Body
    <3> QED BY <2>1, <3>1, <3>2, HandlerIsStable
  <2>2. CASE StoreToken(r) /\ redis'[e] # redis[e]
    <3>1. body[r] \in ForgotBody
      BY <1>1, <2>2 DEF AuthHeld, StoreToken
    <3>2. e = body[r].email /\ redis'[e] = r
      BY <1>1, <2>2 DEF StoreToken, AuthTyped
    <3>3. body[r] # None
      BY <3>1, NoneIsNoBody DEF Body
    <3> QED BY <3>1, <3>2, <3>3, HandlerIsStable
  <2>3. CASE DropToken(r)
    BY <1>1, <1>2, <2>1, <2>3 DEF DropToken, AuthTyped
  <2> QED BY <2>1, <2>2, <2>3, StepRedis
<1>3. ASSUME NEW m \in outbox' \cup inbox', m.kind = "link" PROVE Mailed(m.of)'
  <2>1. CASE m \in outbox \cup inbox
    <3>1. m.of \in Request /\ Mailed(m.of)
      BY <1>1, <1>3, <2>1 DEF LinksHeld, AuthTyped, Mail
    <3> QED BY <3>1, HandlerIsStable
  <2> QED BY <1>3, <2>1, StepLinkMails
<1>4. ASSUME NEW q \in Request, IsReset(q)', body'[q].token # None PROVE Mailed(body[q].token)'
  <2>1. CASE body[q] # None
    <3>1. body'[q] = body[q] /\ IsReset(q) /\ body[q] \in Body
      BY <1>1, <1>4, <2>1, HandlerIsStable DEF IsReset, AuthTyped
    <3>2. PICK t \in Request : t = body[q].token /\ Mailed(t)
      BY <1>1, <1>4, <3>1 DEF LinksHeld, IsReset, Body, ForgotBody, ResetBody, ChangeBody
    <3>3. Mailed(t)'
      BY <3>2, HandlerIsStable
    <3> QED BY <3>1, <3>2, <3>3 DEF Mailed
  <2>2. CASE body[q] = None
    <3>1. PICK b \in Body : Receive(r, b) /\ q = r
      <4>1. body'[q] # body[q]
        BY <1>4, <2>2 DEF IsReset
      <4>2. q = r
        BY <4>1, HandlerFrame DEF SameHandler
      <4>3. (\E b \in Body : Receive(r, b)) \/ UNCHANGED body
        BY DEF AuthStepOf, CallUsers, FindUser, SetToken, SendLink, CheckToken, Saved, DelToken,
               RedisReplyLost, AwaitFails, AuthCrash, UsersStep, SavePassword, Goto, Reply,
               authVars
      <4> QED BY <4>1, <4>2, <4>3
    <3>2. body'[q] = b
      BY <1>1, <3>1 DEF Receive, AuthTyped
    <3>3. PICK m \in inbox : m.kind = "link" /\ m.of = b.token
      BY <1>4, <3>1, <3>2 DEF Receive, Known, IsReset
    <3>4. m.of \in Request /\ Mailed(m.of)
      BY <1>1, <3>3 DEF LinksHeld, AuthTyped, Mail
    <3>5. Mailed(m.of)'
      BY <3>4, HandlerIsStable
    <3> QED BY <3>2, <3>3, <3>5 DEF Mailed
  <2> QED BY <2>1, <2>2
<1> QED BY <1>2, <1>3, <1>4 DEF LinksHeld

(* Expiry and the mail server keep that too.                               *)
LEMMA OutsideLinksHeld ==
  ASSUME AuthInv, Outside
  PROVE  LinksHeld'
<1>1. LinksHeld /\ AuthTyped
  BY DEF AuthInv
<1>2. UNCHANGED <<stage, body, reply>>
  BY DEF Outside, OperatorStep, Expire, Deliver, LoseMail, authAllVars, authVars
<1>3. outbox' \cup inbox' \subseteq outbox \cup inbox
  BY DEF Outside, OperatorStep, Expire, Deliver, LoseMail, authAllVars, authVars
<1>4. \A e \in Email : redis'[e] = redis[e] \/ redis'[e] = None
  BY <1>1 DEF Outside, OperatorStep, Expire, Deliver, LoseMail, authAllVars, authVars, AuthTyped
<1> QED BY <1>1, <1>2, <1>3, <1>4 DEF LinksHeld, Mailed, IsReset

(* The invariant is inductive.                                             *)
LEMMA AuthNextInv == AuthInv /\ [AuthNext]_authAllVars => AuthInv'
<1> SUFFICES ASSUME AuthInv, [AuthNext]_authAllVars PROVE AuthInv'
  OBVIOUS
<1>1. Inv'
  BY AuthStepIsUsersStep, NextInv DEF AuthInv
<1>2. ASSUME NEW r \in Request, AuthStepOf(r) PROVE AuthInv'
  <2>1. ASSUME NEW q \in Request PROVE AuthHeld(q)'
    BY <1>2, HandlerFrame, AuthHeldIsStable, StepAuthHeld DEF AuthInv
  <2> QED BY <1>1, <1>2, <2>1, StepAuthTyped, StepLinksHeld DEF AuthInv
<1>3. CASE Outside
  <2>1. ASSUME NEW q \in Request PROVE AuthHeld(q)'
    BY <1>3, OutsideFrame, AuthHeldIsStable DEF AuthInv
  <2> QED BY <1>1, <1>3, <2>1, OutsideAuthTyped, OutsideLinksHeld DEF AuthInv
<1> QED BY <1>2, <1>3, AuthStepCases

(* The inductive invariant holds in every reachable state of AuthService.  *)
THEOREM AuthInvariance == AuthSpec => []AuthInv
  BY AuthInitInv, AuthNextInv, PTL DEF AuthSpec

(* Type correctness of the composed system.                                *)
THEOREM AuthTypeCorrect == AuthSpec => []AuthTypeOK
<1>1. AuthInv => AuthTypeOK
  BY DEF AuthInv, Inv, AuthTyped, AuthTypeOK
<1> QED BY <1>1, AuthInvariance, PTL

(* The auth handlers reach the users table only through UsersService: the  *)
(* composed system implements the UsersService specification.              *)
THEOREM AuthImplementsUsers == AuthSpec => Spec
<1>1. AuthInit => Init
  BY DEF AuthInit
<1> QED BY <1>1, AuthStepIsUsersStep, AuthInvariance, PTL DEF AuthSpec, Spec

(* Hence, with sign-ups, resets and password changes running together, the *)
(* table still implements the account directory.                           *)
THEOREM AuthImplementsDirectory == AuthSpec => ImplementsDirectory
  BY AuthImplementsUsers, UsersImplementDirectory, PTL

-----------------------------------------------------------------------------
(* The refinement of ResetLink.                                            *)
SettledLinks == {r \in Request : stage[r] = "sendLink"}
MailedLinks == {r \in Request : stage[r] = "ended" /\ reply[r] = 201}
AcceptedLinks ==
  [r \in Request |-> IF IsReset(r) /\ pc[r] # "idle" THEN body[r].token ELSE None]

(* A handler answers 201 only when it has mailed a token.                  *)
LEMMA OnlySendLinkMails ==
  ASSUME AuthInv, NEW r \in Request, AuthStepOf(r), ~SendLink(r)
  PROVE  MailedLinks' = MailedLinks
<1>1. AuthHeld(r) /\ AuthTyped
  BY DEF AuthInv
<1>2. ASSUME NEW q \in Request, q # r PROVE Mailed(q)' <=> Mailed(q)
  BY <1>2, HandlerFrame DEF SameHandler, Mailed
<1>3. Mailed(r) => Mailed(r)'
  BY HandlerIsStable
<1>4. ASSUME ~Mailed(r) PROVE ~Mailed(r)'
  <2> USE <1>1 DEF AuthTyped, Mailed
  <2>1. ASSUME NEW status, status # 201, Reply(r, status) PROVE ~Mailed(r)'
    BY <2>1 DEF Reply
  <2>2. ASSUME NEW next, next # "ended", Goto(r, next) PROVE ~Mailed(r)'
    BY <2>2 DEF Goto
  <2>3. CASE UNCHANGED <<stage, reply>>
    BY <1>4, <2>3
  <2>4. ASSUME Saved(r) PROVE ~Mailed(r)'
    BY <2>1, <2>2, <2>4 DEF Saved, AuthHeld
  <2>5. ASSUME NEW b \in Body, Receive(r, b) PROVE ~Mailed(r)'
    BY <2>5 DEF Receive
  <2>6. ASSUME FindUser(r) \/ CheckToken(r) PROVE ~Mailed(r)'
    <3>1. CASE Reply(r, 404) \/ Reply(r, 400)
      BY <2>1, <3>1
    <3>2. CASE Goto(r, "redisSet") \/ Goto(r, "redisGet") \/ Goto(r, "savePassword")
      BY <2>2, <3>2
    <3> QED BY <2>6, <3>1, <3>2 DEF FindUser, CheckToken, SavePassword
  <2>7. ASSUME SetToken(r) \/ DelToken(r) \/ AwaitFails(r) \/ AuthCrash(r) PROVE ~Mailed(r)'
    BY <2>1, <2>2, <2>7 DEF SetToken, DelToken, AwaitFails, AuthCrash
  <2> QED
    BY <2>3, <2>4, <2>5, <2>6, <2>7
    DEF AuthStepOf, CallUsers, RedisReplyLost, UsersStep, authVars
<1>5. \A q \in Request : Mailed(q)' <=> Mailed(q)
  BY <1>2, <1>3, <1>4
<1> QED BY <1>5 DEF MailedLinks, Mailed

(* A link is settled by the reply of its SET, until its handler goes on.   *)
LEMMA SettledLinksStep ==
  ASSUME AuthInv, NEW r \in Request, AuthStepOf(r)
  PROVE  IF SetToken(r) THEN SettledLinks' = SettledLinks \cup {r}
         ELSE IF stage[r] = "sendLink" THEN SettledLinks' = SettledLinks \ {r}
         ELSE SettledLinks' = SettledLinks
<1> USE DEF AuthInv, AuthTyped
<1>1. \A q \in Request \ {r} : stage'[q] = stage[q]
  BY HandlerFrame DEF SameHandler
<1>2. CASE SetToken(r)
  <2>1. stage'[r] = "sendLink"
    BY <1>2 DEF SetToken, Goto
  <2> QED BY <1>1, <1>2, <2>1 DEF SettledLinks
<1>3. ASSUME ~SetToken(r), stage[r] = "sendLink" PROVE stage'[r] # "sendLink"
  <2>1. SendLink(r) \/ AuthCrash(r)
    <3>1. pc[r] = "idle"
      BY <1>3 DEF AuthHeld
    <3> QED
      BY <1>3, <3>1
      DEF AuthStepOf, Receive, CallUsers, FindUser, SetToken, StoreToken, CheckToken, Saved,
          DelToken, DropToken, RedisReplyLost, AwaitFails, Commanding, UsersStep, Progress, Disturb,
          ExistsBy, Insert, InsertRow, InsertDuplicate, Find, Load, Update, UpdateRow, QueryFails,
          CommitUnacknowledged, Crash, Awaiting
  <2> QED BY <2>1 DEF SendLink, AuthCrash, Goto, Reply
<1>4. ASSUME ~SetToken(r), stage[r] # "sendLink" PROVE stage'[r] # "sendLink"
  <2>1. ASSUME NEW next, next # "sendLink", Goto(r, next) PROVE stage'[r] # "sendLink"
    BY <2>1 DEF Goto
  <2>2. ASSUME NEW status, Reply(r, status) PROVE stage'[r] # "sendLink"
    BY <2>2 DEF Reply
  <2>3. CASE UNCHANGED stage
    BY <1>4, <2>3
  <2>4. CASE FindUser(r) \/ CheckToken(r) \/ Saved(r)
    BY <2>1, <2>2, <2>4 DEF FindUser, CheckToken, Saved, SavePassword
  <2>5. CASE SendLink(r) \/ DelToken(r) \/ AwaitFails(r) \/ AuthCrash(r)
    BY <2>1, <2>2, <2>5 DEF SendLink, DelToken, AwaitFails, AuthCrash
  <2> QED
    BY <1>4, <2>3, <2>4, <2>5
    DEF AuthStepOf, Receive, CallUsers, RedisReplyLost, UsersStep, authVars
<1>5. CASE ~SetToken(r) /\ stage[r] = "sendLink"
  BY <1>1, <1>3, <1>5 DEF SettledLinks
<1>6. CASE ~SetToken(r) /\ stage[r] # "sendLink"
  BY <1>1, <1>4, <1>6 DEF SettledLinks
<1> QED BY <1>2, <1>5, <1>6

(* The reply of a mailed link, or nothing at all.                          *)
LEMMA SendLinkMails ==
  ASSUME AuthInv, NEW r \in Request, SendLink(r)
  PROVE  MailedLinks' = MailedLinks \cup {r}
  BY DEF SendLink, Reply, MailedLinks, AuthInv, AuthTyped

(* A link is accepted only by the check of a reset.                        *)
LEMMA OnlyCheckTokenAccepts ==
  ASSUME AuthInv, NEW r \in Request, AuthStepOf(r), ~(CheckToken(r) /\ Accepted(r))
  PROVE  AcceptedLinks' = AcceptedLinks
<1> DEFINE In(q) == IsReset(q) /\ pc[q] # "idle"
<1>1. AuthHeld(r) /\ AuthTyped /\ TypeOK
  BY DEF AuthInv, Inv
<1>2. ASSUME NEW q \in Request, q # r
      PROVE  (In(q)' <=> In(q)) /\ body'[q] = body[q]
  BY <1>2, HandlerFrame DEF SameHandler, IsReset
<1>3. body[r] # None => body'[r] = body[r]
  BY HandlerIsStable
<1>4. In(r) => In(r)'
  <2>1. pc[r] # "idle" => pc'[r] # "idle"
    BY <1>1 DEF AuthStepOf, Receive, CallUsers, FindUser, SetToken, SendLink, CheckToken, Saved, DelToken,
       RedisReplyLost, AwaitFails, AuthCrash, UsersStep, SavePassword, Accept, Progress, Disturb,
       ExistsBy, Insert, InsertDuplicate, Find, Load, Update, QueryFails, CommitUnacknowledged,
       Crash, Await, Answer, Die, TypeOK, vars
  <2> QED BY <1>3, <2>1 DEF IsReset
<1>5. ASSUME ~In(r) PROVE ~In(r)'
  <2>1. CASE UNCHANGED vars /\ UNCHANGED body
    BY <1>5, <2>1 DEF vars, IsReset
  <2>2. ASSUME NEW b \in Body, Receive(r, b) PROVE ~In(r)'
    BY <2>2 DEF Receive, vars
  <2>3. CASE body[r] = None /\ UNCHANGED body
    BY <2>3 DEF IsReset
  <2>4. CASE UsersStep(r)
    BY <1>5, <2>4 DEF UsersStep, authVars, IsReset, Progress, Disturb, ExistsBy, Insert, InsertRow,
       InsertDuplicate, Find, Load, Update, UpdateRow, QueryFails, CommitUnacknowledged, Crash,
       Awaiting
  <2>5. ASSUME NEW id \in Id, body[r].op = "changePassword", SavePassword(r, id) PROVE ~In(r)'
    BY <2>5 DEF SavePassword, Goto, IsReset
  <2> QED
    BY <1>1, <2>1, <2>2, <2>3, <2>4, <2>5
    DEF AuthStepOf, CallUsers, FindUser, SetToken, SendLink, CheckToken, Saved, DelToken, RedisReplyLost,
        AwaitFails, AuthCrash, AuthHeld, Goto, Reply, authVars
<1>6. \A q \in Request : (In(q)' <=> In(q)) /\ (In(q) => body'[q] = body[q])
  BY <1>2, <1>3, <1>4, <1>5 DEF IsReset
<1> QED BY <1>6 DEF AcceptedLinks

(* The actions of ResetLink, through the refinement mapping.               *)
LinkRenewed(a, link) ==
  /\ link \notin SettledLinks \cup MailedLinks
  /\ \A b \in Email \ {a} : redis[b] # link
  /\ redis' = [redis EXCEPT ![a] = link]

LinkStep ==
  \/ \E a \in Email, link \in Request :
       /\ LinkRenewed(a, link)
       /\ SettledLinks' = SettledLinks \/ SettledLinks' = SettledLinks \cup {link}
       /\ UNCHANGED <<MailedLinks, AcceptedLinks>>
  \/ \E link \in Request :
       /\ link \in SettledLinks
       /\ SettledLinks' = SettledLinks \ {link}
       /\ MailedLinks' = MailedLinks \/ MailedLinks' = MailedLinks \cup {link}
       /\ UNCHANGED <<redis, AcceptedLinks>>
  \/ \E a \in Email : /\ redis' = [redis EXCEPT ![a] = None]
                       /\ UNCHANGED <<SettledLinks, MailedLinks, AcceptedLinks>>
  \/ \E r, link \in Request, a \in Email :
       /\ AcceptedLinks[r] = None
       /\ link \in MailedLinks
       /\ redis[a] = link
       /\ AcceptedLinks' = [AcceptedLinks EXCEPT ![r] = link]
       /\ UNCHANGED <<redis, SettledLinks, MailedLinks>>

(* A SET, the first or a resent one, renews the link of its address.       *)
LEMMA StoringRenews ==
  ASSUME AuthInv, NEW r \in Request, StoreToken(r)
  PROVE  body[r].email \in Email /\ LinkRenewed(body[r].email, r)
<1>1. AuthHeld(r) /\ LinksHeld /\ AuthTyped
  BY DEF AuthInv
<1>2. body[r].email \in Email
  BY <1>1 DEF AuthHeld, StoreToken, ForgotBody
<1>3. r \notin SettledLinks \cup MailedLinks
  BY DEF StoreToken, SettledLinks, MailedLinks
<1>4. ASSUME NEW b \in Email, b # body[r].email PROVE redis[b] # r
  BY <1>1, <1>4, NoneIsNoBody DEF LinksHeld
<1> QED BY <1>2, <1>3, <1>4 DEF LinkRenewed, StoreToken

(* A check that lets a reset through uses a mailed link valid at that      *)
(* moment.                                                                 *)
LEMMA AcceptingUses ==
  ASSUME AuthInv, NEW r \in Request, CheckToken(r), Accepted(r)
  PROVE  LinkStep
<1>1. AuthHeld(r) /\ LinksHeld /\ AuthTyped /\ TypeOK
  BY DEF AuthInv, Inv
<1>2. body[r] \in ResetBody /\ pc[r] = "idle"
  BY <1>1 DEF AuthHeld, CheckToken
<1>3. IsReset(r) /\ body[r].email \in Email
  BY <1>2, NoneIsNoBody DEF IsReset, Body, ResetBody
<1>4. PICK link \in Request : link = body[r].token
  BY <1>2 DEF Accepted, ResetBody
<1>5. link \in MailedLinks /\ redis[body[r].email] = link
  BY <1>1, <1>3, <1>4 DEF LinksHeld, MailedLinks, Mailed, Accepted
<1>6. AcceptedLinks[r] = None
  BY <1>2 DEF AcceptedLinks
<1>7. UNCHANGED redis
  BY DEF CheckToken
<1>8. UNCHANGED <<SettledLinks, MailedLinks>>
  <2>1. AuthStepOf(r) /\ ~SetToken(r) /\ ~SendLink(r) /\ stage[r] # "sendLink"
    BY DEF AuthStepOf, CheckToken, SetToken, SendLink, StoreToken
  <2> QED BY <2>1, OnlySendLinkMails, SettledLinksStep
<1>9. AcceptedLinks' = [AcceptedLinks EXCEPT ![r] = link]
  <2>1. AuthStepOf(r)
    BY DEF AuthStepOf
  <2>2. body'[r] = body[r] /\ pc'[r] # "idle"
    BY <1>1 DEF CheckToken, SavePassword, Goto, Accept, Await, TypeOK
  <2>3. \A q \in Request \ {r} : body'[q] = body[q] /\ pc'[q] = pc[q]
    BY <2>1, HandlerFrame DEF SameHandler
  <2> QED BY <1>3, <1>4, <2>2, <2>3 DEF AcceptedLinks, IsReset
<1> QED BY <1>3, <1>5, <1>6, <1>7, <1>8, <1>9 DEF LinkStep

(* Every step of the composed system is a step in the life of the links    *)
(* or a stutter.                                                           *)
LEMMA AuthStepIsLinkStep ==
  AuthInv /\ [AuthNext]_authAllVars =>
    LinkStep \/ UNCHANGED <<redis, SettledLinks, MailedLinks, AcceptedLinks>>
<1> DEFINE Stutter == UNCHANGED <<redis, SettledLinks, MailedLinks, AcceptedLinks>>
<1> SUFFICES ASSUME AuthInv, [AuthNext]_authAllVars PROVE LinkStep \/ Stutter
  OBVIOUS
<1>1. ASSUME NEW r \in Request, AuthStepOf(r) PROVE LinkStep \/ Stutter
  <2>1. CASE CheckToken(r) /\ Accepted(r)
    BY <2>1, AcceptingUses
  <2>2. CASE ~(CheckToken(r) /\ Accepted(r))
    <3>1. AcceptedLinks' = AcceptedLinks
      BY <1>1, <2>2, OnlyCheckTokenAccepts
    <3>2. CASE SetToken(r)
      <4>1. MailedLinks' = MailedLinks
        BY <1>1, <3>2, OnlySendLinkMails DEF SetToken, StoreToken, SendLink
      <4>2. SettledLinks' = SettledLinks \cup {r}
        BY <1>1, <3>2, SettledLinksStep
      <4> QED BY <3>1, <3>2, <4>1, <4>2, StoringRenews DEF SetToken, LinkStep
    <3>3. CASE ~SetToken(r) /\ stage[r] = "sendLink"
      <4>1. r \in SettledLinks /\ SettledLinks' = SettledLinks \ {r}
        BY <1>1, <3>3, SettledLinksStep DEF SettledLinks
      <4>2. MailedLinks' = MailedLinks \/ MailedLinks' = MailedLinks \cup {r}
        BY <1>1, OnlySendLinkMails, SendLinkMails
      <4>3. UNCHANGED redis
        BY <1>1, <3>3, StepRedis DEF StoreToken, DropToken
      <4> QED BY <3>1, <4>1, <4>2, <4>3 DEF LinkStep
    <3>4. CASE ~SetToken(r) /\ stage[r] # "sendLink"
      <4>1. UNCHANGED <<SettledLinks, MailedLinks, AcceptedLinks>>
        BY <1>1, <3>1, <3>4, OnlySendLinkMails, SettledLinksStep DEF SendLink
      <4>2. CASE UNCHANGED redis
        BY <4>1, <4>2
      <4>3. CASE StoreToken(r)
        BY <4>1, <4>3, StoringRenews DEF LinkStep
      <4>4. CASE DropToken(r)
        <5>1. body[r].email \in Email
          BY <4>4 DEF DropToken, AuthInv, AuthHeld, ResetBody
        <5> QED BY <4>1, <4>4, <5>1 DEF DropToken, LinkStep
      <4> QED BY <1>1, <4>2, <4>3, <4>4, StepRedis
    <3> QED BY <3>2, <3>3, <3>4
  <2> QED BY <2>1, <2>2
<1>2. CASE Outside
  <2>1. UNCHANGED <<SettledLinks, MailedLinks, AcceptedLinks>>
    BY <1>2, OutsideFrame DEF SameHandler, SettledLinks, MailedLinks, AcceptedLinks, IsReset
  <2>2. UNCHANGED redis \/ \E e \in Email : redis' = [redis EXCEPT ![e] = None]
    BY <1>2 DEF Outside, OperatorStep, Expire, Deliver, LoseMail, authAllVars, authVars
  <2> QED BY <2>1, <2>2 DEF LinkStep
<1> QED BY <1>1, <1>2, AuthStepCases

(* Redis and the handlers implement the life cycle of reset links: a link  *)
(* is valid for one account only, is mailed after it became valid, never   *)
(* becomes valid again once its handler goes on to mail it, and is         *)
(* accepted only while valid.                                              *)
THEOREM AuthImplementsResetLinks == AuthSpec => ImplementsResetLinks
<1>1. AuthInit => Links!Init
  BY DEF AuthInit, Init, Links!Init, IsReset
<1>2. AuthInv /\ [AuthNext]_authAllVars =>
        [Links!Next]_<<redis, SettledLinks, MailedLinks, AcceptedLinks>>
  BY AuthStepIsLinkStep
  DEF LinkStep, LinkRenewed, SettledLinks, MailedLinks, AcceptedLinks, Links!Next, Links!Issue,
      Links!Settle, Links!Mail, Links!Renew, Links!Invalidate, Links!Use
<1> QED
  BY <1>1, <1>2, AuthInvariance, PTL
  DEF AuthSpec, ImplementsResetLinks, Links!Spec, Links!linkVars, SettledLinks, MailedLinks,
      AcceptedLinks

-----------------------------------------------------------------------------
(* From its check on, a reset holds a link that was asked for its own      *)
(* address, so the key it deletes is the only one the link can be under.   *)
TokenHeld(r) ==
  IsReset(r) /\ (stage[r] \in {"savePassword", "redisDel"} \/ reply[r] = 200) =>
    /\ body[r].token \in Request
    /\ body[body[r].token] \in ForgotBody
    /\ body[body[r].token].email = body[r].email

ConsumedInv == AuthInv /\ (\A r \in Request : TokenHeld(r)) /\ ConsumedTokenIsDead

(* A reset comes to hold a link only by its check.                         *)
LEMMA StepTokenHeld ==
  ASSUME ConsumedInv, NEW r \in Request, AuthStepOf(r), NEW q \in Request
  PROVE  TokenHeld(q)'
<1> DEFINE Far(x) == stage[x] \in {"savePassword", "redisDel"} \/ reply[x] = 200
<1>1. AuthInv /\ TokenHeld(q) /\ LinksHeld /\ AuthTyped /\ AuthHeld(r)
  BY DEF ConsumedInv, AuthInv
<1> SUFFICES ASSUME IsReset(q)', Far(q)'
             PROVE  \E t \in Request : /\ body'[q].token = t
                                      /\ body'[t] \in ForgotBody
                                      /\ body'[t].email = body'[q].email
  BY DEF TokenHeld
<1>2. CASE IsReset(q) /\ Far(q)
  <2>1. PICK t \in Request : /\ body[q].token = t
                            /\ body[t] \in ForgotBody
                            /\ body[t].email = body[q].email
    BY <1>1, <1>2 DEF TokenHeld
  <2>2. body'[q] = body[q] /\ body'[t] = body[t]
    BY <1>1, <1>2, <2>1, HandlerIsStable, NoneIsNoBody DEF IsReset, Body
  <2> QED BY <2>1, <2>2
<1>3. CASE ~(IsReset(q) /\ Far(q))
  <2>1. q = r
    BY <1>1, <1>3, HandlerFrame DEF SameHandler, IsReset
  <2>2. CheckToken(r) /\ Accepted(r)
    <3> USE <2>1
    <3>1. ASSUME NEW status, status # 200, Reply(r, status) PROVE Far(r) \/ ~Far(r)'
      BY <1>1, <3>1 DEF Reply, AuthTyped
    <3>2. ASSUME NEW next, next \notin {"savePassword", "redisDel"}, Goto(r, next)
          PROVE  Far(r) \/ ~Far(r)'
      BY <1>1, <3>2 DEF Goto, AuthTyped
    <3>3. CASE UNCHANGED <<stage, body, reply>>
      BY <1>3, <3>3 DEF IsReset
    <3>4. CASE SetToken(r) \/ SendLink(r) \/ AwaitFails(r) \/ AuthCrash(r)
      BY <1>3, <3>1, <3>2, <3>4 DEF SetToken, SendLink, AwaitFails, AuthCrash, Reply, Goto, IsReset
    <3>5. CASE Saved(r) \/ DelToken(r)
      <4>1. Far(r) /\ UNCHANGED body
        BY <3>5 DEF Saved, DelToken, DropToken, Goto, Reply
      <4> QED BY <1>3, <4>1 DEF IsReset
    <3>6. CASE FindUser(r)
      <4>1. UNCHANGED body /\ IsReset(r)
        BY <3>6 DEF FindUser, SavePassword, Goto, Reply, IsReset
      <4>2. body[r].op = "resetPassword"
        BY <4>1 DEF IsReset
      <4> QED BY <1>3, <3>1, <3>2, <3>6, <4>1, <4>2 DEF FindUser
    <3>7. CASE CheckToken(r) /\ ~Accepted(r)
      <4>1. Reply(r, 400) /\ UNCHANGED body
        BY <3>7 DEF CheckToken, Reply
      <4> QED BY <1>3, <3>1, <4>1 DEF IsReset
    <3>8. CASE \E b \in Body : Receive(r, b)
      <4>1. stage'[r] = "findUser" /\ reply'[r] = None
        BY <1>1, <3>8 DEF Receive, AuthTyped, AuthHeld
      <4>2. None # 200
        BY NoneAssumption
      <4> QED BY <4>1, <4>2
    <3> QED
      BY <3>3, <3>4, <3>5, <3>6, <3>7, <3>8
      DEF AuthStepOf, CallUsers, RedisReplyLost, UsersStep, authVars
  <2>3. body[r] \in ResetBody
    BY <1>1, <2>2 DEF AuthHeld, CheckToken
  <2>4. PICK t \in Request : t = body[r].token /\ redis[body[r].email] = t
    BY <2>2, <2>3 DEF Accepted, ResetBody
  <2>5. body[t] \in ForgotBody /\ body[t].email = body[r].email
    BY <1>1, <2>3, <2>4, NoneIsNoBody DEF LinksHeld, ResetBody
  <2>6. body'[r] = body[r] /\ body'[t] = body[t]
    BY <1>1, <2>3, <2>5, HandlerIsStable, NoneIsNoBody DEF Body
  <2> QED BY <2>1, <2>4, <2>5, <2>6
<1> QED BY <1>2, <1>3

(* A link that was mailed is stored by no one; a reset that answers 200    *)
(* has just deleted the key its link was under.                            *)
LEMMA StepConsumed ==
  ASSUME ConsumedInv, NEW r \in Request, AuthStepOf(r)
  PROVE  ConsumedTokenIsDead'
<1>1. AuthInv /\ LinksHeld /\ AuthTyped /\ AuthHeld(r)
  BY DEF ConsumedInv, AuthInv
<1> SUFFICES ASSUME NEW q \in Request, IsReset(q)', reply'[q] = 200, NEW e \in Email
             PROVE  redis'[e] # body'[q].token
  BY DEF ConsumedTokenIsDead
<1>2. CASE IsReset(q) /\ reply[q] = 200
  <2>1. PICK t \in Request : t = body[q].token /\ Mailed(t)
    BY <1>1, <1>2, NoneIsNoBody DEF ConsumedInv, TokenHeld, LinksHeld
  <2>2. body'[q] = body[q]
    BY <1>1, <1>2, HandlerIsStable DEF IsReset
  <2>3. \A a \in Email : redis[a] # t
    BY <1>2, <2>1 DEF ConsumedInv, ConsumedTokenIsDead
  <2>4. StoreToken(r) => r # t
    BY <2>1 DEF StoreToken, Mailed
  <2> QED
    BY <1>1, <2>1, <2>2, <2>3, <2>4, StepRedis, NoneIsNoBody DEF StoreToken, DropToken, AuthTyped
<1>3. CASE ~(IsReset(q) /\ reply[q] = 200)
  <2>1. q = r
    BY <1>1, <1>3, HandlerFrame DEF SameHandler, IsReset
  <2>2. DelToken(r)
    <3> USE <2>1
    <3>1. ASSUME NEW status, status # 200, Reply(r, status) PROVE FALSE
      BY <1>1, <3>1 DEF Reply, AuthTyped
    <3>2. CASE UNCHANGED <<body, reply>>
      BY <1>3, <3>2 DEF IsReset
    <3>3. ASSUME NEW next, Goto(r, next) PROVE FALSE
      BY <1>3, <3>3 DEF Goto, IsReset
    <3>4. CASE FindUser(r) \/ CheckToken(r)
      <4>1. Reply(r, 404) \/ Reply(r, 400) \/ \E next : Goto(r, next)
        BY <3>4 DEF FindUser, CheckToken, SavePassword
      <4> QED BY <3>1, <3>3, <4>1
    <3>5. CASE SetToken(r) \/ SendLink(r) \/ AwaitFails(r) \/ AuthCrash(r)
      BY <3>1, <3>3, <3>5 DEF SetToken, SendLink, AwaitFails, AuthCrash
    <3>6. CASE Saved(r)
      <4>1. CASE Reply(r, 200) /\ IsChange(r)
        BY <4>1 DEF Reply, IsChange, IsReset
      <4> QED BY <3>1, <3>3, <3>6, <4>1 DEF Saved
    <3>7. CASE \E b \in Body : Receive(r, b)
      <4>1. reply'[r] = None
        BY <1>1, <3>7 DEF Receive, AuthHeld
      <4> QED BY <4>1, NoneAssumption
    <3> QED
      BY <3>2, <3>4, <3>5, <3>6, <3>7 DEF AuthStepOf, CallUsers, RedisReplyLost, UsersStep, authVars
  <2>3. body'[r] = body[r] /\ IsReset(r) /\ stage[r] = "redisDel"
    BY <2>1, <2>2 DEF DelToken, DropToken, Reply, IsReset
  <2>4. PICK t \in Request : /\ t = body[r].token
                            /\ body[t] \in ForgotBody
                            /\ body[t].email = body[r].email
    BY <2>3 DEF ConsumedInv, TokenHeld
  <2>5. redis' = [redis EXCEPT ![body[r].email] = None]
    BY <2>2 DEF DelToken, DropToken
  <2>6. redis[e] = t => e = body[r].email
    BY <1>1, <2>4, NoneIsNoBody DEF LinksHeld
  <2> QED BY <1>1, <2>1, <2>3, <2>4, <2>5, <2>6, NoneIsNoBody DEF AuthTyped
<1> QED BY <1>2, <1>3

(* The strengthened invariant holds initially.                             *)
LEMMA ConsumedInit == AuthInit => ConsumedInv
<1> SUFFICES ASSUME AuthInit PROVE ConsumedInv
  OBVIOUS
<1>1. \A r \in Request : ~IsReset(r)
  BY DEF AuthInit, IsReset
<1> QED BY <1>1, AuthInitInv DEF ConsumedInv, TokenHeld, ConsumedTokenIsDead

(* The strengthened invariant is inductive.                                *)
LEMMA ConsumedNext == ConsumedInv /\ [AuthNext]_authAllVars => ConsumedInv'
<1> SUFFICES ASSUME ConsumedInv, [AuthNext]_authAllVars PROVE ConsumedInv'
  OBVIOUS
<1>1. AuthInv'
  BY AuthNextInv DEF ConsumedInv
<1>2. ASSUME NEW r \in Request, AuthStepOf(r) PROVE ConsumedInv'
  BY <1>1, <1>2, StepTokenHeld, StepConsumed DEF ConsumedInv
<1>3. CASE Outside
  <2>1. UNCHANGED <<stage, body, reply>>
    BY <1>3 DEF Outside, OperatorStep, Expire, Deliver, LoseMail, authAllVars, authVars
  <2>2. \A e \in Email : redis'[e] = redis[e] \/ redis'[e] = None
    BY <1>3 DEF Outside, OperatorStep, Expire, Deliver, LoseMail, authAllVars, authVars,
                ConsumedInv, AuthInv, AuthTyped
  <2> QED
    BY <1>1, <2>1, <2>2, NoneIsNoBody DEF ConsumedInv, TokenHeld, ConsumedTokenIsDead, IsReset
<1> QED BY <1>2, <1>3, AuthStepCases

(* A reset answered 200 leaves its link dead for good, whatever forgotten  *)
(* passwords, resent Redis commands and other resets run beside and after. *)
THEOREM ConsumedTokensAreDead == AuthSpec => []ConsumedTokenIsDead
<1>1. ConsumedInv => ConsumedTokenIsDead
  BY DEF ConsumedInv
<1> QED BY <1>1, ConsumedInit, ConsumedNext, PTL DEF AuthSpec

-----------------------------------------------------------------------------
(* The passwords in the table: whose they are, and when the answers of     *)
(* AuthService agree with them (AuthServiceHistory).  A salt names the     *)
(* request that drew it, so both follow the salts from request to entity   *)
(* to row.                                                                 *)

(* Where the other variables of a request are when a handler has ended.    *)
EndHeld(r) ==
  /\ stage[r] \notin {"idle", "savePassword"} => pc[r] \in {"idle", "returned"}
  /\ stage[r] # "ended" => reply[r] = None
  /\ pc[r] \notin Ended => result[r] = None

(* The hash that r made may be on account id.                              *)
Rightful(id, r) ==
  /\ pc[r] # "idle"
  /\ IsReset(r) => /\ users[id].email = body[r].email
                   /\ body[r].token \in Request
                   /\ body[body[r].token] = [op |-> "forgotPassword", email |-> body[r].email]
  /\ IsChange(r) => id = body[r].id
  /\ IsReset(r) \/ IsChange(r) \/ call[r].op = "register"

(* Rows and stale entities have rightful hashes only, and so will the row  *)
(* that a handler of a password is about to read.                          *)
OwnersHeld ==
  /\ \A id \in Id, r \in Request :
       InTable(id) /\ users[id].password.salt = r => Rightful(id, r)
  /\ \A id \in Id, q, r \in Request :
       pc[q] \in {"load", "update"} /\ call[q].id = id /\ entity[q].password.salt = r =>
         Rightful(id, r)
  /\ \A id \in Id, q \in Request :
       pc[q] \in {"find", "load", "update"} /\ call[q] \in PasswordCall /\ call[q].id = id =>
         InTable(id) /\ Rightful(id, q)

OwnerInv == AuthInv /\ (\A r \in Request : EndHeld(r)) /\ OwnersHeld

-----------------------------------------------------------------------------
(* What a step of r puts into a row: its password is what it was, or comes *)
(* from the entity that is saved, or is the one of a new account.          *)
LEMMA PasswordOrigin ==
  ASSUME Inv, NEW r \in Request, StepOf(r), NEW id \in Id, InTable(id)'
  PROVE  \/ InTable(id) /\ users'[id].password = users[id].password
         \/ /\ pc[r] = "update" /\ id = call[r].id /\ InTable(id)
            /\ call[r] \in PasswordCall \cup ProfileCall
            /\ users'[id].password = entity[r].password
            /\ pc'[r] \in Ended
         \/ /\ pc[r] = "insert" /\ call[r] \in RegisterCall
            /\ users'[id].password.salt = r
            /\ pc'[r] \in Ended
<1>1. TypeOK /\ Held(r)
  BY DEF Inv
<1>2. CASE UNCHANGED users
  BY <1>2 DEF InTable
<1>3. CASE UpdateRow(r) /\ pc'[r] \in Ended
  <2>1. /\ pc[r] = "update" /\ call[r] \in PasswordCall \cup ProfileCall
        /\ call[r].id \in Id /\ InTable(call[r].id)
    BY <1>1, <1>3 DEF UpdateRow, Held, PasswordCall, ProfileCall
  <2>2. users' = [users EXCEPT ![call[r].id] = Merge(users[call[r].id], entity[r], dirty[r])]
    BY <1>3 DEF UpdateRow
  <2>3. CASE id = call[r].id
    <3>1. users'[id] = Merge(users[id], entity[r], dirty[r])
      BY <1>1, <2>1, <2>2, <2>3 DEF TypeOK
    <3>2. users'[id].password = users[id].password \/ users'[id].password = entity[r].password
      BY <3>1 DEF Merge, Column
    <3> QED BY <1>3, <2>1, <2>3, <3>2
  <2>4. CASE id # call[r].id
    <3>1. users'[id] = users[id]
      BY <1>1, <2>2, <2>4 DEF TypeOK
    <3> QED BY <3>1 DEF InTable
  <2> QED BY <2>3, <2>4
<1>4. CASE InsertRow(r) /\ pc'[r] \in Ended
  <2>1. pc[r] = "insert" /\ call[r] \in RegisterCall
    BY <1>1, <1>4 DEF InsertRow, Held
  <2>2. PICK i \in Id : ~InTable(i) /\ users' = [users EXCEPT ![i] = NewRow(r)]
    BY <1>4 DEF InsertRow
  <2>3. NewRow(r).password.salt = r
    BY DEF NewRow, HashOf
  <2>4. users'[i] = NewRow(r) /\ \A j \in Id \ {i} : users'[j] = users[j]
    BY <1>1, <2>2 DEF TypeOK
  <2> QED BY <1>4, <2>1, <2>3, <2>4 DEF InTable
<1>5. \/ UNCHANGED users
      \/ UpdateRow(r) /\ pc'[r] \in Ended
      \/ InsertRow(r) /\ pc'[r] \in Ended
  BY <1>1
  DEF TypeOK, StepOf, Progress, Disturb, Accept, ExistsBy, Insert, InsertDuplicate, Find, Load,
      Update, QueryFails, CommitUnacknowledged, Crash, Answer, Die, Ended
<1> QED BY <1>2, <1>3, <1>4, <1>5

(* What a step of r puts into its entity: a row as it is, with the new     *)
(* password if that is what r is about.                                    *)
LEMMA EntityOrigin ==
  ASSUME Inv, NEW r \in Request, StepOf(r), pc'[r] \in {"load", "update"}
  PROVE  /\ call'[r] = call[r] /\ UNCHANGED users
         /\ \/ pc[r] = "load" /\ entity'[r] = entity[r]
            \/ /\ pc[r] = "find" /\ InTable(call[r].id)
               /\ call[r] \in PasswordCall /\ entity'[r].password.salt = r
            \/ /\ pc[r] = "find" /\ InTable(call[r].id)
               /\ call[r] \in ProfileCall /\ entity'[r].password = users[call[r].id].password
<1>1. TypeOK /\ Held(r)
  BY DEF Inv
<1>2. CASE Load(r) /\ UNCHANGED <<call, entity>>
  BY <1>2 DEF Load
<1>3. CASE Find(r) /\ entity' = [entity EXCEPT ![r] = Edited(r, users[call[r].id])]
           /\ ~NothingToSave(r) /\ InTable(call[r].id) /\ UNCHANGED call
  <2>1. pc[r] = "find" /\ call[r] \in PasswordCall \cup ProfileCall /\ UNCHANGED users
    BY <1>1, <1>3 DEF Held, Find, NothingToSave, Call, ReadCall
  <2>2. users[call[r].id] \in Row
    BY <1>1, <1>3, <2>1, RowNotNone DEF TypeOK, InTable, PasswordCall, ProfileCall
  <2>3. entity'[r] = Edited(r, users[call[r].id])
    BY <1>1, <1>3 DEF TypeOK
  <2>4. CASE call[r] \in PasswordCall
    <3>1. entity'[r] = [users[call[r].id] EXCEPT !.password = HashOf(r, call[r].password)]
      BY <2>3, <2>4 DEF Edited, PasswordCall
    <3>2. entity'[r].password = HashOf(r, call[r].password)
      BY <2>2, <3>1 DEF Row
    <3> QED BY <1>3, <2>1, <2>4, <3>2 DEF HashOf
  <2>5. CASE call[r] \in ProfileCall
    <3>1. entity'[r] = [users[call[r].id] EXCEPT !.firstName = call[r].firstName,
                                                 !.lastName = call[r].lastName]
      BY <2>3, <2>5 DEF Edited, ProfileCall
    <3>2. entity'[r].password = users[call[r].id].password
      BY <2>2, <3>1 DEF Row
    <3> QED BY <1>3, <2>1, <2>5, <3>2
  <2> QED BY <2>1, <2>4, <2>5
<1>4. CASE pc'[r] \notin {"load", "update"}
  BY <1>4
<1> QED
  BY <1>1, <1>2, <1>3, <1>4
  DEF TypeOK, StepOf, Progress, Disturb, Accept, ExistsBy, Insert, InsertDuplicate, Find, Load,
      Update, QueryFails, CommitUnacknowledged, Crash, Await, Answer, Die

-----------------------------------------------------------------------------
(* A step of an auth handler is a step of its own call of UsersService, or *)
(* leaves the calls alone.                                                 *)
LEMMA UsersPart ==
  ASSUME AuthInv, NEW r \in Request, AuthStepOf(r)
  PROVE  StepOf(r) \/ UNCHANGED vars
<1>1. ASSUME FindUser(r) PROVE StepOf(r) \/ UNCHANGED vars
  <2>1. ASSUME NEW id \in Id, SavePassword(r, id), body[r].op = "changePassword" PROVE StepOf(r)
    <3>1. body[r] \in ChangeBody
      BY <1>1, <2>1 DEF AuthInv, AuthHeld, FindUser, Body, ForgotBody, ResetBody
    <3> QED BY <2>1, <3>1, SavePasswordAccepts DEF StepOf
  <2> QED BY <1>1, <2>1 DEF FindUser
<1>2. ASSUME CheckToken(r) PROVE StepOf(r) \/ UNCHANGED vars
  BY <1>2, SavePasswordAccepts DEF CheckToken, StepOf, AuthInv, AuthHeld
<1> QED
  BY <1>1, <1>2
  DEF AuthStepOf, Receive, CallUsers, SetToken, SendLink, Saved, DelToken, RedisReplyLost, AwaitFails,
      AuthCrash, UsersStep, StepOf

(* Outside the handlers only a status changes.                             *)
LEMMA OutsidePart ==
  ASSUME AuthInv, Outside
  PROVE  /\ UNCHANGED <<pc, call, entity, dirty, result>>
         /\ AccountsGrow
         /\ \A id \in Id : InTable(id)' => InTable(id) /\ users'[id].password = users[id].password
<1>1. ASSUME NEW id \in Id, NEW status \in Status, OperatorSetStatus(id, status)
      PROVE  \A i \in Id : InTable(i)' => InTable(i) /\ users'[i].password = users[i].password
  <2>1. users \in [Id -> Row \cup {None}] /\ users[id] \in Row
    BY <1>1, RowNotNone DEF AuthInv, Inv, TypeOK, OperatorSetStatus, InTable
  <2>2. users' = [users EXCEPT ![id] = [users[id] EXCEPT !.status = status]]
    BY <1>1 DEF OperatorSetStatus
  <2>3. [users[id] EXCEPT !.status = status].password = users[id].password
    BY <2>1 DEF Row
  <2> QED BY <1>1, <2>1, <2>2, <2>3 DEF InTable, OperatorSetStatus
<1>2. ASSUME NEW id \in Id, NEW status \in Status, OperatorSetStatus(id, status)
      PROVE  AccountsGrow /\ UNCHANGED <<pc, call, entity, dirty, result>>
  BY <1>2, OperatorKeepsAccounts DEF AuthInv, SameAccounts, AccountsGrow, OperatorSetStatus
<1>3. CASE UNCHANGED vars
  BY <1>3 DEF vars, AccountsGrow, InTable
<1> QED
  BY <1>1, <1>2, <1>3 DEF Outside, OperatorStep, Expire, Deliver, LoseMail, authAllVars

(* A call that has begun keeps its arguments, and its handler its body.    *)
LEMMA BegunIsStable ==
  ASSUME AuthInv, [AuthNext]_authAllVars, NEW r \in Request, pc[r] # "idle"
  PROVE  pc'[r] # "idle" /\ call'[r] = call[r] /\ body'[r] = body[r]
<1>1. ASSUME NEW q \in Request, AuthStepOf(q), q # r
      PROVE  pc'[r] # "idle" /\ call'[r] = call[r] /\ body'[r] = body[r]
  BY <1>1, HandlerFrame DEF SameHandler
<1>2. ASSUME AuthStepOf(r) PROVE pc'[r] # "idle" /\ call'[r] = call[r]
  <2>1. CASE UNCHANGED vars
    BY <2>1 DEF vars
  <2>2. CASE StepOf(r)
    BY <2>2
    DEF AuthInv, Inv, TypeOK, StepOf, Progress, Disturb, Accept, ExistsBy, Insert,
        InsertDuplicate, Find, Load, Update, QueryFails, CommitUnacknowledged, Crash, Await,
        Answer, Die
  <2> QED BY <1>2, <2>1, <2>2, UsersPart
<1>3. ASSUME AuthStepOf(r) PROVE body'[r] = body[r]
  <2>1. ~\E b \in Body : Receive(r, b)
    BY DEF Receive
  <2>2. UNCHANGED body
    BY <1>3, <2>1 DEF AuthStepOf, CallUsers, FindUser, SetToken, SendLink, CheckToken, Saved, DelToken,
       RedisReplyLost, AwaitFails, AuthCrash, UsersStep, SavePassword, Goto, Reply, authVars
  <2> QED BY <2>2
<1>4. ASSUME Outside PROVE pc'[r] # "idle" /\ call'[r] = call[r] /\ body'[r] = body[r]
  BY <1>4, OutsideFrame DEF SameHandler
<1> QED BY <1>1, <1>2, <1>3, <1>4, AuthStepCases

(* No step of the composition removes an account or moves its address.     *)
LEMMA AccountsAlwaysGrow ==
  ASSUME AuthInv, [AuthNext]_authAllVars
  PROVE  AccountsGrow
<1>1. ASSUME NEW r \in Request, AuthStepOf(r) PROVE AccountsGrow
  <2>1. CASE UNCHANGED vars
    BY <2>1 DEF vars, AccountsGrow, InTable
  <2> QED BY <1>1, <2>1, UsersPart, StepGrows DEF AuthInv
<1> QED BY <1>1, OutsidePart, AuthStepCases

(* What is rightful stays so: the account keeps its address, the requests  *)
(* their bodies.                                                           *)
LEMMA RightfulIsStable ==
  ASSUME AuthInv, [AuthNext]_authAllVars, NEW id \in Id, NEW r \in Request,
         InTable(id), Rightful(id, r)
  PROVE  Rightful(id, r)'
<1>1. pc'[r] # "idle" /\ call'[r] = call[r] /\ body'[r] = body[r]
  BY BegunIsStable DEF Rightful
<1>2. users'[id].email = users[id].email
  BY AccountsAlwaysGrow DEF AccountsGrow
<1>3. ASSUME NEW t \in Request, NEW e \in Email, body[t] = [op |-> "forgotPassword", email |-> e]
      PROVE  body'[t] = body[t]
  <2>1. body[t] # None
    BY <1>3, NoneIsNoBody DEF Body, ForgotBody
  <2> QED BY <2>1, AuthStepCases, HandlerIsStable, OutsideFrame DEF SameHandler
<1>4. IsReset(r) => body[r].email \in Email
  BY DEF IsReset, AuthInv, AuthTyped, Body, ForgotBody, ResetBody, ChangeBody
<1> QED BY <1>1, <1>2, <1>3, <1>4 DEF Rightful, IsReset, IsChange

-----------------------------------------------------------------------------
(* A call of UsersService that has a step to take is under way.            *)
LEMMA UsersStepAwaits ==
  ASSUME NEW r, UsersStep(r)
  PROVE  pc[r] \in Awaiting
  BY DEF UsersStep, Progress, Disturb, ExistsBy, Insert, InsertRow, InsertDuplicate, Find, Load,
         Update, UpdateRow, QueryFails, CommitUnacknowledged, Crash, Awaiting

(* Each step of r leaves its variables where EndHeld says.                 *)
LEMMA StepEndHeld ==
  ASSUME AuthInv, NEW r \in Request, AuthStepOf(r), EndHeld(r)
  PROVE  EndHeld(r)'
<1>1. AuthTyped /\ AuthHeld(r) /\ TypeOK
  BY DEF AuthInv, Inv
<1> USE <1>1
<1>2. ASSUME NEW b \in Body, Receive(r, b) PROVE EndHeld(r)'
  BY <1>2 DEF Receive, EndHeld, AuthTyped, vars
<1>3. ASSUME NEW c \in Call, CallUsers(r, c) PROVE EndHeld(r)'
  BY <1>3 DEF CallUsers, Accept, Await, EndHeld, Ended, TypeOK, authVars
<1>4. ASSUME UsersStep(r) PROVE EndHeld(r)'
  <2>1. pc[r] \in Awaiting /\ UNCHANGED authVars
    BY <1>4, UsersStepAwaits DEF UsersStep
  <2>2. stage[r] \in {"idle", "savePassword"} /\ result[r] = None
    BY <2>1 DEF EndHeld, Awaiting, Ended
  <2>3. pc'[r] \notin Ended => result'[r] = result[r]
    BY <1>4 DEF UsersStep, Progress, Disturb, ExistsBy, Insert, InsertDuplicate, Find, Load, Update,
       QueryFails, CommitUnacknowledged, Crash, Await, Answer, Die, Ended, TypeOK
  <2> QED BY <2>1, <2>2, <2>3 DEF EndHeld, authVars
<1>5. ASSUME NEW id \in Id, SavePassword(r, id), stage[r] # "ended" PROVE EndHeld(r)'
  BY <1>5 DEF SavePassword, Accept, Await, Goto, EndHeld, Ended, AuthTyped, TypeOK
<1>6. ASSUME UNCHANGED vars, pc[r] \in {"idle", "returned"}, stage[r] # "ended",
             \/ \E status : Reply(r, status)
             \/ \E next : next # "ended" /\ Goto(r, next)
      PROVE  EndHeld(r)'
  BY <1>6 DEF Reply, Goto, EndHeld, AuthTyped, vars
<1>7. ASSUME FindUser(r) \/ CheckToken(r) PROVE EndHeld(r)'
  <2>1. pc[r] = "idle" /\ stage[r] # "ended"
    BY <1>7 DEF FindUser, CheckToken, AuthHeld
  <2> QED BY <1>5, <1>6, <1>7, <2>1 DEF FindUser, CheckToken
<1>8. ASSUME Saved(r) PROVE EndHeld(r)'
  BY <1>6, <1>8 DEF Saved
<1>9. ASSUME SetToken(r) \/ SendLink(r) \/ DelToken(r) \/ AwaitFails(r) \/ AuthCrash(r) PROVE EndHeld(r)'
  <2>1. stage[r] \in Suspended \ {"savePassword"} /\ UNCHANGED vars
    BY <1>9 DEF SetToken, SendLink, StoreToken, DelToken, DropToken, AwaitFails, AuthCrash, Suspended,
           Commanding
  <2>2. pc[r] \in {"idle", "returned"} /\ stage[r] # "ended"
    BY <2>1 DEF EndHeld, Suspended, Commanding
  <2> QED BY <1>6, <1>9, <2>1, <2>2 DEF SetToken, SendLink, DelToken, AwaitFails, AuthCrash
<1>10. ASSUME RedisReplyLost(r) PROVE EndHeld(r)'
  BY <1>10 DEF RedisReplyLost, EndHeld, vars
<1> QED
  BY <1>2, <1>3, <1>4, <1>7, <1>8, <1>9, <1>10 DEF AuthStepOf

(* The others stay where they are.                                         *)
LEMMA EndHeldNext ==
  ASSUME AuthInv, [AuthNext]_authAllVars, NEW q \in Request, \A r \in Request : EndHeld(r)
  PROVE  EndHeld(q)'
<1>1. ASSUME SameHandler(q) PROVE EndHeld(q)'
  BY <1>1 DEF SameHandler, EndHeld
<1> QED BY <1>1, AuthStepCases, StepEndHeld, HandlerFrame, OutsideFrame

-----------------------------------------------------------------------------
(* A handler accepts a call of updatePassword for the account whose        *)
(* password it may change.                                                 *)
LEMMA AcceptsRightfully ==
  ASSUME AuthInv, NEW r \in Request, AuthStepOf(r), pc[r] = "idle", pc'[r] # "idle",
         call'[r] \in PasswordCall
  PROVE  InTable(call'[r].id) /\ UNCHANGED <<users, body>> /\ \A id \in Id :
           id = call'[r].id => Rightful(id, r)'
<1>1. AuthTyped /\ AuthHeld(r) /\ TypeOK /\ LinksHeld
  BY DEF AuthInv, Inv
<1>2. ASSUME NEW id \in Id, SavePassword(r, id) PROVE call'[r].id = id /\ UNCHANGED <<users, body>>
  BY <1>1, <1>2 DEF SavePassword, Accept, Goto, TypeOK
<1>3. ASSUME NEW id \in Id, FindUser(r), SavePassword(r, id), Wanted(r, id),
             body[r].op = "changePassword"
      PROVE  InTable(id) /\ Rightful(id, r)'
  <2>1. body[r] \in ChangeBody /\ InTable(id) /\ id = body[r].id
    BY <1>1, <1>3 DEF FindUser, AuthHeld, Body, ForgotBody, ResetBody, Wanted
  <2>2. body[r] # None
    BY <2>1, NoneIsNoBody DEF Body
  <2> QED BY <1>2, <1>3, <2>1, <2>2 DEF Rightful, IsReset, IsChange
<1>4. ASSUME NEW id \in Id, CheckToken(r), Accepted(r), SavePassword(r, id), Wanted(r, id)
      PROVE  InTable(id) /\ Rightful(id, r)'
  <2>1. body[r] \in ResetBody
    BY <1>1, <1>4 DEF CheckToken, AuthHeld
  <2>2. body[r] # None /\ body[r].op = "resetPassword" /\ body[r].email \in Email
    BY <2>1, NoneIsNoBody DEF Body, ResetBody
  <2>3. InTable(id) /\ users[id].email = body[r].email
    BY <1>4, <2>2 DEF Wanted
  <2>4. body[r].token \in Request /\ redis[body[r].email] = body[r].token
    BY <1>4, <2>1 DEF Accepted, ResetBody
  <2>5. body[body[r].token] \in ForgotBody /\ body[body[r].token].email = body[r].email
    BY <1>1, <2>2, <2>4, NoneIsNoBody DEF LinksHeld
  <2>6. body[body[r].token] = [op |-> "forgotPassword", email |-> body[r].email]
    BY <2>5 DEF ForgotBody
  <2> QED BY <1>2, <1>4, <2>2, <2>3, <2>4, <2>6 DEF Rightful, IsReset, IsChange
<1>5. ASSUME NEW c \in Call, CallUsers(r, c) PROVE FALSE
  <2>1. call'[r] = c /\ c.op # "updatePassword"
    BY <1>1, <1>5 DEF CallUsers, Accept, TypeOK
  <2> QED BY <2>1 DEF PasswordCall
<1>6. ~UNCHANGED vars /\ ~UsersStep(r)
  BY UsersStepAwaits DEF vars, Awaiting
<1>7. \/ \E id \in Id : /\ FindUser(r) /\ SavePassword(r, id) /\ Wanted(r, id)
                        /\ body[r].op = "changePassword"
      \/ \E id \in Id : CheckToken(r) /\ Accepted(r) /\ SavePassword(r, id) /\ Wanted(r, id)
  BY <1>5, <1>6
  DEF AuthStepOf, Receive, FindUser, SetToken, SendLink, CheckToken, Saved, DelToken, RedisReplyLost,
      AwaitFails, AuthCrash
<1>8. PICK id \in Id : InTable(id) /\ SavePassword(r, id) /\ Rightful(id, r)'
  BY <1>3, <1>4, <1>7
<1> QED BY <1>2, <1>8

(* The rows have rightful hashes after each step.                          *)
LEMMA RowsStayRightful ==
  ASSUME OwnerInv, [AuthNext]_authAllVars, NEW id \in Id, NEW r \in Request,
         InTable(id)', users'[id].password.salt = r
  PROVE  Rightful(id, r)'
<1>1. AuthInv /\ Inv /\ OwnersHeld
  BY DEF OwnerInv, AuthInv
<1>2. CASE InTable(id) /\ users'[id].password = users[id].password
  BY <1>1, <1>2, RightfulIsStable DEF OwnersHeld
<1>3. ASSUME NEW q \in Request, AuthStepOf(q), pc[q] = "update", id = call[q].id, InTable(id),
             users'[id].password = entity[q].password
      PROVE  Rightful(id, r)'
  BY <1>1, <1>3, RightfulIsStable DEF OwnersHeld
<1>4. ASSUME NEW q \in Request, AuthStepOf(q), pc[q] = "insert", call[q] \in RegisterCall, q = r
      PROVE  Rightful(id, r)'
  <2>1. stage[r] = "idle" /\ AuthHeld(r)
    BY <1>1, <1>4 DEF OwnerInv, EndHeld, AuthInv, AuthHeld, PasswordCall, RegisterCall
  <2>2. pc'[r] # "idle" /\ call'[r] = call[r] /\ body'[r] = None
    BY <1>1, <1>4, <2>1, BegunIsStable DEF AuthHeld
  <2> QED BY <1>4, <2>2 DEF Rightful, IsReset, IsChange, RegisterCall
<1>5. ASSUME NEW q \in Request, AuthStepOf(q), UNCHANGED vars PROVE Rightful(id, r)'
  BY <1>2, <1>5 DEF vars, InTable
<1>6. ASSUME NEW q \in Request, AuthStepOf(q), StepOf(q) PROVE Rightful(id, r)'
  BY <1>1, <1>2, <1>3, <1>4, <1>6, PasswordOrigin
<1> QED BY <1>1, <1>2, <1>5, <1>6, AuthStepCases, OutsidePart, UsersPart

(* So have the entities, however stale.                                    *)
LEMMA EntitiesStayRightful ==
  ASSUME OwnerInv, [AuthNext]_authAllVars, NEW id \in Id, NEW q \in Request, NEW r \in Request,
         pc'[q] \in {"load", "update"}, call'[q].id = id, entity'[q].password.salt = r
  PROVE  Rightful(id, r)'
<1>1. AuthInv /\ Inv /\ OwnersHeld
  BY DEF OwnerInv, AuthInv
<1>2. ASSUME pc[q] \in {"load", "update"}, entity'[q] = entity[q], call'[q] = call[q]
      PROVE  Rightful(id, r)'
  <2>1. InTable(id)
    BY <1>1, <1>2 DEF Inv, Held
  <2> QED BY <1>1, <1>2, <2>1, RightfulIsStable DEF OwnersHeld
<1>3. ASSUME StepOf(q) PROVE Rightful(id, r)'
  <2>1. CASE pc[q] = "find" /\ InTable(id) /\ call[q] \in PasswordCall /\ call[q].id = id /\ q = r
    BY <1>1, <2>1, RightfulIsStable DEF OwnersHeld
  <2>2. CASE pc[q] = "find" /\ InTable(id) /\ entity'[q].password = users[id].password
    BY <1>1, <2>2, RightfulIsStable DEF OwnersHeld
  <2> QED BY <1>1, <1>2, <1>3, <2>1, <2>2, EntityOrigin
<1>4. CASE UNCHANGED vars
  BY <1>2, <1>4 DEF vars
<1>5. ASSUME NEW s \in Request, s # q, StepOf(s) PROVE Rightful(id, r)'
  BY <1>1, <1>2, <1>5, StepFrame DEF SameRequest, Inv
<1>6. CASE Outside
  BY <1>1, <1>2, <1>6, OutsidePart
<1> QED BY <1>1, <1>3, <1>4, <1>5, <1>6, AuthStepCases, UsersPart

(* A handler of a password keeps its right from its acceptance on.         *)
LEMMA HandlersStayRightful ==
  ASSUME OwnerInv, [AuthNext]_authAllVars, NEW id \in Id, NEW q \in Request,
         pc'[q] \in {"find", "load", "update"}, call'[q] \in PasswordCall, call'[q].id = id
  PROVE  InTable(id)' /\ Rightful(id, q)'
<1>1. AuthInv /\ Inv /\ OwnersHeld
  BY DEF OwnerInv, AuthInv
<1>2. CASE pc[q] \in {"find", "load", "update"}
  <2>1. call'[q] = call[q]
    BY <1>1, <1>2, BegunIsStable
  <2>2. InTable(id) /\ Rightful(id, q)
    BY <1>1, <1>2, <2>1 DEF OwnersHeld
  <2> QED BY <1>1, <2>2, RightfulIsStable, AccountsAlwaysGrow DEF AccountsGrow
<1>3. CASE pc[q] \notin {"find", "load", "update"}
  <2>1. AuthStepOf(q)
    BY <1>1, <1>3, AuthStepCases, HandlerFrame, OutsideFrame DEF SameHandler
  <2>2. pc[q] = "idle"
    <3>1. CASE UNCHANGED vars
      BY <1>3, <3>1 DEF vars
    <3>2. CASE StepOf(q)
      BY <1>1, <1>3, <3>2
      DEF Inv, TypeOK, StepOf, Progress, Disturb, Accept, ExistsBy, Insert, InsertDuplicate, Find,
          Load, Update, QueryFails, CommitUnacknowledged, Crash, Await, Answer, Die
    <3> QED BY <1>1, <2>1, <3>1, <3>2, UsersPart
  <2> QED BY <1>1, <2>1, <2>2, AcceptsRightfully DEF InTable
<1> QED BY <1>2, <1>3

(* The rows at the start have salts that nobody draws.                     *)
LEMMA OwnerInit == AuthInit => OwnerInv
<1> SUFFICES ASSUME AuthInit PROVE OwnerInv
  OBVIOUS
<1>1. \A r \in Request : pc[r] = "idle" /\ stage[r] = "idle" /\ reply[r] = None /\ result[r] = None
  BY DEF AuthInit, Init
<1>2. \A id \in Id : InTable(id) => users[id].password.salt \notin Request
  BY SaltAssumption DEF AuthInit, Init, InTable
<1> QED BY <1>1, <1>2, AuthInitInv DEF OwnerInv, EndHeld, OwnersHeld, Ended

(* The invariant is inductive.                                             *)
LEMMA OwnerNext == OwnerInv /\ [AuthNext]_authAllVars => OwnerInv'
<1> SUFFICES ASSUME OwnerInv, [AuthNext]_authAllVars PROVE OwnerInv'
  OBVIOUS
<1>1. AuthInv'
  BY AuthNextInv DEF OwnerInv
<1>2. \A q \in Request : EndHeld(q)'
  BY EndHeldNext DEF OwnerInv
<1>3. OwnersHeld'
  BY RowsStayRightful, EntitiesStayRightful, HandlersStayRightful DEF OwnersHeld
<1> QED BY <1>1, <1>2, <1>3 DEF OwnerInv

(* A password in the table was put there by the owner of the account: with *)
(* a link mailed to its address, in a session of its own, or at sign-up;   *)
(* stale saves carry it to no other account.                               *)
THEOREM PasswordsAreTheirOwners == AuthSpec => []PasswordWrittenByOwner
<1>1. OwnerInv => PasswordWrittenByOwner
  <2> SUFFICES ASSUME OwnerInv, NEW id \in Id, NEW r \in Request,
                      InTable(id), users[id].password.salt = r
               PROVE  /\ IsReset(r) => /\ users[id].email = body[r].email
                                       /\ body[r].token # None
                                       /\ body[body[r].token] =
                                            [op |-> "forgotPassword", email |-> users[id].email]
                      /\ IsChange(r) => id = body[r].id
                      /\ IsReset(r) \/ IsChange(r) \/ call[r].op = "register"
    BY DEF PasswordWrittenByOwner
  <2>1. Rightful(id, r)
    BY DEF OwnerInv, OwnersHeld
  <2> QED BY <2>1, NoneIsNoBody DEF Rightful
<1> QED BY <1>1, OwnerInit, OwnerNext, PTL DEF AuthSpec

-----------------------------------------------------------------------------
(* Committed hashes are those of calls that have ended, and not with a     *)
(* refusal; the others are in the entity of their own call only, which is  *)
(* therefore sure to find its password different from the row's.           *)
CommittedHeld ==
  /\ committed \subseteq Request
  /\ Salts \subseteq committed
  /\ \A q, r \in Request : pc[q] \in {"load", "update"} /\ entity[q].password.salt = r =>
       r \in committed \/ (q = r /\ call[q] \in PasswordCall)
  /\ \A q \in Request : pc[q] \in {"load", "update"} /\ call[q] \in PasswordCall =>
       entity[q].password.salt = q
  /\ \A q \in Request : pc[q] = "update" /\ call[q] \in PasswordCall => "password" \in dirty[q]
  /\ \A r \in committed : pc[r] \in Ended /\ result[r] \notin {400, 404}
  /\ \A r \in Request : pc[r] = "returned" /\ result[r] = 200 /\ call[r] \in PasswordCall =>
       r \in committed

OutcomeHeld(r) ==
  /\ reply[r] = 200 => r \in committed
  /\ stage[r] = "redisDel" => r \in committed
  /\ reply[r] \in {400, 404} => r \notin committed

NoticesHeld == \A m \in outbox \cup inbox : m.kind = "notice" => m.of \in committed

(* Entitled requests are recorded, and a password or a token is only given *)
(* to UsersService on behalf of one.                                       *)
EntitledHeld ==
  /\ EntitledRequests \subseteq entitled
  /\ \A r \in Request : ChangesPassword(r) /\ pc[r] # "idle" => r \in entitled

CommitInv ==
  /\ AuthInv
  /\ \A r \in Request : EndHeld(r) /\ OutcomeHeld(r)
  /\ CommittedHeld
  /\ NoticesHeld
  /\ EntitledHeld

CommitStep == AuthNext /\ RecordStep

-----------------------------------------------------------------------------
(* Whoever saves another hash than the row's is about to commit it.        *)
LEMMA UpdateCommits ==
  ASSUME Inv, CommittedHeld, NEW r \in Request, Update(r), call[r] \in PasswordCall
  PROVE  r \in Salts'
<1>1. TypeOK /\ Held(r) /\ pc[r] = "update"
  BY DEF Inv, Update, UpdateRow
<1>2. PICK i \in Id : i = call[r].id
  BY DEF PasswordCall
<1>3. InTable(i) /\ users'[i] = Merge(users[i], entity[r], dirty[r])
  BY <1>1, <1>2 DEF Held, Update, UpdateRow, TypeOK
<1>4. "password" \in dirty[r] /\ entity[r].password.salt = r
  BY <1>1 DEF CommittedHeld
<1>5. users'[i].password.salt = r
  BY <1>3, <1>4 DEF Merge, Column
<1>6. InTable(i)'
  BY <1>3, StepGrows DEF StepOf, Progress, AccountsGrow
<1> QED BY <1>5, <1>6 DEF Salts

(* The step of a request commits no hash but its own, and ends the call.   *)
LEMMA OnlyOwnCommits ==
  ASSUME CommitInv, CommitStep, NEW r \in Request, r \in committed' \ committed
  PROVE  pc[r] \in {"insert", "update"} /\ pc'[r] \in Ended /\ result'[r] \notin {400, 404}
<1>1. AuthInv /\ Inv /\ TypeOK /\ CommittedHeld /\ EndHeld(r)
  BY DEF CommitInv, AuthInv, Inv
<1>2. PICK id \in Id : InTable(id)' /\ users'[id].password.salt = r
  BY DEF CommitStep, RecordStep, Salts
<1>3. ~(InTable(id) /\ users'[id].password = users[id].password)
  BY <1>1, <1>2 DEF CommittedHeld, Salts
<1>4. PICK q \in Request : AuthStepOf(q) /\ StepOf(q)
  <2>1. UNCHANGED vars => InTable(id) /\ users'[id].password = users[id].password
    BY <1>2 DEF vars, InTable
  <2> QED BY <1>1, <1>2, <1>3, <2>1, AuthStepCases, OutsidePart, UsersPart DEF CommitStep
<1>5. q = r /\ pc[r] \in {"insert", "update"} /\ pc'[r] \in Ended
  <2>1. CASE pc[q] = "update" /\ users'[id].password = entity[q].password /\ pc'[q] \in Ended
    BY <1>1, <1>2, <2>1 DEF CommittedHeld
  <2>2. CASE pc[q] = "insert" /\ users'[id].password.salt = q /\ pc'[q] \in Ended
    BY <1>2, <2>2
  <2> QED BY <1>1, <1>2, <1>3, <1>4, <2>1, <2>2, PasswordOrigin
<1>6. result[r] = None /\ None \notin {400, 404}
  BY <1>1, <1>5, NoneAssumption DEF EndHeld, Ended
<1>7. result'[r] \in {200, 201, 500, result[r]}
  BY <1>1, <1>4, <1>5
  DEF TypeOK, StepOf, Progress, Disturb, Accept, ExistsBy, Insert, InsertRow, InsertDuplicate, Find,
      Load, Update, UpdateRow, QueryFails, CommitUnacknowledged, Crash, Answer, Die
<1> QED BY <1>5, <1>6, <1>7

(* Nobody is committed while still on the way.                             *)
LEMMA OwnSaltIsNew ==
  ASSUME Inv, CommittedHeld, NEW r \in Request, pc[r] = "load", call[r] \in PasswordCall
  PROVE  "password" \in Diff(entity[r], users[call[r].id])
<1>1. PICK i \in Id : i = call[r].id /\ InTable(i)
  BY DEF Inv, Held, PasswordCall
<1>2. r \notin committed
  BY DEF CommittedHeld, Ended
<1>3. users[i].password.salt # r
  BY <1>1, <1>2 DEF CommittedHeld, Salts
<1>4. entity[r].password.salt = r
  BY DEF CommittedHeld
<1> QED BY <1>1, <1>3, <1>4 DEF Diff, Column

(* The requests and rows that the step of one request leaves alone.        *)
LEMMA CommittedFrame ==
  ASSUME CommitInv, CommitStep, NEW q \in Request
  PROVE  SameRequest(q) \/ StepOf(q)
<1>1. AuthInv /\ TypeOK
  BY DEF CommitInv, AuthInv, Inv
<1>2. UNCHANGED <<pc, call, entity, dirty, result>> => SameRequest(q)
  BY DEF SameRequest
<1>3. ASSUME NEW r \in Request, AuthStepOf(r) PROVE SameRequest(q) \/ StepOf(q)
  BY <1>1, <1>2, <1>3, UsersPart, StepFrame DEF vars
<1> QED BY <1>1, <1>2, <1>3, AuthStepCases, OutsidePart DEF CommitStep

(* The hashes on the way, after each step.                                 *)
LEMMA EntitiesStayCommitted ==
  ASSUME CommitInv, CommitStep, NEW q \in Request, pc'[q] \in {"load", "update"}
  PROVE  /\ \A r \in Request : entity'[q].password.salt = r =>
              r \in committed' \/ (q = r /\ call'[q] \in PasswordCall)
         /\ call'[q] \in PasswordCall => entity'[q].password.salt = q
         /\ pc'[q] = "update" /\ call'[q] \in PasswordCall => "password" \in dirty'[q]
<1>1. Inv /\ TypeOK /\ CommittedHeld /\ committed \subseteq committed'
  BY DEF CommitInv, AuthInv, Inv, CommitStep, RecordStep
<1>2. CASE SameRequest(q)
  BY <1>1, <1>2 DEF SameRequest, CommittedHeld
<1>3. CASE StepOf(q)
  <2>1. CASE pc[q] = "find" /\ call[q] \in PasswordCall /\ entity'[q].password.salt = q
             /\ call'[q] = call[q]
    <3>1. pc'[q] # "update"
      BY <1>1, <1>3, <2>1
      DEF TypeOK, StepOf, Progress, Disturb, Accept, ExistsBy, Insert, InsertRow, InsertDuplicate,
          Find, Load, Update, UpdateRow, QueryFails, CommitUnacknowledged, Crash, Await, Answer, Die
    <3> QED BY <2>1, <3>1
  <2>2. CASE /\ pc[q] = "find" /\ InTable(call[q].id) /\ call[q] \in ProfileCall
             /\ entity'[q].password = users[call[q].id].password /\ call'[q] = call[q]
    <3>1. call[q] \notin PasswordCall /\ call[q].id \in Id
      BY <2>2 DEF PasswordCall, ProfileCall
    <3> QED BY <1>1, <2>2, <3>1 DEF CommittedHeld, Salts
  <2>3. CASE pc[q] = "load" /\ entity'[q] = entity[q] /\ call'[q] = call[q]
    <3>1. pc'[q] = "update" => dirty'[q] = Diff(entity[q], users[call[q].id])
      BY <1>1, <1>3, <2>3
      DEF TypeOK, StepOf, Progress, Disturb, Accept, ExistsBy, Insert, InsertRow, InsertDuplicate,
          Find, Load, Update, UpdateRow, QueryFails, CommitUnacknowledged, Crash, Await, Answer, Die
    <3> QED BY <1>1, <2>3, <3>1, OwnSaltIsNew DEF CommittedHeld
  <2> QED BY <1>1, <1>3, <2>1, <2>2, <2>3, EntityOrigin
<1> QED BY <1>2, <1>3, CommittedFrame

(* A 200 of an inner call comes with the commit.                           *)
LEMMA AnswersStayCommitted ==
  ASSUME CommitInv, CommitStep, NEW r \in Request,
         pc'[r] = "returned", result'[r] = 200, call'[r] \in PasswordCall
  PROVE  r \in committed'
<1>1. Inv /\ TypeOK /\ CommittedHeld /\ committed \subseteq committed' /\ Salts' \subseteq committed'
  BY DEF CommitInv, AuthInv, Inv, CommitStep, RecordStep
<1>2. CASE SameRequest(r)
  BY <1>1, <1>2 DEF SameRequest, CommittedHeld
<1>3. CASE Update(r)
  BY <1>1, <1>3, UpdateCommits DEF Update, Answer
<1>4. ASSUME Find(r) PROVE FALSE
  BY <1>1, <1>4 DEF Find, NothingToSave, PasswordCall, Answer, Await, TypeOK
<1>5. ASSUME Load(r) PROVE FALSE
  <2>1. call[r] \in PasswordCall /\ pc[r] = "load" /\ Diff(entity[r], users[call[r].id]) = {}
    BY <1>1, <1>5 DEF Load, Answer, Await, TypeOK
  <2> QED BY <1>1, <2>1, OwnSaltIsNew
<1>6. CASE StepOf(r)
  BY <1>1, <1>3, <1>4, <1>5, <1>6
  DEF TypeOK, StepOf, Progress, Disturb, Accept, ExistsBy, Insert, InsertDuplicate, QueryFails,
      CommitUnacknowledged, Crash, Await, Answer, Die
<1> QED BY <1>2, <1>6, CommittedFrame

(* The step preserves what is said of committed hashes.                    *)
LEMMA StepCommittedHeld ==
  ASSUME CommitInv, CommitStep
  PROVE  CommittedHeld'
<1>1. CommittedHeld /\ committed' = committed \cup Salts' /\ Salts' \subseteq Request
  BY DEF CommitInv, CommitStep, RecordStep, Salts
<1>2. ASSUME NEW r \in committed' PROVE pc'[r] \in Ended /\ result'[r] \notin {400, 404}
  <2>1. r \in Request
    BY <1>1 DEF CommittedHeld
  <2>2. CASE r \in committed
    <3>1. pc[r] \in Ended /\ result[r] \notin {400, 404}
      BY <1>1, <2>2 DEF CommittedHeld
    <3>2. ~StepOf(r)
      BY <3>1 DEF Ended, StepOf, Progress, Disturb, Accept, ExistsBy, Insert, InsertRow,
         InsertDuplicate, Find, Load, Update, UpdateRow, QueryFails, CommitUnacknowledged, Crash,
         Awaiting
    <3> QED BY <2>1, <3>1, <3>2, CommittedFrame DEF SameRequest
  <2> QED BY <2>1, <2>2, OnlyOwnCommits
<1> QED BY <1>1, <1>2, EntitiesStayCommitted, AnswersStayCommitted DEF CommittedHeld

-----------------------------------------------------------------------------
(* A handler calls UsersService only for a caller who is entitled to it at *)
(* that moment.                                                            *)
LEMMA OnlyEntitledSave ==
  ASSUME AuthInv, NEW r \in Request, AuthStepOf(r), ChangesPassword(r)', pc[r] = "idle", pc'[r] # "idle"
  PROVE  EntitledNow(r)
<1>1. AuthHeld(r) /\ AuthTyped /\ TypeOK
  BY DEF AuthInv, Inv
<1>2. CASE UNCHANGED vars
  BY <1>2 DEF vars
<1>3. ASSUME FindUser(r), ~UNCHANGED vars PROVE EntitledNow(r)
  <2>1. PICK id \in Id : Wanted(r, id) /\ RightPassword(r, id) /\ body[r].op = "changePassword"
    BY <1>3 DEF FindUser
  <2>2. body[r] \in ChangeBody /\ stage[r] = "findUser"
    BY <1>1, <1>3, <2>1 DEF FindUser, AuthHeld, Body, ForgotBody, ResetBody
  <2>3. IsChange(r)
    BY <2>1, <2>2, NoneIsNoBody DEF IsChange, Body
  <2> QED BY <2>1, <2>2, <2>3 DEF Wanted, RightPassword, EntitledNow
<1>4. ASSUME CheckToken(r), ~UNCHANGED vars PROVE EntitledNow(r)
  BY <1>4 DEF CheckToken, Accepted, EntitledNow
<1>5. ASSUME NEW c \in Call, CallUsers(r, c) PROVE FALSE
  <2>1. body'[r] = None
    BY <1>1, <1>5 DEF CallUsers, AuthHeld, authVars
  <2> QED BY <2>1 DEF ChangesPassword, IsReset, IsChange
<1>6. ~UsersStep(r)
  BY UsersStepAwaits DEF UsersStep, Awaiting
<1> QED
  BY <1>2, <1>3, <1>4, <1>5, <1>6
  DEF AuthStepOf, Receive, SetToken, SendLink, Saved, DelToken, RedisReplyLost, AwaitFails, AuthCrash

(* The record of entitled requests covers every call after each step.      *)
LEMMA StepEntitledHeld ==
  ASSUME CommitInv, CommitStep
  PROVE  EntitledHeld'
<1>1. AuthInv /\ EntitledHeld
  BY DEF CommitInv
<1>2. EntitledRequests' \subseteq entitled' /\ entitled \subseteq entitled'
  BY DEF CommitStep, RecordStep
<1>3. ASSUME NEW q \in Request, SameHandler(q), ChangesPassword(q)', pc'[q] # "idle"
      PROVE  q \in entitled'
  BY <1>1, <1>2, <1>3 DEF SameHandler, ChangesPassword, IsReset, IsChange, EntitledHeld
<1>4. ASSUME NEW q \in Request, AuthStepOf(q), ChangesPassword(q)', pc'[q] # "idle"
      PROVE  q \in entitled'
  <2>1. CASE pc[q] = "idle"
    <3>1. EntitledNow(q)
      BY <1>1, <1>4, <2>1, OnlyEntitledSave
    <3> QED BY <1>1, <1>2, <3>1 DEF EntitledHeld, EntitledRequests
  <2>2. CASE pc[q] # "idle"
    <3>1. body'[q] = body[q]
      BY <1>1, <2>2, BegunIsStable DEF CommitStep
    <3> QED BY <1>1, <1>2, <1>4, <2>2, <3>1 DEF ChangesPassword, IsReset, IsChange, EntitledHeld
  <2> QED BY <2>1, <2>2
<1>5. ASSUME NEW q \in Request, ChangesPassword(q)', pc'[q] # "idle" PROVE q \in entitled'
  BY <1>1, <1>3, <1>4, <1>5, AuthStepCases, HandlerFrame, OutsideFrame DEF CommitStep
<1> QED BY <1>2, <1>5 DEF EntitledHeld

-----------------------------------------------------------------------------
(* Where an answer, a DEL and a notice come from.                          *)
Answered(r) == stage[r] = "savePassword" /\ pc[r] = "returned" /\ result[r] = 200

(* A handler goes on after a 200 of its inner call only.                   *)
LEMMA OutcomeOrigin ==
  ASSUME AuthInv, NEW r \in Request, AuthStepOf(r)
  PROVE  /\ reply'[r] = 200 => reply[r] = 200 \/ stage[r] = "redisDel" \/ Answered(r)
         /\ stage'[r] = "redisDel" => stage[r] = "redisDel" \/ Answered(r)
         /\ reply'[r] \in {400, 404} =>
              \/ reply'[r] = reply[r]
              \/ pc[r] = "idle"
              \/ pc[r] = "returned" /\ result[r] \in {400, 404}
         /\ \A m \in outbox' \cup inbox' : m.kind = "notice" =>
              m \in outbox \cup inbox \/ (m.of = r /\ Answered(r))
<1> USE DEF AuthInv, AuthTyped
<1>1. CASE UNCHANGED <<stage, reply, outbox, inbox>>
  BY <1>1
<1>2. ASSUME NEW b \in Body, Receive(r, b) PROVE reply' = reply /\ stage'[r] = "findUser"
                                                 /\ UNCHANGED <<outbox, inbox>>
  BY <1>2 DEF Receive
<1>3. CASE FindUser(r) \/ CheckToken(r)
  <2>1. pc[r] = "idle" /\ UNCHANGED <<outbox, inbox>>
    BY <1>3 DEF FindUser, CheckToken, AuthHeld
  <2>2. \/ Reply(r, 400) \/ Reply(r, 404)
        \/ Goto(r, "redisSet") \/ Goto(r, "redisGet") \/ Goto(r, "savePassword")
    BY <1>3 DEF FindUser, CheckToken, SavePassword
  <2> QED BY <2>1, <2>2 DEF Reply, Goto
<1>4. CASE SetToken(r) \/ SendLink(r)
  BY <1>4 DEF SetToken, SendLink, Send, Goto, Reply
<1>5. CASE Saved(r)
  BY <1>5 DEF Saved, Send, Reply, Goto, Answered
<1>6. CASE DelToken(r)
  BY <1>6 DEF DelToken, DropToken, Reply
<1>7. CASE AwaitFails(r) \/ AuthCrash(r)
  BY <1>7 DEF AwaitFails, AuthCrash, Reply, Goto
<1> QED
  BY <1>1, <1>2, <1>3, <1>4, <1>5, <1>6, <1>7
  DEF AuthStepOf, CallUsers, RedisReplyLost, UsersStep, authVars

(* Whoever was answered 200 by its inner call is committed.                *)
LEMMA AnsweredIsCommitted ==
  ASSUME CommitInv, NEW r \in Request, Answered(r)
  PROVE  r \in committed
  BY DEF CommitInv, AuthInv, AuthHeld, CommittedHeld, Answered

(* The answers agree with the commits after each step.                     *)
LEMMA StepOutcomeHeld ==
  ASSUME CommitInv, CommitStep, NEW q \in Request
  PROVE  OutcomeHeld(q)'
<1>1. AuthInv /\ CommittedHeld /\ OutcomeHeld(q) /\ EndHeld(q) /\ committed \subseteq committed'
  BY DEF CommitInv, CommitStep, RecordStep
<1>2. ASSUME q \in committed', q \notin committed PROVE reply[q] = None /\ pc[q] \notin {"idle", "returned"}
  BY <1>1, <1>2, OnlyOwnCommits DEF EndHeld, CommitInv, AuthInv, AuthHeld
<1>3. CASE SameHandler(q)
  <2>1. None \notin {400, 404}
    BY NoneAssumption
  <2> QED BY <1>1, <1>2, <1>3, <2>1 DEF SameHandler, OutcomeHeld
<1>4. CASE AuthStepOf(q)
  <2>1. None \notin {400, 404} /\ "idle" \notin Ended
    BY NoneAssumption DEF Ended
  <2>2. ASSUME reply'[q] \in {400, 404} PROVE q \notin committed'
    BY <1>1, <1>2, <1>4, <2>1, <2>2, OutcomeOrigin DEF OutcomeHeld, CommittedHeld
  <2> QED BY <1>1, <1>4, <2>2, OutcomeOrigin, AnsweredIsCommitted DEF OutcomeHeld
<1> QED BY <1>1, <1>3, <1>4, AuthStepCases, HandlerFrame, OutsideFrame DEF CommitStep

(* So do the notices.                                                      *)
LEMMA StepNoticesHeld ==
  ASSUME CommitInv, CommitStep
  PROVE  NoticesHeld'
<1>1. AuthInv /\ NoticesHeld /\ committed \subseteq committed'
  BY DEF CommitInv, CommitStep, RecordStep
<1>2. ASSUME NEW r \in Request, AuthStepOf(r) PROVE NoticesHeld'
  BY <1>1, <1>2, OutcomeOrigin, AnsweredIsCommitted DEF NoticesHeld
<1>3. CASE Outside
  <2>1. outbox' \cup inbox' \subseteq outbox \cup inbox
    BY <1>3 DEF Outside, OperatorStep, Expire, Deliver, LoseMail, authAllVars, authVars
  <2> QED BY <1>1, <2>1 DEF NoticesHeld
<1> QED BY <1>2, <1>3, AuthStepCases DEF CommitStep

(* Nothing is committed at the start.                                      *)
LEMMA CommitInit == AuthInit /\ committed = {} /\ entitled = {} => CommitInv
<1> SUFFICES ASSUME AuthInit, committed = {}, entitled = {} PROVE CommitInv
  OBVIOUS
<1>1. \A r \in Request : pc[r] = "idle" /\ stage[r] = "idle" /\ reply[r] = None
  BY DEF AuthInit, Init
<1>2. Salts = {}
  BY SaltAssumption DEF AuthInit, Init, InTable, Salts
<1>3. OwnerInv /\ None \notin {200, 400, 404} /\ outbox = {} /\ inbox = {}
  BY OwnerInit, NoneAssumption DEF AuthInit
<1> QED
  BY <1>1, <1>2, <1>3
  DEF OwnerInv, CommitInv, CommittedHeld, OutcomeHeld, NoticesHeld, EntitledHeld, EntitledRequests,
      EntitledNow

(* The invariant is inductive.                                             *)
LEMMA CommitNext == CommitInv /\ [CommitStep]_historyVars => CommitInv'
<1>1. ASSUME CommitInv, CommitStep PROVE CommitInv'
  <2>1. AuthInv' /\ \A q \in Request : EndHeld(q)'
    BY <1>1, AuthNextInv, EndHeldNext DEF CommitInv, CommitStep
  <2> QED
    BY <1>1, <2>1, StepCommittedHeld, StepOutcomeHeld, StepNoticesHeld, StepEntitledHeld
    DEF CommitInv
<1>2. ASSUME CommitInv, UNCHANGED historyVars PROVE CommitInv'
  <2>1. AuthInv' /\ \A q \in Request : EndHeld(q)'
    BY <1>2, AuthNextInv, EndHeldNext DEF CommitInv, historyVars
  <2> QED
    BY <1>2, <2>1
    DEF CommitInv, CommittedHeld, OutcomeHeld, NoticesHeld, Salts, EntitledHeld, EntitledRequests,
        EntitledNow, ChangesPassword, IsReset, IsChange, InTable, historyVars, authAllVars,
        authVars, vars
<1> QED BY <1>1, <1>2

(* The invariant holds in every reachable state.                           *)
THEOREM CommitInvariance == AuthSpecHistory => []CommitInv
  BY CommitInit, CommitNext, PTL DEF AuthSpecHistory, CommitStep

(* A 200, a notice and the DEL of a link come after the commit of the new  *)
(* password, and a 400 or 404 without one, whatever is saved beside it.    *)
THEOREM OutcomesMatchCommits == AuthSpecHistory => []OutcomeMatchesCommit
<1>1. CommitInv => OutcomeMatchesCommit
  BY DEF CommitInv, OutcomeHeld, NoticesHeld, OutcomeMatchesCommit
<1> QED BY <1>1, CommitInvariance, PTL

(* A committed change of a password was asked for by somebody who, while   *)
(* the request was under way, knew the password or held the valid link.    *)
THEOREM ChangersWereEntitled == AuthSpecHistory => []ChangesWereEntitled
<1>1. CommitInv => ChangesWereEntitled
  <2> SUFFICES ASSUME CommitInv, NEW r \in committed, ChangesPassword(r) PROVE r \in entitled
    BY DEF ChangesWereEntitled
  <2>1. r \in Request /\ pc[r] \in Ended
    BY DEF CommitInv, CommittedHeld
  <2> QED BY <2>1 DEF CommitInv, EntitledHeld, Ended
<1> QED BY <1>1, CommitInvariance, PTL

=============================================================================
