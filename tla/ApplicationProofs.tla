------------------------- MODULE ApplicationProofs -------------------------
(***************************************************************************)
(* Proofs about Application, for any sets of requests, accounts and        *)
(* passwords and any secrets and life times.  A step of the composition is *)
(* a step of AuthService and a step of Sessions, or leaves the variables   *)
(* of the one or the other alone; what is proved of each of them holds in  *)
(* the whole.                                                              *)
(***************************************************************************)
EXTENDS Application, AuthServiceProofs, SessionsProofs

(* A request is with AuthService or with the gate of Sessions, not both.   *)
Apart == \A r \in Request : stage[r] # "idle" => gate[r] = "idle"

(* A password change came through the guard, for the account of its token. *)
Borne(r) ==
  /\ bearer[r] # None
  /\ bearer[r].admitted
  /\ bearer[r].token \in tokens
  /\ bearer[r].token.secret = AccessSecret
  /\ bearer[r].token.sub = body[r].id

BearerHeld == DOMAIN bearer = Request /\ \A r \in Request : IsChange(r) => Borne(r)

AppInv == AuthInv /\ SessionInv /\ Apart /\ BearerHeld

(* The steps by their effect: on the bearer token, at the gate, behind it. *)
ChangeStep(r) ==
  \E token \in tokens \cup {None} :
    \/ ChangeRefused(r, token)
    \/ \E current, password \in Password : ChangeAdmitted(r, token, current, password)

PublicStep(r) ==
  \/ \E c \in RegisterCall : SignUp(r, c)
  \/ \E b \in ForgotBody \cup ResetBody : PublicCall(r, b)

VisitStep(r) == SessionVisit(r) \/ GateProgress(r) \/ GateDisturbed(r)

HandlerStep(r) == HandlerProgress(r) \/ HandlerDisturbed(r)

LEMMA AppStepCases ==
  ASSUME [AppNext]_appVars
  PROVE  \/ \E r \in Request : ChangeStep(r) \/ PublicStep(r) \/ VisitStep(r) \/ HandlerStep(r)
         \/ Elsewhere \/ AppTick \/ UNCHANGED appVars
  BY DEF AppNext, ChangeStep, PublicStep, VisitStep, HandlerStep, AppFinished

(* A verified token is one that was signed, for an account.                *)
LEMMA VerifiedIsToken ==
  ASSUME SessionInv, NEW token \in tokens \cup {None}, NEW s, Verified(token, s)
  PROVE  token \in tokens /\ token.sub \in Id /\ token.secret = s
<1>1. token \in tokens /\ token.secret = s
  BY DEF Verified
<1>2. token \in Token
  BY <1>1 DEF SessionInv, SessionTyped
<1> QED BY <1>1, <1>2 DEF Token

-----------------------------------------------------------------------------
(* AuthService in the whole.                                               *)
LEMMA VisitIsAuthStep ==
  ASSUME AppInv, NEW r \in Request, VisitStep(r)
  PROVE  [AuthNext]_authAllVars
<1>1. CASE SessionVisit(r)
  <2>1. UNCHANGED authVars /\ stage[r] = "idle"
    BY <1>1 DEF SessionVisit, Fresh
  <2>2. CASE \E email \in Email, password \in Password : Login(r, email, password)
    BY <2>1, <2>2 DEF Login, authAllVars
  <2>3. ASSUME NEW op \in Guarded, NEW token \in tokens \cup {None}, Arrive(r, op, token)
        PROVE  [AuthNext]_authAllVars
    <3>1. CASE Unauthorized(r, op, token) \/ Forbidden(r, op, token)
      BY <2>1, <3>1 DEF Unauthorized, Forbidden, Refuse, authAllVars
    <3>2. CASE Admit(r, op, token)
      <4>1. token.sub \in Id
        BY <3>2, AdmittedIsToken DEF AppInv, SessionInv, SessionTyped, Token
      <4>2. CASE UNCHANGED vars
        BY <2>1, <4>2 DEF authAllVars
      <4>3. CASE Accept(r, [op |-> "readUser", id |-> token.sub])
        <5> DEFINE c == [op |-> "readUser", id |-> token.sub]
        <5>1. c \in Call /\ c.op \in Offered \ {"updatePassword"}
          BY <4>1, OfferedAssumption DEF Call, ReadCall
        <5>2. CallUsers(r, c)
          BY <2>1, <4>3, <5>1 DEF CallUsers
        <5> QED BY <5>1, <5>2 DEF AuthNext
      <4>4. ASSUME NEW first \in Name, NEW last \in Name,
                   Accept(r, [op |-> "updateProfile", id |-> token.sub,
                              firstName |-> first, lastName |-> last])
            PROVE  [AuthNext]_authAllVars
        <5> DEFINE c == [op |-> "updateProfile", id |-> token.sub,
                         firstName |-> first, lastName |-> last]
        <5>1. c \in Call /\ c.op \in Offered \ {"updatePassword"}
          BY <4>1, OfferedAssumption DEF Call, ProfileCall
        <5>2. CallUsers(r, c)
          BY <2>1, <4>4, <5>1 DEF CallUsers
        <5> QED BY <5>1, <5>2 DEF AuthNext
      <4> QED BY <3>2, <4>2, <4>3, <4>4 DEF Admit
    <3> QED BY <2>3, <3>1, <3>2 DEF Arrive
  <2> QED BY <1>1, <2>2, <2>3 DEF SessionVisit
<1>2. CASE GateProgress(r) \/ GateDisturbed(r)
  BY <1>2 DEF GateProgress, GateDisturbed, ValidateUser, RefreshToken, SignTokens, FindAll,
                GateFails, authAllVars
<1> QED BY <1>1, <1>2 DEF VisitStep

LEMMA AppStepIsAuthStep == AppInv /\ [AppNext]_appVars => [AuthNext]_authAllVars
<1> SUFFICES ASSUME AppInv, [AppNext]_appVars PROVE [AuthNext]_authAllVars
  OBVIOUS
<1>1. ASSUME NEW r \in Request, ChangeStep(r) PROVE [AuthNext]_authAllVars
  <2>1. ASSUME NEW token \in tokens \cup {None}, ChangeRefused(r, token)
        PROVE  [AuthNext]_authAllVars
    BY <2>1 DEF ChangeRefused
  <2>2. ASSUME NEW token \in tokens \cup {None}, NEW current \in Password, NEW password \in Password,
               ChangeAdmitted(r, token, current, password)
        PROVE  [AuthNext]_authAllVars
    <3> DEFINE b == [op |-> "changePassword", id |-> AccountOf(token),
                     current |-> current, password |-> password]
    <3>1. token.sub \in Id
      BY <2>2, VerifiedIsToken DEF AppInv, ChangeAdmitted
    <3>2. b \in Body
      BY <3>1 DEF AccountOf, Body, ChangeBody
    <3>3. Receive(r, b)
      BY <2>2 DEF ChangeAdmitted
    <3> QED BY <3>2, <3>3 DEF AuthNext
  <2> QED BY <1>1, <2>1, <2>2 DEF ChangeStep
<1>2. ASSUME NEW r \in Request, PublicStep(r) PROVE [AuthNext]_authAllVars
  BY <1>2 DEF PublicStep, SignUp, PublicCall, AuthNext, Body, Call
<1>3. ASSUME NEW r \in Request, HandlerStep(r) PROVE [AuthNext]_authAllVars
  BY <1>3 DEF HandlerStep, HandlerProgress, HandlerDisturbed, AuthProgress, UsersStep, AuthNext
<1>4. CASE Elsewhere
  BY <1>4 DEF Elsewhere, AuthNext
<1>5. CASE AppTick \/ UNCHANGED appVars
  BY <1>5 DEF AppTick, Tick, appVars, authAllVars
<1> QED BY <1>1, <1>2, <1>3, <1>4, <1>5, VisitIsAuthStep, AppStepCases

-----------------------------------------------------------------------------
(* Sessions in the whole: the inner call of a password operation is one    *)
(* from outside, as its request is not at the gate.                        *)
LEMMA HandlerIsSessionStep ==
  ASSUME AppInv, NEW r \in Request, HandlerStep(r)
  PROVE  [SessionNext]_sessionAllVars
<1>1. UNCHANGED sessionVars
  BY DEF HandlerStep, HandlerProgress, HandlerDisturbed
<1>2. CASE UNCHANGED vars
  BY <1>1, <1>2 DEF sessionAllVars
<1>3. CASE Progress(r) \/ Disturb(r)
  BY <1>1, <1>3 DEF SessionUsersStep, SessionNext
<1>4. ASSUME NEW id \in Id, SavePassword(r, id), stage[r] \in {"findUser", "redisGet"},
             body[r] \in ResetBody \cup ChangeBody
      PROVE  [SessionNext]_sessionAllVars
  <2> DEFINE c == [op |-> "updatePassword", id |-> id, password |-> body[r].password]
  <2>1. c \in PasswordCall
    BY <1>4 DEF PasswordCall, ResetBody, ChangeBody
  <2>2. gate[r] = "idle"
    BY <1>4 DEF AppInv, Apart
  <2>3. CallOutside(r, c)
    BY <1>1, <1>4, <2>2 DEF SavePassword, CallOutside
  <2> QED BY <2>1, <2>3 DEF SessionNext
<1>5. AuthHeld(r)
  BY DEF AppInv, AuthInv
<1>6. CASE FindUser(r)
  <2>1. stage[r] = "findUser" /\ body[r] \in Body
    BY <1>5, <1>6 DEF FindUser, AuthHeld
  <2>2. body[r].op = "changePassword" => body[r] \in ChangeBody
    BY <2>1 DEF Body, ForgotBody, ResetBody, ChangeBody
  <2> QED BY <1>2, <1>4, <1>6, <2>1, <2>2 DEF FindUser
<1>7. CASE CheckToken(r)
  <2>1. stage[r] = "redisGet" /\ body[r] \in ResetBody
    BY <1>5, <1>7 DEF CheckToken, AuthHeld
  <2> QED BY <1>2, <1>4, <1>7, <2>1 DEF CheckToken
<1>8. CASE \/ SetToken(r) \/ SendLink(r) \/ Saved(r) \/ DelToken(r)
           \/ RedisReplyLost(r) \/ AwaitFails(r) \/ AuthCrash(r)
  BY <1>2, <1>8 DEF SetToken, SendLink, Saved, DelToken, RedisReplyLost, AwaitFails, AuthCrash
<1> QED BY <1>3, <1>6, <1>7, <1>8 DEF HandlerStep, HandlerProgress, HandlerDisturbed, AuthProgress

LEMMA AppStepIsSessionStep == AppInv /\ [AppNext]_appVars => [SessionNext]_sessionAllVars
<1> SUFFICES ASSUME AppInv, [AppNext]_appVars PROVE [SessionNext]_sessionAllVars
  OBVIOUS
<1>1. ASSUME NEW r \in Request, ChangeStep(r) PROVE [SessionNext]_sessionAllVars
  BY <1>1 DEF ChangeStep, ChangeRefused, ChangeAdmitted, Receive, sessionAllVars, authAllVars
<1>2. ASSUME NEW r \in Request, PublicStep(r) PROVE [SessionNext]_sessionAllVars
  <2>1. CASE \E c \in RegisterCall : SignUp(r, c)
    BY <2>1 DEF SignUp, SessionNext
  <2>2. CASE \E b \in ForgotBody \cup ResetBody : PublicCall(r, b)
    BY <2>2 DEF PublicCall, Receive, sessionAllVars
  <2> QED BY <1>2, <2>1, <2>2 DEF PublicStep
<1>3. ASSUME NEW r \in Request, VisitStep(r) PROVE [SessionNext]_sessionAllVars
  BY <1>3 DEF VisitStep, SessionVisit, GateProgress, GateDisturbed, SessionNext
<1>4. CASE Elsewhere
  <2>1. CASE \E id \in Id, status \in Status : OperatorStep(id, status)
    BY <1>4, <2>1 DEF Elsewhere, OperatorStep, SessionOperatorStep, SessionNext
  <2>2. CASE UNCHANGED vars
    BY <1>4, <2>2 DEF Elsewhere, sessionAllVars
  <2> QED BY <1>4, <2>1, <2>2 DEF Elsewhere, Expire, Deliver, LoseMail
<1>5. CASE AppTick \/ UNCHANGED appVars
  BY <1>5 DEF AppTick, SessionNext, appVars, authAllVars, sessionAllVars
<1> QED BY <1>1, <1>2, <1>3, <1>4, <1>5, HandlerIsSessionStep, AppStepCases

-----------------------------------------------------------------------------
(* A request stays on its side.                                            *)
LEMMA ApartNext == AppInv /\ [AppNext]_appVars => Apart'
<1> SUFFICES ASSUME AppInv, [AppNext]_appVars, NEW q \in Request, stage'[q] # "idle"
             PROVE  gate'[q] = "idle"
  BY DEF Apart
<1> USE DEF AppInv, Apart, AuthInv, AuthTyped, SessionInv, SessionTyped
<1>1. ASSUME NEW r \in Request, ChangeStep(r) PROVE gate'[q] = "idle"
  <2>1. gate' = gate /\ gate[r] = "idle"
    BY <1>1 DEF ChangeStep, ChangeRefused, ChangeAdmitted, Fresh, sessionVars
  <2>2. q # r => stage'[q] = stage[q]
    <3>1. stage' = stage \/ stage' = [stage EXCEPT ![r] = "findUser"]
      BY <1>1 DEF ChangeStep, ChangeRefused, ChangeAdmitted, Receive, authAllVars, authVars
    <3> QED BY <3>1
  <2> QED BY <2>1, <2>2
<1>2. ASSUME NEW r \in Request, PublicStep(r) PROVE gate'[q] = "idle"
  BY <1>2 DEF PublicStep, SignUp, PublicCall, Fresh, CallUsers, Receive, CallOutside, sessionVars, authVars
<1>3. ASSUME NEW r \in Request, VisitStep(r) PROVE gate'[q] = "idle"
  <2>1. stage' = stage
    BY <1>3 DEF VisitStep, SessionVisit, GateProgress, GateDisturbed, authVars
  <2>2. gate[r] # "idle" \/ stage[r] = "idle"
    BY <1>3 DEF VisitStep, SessionVisit, GateProgress, GateDisturbed, Fresh,
                ValidateUser, RefreshToken, SignTokens, FindAll, GateFails, Pending,
                Querying
  <2>3. \A s \in Request \ {r} : gate'[s] = gate[s]
    <3>1. \E g : gate' = [gate EXCEPT ![r] = g]
      BY <1>3 DEF VisitStep, SessionVisit, GateProgress, GateDisturbed, Login, Arrive, Unauthorized,
                  Forbidden, Refuse, Admit, Open, ValidateUser, RefreshToken, SignTokens, FindAll,
                  GateFails, Close, Claim
    <3> QED BY <3>1
  <2> QED BY <2>1, <2>2, <2>3
<1>4. ASSUME NEW r \in Request, HandlerStep(r) PROVE gate'[q] = "idle"
  <2>1. gate' = gate
    BY <1>4 DEF HandlerStep, HandlerProgress, HandlerDisturbed, sessionVars
  <2>2. stage[q] # "idle"
    <3>1. \/ stage' = stage
          \/ stage[r] # "idle" /\ \E s : stage' = [stage EXCEPT ![r] = s]
      BY <1>4
      DEF HandlerStep, HandlerProgress, HandlerDisturbed, AuthProgress, FindUser, SetToken, SendLink,
          StoreToken, CheckToken, Saved, DelToken, DropToken, RedisReplyLost, AwaitFails, AuthCrash,
          SavePassword, Reply, Goto, Suspended, Commanding, authVars
    <3> QED BY <3>1
  <2> QED BY <2>1, <2>2
<1>5. CASE Elsewhere \/ AppTick \/ UNCHANGED appVars
  BY <1>5 DEF Elsewhere, AppTick, Tick, OperatorStep, Expire, Deliver, LoseMail, authVars, sessionVars,
              appVars, authAllVars
<1> QED BY <1>1, <1>2, <1>3, <1>4, <1>5, AppStepCases

(* Tokens are not forgotten.                                               *)
LEMMA TokensStay == [SessionNext]_sessionAllVars => tokens \subseteq tokens'
<1> SUFFICES ASSUME [SessionNext]_sessionAllVars PROVE tokens \subseteq tokens'
  OBVIOUS
<1>1. ASSUME NEW r \in Request, GateStep(r) PROVE tokens \subseteq tokens'
  BY <1>1 DEF GateStep, ValidateUser, RefreshToken, SignTokens, FindAll, GateFails, SignPayload
<1>2. ASSUME NEW r \in Request, ArrivalStep(r) PROVE tokens \subseteq tokens'
  BY <1>2 DEF ArrivalStep, Login, Arrive, Unauthorized, Forbidden, Refuse, Admit
<1>3. CASE OutsideStep
  BY <1>3 DEF OutsideStep, CallOutside, SessionUsersStep, SessionOperatorStep, Tick,
              sessionAllVars, sessionVars
<1> QED BY <1>1, <1>2, <1>3, SessionStepCases

(* Only the guard lets a password change in.                               *)
LEMMA ChangesPassTheGuard ==
  ASSUME AppInv, NEW r \in Request, ~ChangeStep(r), NEW q \in Request,
         PublicStep(r) \/ VisitStep(r) \/ HandlerStep(r), IsChange(q)'
  PROVE  body'[q] = body[q] /\ bearer' = bearer
<1>1. bearer' = bearer
  BY DEF PublicStep, VisitStep, HandlerStep, SignUp, PublicCall, SessionVisit, GateProgress,
         GateDisturbed, HandlerProgress, HandlerDisturbed
<1>2. CASE \E b \in ForgotBody \cup ResetBody : PublicCall(r, b)
  <2>1. PICK b \in ForgotBody \cup ResetBody : body' = [body EXCEPT ![r] = b]
    BY <1>2 DEF PublicCall, Receive
  <2>2. b.op # "changePassword"
    BY DEF ForgotBody, ResetBody
  <2>3. body \in [Request -> Body \cup {None}]
    BY DEF AppInv, AuthInv, AuthTyped
  <2>4. q # r
    BY <2>1, <2>2, <2>3 DEF IsChange
  <2> QED BY <1>1, <2>1, <2>3, <2>4
<1>3. CASE (\E c \in RegisterCall : SignUp(r, c)) \/ VisitStep(r)
  BY <1>1, <1>3 DEF SignUp, CallUsers, VisitStep, SessionVisit, GateProgress, GateDisturbed, authVars
<1>4. CASE HandlerStep(r)
  BY <1>1, <1>4
  DEF HandlerStep, HandlerProgress, HandlerDisturbed, AuthProgress, FindUser, SetToken, SendLink,
      CheckToken, Saved, DelToken, RedisReplyLost, AwaitFails, AuthCrash, SavePassword, Reply, Goto,
      authVars
<1> QED BY <1>2, <1>3, <1>4 DEF PublicStep

LEMMA ChangeIsBorne ==
  ASSUME AppInv, NEW r \in Request, ChangeStep(r)
  PROVE  BearerHeld'
<1>1. /\ DOMAIN bearer = Request
      /\ body \in [Request -> Body \cup {None}]
      /\ \A q \in Request : IsChange(q) => Borne(q)
  BY DEF AppInv, BearerHeld, AuthInv, AuthTyped
<1>2. tokens' = tokens
  BY DEF ChangeStep, ChangeRefused, ChangeAdmitted, sessionVars
<1>3. ASSUME NEW token \in tokens \cup {None}, ChangeRefused(r, token)
      PROVE  BearerHeld'
  <2>1. body' = body /\ body[r] = None
    BY <1>3 DEF ChangeRefused, Fresh, authAllVars, authVars, AppInv, AuthInv, AuthHeld
  <2>2. bearer' = [bearer EXCEPT ![r] = [token |-> token, admitted |-> FALSE]]
    BY <1>3 DEF ChangeRefused
  <2> QED BY <1>1, <1>2, <2>1, <2>2 DEF BearerHeld, IsChange, Borne
<1>4. ASSUME NEW token \in tokens \cup {None}, NEW current \in Password, NEW password \in Password,
             ChangeAdmitted(r, token, current, password)
      PROVE  BearerHeld'
  <2> DEFINE b == [op |-> "changePassword", id |-> token.sub, current |-> current, password |-> password]
             x == [token |-> token, admitted |-> TRUE]
  <2>1. token \in tokens /\ token.secret = AccessSecret /\ token.sub \in Id
    BY <1>4, VerifiedIsToken DEF ChangeAdmitted, AppInv
  <2>2. body' = [body EXCEPT ![r] = b] /\ bearer' = [bearer EXCEPT ![r] = x]
    BY <1>4 DEF ChangeAdmitted, Receive, AccountOf
  <2>3. x # None
    <3>1. token \in Token \cup {None}
      BY <2>1 DEF AppInv, SessionInv, SessionTyped
    <3>2. x \in Bearer
      BY <3>1 DEF Bearer
    <3> QED BY <3>2, BearerAssumption
  <2>4. Borne(r)'
    BY <1>1, <1>2, <2>1, <2>2, <2>3 DEF Borne
  <2>5. ASSUME NEW q \in Request \ {r}, IsChange(q)' PROVE Borne(q)'
    BY <1>1, <1>2, <2>2, <2>5 DEF IsChange, Borne
  <2> QED BY <1>1, <2>2, <2>4, <2>5 DEF BearerHeld
<1> QED BY <1>3, <1>4 DEF ChangeStep

LEMMA BearerNext == AppInv /\ [AppNext]_appVars => BearerHeld'
<1> SUFFICES ASSUME AppInv, [AppNext]_appVars PROVE BearerHeld'
  OBVIOUS
<1>1. tokens \subseteq tokens'
  BY AppStepIsSessionStep, TokensStay
<1>2. DOMAIN bearer = Request /\ \A q \in Request : IsChange(q) => Borne(q)
  BY DEF AppInv, BearerHeld
<1>3. ASSUME NEW q \in Request, IsChange(q)', body'[q] = body[q], bearer' = bearer PROVE Borne(q)'
  BY <1>1, <1>2, <1>3 DEF IsChange, Borne
<1>4. ASSUME NEW r \in Request, PublicStep(r) \/ VisitStep(r) \/ HandlerStep(r), ~ChangeStep(r)
      PROVE  BearerHeld'
  <2>1. bearer' = bearer
    BY <1>4 DEF PublicStep, VisitStep, HandlerStep, SignUp, PublicCall, SessionVisit, GateProgress,
                GateDisturbed, HandlerProgress, HandlerDisturbed
  <2> QED BY <1>2, <1>3, <1>4, <2>1, ChangesPassTheGuard DEF BearerHeld
<1>5. CASE Elsewhere \/ AppTick \/ UNCHANGED appVars
  <2>1. body' = body /\ bearer' = bearer
    BY <1>5 DEF Elsewhere, AppTick, OperatorStep, Expire, Deliver, LoseMail, authVars, appVars, authAllVars
  <2> QED BY <1>2, <1>3, <2>1 DEF BearerHeld
<1> QED BY <1>4, <1>5, ChangeIsBorne, AppStepCases

-----------------------------------------------------------------------------
LEMMA AppInitInv == AppInit => AppInv
<1> SUFFICES ASSUME AppInit PROVE AppInv
  OBVIOUS
<1>1. AuthInv /\ SessionInv
  BY AuthInitInv, SessionInitInv DEF AppInit
<1>2. Apart /\ BearerHeld
  BY DEF AppInit, AuthInit, SessionInit, Apart, BearerHeld, IsChange
<1> QED BY <1>1, <1>2 DEF AppInv

(* The invariant is inductive.                                             *)
LEMMA AppNextInv == AppInv /\ [AppNext]_appVars => AppInv'
<1> SUFFICES ASSUME AppInv, [AppNext]_appVars PROVE AppInv'
  OBVIOUS
<1>1. AuthInv'
  BY AppStepIsAuthStep, AuthNextInv DEF AppInv
<1>2. SessionInv'
  BY AppStepIsSessionStep, SessionNextInv DEF AppInv
<1> QED BY <1>1, <1>2, ApartNext, BearerNext DEF AppInv

(* The inductive invariant holds in every reachable state of Application.  *)
THEOREM AppInvariance == AppSpec => []AppInv
  BY AppInitInv, AppNextInv, PTL DEF AppSpec

(* The password operations keep their specification when the sessions and  *)
(* the guarded endpoint of AuthController are beside them.                 *)
THEOREM AppImplementsAuthService == AppSpec => ImplementsAuthService
<1>1. AppInit => AuthInit
  BY DEF AppInit
<1> QED BY <1>1, AppStepIsAuthStep, AppInvariance, PTL DEF AppSpec, AuthSpec, ImplementsAuthService

(* Logins, refreshes and guards keep theirs when the password operations   *)
(* of AuthController are beside them.                                      *)
THEOREM AppImplementsSessions == AppSpec => ImplementsSessions
<1>1. AppInit => SessionInit
  BY DEF AppInit
<1> QED BY <1>1, AppStepIsSessionStep, AppInvariance, PTL
        DEF AppSpec, SessionSpec, ImplementsSessions

(* Whoever changes a password through auth/update-password changes that of *)
(* the account the token was signed for, and no save carries it elsewhere. *)
THEOREM ChangesStayWithTheirAccount == AppSpec => []ChangedByItsAccount
<1>1. AppInv /\ PasswordWrittenByOwner => ChangedByItsAccount
  <2> SUFFICES ASSUME AppInv, PasswordWrittenByOwner, NEW id \in Id, NEW r \in Request,
                      InTable(id), users[id].password.salt = r, IsChange(r)
               PROVE  /\ bearer[r] # None /\ bearer[r].admitted
                      /\ bearer[r].token \in tokens
                      /\ bearer[r].token.secret = AccessSecret
                      /\ bearer[r].token.sub = id
                      /\ bearer[r].token.email = users[id].email
    BY DEF ChangedByItsAccount
  <2>1. id = body[r].id
    BY DEF PasswordWrittenByOwner
  <2>2. Borne(r)
    BY DEF AppInv, BearerHeld
  <2>3. bearer[r].token.email = users[id].email
    BY <2>1, <2>2 DEF Borne, AppInv, SessionInv, TokensNameTheirAccount
  <2> QED BY <2>1, <2>2, <2>3 DEF Borne
<1> QED BY <1>1, AppInvariance, AppImplementsAuthService, PasswordsAreTheirOwners, PTL
        DEF ImplementsAuthService

-----------------------------------------------------------------------------
(* What the two halves promise, promised by the whole.                     *)

(* With every endpoint at work on one table, an address names one account  *)
(* and an account keeps the address and the role it was created with.      *)
THEOREM AppImplementsDirectory == AppSpec => ImplementsDirectory
  BY AppImplementsAuthService, AuthImplementsDirectory, PTL DEF ImplementsAuthService

(* With every endpoint at work, Redis and the handlers of forgotPassword   *)
(* and resetPassword are the life cycle of ResetLink.                      *)
THEOREM AppImplementsResetLinks == AppSpec => ImplementsResetLinks
  BY AppImplementsAuthService, AuthImplementsResetLinks, PTL DEF ImplementsAuthService

(* The safety of passwords, links and tokens, with every endpoint at work. *)
THEOREM AppIsSafe ==
  AppSpec => [](/\ EmailUnique /\ RegistrationSticks
                /\ PasswordWrittenByOwner /\ ConsumedTokenIsDead
                /\ TokensNameTheirAccount)
  BY AppImplementsAuthService, AppImplementsSessions, AuthImplementsUsers, EmailsAreUnique,
     RegistrationsStick, PasswordsAreTheirOwners, ConsumedTokensAreDead, TokensAreRight, PTL
  DEF ImplementsAuthService, ImplementsSessions

=============================================================================
