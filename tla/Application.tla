----------------------------- MODULE Application -----------------------------
(***************************************************************************)
(* The whole HTTP interface: AuthService and Sessions over one table.  A   *)
(* request is a visit of Sessions, a public call of AuthController, or     *)
(* PATCH auth/update-password, where the two meet: the global guard        *)
(* verifies the bearer token and the handler changes the password of the   *)
(* account that the token names.                                           *)
(*                                                                         *)
(* Every action is one of the composed modules, with the variables of the  *)
(* other one left alone, or, for update-password, an action of both.       *)
(***************************************************************************)
EXTENDS AuthService, Sessions

VARIABLE bearer   \* the token each update-password request came with, and the guard's verdict

appVars == <<authAllVars, sessionVars, bearer>>

Bearer == [token : Token \cup {None}, admitted : BOOLEAN]

ASSUME BearerAssumption == None \notin Bearer
ASSUME OfferedAssumption ==
  Offered = {"forgotPassword", "resetPassword", "changePassword",
             "register", "readUser", "updateProfile"}

-----------------------------------------------------------------------------
AppInit == AuthInit /\ SessionInit /\ bearer = [r \in Request |-> None]

Fresh(r) == stage[r] = "idle" /\ pc[r] = "idle" /\ gate[r] = "idle" /\ bearer[r] = None

(* signUp, forgotPassword and resetPassword are public.                    *)
SignUp(r, c) == Fresh(r) /\ CallUsers(r, c) /\ CallOutside(r, c) /\ UNCHANGED bearer

PublicCall(r, b) == Fresh(r) /\ Receive(r, b) /\ UNCHANGED <<sessionVars, bearer>>

SessionVisit(r) ==
  /\ Fresh(r)
  /\ \/ \E email \in Email, password \in Password : Login(r, email, password)
     \/ \E op \in Guarded, token \in tokens \cup {None} : Arrive(r, op, token)
  /\ UNCHANGED <<authVars, bearer>>

(* Mutant of AccountOf: the handler takes the account from the body.       *)
AccountOfBody(token) == CHOOSE id \in Id : TRUE

(* req.user.sub                                                            *)
AccountOf(token) == token.sub

(* update-password: JwtAuthGuard, then the handler.                        *)
ChangeRefused(r, token) ==
  /\ Fresh(r)
  /\ ~Verified(token, AccessSecret)
  /\ bearer' = [bearer EXCEPT ![r] = [token |-> token, admitted |-> FALSE]]
  /\ UNCHANGED <<authAllVars, sessionVars>>

(* Mutants of ChangeAdmitted: the controller calls UsersService itself; it *)
(* hands out new tokens with the answer.                                   *)
ChangeAdmittedUnchecked(r, token, current, password) ==
  /\ Fresh(r)
  /\ Verified(token, AccessSecret)
  /\ bearer' = [bearer EXCEPT ![r] = [token |-> token, admitted |-> TRUE]]
  /\ Accept(r, [op |-> "updatePassword", id |-> AccountOf(token), password |-> password])
  /\ UNCHANGED <<authVars, sessionVars>>
ChangeAdmittedRenews(r, token, current, password) ==
  /\ Fresh(r)
  /\ Verified(token, AccessSecret)
  /\ bearer' = [bearer EXCEPT ![r] = [token |-> token, admitted |-> TRUE]]
  /\ Receive(r, [op |-> "changePassword", id |-> AccountOf(token),
                 current |-> current, password |-> password])
  /\ SignPayload(token)
  /\ UNCHANGED <<now, gate, visit, claim, answer>>

ChangeAdmitted(r, token, current, password) ==
  /\ Fresh(r)
  /\ Verified(token, AccessSecret)
  /\ bearer' = [bearer EXCEPT ![r] = [token |-> token, admitted |-> TRUE]]
  /\ Receive(r, [op |-> "changePassword", id |-> AccountOf(token),
                 current |-> current, password |-> password])
  /\ UNCHANGED sessionVars

-----------------------------------------------------------------------------
GateProgress(r) ==
  /\ ValidateUser(r) \/ RefreshToken(r) \/ SignTokens(r) \/ FindAll(r)
  /\ UNCHANGED <<authVars, bearer>>

GateDisturbed(r) == GateFails(r) /\ UNCHANGED <<authVars, bearer>>

HandlerProgress(r) == AuthProgress(r) /\ UNCHANGED <<sessionVars, bearer>>

HandlerDisturbed(r) ==
  /\ RedisReplyLost(r) \/ AwaitFails(r) \/ AuthCrash(r) \/ (Disturb(r) /\ UNCHANGED authVars)
  /\ UNCHANGED <<sessionVars, bearer>>

Elsewhere ==
  /\ \/ \E id \in Id, status \in Status : OperatorStep(id, status)
     \/ \E e \in Email : Expire(e)
     \/ \E m \in outbox : Deliver(m) \/ LoseMail(m)
  /\ UNCHANGED <<sessionVars, bearer>>

AppTick == Tick /\ UNCHANGED <<authVars, bearer>>

AppEnded(r) ==
  IF gate[r] = "idle"
  THEN AuthEnded(r) \/ (bearer[r] # None /\ ~bearer[r].admitted)
  ELSE SessionEnded(r)

AppFinished ==
  /\ \A r \in Request : AppEnded(r)
  /\ UNCHANGED appVars

AppNext ==
  \/ \E r \in Request :
       \/ \E c \in RegisterCall : SignUp(r, c)
       \/ \E b \in ForgotBody \cup ResetBody : PublicCall(r, b)
       \/ SessionVisit(r)
       \/ \E token \in tokens \cup {None} :
            \/ ChangeRefused(r, token)
            \/ \E current, password \in Password : ChangeAdmitted(r, token, current, password)
       \/ GateProgress(r) \/ GateDisturbed(r)
       \/ HandlerProgress(r) \/ HandlerDisturbed(r)
  \/ Elsewhere
  \/ AppTick
  \/ AppFinished

AppSpec == AppInit /\ [][AppNext]_appVars

(* Every query, Redis command and continuation gets its turn.              *)
AppFairSpec ==
  AppSpec /\ \A r \in Request : WF_appVars(GateProgress(r) \/ HandlerProgress(r))

-----------------------------------------------------------------------------
(* The parts in the whole: what was shown of AuthService and of Sessions   *)
(* alone holds with the other one beside it.                               *)
ImplementsAuthService == AuthSpec
ImplementsSessions == SessionSpec

(* A password that came in through update-password is on the account that  *)
(* the token was signed for, under its address, whatever stale entities    *)
(* were saved since: nobody changes another account's password, and no     *)
(* save carries a changed password to another account.                     *)
ChangedByItsAccount ==
  \A id \in Id, r \in Request :
    (InTable(id) /\ users[id].password.salt = r /\ IsChange(r)) =>
      /\ bearer[r] # None /\ bearer[r].admitted
      /\ bearer[r].token \in tokens
      /\ bearer[r].token.secret = AccessSecret
      /\ bearer[r].token.sub = id
      /\ bearer[r].token.email = users[id].email

(* Every request ends: the visits at the gate, the handlers of AuthService *)
(* and the calls of UsersService under either.                             *)
EveryRequestEnds == \A r \in Request : ~Fresh(r) ~> AppEnded(r)

=============================================================================
