--------------------------- MODULE SessionsProofs ---------------------------
(***************************************************************************)
(* Proofs about Sessions, for any sets of requests and accounts, any life  *)
(* times and any choice of secrets.  The part about accounts comes from    *)
(* UsersServiceProofs: a step of Sessions is a step of UsersService or     *)
(* leaves its variables alone.                                             *)
(***************************************************************************)
EXTENDS SessionsHistory, UsersServiceProofs

SessionTyped ==
  /\ now \in Nat
  /\ tokens \subseteq Token
  /\ gate \in [Request -> Pending \cup {"idle", "served", "closed", "crashed"}]
  /\ visit \in [Request -> Visit \cup {None}]
  /\ claim \in [Request -> Payload \cup {None}]
  /\ answer \in [Request -> {None, 200, 201, 400, 401, 403, 404, 500}]

(* A payload that is right about its account.                              *)
RightClaim(p) ==
  /\ p \in Payload
  /\ InTable(p.sub)
  /\ users[p.sub].email = p.email
  /\ users[p.sub].role = p.role

(* A handler suspended in refreshToken came with a token that was signed,  *)
(* and what a handler is about to sign is right.                           *)
RefreshHeld == \A r \in Request : gate[r] = "refreshing" => visit[r].token \in tokens

ClaimsHeld == \A r \in Request : gate[r] = "signing" => RightClaim(claim[r])

SessionInv == Inv /\ SessionTyped /\ RefreshHeld /\ ClaimsHeld /\ TokensNameTheirAccount

(* The steps of one visit, and those of nobody's visit.                    *)
GateStep(r) ==
  ValidateUser(r) \/ RefreshToken(r) \/ SignTokens(r) \/ FindAll(r) \/ GateFails(r)

ArrivalStep(r) ==
  \/ \E email \in Email, password \in Password : Login(r, email, password)
  \/ \E op \in Guarded, token \in tokens \cup {None} : Arrive(r, op, token)

OutsideStep ==
  \/ \E r \in Request : \/ \E c \in RegisterCall \cup PasswordCall : CallOutside(r, c)
                        \/ SessionUsersStep(r)
  \/ \E id \in Id, s \in Status : SessionOperatorStep(id, s)
  \/ Tick
  \/ UNCHANGED sessionAllVars

-----------------------------------------------------------------------------
(* Every step is one of the three kinds.                                   *)
LEMMA SessionStepCases ==
  ASSUME [SessionNext]_sessionAllVars
  PROVE  (\E r \in Request : GateStep(r) \/ ArrivalStep(r)) \/ OutsideStep
  BY DEF SessionNext, GateStep, ArrivalStep, OutsideStep, SessionFinished

(* An admitted visit calls UsersService with the account of its token.     *)
LEMMA AdmitCallsUsers ==
  ASSUME SessionTyped, NEW r \in Request, NEW op \in Guarded, NEW token \in tokens,
         Admit(r, op, token)
  PROVE  (\E c \in Call : Accept(r, c)) \/ UNCHANGED vars
<1>1. token.sub \in Id
  BY DEF SessionTyped, Token
<1>2. [op |-> "readUser", id |-> token.sub] \in Call
  BY <1>1 DEF Call, ReadCall
<1>3. ASSUME NEW first \in Name, NEW last \in Name
      PROVE  [op |-> "updateProfile", id |-> token.sub,
              firstName |-> first, lastName |-> last] \in Call
  BY <1>1 DEF Call, ProfileCall
<1> QED BY <1>2, <1>3 DEF Admit

(* A token that passes a guard is a token.                                 *)
LEMMA AdmittedIsToken ==
  ASSUME NEW r \in Request, NEW op \in Guarded, NEW token \in tokens \cup {None},
         Admit(r, op, token)
  PROVE  token \in tokens
<1>1. \E s \in Guards(op) : TRUE
  BY DEF Guards
<1> QED BY <1>1 DEF Admit, Verified

(* Every step of Sessions is, on the table and the calls, a step of        *)
(* UsersService or none.                                                   *)
LEMMA SessionStepIsUsersStep == SessionInv /\ [SessionNext]_sessionAllVars => [Next]_vars
<1> SUFFICES ASSUME SessionInv, [SessionNext]_sessionAllVars
             PROVE  [Next]_vars
  OBVIOUS
<1>1. ASSUME NEW r \in Request, GateStep(r)
      PROVE  UNCHANGED vars
  BY <1>1 DEF GateStep, ValidateUser, RefreshToken, SignTokens, FindAll, GateFails
<1>2. ASSUME NEW r \in Request, ArrivalStep(r)
      PROVE  (\E c \in Call : Accept(r, c)) \/ UNCHANGED vars
  <2>1. ASSUME NEW op \in Guarded, NEW token \in tokens \cup {None}, Arrive(r, op, token)
        PROVE  (\E c \in Call : Accept(r, c)) \/ UNCHANGED vars
    <3>1. CASE Admit(r, op, token)
      BY <3>1, AdmittedIsToken, AdmitCallsUsers DEF SessionInv
    <3>2. CASE Unauthorized(r, op, token) \/ Forbidden(r, op, token)
      BY <3>2 DEF Unauthorized, Forbidden, Refuse
    <3> QED BY <2>1, <3>1, <3>2 DEF Arrive
  <2> QED BY <1>2, <2>1 DEF ArrivalStep, Login
<1>3. CASE OutsideStep
  BY <1>3 DEF OutsideStep, CallOutside, SessionUsersStep, SessionOperatorStep, Tick,
              sessionAllVars, Next, Call
<1> QED BY <1>1, <1>2, <1>3, SessionStepCases DEF Next

(* No step of UsersService makes an account disappear or gives it another  *)
(* address or role.                                                        *)
LEMMA NextGrows ==
  ASSUME Inv, [Next]_vars
  PROVE  AccountsGrow
<1>1. ASSUME NEW id \in Id, NEW s \in Status, OperatorSetStatus(id, s)
      PROVE  AccountsGrow
  BY <1>1, OperatorKeepsAccounts DEF SameAccounts, AccountsGrow
<1>2. ASSUME NEW r \in Request, StepOf(r)
      PROVE  AccountsGrow
  BY <1>2, StepGrows
<1>3. CASE UNCHANGED vars
  BY <1>3 DEF vars, AccountsGrow, InTable
<1> QED BY <1>1, <1>2, <1>3 DEF Next, StepOf, Finished

-----------------------------------------------------------------------------
(* The invariant holds before the first login.                             *)
LEMMA SessionInitInv == SessionInit => SessionInv
<1> SUFFICES ASSUME SessionInit PROVE SessionInv
  OBVIOUS
<1>1. Inv
  BY InitInv DEF SessionInit
<1>2. SessionTyped /\ RefreshHeld /\ ClaimsHeld /\ TokensNameTheirAccount
  BY DEF SessionInit, SessionTyped, RefreshHeld, ClaimsHeld, TokensNameTheirAccount
<1> QED BY <1>1, <1>2 DEF SessionInv

(* What signPayload makes of an account's own id, address and role.        *)
LEMMA SignedIsToken ==
  ASSUME SessionTyped, NEW p, p.sub \in Id, p.email \in Email, p.role \in Role,
         NEW secret \in Secret, NEW lifetime \in Nat
  PROVE  /\ Signed(p, secret, lifetime) \in Token
         /\ Signed(p, secret, lifetime).sub = p.sub
         /\ Signed(p, secret, lifetime).email = p.email
         /\ Signed(p, secret, lifetime).role = p.role
  BY DEF Signed, Token, SessionTyped

(* Signing for an account as it is in the table keeps the tokens right.    *)
LEMMA SigningIsRight ==
  ASSUME SessionTyped, TokensNameTheirAccount, UNCHANGED vars, NEW p, SignPayload(p),
         p.sub \in Id, p.email \in Email, p.role \in Role,
         InTable(p.sub), users[p.sub].email = p.email, users[p.sub].role = p.role
  PROVE  tokens' \subseteq Token /\ tokens \subseteq tokens' /\ TokensNameTheirAccount'
<1> DEFINE access == Signed(p, AccessSecret, AccessTime)
<1> DEFINE refresh == Signed(p, RefreshSecret, RefreshTime)
<1>1. AccessSecret \in Secret /\ RefreshSecret \in Secret
  BY DEF Secret
<1>2. /\ access \in Token /\ access.sub = p.sub /\ access.email = p.email
      /\ access.role = p.role
  BY <1>1, TimeAssumption, SignedIsToken
<1>3. /\ refresh \in Token /\ refresh.sub = p.sub /\ refresh.email = p.email
      /\ refresh.role = p.role
  BY <1>1, TimeAssumption, SignedIsToken
<1>4. tokens' = tokens \cup {access, refresh}
  BY DEF SignPayload
<1> HIDE DEF access, refresh
<1>5. tokens' \subseteq Token
  BY <1>2, <1>3, <1>4 DEF SessionTyped
<1>6. users' = users
  BY DEF vars
<1> QED BY <1>2, <1>3, <1>4, <1>5, <1>6 DEF TokensNameTheirAccount, InTable

(* Where tokens are signed, and that nothing else touches them.            *)
LEMMA GateStepTokens ==
  ASSUME SessionInv, NEW r \in Request, GateStep(r)
  PROVE  tokens' \subseteq Token /\ tokens \subseteq tokens' /\ TokensNameTheirAccount'
<1>1. UNCHANGED vars
  BY DEF GateStep, ValidateUser, RefreshToken, SignTokens, FindAll, GateFails
<1>2. CASE tokens' = tokens
  BY <1>1, <1>2 DEF SessionInv, SessionTyped, TokensNameTheirAccount, vars, InTable
<1>3. CASE SignTokens(r)
  <2> DEFINE p == claim[r]
  <2>1. gate[r] = "signing" /\ SignPayload(p)
    BY <1>3 DEF SignTokens
  <2>2. RightClaim(p)
    BY <2>1 DEF SessionInv, ClaimsHeld
  <2>3. p.sub \in Id /\ p.email \in Email /\ p.role \in Role
    BY <2>2 DEF RightClaim, Payload
  <2> HIDE DEF p
  <2> QED BY <1>1, <2>1, <2>2, <2>3, SigningIsRight DEF SessionInv, RightClaim
<1> QED BY <1>2, <1>3 DEF GateStep, ValidateUser, RefreshToken, FindAll, GateFails

(* What a query lets its handler sign is right about the account.          *)
LEMMA DecidedIsRight ==
  ASSUME SessionInv, NEW r \in Request, NEW p, Claim(r, p), ValidateUser(r) \/ RefreshToken(r)
  PROVE  RightClaim(p)
<1>1. claim' = [claim EXCEPT ![r] = p] /\ claim'[r] = p /\ gate'[r] = "signing"
  BY DEF Claim, SessionInv, SessionTyped
<1>2. ~(\E code \in Nat : Close(r, code))
  BY <1>1 DEF Close, SessionInv, SessionTyped
<1>3. CASE ValidateUser(r)
  <2>1. PICK id \in Id :
          /\ InTable(id)
          /\ Claim(r, [sub |-> id, email |-> users[id].email, role |-> users[id].role])
    BY <1>2, <1>3 DEF ValidateUser
  <2>2. p = [sub |-> id, email |-> users[id].email, role |-> users[id].role]
    BY <1>1, <2>1 DEF Claim, SessionInv, SessionTyped
  <2>3. users[id].email \in Email /\ users[id].role \in Role
    BY <2>1 DEF SessionInv, Inv, TypeOK, InTable, Row
  <2> QED BY <2>1, <2>2, <2>3 DEF RightClaim, Payload
<1>4. CASE RefreshToken(r)
  <2> DEFINE old == visit[r].token
  <2>1. gate[r] = "refreshing" /\ Claim(r, [sub |-> old.sub, email |-> old.email, role |-> old.role])
    BY <1>2, <1>4 DEF RefreshToken
  <2>2. p = [sub |-> old.sub, email |-> old.email, role |-> old.role]
    BY <1>1, <2>1 DEF Claim, SessionInv, SessionTyped
  <2>3. old \in tokens /\ old \in Token
    BY <2>1 DEF SessionInv, RefreshHeld, SessionTyped
  <2>4. InTable(old.sub) /\ users[old.sub].email = old.email /\ users[old.sub].role = old.role
    BY <2>3 DEF SessionInv, TokensNameTheirAccount
  <2>5. old.sub \in Id /\ old.email \in Email /\ old.role \in Role
    BY <2>3 DEF Token
  <2> HIDE DEF old
  <2> QED BY <2>2, <2>4, <2>5 DEF RightClaim, Payload
<1> QED BY <1>3, <1>4

(* What a step at the gate does: it decides to sign, answers, or dies.     *)
LEMMA GateStepCases ==
  ASSUME SessionInv, NEW r \in Request, GateStep(r)
  PROVE  \/ \E p : Claim(r, p) /\ RightClaim(p)
         \/ \E code \in {200, 201, 400, 401, 404, 500} : Close(r, code)
         \/ gate' = [gate EXCEPT ![r] = "crashed"] /\ UNCHANGED <<visit, claim, answer>>
<1>1. CASE ValidateUser(r) \/ RefreshToken(r)
  <2>1. (\E p : Claim(r, p)) \/ \E code \in {400, 401, 404} : Close(r, code)
    BY <1>1 DEF ValidateUser, RefreshToken
  <2> QED BY <1>1, <2>1, DecidedIsRight
<1>2. CASE SignTokens(r) \/ FindAll(r)
  BY <1>2 DEF SignTokens, FindAll
<1>3. CASE GateFails(r)
  BY <1>3 DEF GateFails
<1> QED BY <1>1, <1>2, <1>3 DEF GateStep

(* The types of the gate's variables, for the steps of a visit.            *)
LEMMA GateStepTyped ==
  ASSUME SessionInv, NEW r \in Request, GateStep(r)
  PROVE  SessionTyped' /\ RefreshHeld' /\ ClaimsHeld'
<1>1. tokens' \subseteq Token /\ tokens \subseteq tokens'
  BY GateStepTokens
<1>2. now' = now /\ visit' = visit /\ users' = users
  BY DEF GateStep, ValidateUser, RefreshToken, SignTokens, FindAll, GateFails, Close, Claim, vars
<1>3. \A p : RightClaim(p)' <=> RightClaim(p)
  BY <1>2 DEF RightClaim, InTable
<1>4. CASE \E p : Claim(r, p) /\ RightClaim(p)
  <2>1. PICK p : Claim(r, p) /\ RightClaim(p)
    BY <1>4
  <2>2. p \in Payload
    BY <2>1 DEF RightClaim
  <2> QED BY <1>1, <1>2, <1>3, <2>1, <2>2
          DEF Claim, SessionInv, SessionTyped, RefreshHeld, ClaimsHeld, Pending
<1>5. ASSUME gate'[r] \in {"closed", "crashed"}, gate' = [gate EXCEPT ![r] = gate'[r]],
             answer' \in [Request -> {None, 200, 201, 400, 401, 403, 404, 500}], claim' = claim
      PROVE  SessionTyped' /\ RefreshHeld' /\ ClaimsHeld'
  BY <1>1, <1>2, <1>3, <1>5 DEF SessionInv, SessionTyped, RefreshHeld, ClaimsHeld
<1>6. CASE \E code \in {200, 201, 400, 401, 404, 500} : Close(r, code)
  BY <1>5, <1>6 DEF Close, SessionInv, SessionTyped
<1>7. CASE gate' = [gate EXCEPT ![r] = "crashed"] /\ UNCHANGED <<visit, claim, answer>>
  BY <1>5, <1>7 DEF SessionInv, SessionTyped
<1> QED BY <1>4, <1>6, <1>7, GateStepCases

(* A right payload stays right: accounts keep their address and role.      *)
LEMMA ClaimsStayRight ==
  ASSUME AccountsGrow, NEW p, RightClaim(p)
  PROVE  RightClaim(p)'
  BY DEF AccountsGrow, RightClaim, InTable, Payload

(* The types of the gate's variables when a visit arrives.                 *)
LEMMA ArrivalTyped ==
  ASSUME SessionInv, NEW r \in Request, ArrivalStep(r), AccountsGrow
  PROVE  SessionTyped' /\ RefreshHeld' /\ ClaimsHeld' /\ tokens' = tokens
<1>1. ASSUME NEW v \in Visit, NEW await \in Querying \cup {"served", "closed"},
             Open(r, v, await), UNCHANGED <<now, tokens>>,
             answer' \in [Request -> {None, 200, 201, 400, 401, 403, 404, 500}],
             await = "refreshing" => v.token \in tokens
      PROVE  SessionTyped' /\ RefreshHeld' /\ ClaimsHeld' /\ tokens' = tokens
  <2>1. /\ gate' \in [Request -> Pending \cup {"idle", "served", "closed", "crashed"}]
        /\ visit' \in [Request -> Visit \cup {None}]
    BY <1>1 DEF Open, SessionInv, SessionTyped, Pending, Querying
  <2>2. \A q \in Request : gate'[q] = "refreshing" => visit'[q].token \in tokens
    BY <1>1 DEF Open, SessionInv, SessionTyped, RefreshHeld
  <2>3. claim' = claim /\ \A q \in Request : gate'[q] = "signing" => gate[q] = "signing"
    BY <1>1 DEF Open, SessionInv, SessionTyped, Querying
  <2>4. ClaimsHeld'
    BY <2>3, ClaimsStayRight DEF SessionInv, ClaimsHeld
  <2> QED BY <1>1, <2>1, <2>2, <2>3, <2>4 DEF SessionInv, SessionTyped, RefreshHeld
<1>2. ASSUME NEW email \in Email, NEW password \in Password, Login(r, email, password)
      PROVE  SessionTyped' /\ RefreshHeld' /\ ClaimsHeld' /\ tokens' = tokens
  <2> DEFINE v == [op |-> "login", email |-> email, password |-> password]
  <2>1. v \in Visit
    BY DEF Visit, LoginVisit
  <2>2. Open(r, v, "validating") /\ UNCHANGED <<now, tokens, answer>>
    BY <1>2 DEF Login
  <2> HIDE DEF v
  <2> QED BY <1>1, <2>1, <2>2 DEF SessionInv, SessionTyped, Querying
<1>3. ASSUME NEW op \in Guarded, NEW token \in tokens \cup {None}, Arrive(r, op, token)
      PROVE  SessionTyped' /\ RefreshHeld' /\ ClaimsHeld' /\ tokens' = tokens
  <2> DEFINE v == [op |-> op, token |-> token]
  <2>1. v \in Visit /\ v.token = token
    BY DEF Visit, TokenVisit, SessionInv, SessionTyped
  <2>2. CASE Unauthorized(r, op, token) \/ Forbidden(r, op, token)
    <3>1. PICK code \in {401, 403} : Refuse(r, op, token, code)
      BY <2>2 DEF Unauthorized, Forbidden
    <3>2. /\ Open(r, v, "closed") /\ UNCHANGED <<now, tokens>>
          /\ answer' = [answer EXCEPT ![r] = code]
      BY <3>1 DEF Refuse
    <3>3. answer' \in [Request -> {None, 200, 201, 400, 401, 403, 404, 500}]
      BY <3>2 DEF SessionInv, SessionTyped
    <3> HIDE DEF v
    <3> QED BY <1>1, <2>1, <3>2, <3>3
  <2>3. CASE Admit(r, op, token)
    <3>1. token \in tokens
      BY <2>3, AdmittedIsToken
    <3>2. PICK await \in Querying \cup {"served"} : Open(r, v, await)
      BY <2>3 DEF Admit, Querying
    <3>3. UNCHANGED <<now, tokens, answer>>
      BY <2>3 DEF Admit
    <3> HIDE DEF v
    <3> QED BY <1>1, <2>1, <3>1, <3>2, <3>3 DEF SessionInv, SessionTyped
  <2> QED BY <1>3, <2>2, <2>3 DEF Arrive
<1> QED BY <1>2, <1>3 DEF ArrivalStep

(* What happens away from the gate keeps its variables or moves the clock. *)
LEMMA OutsideTyped ==
  ASSUME SessionInv, OutsideStep, AccountsGrow
  PROVE  SessionTyped' /\ RefreshHeld' /\ ClaimsHeld' /\ tokens' = tokens
<1>1. /\ UNCHANGED <<tokens, gate, visit, claim, answer>>
      /\ now' \in {now, now + 1}
  BY DEF OutsideStep, CallOutside, SessionUsersStep, SessionOperatorStep, Tick,
         sessionAllVars, sessionVars
<1>2. ClaimsHeld'
  BY <1>1, ClaimsStayRight DEF SessionInv, ClaimsHeld
<1> QED BY <1>1, <1>2 DEF SessionInv, SessionTyped, RefreshHeld

(* The invariant is inductive: tokens stay right because accounts keep     *)
(* their address and role, and new tokens are signed from the row or from  *)
(* a token that is right.                                                  *)
LEMMA SessionNextInv == SessionInv /\ [SessionNext]_sessionAllVars => SessionInv'
<1> SUFFICES ASSUME SessionInv, [SessionNext]_sessionAllVars
             PROVE  SessionInv'
  OBVIOUS
<1>1. [Next]_vars
  BY SessionStepIsUsersStep
<1>2. Inv'
  BY <1>1, NextInv DEF SessionInv
<1>3. AccountsGrow
  BY <1>1, NextGrows DEF SessionInv
<1>4. SessionTyped' /\ RefreshHeld' /\ ClaimsHeld' /\ TokensNameTheirAccount'
  <2>1. ASSUME NEW r \in Request, GateStep(r)
        PROVE  SessionTyped' /\ RefreshHeld' /\ ClaimsHeld' /\ TokensNameTheirAccount'
    BY <2>1, GateStepTokens, GateStepTyped
  <2>2. ASSUME tokens' = tokens
        PROVE  TokensNameTheirAccount'
    <3>1. \A t \in tokens : t.sub \in Id
      BY DEF SessionInv, SessionTyped, Token
    <3> QED BY <1>3, <2>2, <3>1 DEF SessionInv, TokensNameTheirAccount, AccountsGrow, InTable
  <2>3. ASSUME NEW r \in Request, ArrivalStep(r)
        PROVE  SessionTyped' /\ RefreshHeld' /\ ClaimsHeld' /\ TokensNameTheirAccount'
    BY <1>3, <2>2, <2>3, ArrivalTyped
  <2>4. CASE OutsideStep
    BY <1>3, <2>2, <2>4, OutsideTyped
  <2> QED BY <2>1, <2>3, <2>4, SessionStepCases
<1> QED BY <1>2, <1>4 DEF SessionInv

(* The inductive invariant holds in every reachable state of Sessions.     *)
THEOREM SessionInvariance == SessionSpec => []SessionInv
  BY SessionInitInv, SessionNextInv, PTL DEF SessionSpec

(* Type correctness of the sessions.                                       *)
THEOREM SessionTypeCorrect == SessionSpec => []SessionTypeOK
<1>1. SessionInv => SessionTypeOK
  BY DEF SessionInv, Inv, SessionTyped, SessionTypeOK
<1> QED BY <1>1, SessionInvariance, PTL

(* The role and the address in a token are those of its account, for any   *)
(* number of refreshes and whatever is saved meanwhile: the guards may     *)
(* trust the token, and findByIdOrFail of refreshToken always finds a row. *)
THEOREM TokensAreRight == SessionSpec => []TokensNameTheirAccount
<1>1. SessionInv => TokensNameTheirAccount
  BY DEF SessionInv
<1> QED BY <1>1, SessionInvariance, PTL

(* With sessions on top, the table still implements UsersService.          *)
THEOREM SessionsImplementUsers == SessionSpec => Spec
<1>1. SessionInit => Init
  BY DEF SessionInit
<1> QED BY <1>1, SessionInvariance, SessionStepIsUsersStep, PTL DEF SessionSpec, Spec

-----------------------------------------------------------------------------
(* What a handler is about to sign is of an account that proved itself.    *)
ClaimsFromLogin == \A r \in Request : gate[r] = "signing" => claim[r].sub \in proved

(* While a refresh is under way the record holds whoever is active now.    *)
ActiveRecorded ==
  /\ wasActive \in [Request -> SUBSET Id]
  /\ \A r \in Request : gate[r] = "refreshing" => ActiveAccounts \subseteq wasActive[r]

(* A visit that has not arrived has no answer, and a query belongs to the  *)
(* endpoint that makes it.                                                 *)
VisitHeld(r) ==
  /\ gate[r] = "idle" => answer[r] = None
  /\ gate[r] = "validating" => visit[r].op = "login"
  /\ gate[r] = "listing" => visit[r].op = "list"

GateHeld == \A r \in Request : VisitHeld(r)

SessionHistoryInv ==
  /\ SessionInv
  /\ EveryTokenFromLogin
  /\ ClaimsFromLogin
  /\ ActiveRecorded
  /\ GateHeld
  /\ RefreshNeedsActiveAccount

HistoryStep == [SessionNext /\ SessionNextHistory]_<<sessionAllVars, sessionHistory>>

(* The record of logins and of active accounts in a step, a stutter        *)
(* included.                                                               *)
LEMMA HistoryGrows ==
  ASSUME SessionHistoryInv, HistoryStep
  PROVE  /\ proved \subseteq proved'
         /\ wasActive' \in [Request -> SUBSET Id]
         /\ \A r \in Request : wasActive[r] \subseteq wasActive'[r]
<1>1. CASE SessionNextHistory
  <2>1. ActiveAccounts' \subseteq Id
    BY DEF ActiveAccounts
  <2> QED BY <1>1, <2>1 DEF SessionNextHistory, SessionHistoryInv, ActiveRecorded
<1>2. CASE UNCHANGED <<sessionAllVars, sessionHistory>>
  BY <1>2 DEF sessionHistory, SessionHistoryInv, ActiveRecorded
<1> QED BY <1>1, <1>2 DEF HistoryStep

(* What the steps of a visit and the others do to the gate, with who is    *)
(* touched.                                                                *)
LEMMA GateFrames ==
  ASSUME SessionHistoryInv, HistoryStep
  PROVE  /\ \A r \in Request : GateStep(r) => \A q \in Request \ {r} :
              /\ gate'[q] = gate[q] /\ visit'[q] = visit[q] /\ answer'[q] = answer[q]
              /\ claim'[q] = claim[q]
         /\ OutsideStep => UNCHANGED <<gate, visit, claim, answer>>
<1>1. ASSUME NEW r \in Request, GateStep(r), NEW q \in Request \ {r}
      PROVE  /\ gate'[q] = gate[q] /\ visit'[q] = visit[q] /\ answer'[q] = answer[q]
             /\ claim'[q] = claim[q]
  BY <1>1, GateStepCases DEF SessionHistoryInv, SessionInv, SessionTyped, Claim, Close
<1>2. OutsideStep => UNCHANGED <<gate, visit, claim, answer>>
  BY DEF OutsideStep, CallOutside, SessionUsersStep, SessionOperatorStep, Tick,
         sessionAllVars, sessionVars
<1> QED BY <1>1, <1>2

(* An arrival touches its own visit only, does not get to sign, and is not *)
(* answered 200 at the gate.                                               *)
LEMMA ArrivalFrames ==
  ASSUME SessionHistoryInv, NEW r \in Request, ArrivalStep(r)
  PROVE  /\ claim' = claim
         /\ \A q \in Request \ {r} :
              gate'[q] = gate[q] /\ visit'[q] = visit[q] /\ answer'[q] = answer[q]
         /\ gate'[r] \notin {"idle", "signing"}
         /\ answer'[r] # 200
         /\ gate'[r] = "validating" => visit'[r].op = "login"
         /\ gate'[r] = "listing" => visit'[r].op = "list"
<1> USE DEF SessionHistoryInv, SessionInv, SessionTyped
<1>1. ASSUME NEW v, NEW await \in Querying \cup {"served", "closed"}, Open(r, v, await),
             \/ answer' = answer
             \/ \E code \in {401, 403} : answer' = [answer EXCEPT ![r] = code],
             await = "validating" => v.op = "login", await = "listing" => v.op = "list"
      PROVE  /\ claim' = claim
             /\ \A q \in Request \ {r} :
                  gate'[q] = gate[q] /\ visit'[q] = visit[q] /\ answer'[q] = answer[q]
             /\ gate'[r] \notin {"idle", "signing"}
             /\ answer'[r] # 200
             /\ gate'[r] = "validating" => visit'[r].op = "login"
             /\ gate'[r] = "listing" => visit'[r].op = "list"
  <2>1. gate[r] = "idle" /\ answer[r] = None /\ None # 200
    BY <1>1, NoneAssumption DEF Open, GateHeld, VisitHeld
  <2>2. gate'[r] = await /\ visit'[r] = v
    BY <1>1 DEF Open
  <2>3. answer'[r] # 200
    BY <1>1, <2>1
  <2> QED BY <1>1, <2>2, <2>3 DEF Open, Querying
<1>2. ASSUME NEW email \in Email, NEW password \in Password, Login(r, email, password)
      PROVE  /\ Open(r, [op |-> "login", email |-> email, password |-> password], "validating")
             /\ answer' = answer
  BY <1>2 DEF Login
<1>3. ASSUME NEW op \in Guarded, NEW token \in tokens \cup {None}, Arrive(r, op, token)
      PROVE  /\ \E await \in {"refreshing", "listing", "served", "closed"} :
                  Open(r, [op |-> op, token |-> token], await) /\ (await = "listing" => op = "list")
             /\ \/ answer' = answer
                \/ \E code \in {401, 403} : answer' = [answer EXCEPT ![r] = code]
  BY <1>3 DEF Arrive, Unauthorized, Forbidden, Refuse, Admit
<1>4. CASE \E email \in Email, password \in Password : Login(r, email, password)
  <2>1. PICK v : /\ Open(r, v, "validating") /\ v.op = "login"
                 /\ answer' = answer
    BY <1>2, <1>4
  <2> QED BY <1>1, <2>1 DEF Querying
<1>5. CASE \E op \in Guarded, token \in tokens \cup {None} : Arrive(r, op, token)
  <2>1. PICK op \in Guarded, token \in tokens \cup {None} : Arrive(r, op, token)
    BY <1>5
  <2> DEFINE v == [op |-> op, token |-> token]
  <2>2. PICK await \in {"refreshing", "listing", "served", "closed"} :
          Open(r, v, await) /\ (await = "listing" => op = "list")
    BY <1>3, <2>1
  <2>3. \/ answer' = answer
        \/ \E code \in {401, 403} : answer' = [answer EXCEPT ![r] = code]
    BY <1>3, <2>1
  <2>4. v.op = op
    OBVIOUS
  <2> HIDE DEF v
  <2> QED BY <1>1, <2>2, <2>3, <2>4 DEF Querying
<1> QED BY <1>4, <1>5 DEF ArrivalStep

(* A new token is signed of a claim whose account has shown its password.  *)
LEMMA StepFromLogin ==
  ASSUME SessionHistoryInv, HistoryStep
  PROVE  EveryTokenFromLogin'
<1>1. proved \subseteq proved'
  BY HistoryGrows
<1>2. CASE tokens' = tokens
  BY <1>1, <1>2 DEF SessionHistoryInv, EveryTokenFromLogin
<1>3. ASSUME NEW r \in Request, SignTokens(r)
      PROVE  EveryTokenFromLogin'
  <2>1. SignPayload(claim[r]) /\ claim[r].sub \in proved
    BY <1>3 DEF SignTokens, SessionHistoryInv, ClaimsFromLogin
  <2> QED BY <1>1, <2>1 DEF SignPayload, Signed, SessionHistoryInv, EveryTokenFromLogin
<1>4. [SessionNext]_sessionAllVars
  BY DEF HistoryStep
<1>5. AccountsGrow
  BY <1>4, SessionStepIsUsersStep, NextGrows DEF SessionHistoryInv, SessionInv
<1>6. (\E r \in Request : SignTokens(r)) \/ tokens' = tokens
  BY <1>4, <1>5, SessionStepCases, ArrivalTyped, OutsideTyped
     DEF SessionHistoryInv, GateStep, ValidateUser, RefreshToken, FindAll, GateFails
<1> QED BY <1>2, <1>3, <1>6

(* A claim is of the account whose password was just presented, or of that *)
(* of an older token.                                                      *)
LEMMA StepClaims ==
  ASSUME SessionHistoryInv, HistoryStep
  PROVE  ClaimsFromLogin'
<1>1. proved \subseteq proved'
  BY HistoryGrows
<1>2. ASSUME NEW q \in Request, gate'[q] = "signing", gate[q] = "signing", claim'[q] = claim[q]
      PROVE  claim'[q].sub \in proved'
  BY <1>1, <1>2 DEF SessionHistoryInv, ClaimsFromLogin
<1>3. ASSUME NEW r \in Request, GateStep(r), NEW q \in Request, gate'[q] = "signing"
      PROVE  claim'[q].sub \in proved'
  <2>1. CASE q # r
    BY <1>2, <1>3, <2>1, GateFrames
  <2>2. CASE q = r
    <3>1. gate'[r] = "signing"
      BY <1>3, <2>2
    <3>2. ~(\E code \in Nat : Close(r, code)) /\ ~GateFails(r)
      BY <3>1 DEF Close, GateFails, SessionHistoryInv, SessionInv, SessionTyped
    <3>3. CASE ValidateUser(r)
      <4>1. SessionNextHistory
        BY <1>3, <3>1, <3>3 DEF HistoryStep, sessionAllVars, sessionVars, ValidateUser
      <4>2. PICK id \in Id :
              /\ gate[r] = "validating" /\ InTable(id) /\ users[id].email = visit[r].email
              /\ users[id].password.plain = visit[r].password
              /\ Claim(r, [sub |-> id, email |-> users[id].email, role |-> users[id].role])
        BY <3>2, <3>3 DEF ValidateUser, PasswordMatches
      <4>3. id \in proved'
        BY <4>1, <4>2 DEF SessionNextHistory, Presented
      <4>4. claim'[r].sub = id
        BY <4>2 DEF Claim, SessionHistoryInv, SessionInv, SessionTyped
      <4> QED BY <2>2, <4>3, <4>4
    <3>4. CASE RefreshToken(r)
      <4> DEFINE old == visit[r].token
      <4>1. /\ gate[r] = "refreshing"
            /\ Claim(r, [sub |-> old.sub, email |-> old.email, role |-> old.role])
        BY <3>2, <3>4 DEF RefreshToken
      <4>2. claim'[r].sub = old.sub
        BY <4>1 DEF Claim, SessionHistoryInv, SessionInv, SessionTyped
      <4>3. old.sub \in proved
        BY <4>1 DEF SessionHistoryInv, SessionInv, RefreshHeld, EveryTokenFromLogin
      <4> QED BY <1>1, <2>2, <4>2, <4>3
    <3> QED BY <1>3, <3>2, <3>3, <3>4 DEF GateStep, SignTokens, FindAll
  <2> QED BY <2>1, <2>2
<1>4. ASSUME NEW r \in Request, ArrivalStep(r), NEW q \in Request, gate'[q] = "signing"
      PROVE  claim'[q].sub \in proved'
  BY <1>2, <1>4, ArrivalFrames
<1>5. ASSUME OutsideStep, NEW q \in Request, gate'[q] = "signing"
      PROVE  claim'[q].sub \in proved'
  BY <1>2, <1>5, GateFrames
<1> QED BY <1>3, <1>4, <1>5, SessionStepCases DEF HistoryStep, ClaimsFromLogin

(* A visit keeps its record of active accounts up to date.                 *)
LEMMA StepRecords ==
  ASSUME SessionHistoryInv, HistoryStep
  PROVE  ActiveRecorded'
<1>1. wasActive' \in [Request -> SUBSET Id]
  BY HistoryGrows
<1>2. CASE SessionNextHistory
  BY <1>1, <1>2 DEF SessionNextHistory, UnderWay, ActiveRecorded, SessionHistoryInv
<1>3. CASE UNCHANGED <<sessionAllVars, sessionHistory>>
  BY <1>1, <1>3 DEF SessionHistoryInv, ActiveRecorded, ActiveAccounts, InTable,
                    sessionAllVars, sessionVars, sessionHistory, vars
<1> QED BY <1>1, <1>2, <1>3 DEF HistoryStep

(* The queries stay with their endpoints.                                  *)
LEMMA StepGate ==
  ASSUME SessionHistoryInv, HistoryStep
  PROVE  GateHeld'
<1>1. ASSUME NEW q \in Request, gate'[q] = gate[q], visit'[q] = visit[q], answer'[q] = answer[q]
      PROVE  VisitHeld(q)'
  BY <1>1 DEF SessionHistoryInv, GateHeld, VisitHeld
<1>2. ASSUME NEW r \in Request, GateStep(r)
      PROVE  GateHeld'
  <2>1. gate'[r] \in {"signing", "closed", "crashed"}
    BY <1>2, GateStepCases DEF Claim, Close, SessionHistoryInv, SessionInv, SessionTyped
  <2>2. VisitHeld(r)'
    BY <2>1 DEF VisitHeld
  <2>3. \A q \in Request \ {r} : VisitHeld(q)'
    BY <1>1, <1>2, GateFrames
  <2> QED BY <2>2, <2>3 DEF GateHeld
<1>3. ASSUME NEW r \in Request, ArrivalStep(r)
      PROVE  GateHeld'
  BY <1>1, <1>3, ArrivalFrames DEF GateHeld, VisitHeld
<1>4. CASE OutsideStep
  BY <1>1, <1>4, GateFrames DEF GateHeld
<1> QED BY <1>2, <1>3, <1>4, SessionStepCases DEF HistoryStep

(* The account is active when refreshToken decides, and that moment lies   *)
(* between the request's arrival and its answer.                           *)
LEMMA StepRefreshesActive ==
  ASSUME SessionHistoryInv, HistoryStep
  PROVE  RefreshNeedsActiveAccount'
<1> DEFINE Right(q) ==
      (visit[q] # None /\ visit[q].op = "refresh" /\ (gate[q] = "signing" \/ answer[q] = 200))
      => visit[q].token.sub \in wasActive[q]
<1>1. \A q \in Request : Right(q) /\ wasActive[q] \subseteq wasActive'[q]
  BY HistoryGrows DEF SessionHistoryInv, RefreshNeedsActiveAccount
<1>2. ASSUME NEW q \in Request, visit'[q] = visit[q],
             gate'[q] = "signing" => gate[q] = "signing",
             answer'[q] = 200 => answer[q] = 200 \/ gate[q] = "signing"
      PROVE  Right(q)'
  BY <1>1, <1>2
<1>3. ASSUME NEW r \in Request, GateStep(r)
      PROVE  Right(r)'
  <2>1. visit' = visit
    BY <1>3 DEF GateStep, ValidateUser, RefreshToken, SignTokens, FindAll, GateFails, Close, Claim
  <2>2. CASE ValidateUser(r) \/ FindAll(r)
    <3>1. gate[r] \in {"validating", "listing"}
      BY <2>2 DEF ValidateUser, FindAll
    <3>2. visit[r].op \in {"login", "list"}
      BY <3>1 DEF SessionHistoryInv, GateHeld, VisitHeld
    <3> QED BY <2>1, <3>2
  <2>3. CASE RefreshToken(r)
    <3> DEFINE old == visit[r].token
    <3>1. CASE ~(InTable(old.sub) /\ Refreshable(old.sub))
      <4>1. Close(r, 404) \/ Close(r, 400)
        BY <2>3, <3>1 DEF RefreshToken
      <4> QED BY <1>2, <2>1, <4>1 DEF Close, SessionHistoryInv, SessionInv, SessionTyped
    <3>2. CASE InTable(old.sub) /\ Refreshable(old.sub)
      <4>1. gate[r] = "refreshing"
        BY <2>3 DEF RefreshToken
      <4>2. old.sub \in Id
        BY <4>1 DEF SessionHistoryInv, SessionInv, RefreshHeld, SessionTyped, Token
      <4>3. old.sub \in ActiveAccounts
        BY <3>2, <4>2 DEF ActiveAccounts, Refreshable
      <4>4. old.sub \in wasActive[r]
        BY <4>1, <4>3 DEF SessionHistoryInv, ActiveRecorded
      <4> QED BY <1>1, <2>1, <4>4
    <3> QED BY <3>1, <3>2
  <2>4. CASE SignTokens(r)
    <3>1. gate[r] = "signing" /\ gate'[r] # "signing"
      BY <2>4 DEF SignTokens, Close, SessionHistoryInv, SessionInv, SessionTyped
    <3> QED BY <1>2, <2>1, <3>1
  <2>5. CASE GateFails(r)
    <3>1. gate'[r] # "signing" /\ (answer'[r] = 200 => answer[r] = 200)
      BY <2>5 DEF GateFails, Close, SessionHistoryInv, SessionInv, SessionTyped
    <3> QED BY <1>2, <2>1, <3>1
  <2> QED BY <1>3, <2>2, <2>3, <2>4, <2>5 DEF GateStep
<1>4. ASSUME NEW q \in Request
      PROVE  Right(q)'
  <2>1. ASSUME NEW r \in Request, GateStep(r) PROVE Right(q)'
    <3>1. CASE q = r
      BY <1>3, <2>1, <3>1
    <3>2. CASE q # r
      BY <1>2, <2>1, <3>2, GateFrames
    <3> QED BY <3>1, <3>2
  <2>2. ASSUME NEW r \in Request, ArrivalStep(r) PROVE Right(q)'
    <3>1. CASE q = r
      BY <2>2, <3>1, ArrivalFrames
    <3>2. CASE q # r
      BY <1>2, <2>2, <3>2, ArrivalFrames
    <3> QED BY <3>1, <3>2
  <2>3. CASE OutsideStep
    BY <1>2, <2>3, GateFrames
  <2>4. [SessionNext]_sessionAllVars
    BY DEF HistoryStep
  <2> QED BY <2>1, <2>2, <2>3, <2>4, SessionStepCases
<1> QED BY <1>4 DEF RefreshNeedsActiveAccount

(* The invariant with history holds in every reachable state.              *)
LEMMA SessionHistoryInvariance == SessionSpecHistory => []SessionHistoryInv
<1>1. SessionInit /\ SessionInitHistory => SessionHistoryInv
  <2> SUFFICES ASSUME SessionInit, SessionInitHistory PROVE SessionHistoryInv
    OBVIOUS
  <2>1. SessionInv
    BY SessionInitInv
  <2>2. EveryTokenFromLogin /\ ClaimsFromLogin /\ RefreshNeedsActiveAccount
    BY DEF SessionInit, EveryTokenFromLogin, ClaimsFromLogin, RefreshNeedsActiveAccount
  <2>3. ActiveRecorded /\ GateHeld
    BY DEF SessionInit, SessionInitHistory, ActiveRecorded, GateHeld, VisitHeld
  <2> QED BY <2>1, <2>2, <2>3 DEF SessionHistoryInv
<1>2. SessionHistoryInv /\ HistoryStep => SessionHistoryInv'
  <2> SUFFICES ASSUME SessionHistoryInv, HistoryStep PROVE SessionHistoryInv'
    OBVIOUS
  <2>1. [SessionNext]_sessionAllVars
    BY DEF HistoryStep
  <2>2. SessionInv'
    BY <2>1, SessionNextInv DEF SessionHistoryInv
  <2> QED BY <2>2, StepFromLogin, StepClaims, StepRecords, StepGate, StepRefreshesActive
          DEF SessionHistoryInv
<1> QED BY <1>1, <1>2, PTL DEF SessionSpecHistory, SessionBegins, HistoryStep

(* Every token goes back to a login that presented the password of the     *)
(* moment, however many refreshes and password changes lie between.        *)
THEOREM TokensComeFromLogins == SessionSpecHistory => []EveryTokenFromLogin
<1>1. SessionHistoryInv => EveryTokenFromLogin
  BY DEF SessionHistoryInv
<1> QED BY <1>1, SessionHistoryInvariance, PTL

(* A refresh gets new tokens only if its account was active at a moment of *)
(* the refresh itself: none that arrives after the deactivation is signed, *)
(* whatever the life times and however the clock runs.                     *)
THEOREM DeactivationEndsRefreshing == SessionSpecHistory => []RefreshNeedsActiveAccount
<1>1. SessionHistoryInv => RefreshNeedsActiveAccount
  BY DEF SessionHistoryInv
<1> QED BY <1>1, SessionHistoryInvariance, PTL

=============================================================================
