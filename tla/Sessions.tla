------------------------------ MODULE Sessions ------------------------------
(***************************************************************************)
(* Sessions: POST auth/login, GET auth/refresh-token and the guards in     *)
(* front of the endpoints of UsersController, on top of UsersService.      *)
(*                                                                         *)
(* The server keeps no session.  A token is a signed payload with a time   *)
(* of expiry; nobody without the secret can make one, so `tokens` is the   *)
(* set of all tokens ever signed, and a client may use any of them.        *)
(*                                                                         *)
(* gate[r] names the await of the code in front of the services.  A visit  *)
(* that passes its guards becomes a call of UsersService and is followed   *)
(* in pc[r].  AuthService reaches the table through UsersService only, so  *)
(* its password changes appear here as the inner calls it makes.           *)
(***************************************************************************)
EXTENDS UsersService

CONSTANTS
  AccessSecret,    \* jwtConfig.jwt.secretKey
  RefreshSecret,   \* jwtConfig.refreshToken.secretKey, which may be the same
  AccessTime,      \* life time of access tokens
  RefreshTime,     \* life time of refresh tokens
  MaxTime          \* bound on the clock

VARIABLES
  now,      \* the clock
  tokens,   \* every token signed so far
  gate,     \* the await each visit is suspended at, before any service
  visit,    \* what the client asked for
  claim,    \* the payload a handler has decided to sign
  answer    \* the HTTP status the visit was answered with at the gate

sessionVars == <<now, tokens, gate, visit, claim, answer>>
sessionAllVars == <<vars, sessionVars>>

Secret == {AccessSecret, RefreshSecret}

Guarded == {"refresh", "list", "readMe", "updateProfile"}

Payload == [sub : Id, email : Email, role : Role]

Token == [secret : Secret, sub : Id, email : Email, role : Role, exp : Nat]

LoginVisit == [op : {"login"}, email : Email, password : Password]
TokenVisit == [op : Guarded, token : Token \cup {None}]
Visit == LoginVisit \cup TokenVisit

ASSUME TimeAssumption == AccessTime \in Nat /\ RefreshTime \in Nat /\ MaxTime \in Nat
ASSUME TokenAssumption == None \notin Token \cup Visit \cup Payload

-----------------------------------------------------------------------------
(* Visits with a query under way, and those with one or the tokens to come.*)
Querying == {"validating", "refreshing", "listing"}
Pending == Querying \cup {"signing"}

SessionInit ==
  /\ Init
  /\ now = 0
  /\ tokens = {}
  /\ gate = [r \in Request |-> "idle"]
  /\ visit = [r \in Request |-> None]
  /\ claim = [r \in Request |-> None]
  /\ answer = [r \in Request |-> None]

(* Mutants of Signed: no expiresIn; a payload without the account's role.  *)
SignedForever(payload, secret, lifetime) ==
  [secret |-> secret, sub |-> payload.sub, email |-> payload.email,
   role |-> payload.role, exp |-> None]
SignedAsUser(payload, secret, lifetime) ==
  [secret |-> secret, sub |-> payload.sub, email |-> payload.email,
   role |-> "user", exp |-> now + lifetime]

Signed(payload, secret, lifetime) ==
  [secret |-> secret, sub |-> payload.sub, email |-> payload.email,
   role |-> payload.role, exp |-> now + lifetime]

(* AuthService.signPayload: an access token and a refresh token.           *)
SignPayload(payload) ==
  tokens' = tokens \cup {Signed(payload, AccessSecret, AccessTime),
                         Signed(payload, RefreshSecret, RefreshTime)}

(* Mutant of Verified: one key for both kinds of token.                    *)
VerifiedByAny(token, secret) == token # None /\ now < token.exp

Verified(token, secret) == token # None /\ token.secret = secret /\ now < token.exp

(* The secrets each endpoint's guards verify with: the global JwtAuthGuard *)
(* comes first, refresh-token has a RefreshTokenGuard as well.             *)
Guards(op) == IF op = "refresh" THEN {AccessSecret, RefreshSecret} ELSE {AccessSecret}

Admitted(op) == IF op = "list" THEN {"admin"} ELSE Role

Close(r, code) ==
  /\ gate' = [gate EXCEPT ![r] = "closed"]
  /\ answer' = [answer EXCEPT ![r] = code]
  /\ UNCHANGED <<visit, claim>>

Open(r, v, await) ==
  /\ gate[r] = "idle" /\ pc[r] = "idle"
  /\ gate' = [gate EXCEPT ![r] = await]
  /\ visit' = [visit EXCEPT ![r] = v]
  /\ UNCHANGED claim

(* The query has answered and the handler goes on to sign.                 *)
Claim(r, payload) ==
  /\ gate' = [gate EXCEPT ![r] = "signing"]
  /\ claim' = [claim EXCEPT ![r] = payload]
  /\ UNCHANGED <<visit, answer>>

-----------------------------------------------------------------------------
(* LocalAuthGuard: the lookup of the account is under way.                 *)
Login(r, email, password) ==
  /\ Open(r, [op |-> "login", email |-> email, password |-> password], "validating")
  /\ UNCHANGED <<vars, now, tokens, answer>>

(* A request with a bearer token, or with none: the guards.                *)
Refuse(r, op, token, code) ==
  /\ Open(r, [op |-> op, token |-> token], "closed")
  /\ answer' = [answer EXCEPT ![r] = code]
  /\ UNCHANGED <<vars, now, tokens>>

Unauthorized(r, op, token) ==
  /\ \E s \in Guards(op) : ~Verified(token, s)
  /\ Refuse(r, op, token, 401)

Forbidden(r, op, token) ==
  /\ \A s \in Guards(op) : Verified(token, s)
  /\ token.role \notin Admitted(op)
  /\ Refuse(r, op, token, 403)

Admit(r, op, token) ==
  /\ \A s \in Guards(op) : Verified(token, s)
  /\ token.role \in Admitted(op)
  /\ UNCHANGED <<now, tokens, answer>>
  /\ \/ /\ op = "refresh"
        /\ Open(r, [op |-> op, token |-> token], "refreshing")
        /\ UNCHANGED vars
     \/ /\ op = "list"
        /\ Open(r, [op |-> op, token |-> token], "listing")
        /\ UNCHANGED vars
     \/ /\ op = "readMe"
        /\ Open(r, [op |-> op, token |-> token], "served")
        /\ Accept(r, [op |-> "readUser", id |-> token.sub])
     \/ /\ op = "updateProfile"
        /\ Open(r, [op |-> op, token |-> token], "served")
        /\ \E first, last \in Name :
             Accept(r, [op |-> "updateProfile", id |-> token.sub,
                        firstName |-> first, lastName |-> last])

Arrive(r, op, token) ==
  Unauthorized(r, op, token) \/ Forbidden(r, op, token) \/ Admit(r, op, token)

-----------------------------------------------------------------------------
(* Mutant of PasswordMatches: bcrypt's promise taken for its result.       *)
PasswordMatchesAlways(r, id) == TRUE

(* compare(pass, user.password)                                            *)
PasswordMatches(r, id) == users[id].password.plain = visit[r].password

(* validateUser: findByEmail and compare, then LocalStrategy; the handler  *)
(* will sign what the row said.  The status is not looked at.              *)
ValidateUser(r) ==
  /\ gate[r] = "validating"
  /\ UNCHANGED <<vars, now, tokens>>
  /\ \/ /\ \A id \in Id : ~(InTable(id) /\ users[id].email = visit[r].email)
        /\ Close(r, 401)
     \/ \E id \in Id :
          /\ InTable(id)
          /\ users[id].email = visit[r].email
          /\ IF PasswordMatches(r, id)
             THEN Claim(r, [sub |-> id, email |-> users[id].email, role |-> users[id].role])
             ELSE Close(r, 401)

(* Mutant of Refreshable: any account that exists.                         *)
RefreshableAlways(id) == TRUE

Refreshable(id) == users[id].status = "active"

(* refreshToken: findByIdOrFail and the status.  The handler will sign the *)
(* address and role of the old token, which may have expired meanwhile.    *)
RefreshToken(r) ==
  LET old == visit[r].token IN
  /\ gate[r] = "refreshing"
  /\ UNCHANGED <<vars, now, tokens>>
  /\ \/ ~InTable(old.sub) /\ Close(r, 404)
     \/ InTable(old.sub) /\ ~Refreshable(old.sub) /\ Close(r, 400)
     \/ /\ InTable(old.sub)
        /\ Refreshable(old.sub)
        /\ Claim(r, [sub |-> old.sub, email |-> old.email, role |-> old.role])

(* Back from the await, the handler signs both tokens, with the clock as   *)
(* it is now and without another look at the row, and answers.             *)
SignTokens(r) ==
  /\ gate[r] = "signing"
  /\ SignPayload(claim[r])
  /\ Close(r, IF visit[r].op = "login" THEN 201 ELSE 200)
  /\ UNCHANGED <<vars, now>>

(* findAll: every row of the table.                                        *)
FindAll(r) ==
  /\ gate[r] = "listing"
  /\ Close(r, 200)
  /\ UNCHANGED <<vars, now, tokens>>

(* The query is rejected, or the process dies.                             *)
GateFails(r) ==
  /\ gate[r] \in Pending
  /\ UNCHANGED <<vars, now, tokens>>
  /\ \/ gate[r] \in Querying /\ Close(r, 500)
     \/ gate' = [gate EXCEPT ![r] = "crashed"] /\ UNCHANGED <<visit, claim, answer>>

(* Sign-ups and the inner calls of AuthService.                            *)
CallOutside(r, c) ==
  /\ gate[r] = "idle"
  /\ Accept(r, c)
  /\ UNCHANGED sessionVars

Tick ==
  /\ now < MaxTime
  /\ now' = now + 1
  /\ UNCHANGED <<vars, tokens, gate, visit, claim, answer>>

SessionUsersStep(r) == (Progress(r) \/ Disturb(r)) /\ UNCHANGED sessionVars

SessionOperatorStep(id, s) == OperatorSetStatus(id, s) /\ UNCHANGED sessionVars

SessionEnded(r) == gate[r] \in {"closed", "crashed"} \/ pc[r] \in Ended

SessionFinished ==
  /\ \A r \in Request : SessionEnded(r)
  /\ UNCHANGED sessionAllVars

SessionNext ==
  \/ \E r \in Request :
       \/ \E email \in Email, password \in Password : Login(r, email, password)
       \/ \E op \in Guarded, token \in tokens \cup {None} :
            Arrive(r, op, token)
       \/ \E c \in RegisterCall \cup PasswordCall : CallOutside(r, c)
       \/ ValidateUser(r) \/ RefreshToken(r) \/ SignTokens(r) \/ FindAll(r)
       \/ GateFails(r)
       \/ SessionUsersStep(r)
  \/ \E id \in Id, s \in Status : SessionOperatorStep(id, s)
  \/ Tick
  \/ SessionFinished

SessionSpec == SessionInit /\ [][SessionNext]_sessionAllVars

-----------------------------------------------------------------------------
(* Every variable has its shape.                                           *)
SessionTypeOK ==
  /\ TypeOK
  /\ now \in Nat
  /\ tokens \subseteq Token
  /\ gate \in [Request -> Pending \cup {"idle", "served", "closed", "crashed"}]
  /\ visit \in [Request -> Visit \cup {None}]
  /\ claim \in [Request -> Payload \cup {None}]
  /\ answer \in [Request -> {None, 200, 201, 400, 401, 403, 404, 500}]

(* A token is never wrong about its account, however old it is and however *)
(* many refreshes it descends from: the account exists and still has the   *)
(* address and the role the guards read from the token instead of the row. *)
(* (refreshToken copies them from the old token without a look at the row.)*)
TokensNameTheirAccount ==
  \A t \in tokens : /\ InTable(t.sub)
                    /\ users[t.sub].email = t.email
                    /\ users[t.sub].role = t.role

(* A refresh token that has not expired is good for auth/refresh-token, as *)
(* the description of that endpoint says: it is not answered 401.          *)
RefreshTokenRefreshes ==
  \A r \in Request :
    (visit[r] # None /\ visit[r].op = "refresh" /\ answer[r] = 401
       /\ visit[r].token # None /\ visit[r].token.secret = RefreshSecret)
    => now >= visit[r].token.exp

=============================================================================
