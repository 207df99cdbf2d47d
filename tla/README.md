# Specifications of nest-typeorm-template

The repository is a NestJS service: accounts in a MySQL table through TypeORM,
passwords and reset links, JWT sessions, Redis for reset tokens, an SMTP
mailer. This directory holds TLA+ specifications of it, the TLC runs that check
them on small instances, and TLAPS proofs of what holds for instances of every
size. Paths below are relative to the repository (`src/...`).

## 1. Inventory

| Part | Code | State | Operations | What makes it correct |
| --- | --- | --- | --- | --- |
| Users | `src/src/modules/users` | table `users`; the entity a handler holds across its awaits | `registerUPUser`, `updatePassword`, `updateProfile`, `readUser`, finders | one account per address; a confirmed registration stays; a save undoes only what changed in its own window; 200 only for a write that was there |
| Password operations | `src/src/modules/auth/auth.service.ts` | locals of each handler | `signUp`, `forgotPassword`, `resetPassword`, `updatePassword` | a link opens one account and only while valid; a used link is dead; answers and notices agree with what was committed |
| Redis | `src/src/modules/redis` | one hash per `forgot-password-<email>`, with a time to live | SET EX, GET, DEL | resent and late commands do no harm |
| Mailer | `src/src/modules/mail` | mails handed over, not awaited | `sendMailResetPassword`, `updatePasswordSuccessfully` | a notice only after a change |
| Sessions | `src/src/modules/jwt`, `src/src/modules/auth/guards`, `src/src/modules/auth/strategies` | none on the server; signed tokens at the clients | login, refresh, the guards of every endpoint | a token is never wrong about its account; it goes back to a login; deactivation ends refreshing, but for a refresh in flight |
| Listing | `src/src/shared/pagination-helper.ts`, `src/src/decorators/pagination.decorator.ts`, `src/src/interceptors/pagination.interceptor.ts`, `findAll` | none; clients keep the page they are on | page arithmetic, two queries, metadata in headers or body | a walk by `x-next-page` with a positive, finite page size stays on the pages there are and ends; the count covers the rows |
| Start-up | `src/src/main.ts`, `src/src/common/database`, `src/src/migrations`, `data-source.ts`, `src/docker-compose.yml` | tables `migrations` and `users`; attempts | connect with retries, migrate, listen, restart | the migration is recorded once; no process that migrates serves without the schema; the service comes up |
| generate-admin | `src/src/scripts/generate-admin` | none | connects and migrates like a server, registers one admin, closes | exit code 0 only if the admin is there; it always exits |
| HTTP interface | the controllers and guards | none | sends each request to the services above; `PATCH auth/update-password` joins a token and a password operation | the parts keep their specifications side by side; a change stays with the account of its token |
| CSV readers | `src/src/readFileCSV.js`, `src/src/readFileCSVAnhHoang.js` | none | stand-alone scripts: split, convert, nest dotted headers | records are those of their rows, in order; no row is lost without an obstacle in it; the two scripts agree where they mean the same |
| Exception filter | `src/src/filters/http-exception.filter.ts` | none | exception to status | 404 for a missing entity, 500 for what nobody foresaw |
| The rest | logger, Swagger, health, test support, email verification (commented out) | none, or read once | | out of scope: output and text |

**How they interact.** Controllers call services. `AuthService` calls
`UsersService`, Redis and the mailer; nothing calls back. Guards run before a
handler and read nothing but the bearer token, except that of login, which
looks the account up. Handlers share only the table and Redis. Node.js runs one
handler until its next `await`, so a handler is a sequence of atomic steps
between awaited queries, and steps of different requests (or of another server
process, or of the generate-admin script) interleave at the awaits. Every
process, script or server, comes up through the same `typeOrmConfig` on the
same database. No operation holds a transaction across an await; the only
atomicity comes from single statements and the unique index.

**What is hard.** Check-then-act across two queries (`existsBy` and INSERT; GET
and DEL; compare and save). `Repository.save` of an entity read earlier: it
reads the row again and writes back whatever differs. Failures between two
effects of one handler (save, mail, DEL). A commit whose acknowledgement is
lost. Redis commands that ioredis sends again. A status that is read by one query
and relied on after the await. Mails that are not awaited. A
migration that nothing locks and that MySQL commits half way. Pages counted at
one moment and walked at later ones, with page numbers nobody checked.
The list of hazards, each with its line and its properties, is in
`PROJECT.json`.

## 2. Modules

| Module | What it is |
| --- | --- |
| `AccountDirectory` | abstract: what the table promises |
| `UsersService` | the table and the operations of `UsersService`, await by await |
| `UsersServiceHistory` | the same with two history variables, for properties about a handler's past |
| `ResetLink` | abstract: the life of a reset link |
| `AuthService` | the password operations on top of `UsersService`, with Redis and the mailer |
| `AuthServiceHistory` | the same with the passwords that ever committed and the requests that were entitled to one |
| `Sessions` | login, refresh and the guards on top of `UsersService`, with the clients' tokens and a clock |
| `SessionsHistory` | the same with a record of logins, and of the accounts that were active during each request |
| `Application` | `AuthService` and `Sessions` over one table, and the endpoint where they meet |
| `Listing` | GET users on top of `AccountDirectory`: page arithmetic, two queries, clients that walk |
| `Startup` | server, generate-admin and `migration:run` coming up on one database |
| `CsvReader` | the two scripts on one file |
| `UsersServiceProofs`, `UsersServiceHistoryProofs`, `AuthServiceProofs`, `SessionsProofs`, `ApplicationProofs`, `ListingProofs`, `StartupProofs`, `CsvReaderProofs` | theorems about the modules they are named after (`AuthServiceProofs` and `SessionsProofs`: about their histories too) |
| `MC...` | instances for TLC: the initial rows, the inputs and the symmetry sets |

`Application` is at the top: it extends `AuthService` and `Sessions`, which both
extend `UsersService`, which implements `AccountDirectory`, on which `Listing`
rests. `Startup` ends where `UsersService` begins, and `CsvReader` stands alone.

### UsersService

`pc[r]` is the query that request `r` waits for:

    existsBy   createNewUser, users.service.ts:33
    insert     createNewUser: save of a new row, line 39
    find       findOneByOrFail of updatePassword, readUser, updateProfile (47, 54, 80)
    load       save of an entity with an id: TypeORM's second SELECT (49, 88)
    update     save: the UPDATE of the columns found to differ

`entity[r]` is the local `user`, already edited; `dirty[r]` the columns TypeORM
found to differ. `call[r]` holds the arguments and `result[r]` the HTTP status,
which is what the exception filter makes of the outcome: 404 for
`EntityNotFoundError`, 400 for `BadRequestException`, 500 for anything else, so
also for the duplicate-key error of an INSERT that lost the race.

`Insert` takes any free id. `Diff` compares all columns, so it includes columns
the operation never touched when someone else changed them between `find` and
`load`: TypeORM cannot tell those from edits. The model does not repeat
TypeORM's code (it is not in the repository); it states what `save` does to an
entity and a row, and is marked external in the map.

Disturbances: a query is rejected (`QueryFails`); a write commits but the
process does not learn of it (`CommitUnacknowledged`, with a 500 or with the
process gone); the process dies at an await (`Crash`). An operator may set
`status`: no code writes it, while `refreshToken` reads it.

A hash is the pair of its clear text and a salt; the salt is the request that
drew it. This keeps two facts of bcrypt the properties depend on: `compare`
depends on the clear text only, and two hashes of one password differ (so
saving the same password again is a change).

### AuthService

Extends `UsersService`: a request now runs either an auth handler or a call of
`UsersService` itself (sign-up, profile). `stage[r]` is the await of the auth
handler:

    findUser       findByEmailOrFail / findByIdOrFail (auth.service.ts:111, 126, 168)
    redisSet       forgotPassword (114)
    sendLink       the reply to the SET is on its way; then the mail (119-122)
    redisGet       resetPassword (127)
    savePassword   await userService.updatePassword (136, 174); pc[r] is inside
    redisDel       resetPassword (138)

Between the effect of a SET and the mail another forgot may store its own token,
so a link may be replaced before it is mailed.

A token is 32 random bytes, so it is identified with the request that drew it;
`redis[e]` is the token whose hash is stored under the key of address `e`.
Clients reset with a token they were mailed or with one never drawn. `Send` is
the un-awaited mail; `Deliver` and `LoseMail` are its two fates.
`RedisReplyLost` is ioredis with `maxRetriesPerRequest: null`: the command took
effect, and will be sent again. `AwaitFails` is a rejected lookup or (in
cluster mode) a rejected command. `Expire` may happen at any moment: the code
never compares its own delays with the time to live.

`call[r].id` of a reset is chosen when the GET is answered, though the handler
read it at `findUser`: an address never moves to another id
(`UsersImplementDirectory` proves that), so it is the same id.

The abstract `ResetLink` knows which link of an account is valid, which are
`settled` (stored, not yet mailed), mailed and accepted. It lets a link be
mailed after another one replaced it, be used by two resets, and stay valid
after a use: all three happen in the code.

### Sessions

Extends `UsersService`. The server keeps no session, so the state is the set
`tokens` of everything ever signed; a client may present any member of it, or
nothing. A token is its payload, the secret it was signed with and the time it
ends; the two tokens of a login differ in the last two only, as in the code.

`gate[r]` is the await in front of the services:

    validating     LocalStrategy: findByEmail (auth.service.ts:143)
    refreshing     refreshToken: findByIdOrFail (155)
    listing        findAll: findAndCount (users.service.ts:96)
    signing        the query of login or refresh has answered; the handler goes on
    served         the guards passed; pc[r] is inside UsersService
    closed         answered without a service

The guards themselves await nothing, so `Arrive` decides 401, 403 or entry in
one step: every endpoint but login has the global `JwtAuthGuard` (access
secret), `refresh-token` also the `RefreshTokenGuard` (refresh secret), and
listing needs the role `admin`. The role is that of the token.

MySQL evaluates a query at one moment and the handler resumes at a later one:
`ValidateUser` and `RefreshToken` are the query, what it says about password or
status, and `claim[r]`, the payload the handler will sign; `SignTokens` is the
rest of the handler, which reads the clock then and does not look at the row
again. An operator may act, and the clock may tick, between the two. The claim
of a login is what the row says, whatever its `status`; that of a refresh is
what the old token says, if the row's `status` allows it. The two tokens of one
answer are signed in one turn of the event loop, so they are taken to read the
same second.

`AccessSecret` and `RefreshSecret` may be equal, as in `config/default.yaml`,
or distinct, as the settings documented in `src/README.md` suggest. `now` is
the wall clock; `Tick` stops at `MaxTime`, the only bound that is not a set of
constants (the proofs hold for any `MaxTime`).

Password resets and changes reach the table through `UsersService` only; here
they are the inner calls that `AuthService` makes (`CallOutside`), whose own
guards are in that module.

### Application

A request is one of: a public call (sign-up, forgot, reset), a visit of
`Sessions`, or `PATCH auth/update-password`. `Fresh(r)` says that it has not
begun. For update-password `bearer[r]` keeps the token and the verdict of the
global guard (`ChangeRefused`, `ChangeAdmitted`); `AccountOf` is `req.user.sub`,
the handler's only source for the account. Every action is an action of one of
the two modules with the variables of the other left alone, or of both.

### Listing

`stage[r]` is the query a listing waits for: `find` for the rows, `count` for
their number (`findAndCount`, users.service.ts:96); `query[r]` is the
`Pagination` made of the query parameters, `answer[r]` the last response. `page`
and `perPage` are whatever number the text of the query is to JavaScript: a
finite one is an integer that counts its parts of 1/`Scale`, so `Scale` is the
number 1, and there are `Infinity` and `MinusInfinity`. What doubles round away
beyond 2^53 is left out. `OrDefault` is `+value || default`, so nothing, no
number and zero are the default while negative numbers, fractions and infinities
are kept; `PagesCount` is `Math.ceil` for either sign of the divisor, and 0 for
an infinite one. In the body JSON writes `null` for an infinity (`Json`), and a
client that follows such a response gets the default. A client lists with any
numbers, and may `Follow` `x-next-page` through one walk. Accounts are created
at any moment, also between the two queries. `findAll` ignores the page it was
given: the rows are all the accounts.

### Startup

`phase[p]` is the query or call process `p` waits for:

    connect                      initialize of the data source
    hasLog, createLog, loadLog   the table `migrations`: looked for, created, loaded
    createTable, record          InitUserTable.up, and its line in `migrations`
    ready                        initialized: bootstrap, or main() of the script
    listening                    app.listen
    existsBy, insert, close      the script: registerUPUser and app.close

Whether a server or script migrates is the environment variable read by
`tryTransformBooleanString` (`TransformBoolean`), which is given a text by the
environment and a boolean by `config/default.yaml:80`; the command
`migration:run` always does. A failed attempt is repeated up to `MaxAttempts`
times (`database.module.ts:6` leaves TypeOrmModule its default), then the
process exits with 1; the script ends with 255 (`process.exit(-1)`) on any error
of its own. Docker starts the server again whenever it exits. `Fault` is a query
that is rejected, one that took effect and is reported as failed, or the end of
the process before or after it. The table of accounts is kept as far as the role
of each address, which is what `Registered` reads as a directory.

### CsvReader

The scripts look into a line at commas, quotes, dots and blanks only. So a cell
is the sequence of its parts between commas, a part the sequence of its words
between dots, and a line is its cells and whether they are quoted; a word is a
string with no structure. A nested object is the function from the paths in it
to what is there, a primitive or an object, so `MakeLevels`, `Assign` and
`Obstacles` say what `level[p] = level[p] || {}` does over what is already
there: 0 and the empty text are replaced, other primitives stay and swallow, or
throw on, what is set below them. What a row does to its object is a sequence of
assignments of values to paths (`FlatRow`, for the first script with
`SkipEmptyNames`), which `Nest` carries out from left to right with `Set`; a
header that occurs again is no assignment of its own (`Nothing`), and a path that
ends with an empty name makes its levels only (`Lost`). Two peculiarities of
JavaScript objects are left out: names that are integer literals, which an
object keeps in numeric order in front of all others, and names that every
object inherits (`toString`, `__proto__`). The first script skips a row of another
length and a row that throws; the second fills up with `undefined` and dies of
an error. The comment at the end of readFileCSV.js (lines 57-60) shows an
unquoted header over quoted rows: to the first script that header is one cell,
so no row fits and it prints an empty list; `MCCsvReader` has such files.

## 3. Runs

| Run | Instance | Checks | States |
| --- | --- | --- | --- |
| `users` | 3 calls, 2 ids, 2 addresses; table empty, partly filled or full | `TypeOK`, `EmailUnique`, `RegistrationSticks`, `ImplementsDirectory` | 528 k |
| `stale_saves` | 3 calls, 1 account, 2 names | `StaleWriteWindow`, `AcknowledgedWriteWasVisible` | 1.8 M |
| `reset_links` | 3 requests, 2 accounts; password operations, profile edits, sign-ups | `AuthTypeOK`, `PasswordWrittenByOwner`, `ConsumedTokenIsDead`, `ImplementsResetLinks` | 756 k |
| `password_changes` | 3 requests, 1 account, 2 passwords, all operations but reading | `OutcomeMatchesCommit`, `ChangesWereEntitled` | 1.4 M |
| `session_chains` | 3 requests, 1 account (a user or an admin), 2 passwords, one secret, 3 ticks | `SessionTypeOK`, `TokensNameTheirAccount`, `EveryTokenFromLogin`, `RefreshNeedsActiveAccount` | 1.3 M |
| `refresh_documented` | 2 requests, a user and an admin, two secrets | `RefreshTokenRefreshes` (violated) | |
| `application` | 3 requests of any kind, 1 account, two secrets, 2 ticks | `ChangedByItsAccount`, `ImplementsAuthService`, `ImplementsSessions` | 164 k |
| `application_liveness` | 2 requests of any kind, 2 accounts, one secret, 1 tick | `ChangedByItsAccount`, `EveryRequestEnds` | 211 k |
| `listing` | 3 ids, 1 client; numbers in halves from -2 to 3, the infinities, or none | `ListingTypeOK`, `CountCoversRows`, `WalkStaysInside`, `WalkEnds` | 251 k |
| `listing_documented` | the same | `AtMostPerPage` (violated) | |
| `startup` | a server, a script and a migration command, 2 faults | `StartupTypeOK`, `MigratedOnce`, `ServesOnSchema`, `ExitZeroMeansAdmin`, `StartupImplementsDirectory`, `ServiceComesUp`, `EveryRunEnds` | 73 k |
| `csv` | files of a header and at most 2 rows | `RecordsHoldTheirRows`, `LostRowsWereObstructed`, `ScriptsAgree` | 1.8 M |

What they show:

* **users.** The race of `createNewUser` ends in one 201 and one 500, never in
  two accounts. A confirmed registration keeps its address and its role through
  every stale save, because `save` never finds those columns different. The
  table implements `AccountDirectory`.
* **stale_saves.** `save` does undo other requests' commits, password hashes and
  deactivations included. `StaleWriteWindow` states how far this goes: only
  columns changed between the handler's `find` and the `load` of its `save`. A
  version that writes the whole entity (the mutant) also undoes commits made
  between `load` and `update`. `AcknowledgedWriteWasVisible` states what a 200
  means: each column the caller asked for held the wanted value at some moment
  of the call; not that both names did at once, nor that they still do.
* **reset_links.** A link works for the account it was mailed to, only while it
  is the newest, and is dead once a reset with it was answered. Two resets may
  be let through with one link when both GET before either DELs; a reset whose
  process dies before the DEL leaves its link valid; and a link may be
  replaced before it is mailed. These are behaviours of `ResetLink`, whose `Use`
  does not invalidate: the run shows how far they go, not that they are absent.
* **password_changes.** No 200, notice or DEL without the commit; no 400 or 404
  with it. A 500 says nothing: the password may have been changed.
  `ChangesWereEntitled`: a handler compares once and saves later, so it may
  overwrite a change that was committed in between; but whoever changed a
  password gave the password, or the link, that was valid at a moment of that
  very request, never only one of an earlier time.
* **session_chains.** The address and the role in a token, which the guards
  trust and each refresh copies, are those of the row at any time, because
  nothing in the code changes these columns. (A feature that changes a role
  would have to look at `refreshToken` first.) Every token goes back to a login
  with the password of its moment. A refresh decides on, and answers 200 with, new
  tokens only if the account was active at some moment since that very request
  arrived. So no refresh that arrives after a deactivation succeeds, and no chain
  goes on from it; one in flight may still sign, with a clock read after the
  deactivation, which is why the property speaks of the request and not of the
  time its tokens end. The same is not true of a login, which ignores `status`.
* **refresh_documented.** A disagreement between code and documentation: the
  endpoint for refresh tokens verifies its bearer token with both secrets, the
  global guard's first. When they differ, no token passes both and every
  refresh is answered 401. `config/default.yaml` gives both the same value and
  the test of the endpoint sends an access token, so neither shows it. With
  equal secrets, conversely, the two kinds differ in their life time only.
* **application**, **application_liveness.** With every endpoint at work on one
  table, `AuthService` and `Sessions` behave as they do alone, so all that is
  shown of either holds of the program. A password that came in through
  update-password is on the account its token was signed for, through all stale
  saves. Every request ends: no path forgets to answer, and an error of an inner
  call ends the handler around it.
* **listing.** The rows are read before they are counted, so the count covers
  the rows and no response shows more than it counts; the other order (the
  mutant) does. A walk that begins on page 1 with a page size that is positive
  and finite, whole or not, stays on existing pages while accounts are created
  and comes to a page that leads nowhere else. Other walks get no such promise:
  past the last page, below the first, or with `perPage=Infinity`, which makes
  no page at all (`x-pages-count` 0), `x-next-page` leads on for ever.
* **listing_documented.** A disagreement: `perPage` is described as `Items per
  page`, and `findAll` answers with every account whatever it is.
* **startup.** Of processes that migrate and find the migration pending at once,
  one creates the table, the others fail and try again, or exit, and find it
  recorded. After the faults the server comes up and stays, with one exception
  that `ServiceComesUp` names: a process that ended between CREATE TABLE, which
  MySQL commits by itself, and the record leaves a table that every later start
  tries to create. (A process that does not migrate listens whether the table is
  there or not; `ServesOnSchema` does not speak of it.) A script that exits with
  0 has registered its admin. An address that is signed up between the script's
  `existsBy` and its INSERT stays a user's: from the empty database on the table
  implements `AccountDirectory`.
* **csv.** With headers that mean different places there is one record for each
  row that fits, holding the cells of that row under their headers. With any
  headers, a row that fits and is not in the list was obstructed: it had a cell,
  neither empty nor zero, where a later column needs an object within an object;
  and a record holds only cells of its own row, each at the place of its column.
  The scripts agree on fully quoted files whose rows are as wide as the header
  line, with no comma and no empty name in a header, but for empty cells, which
  stay texts in the first and are zero in the second; until a row that throws
  ends the second.

**Bounds.** Three requests are enough for two that race and one that disturbs
them (an edit between the two reads of a save; a forgot between a GET and a
DEL). One account suffices where the property is about one row; two where it is
about keeping accounts apart. Two passwords and two names are the least that
tell a stale value from a new one. In the session runs, one request logs in,
one refreshes, and one changes the password or refreshes again, while the
operator acts; access tokens live one or two ticks and refresh tokens one
more, so that both kinds expire within `MaxTime` or, in `application`, a token
outlives the login, the change and the visits of one behaviour. `MaxAttempts`
is 3 (the default is 10: a bound on how often the same race is lost; the proofs
hold for any) and `MaxFaults` is 2, one for each of two processes or one fault
during the recovery from the other. `MaxPage` 6 is the six pages that three
accounts fill half by half, the smallest size with `Scale` 2; a walk that goes
past them has left the pages there are. `MaxRows` 2 shows that a row does not leak
into the next. Requests are calls, each runs once, and nothing else is bounded.

**Symmetry** is used in safety runs only: requests and ids are interchangeable,
addresses too in `MCAuthService`, whose initial rows treat them alike. Runs
with liveness properties use none.

**Fairness.** `AppFairSpec` assumes weak fairness of the normal steps of each
request: the database and Redis answer, and Node.js runs the continuation of a
settled promise. For Redis this is more than the client library promises during
an endless outage (it waits without limit); an outage that ends is what the
assumption means. `StartupFairSpec` assumes the same of the queries of each
process, and that docker starts the server whenever it is not running, as
`restart: unless-stopped` in `src/docker-compose.yml` says; faults are finitely
many. `ListingFairSpec` assumes that the database answers and that clients
follow the next page. Nothing is assumed of failures, crashes, mails, expiry, the
operator or new requests.

Deadlock is checked in every run: the actions named `...Finished` stutter only
when every request, process, client or script has ended.

Each module keeps, next to the definitions they replace, the mutants used to
show that every property can fail (`NewRowWithoutStatus`, `Upsert`,
`LeaveToken`, ...); `PROJECT.json` says which property catches which.

## 4. Proofs

All theorems are for arbitrary sets of requests, ids, addresses, names,
passwords, processes, clients and numbers. The assumptions are those the
modules state: the initial rows are rows and their hashes are no request's
(`RowAssumption`, `SaltAssumption`); the null value is none of the values it
stands beside (`NoneAssumption`, `AuthNoneAssumption`, `TokenAssumption`,
`BearerAssumption`, `NoAddressAssumption`, `NumberAssumption`,
`ResponseAssumption`); times and limits are natural numbers (`TimeAssumption`,
`AttemptsAssumption`, `RowsAssumption`); a whole has at least one part, and
infinities are no integers (`NumberAssumption`); clients send numbers
(`InputAssumption`); `"0"` is a numeral and the empty text is
none (`NumeralAssumption`); ids are
finitely many where accounts are counted (`DirectoryAssumption`); no process
runs two programs (`ProcessAssumption`); clients use every operation of the
interface (`OfferedAssumption`); the lines of a file are non-empty sequences of
cells, cells of parts, parts of words (`LineAssumption`).

**UsersServiceProofs.** The invariants are not inductive: a save could, as far
as they say, hold an entity with any role. `Inv` adds `Held(r)`: a suspended
handler's arguments fit its query, and from `load` on the row exists and the
entity, however stale, has its address and role. The argument: no step removes
an account or changes its address or role (`StepOnTable`, `StepGrows`), so
`Held` is stable under the steps of others (`HeldIsStable`); an INSERT needs a
free address (`StepEmailUnique`), so an address answered 201 stays taken
(`StepRegistrationSticks`). From `Inv`:

* `TypeCorrect`, `EmailsAreUnique`, `RegistrationsStick`;
* `UsersImplementDirectory`: every step maps to a creation or to a stutter.

**AuthServiceProofs.** `AuthInv` adds `AuthHeld(r)` (the body fits the stage,
and an inner call is one of `updatePassword`) and `LinksHeld` (a stored token
belongs to a forgot request for that address; a token a client knows was drawn
by a request that has ended). `AuthStepIsUsersStep` shows that a step of the
composition is a step of `UsersService` or leaves its variables alone, which
gives `AuthImplementsUsers` and hands every result about `UsersService` on to
the composition. Then:

* `AuthTypeCorrect`, `AuthImplementsDirectory`;
* `AuthImplementsResetLinks`: a SET, first or resent, comes from a request that
  has not mailed its token yet (`StoringRenews`, `SettledLinksStep`), and only
  `SendLink` mails, what was settled (`OnlySendLinkMails`, `SendLinkMails`); so a
  mailed link never comes back;
* `ConsumedTokensAreDead`, with `TokenHeld`: a reset past its check carries a
  token that was mailed, and it was stored under no other address.

The same module carries the properties about who writes a password. `OwnerInv`
says of every password that can still reach the table, in rows, entities and
inner calls alike, that its writer was entitled to the account it is kept for
(`OwnersHeld`), which rows alone do not carry through a stale save; then
`PasswordsAreTheirOwners`. `CommitInv` adds to `AuthInv` what each stage knows of
the commit (`OutcomeHeld`, `CommittedHeld`, `NoticesHeld`) and that a handler
calls `UsersService` only after it was entitled to (`EntitledHeld`); then
`OutcomesMatchCommits` and `ChangersWereEntitled`.

**SessionsProofs.** `TokensNameTheirAccount` alone is not inductive: a refresh
signs what its old token says, and an inner call must fit its query.
`SessionInv` is `Inv`, the shape of the session variables (`SessionTyped`),
`RefreshHeld` (a visit past the guards carries a token that was signed), `ClaimsHeld`
(what is about to be signed names its account) and
`TokensNameTheirAccount`. The argument: a login claims what a row says, a
refresh what a right token says, and no step of `UsersService` moves an address
or a role, so a claim stays right until it is signed (`ClaimsStayRight`). As for
`AuthService`, each step is a step of `UsersService` or leaves its variables
alone. Then:

* `SessionTypeCorrect`, `TokensAreRight`, `SessionsImplementUsers`.

The same module carries `SessionHistoryInv`, which adds that a claim is of an
account that logged in (`ClaimsFromLogin`), that the record of a refresh under
way holds whoever is active now (`ActiveRecorded`), and the two properties
themselves; then `TokensComeFromLogins` and `DeactivationEndsRefreshing`.

**UsersServiceHistoryProofs.** `HistoryInv` relates a suspended handler to what
happened since its `find`: where its entity differs from the row in a column
that is not its own, that column was overtaken (`OvertakenHeld`); and a column
it wanted and does not find dirty was seen with the wanted value (`SeenHeld`).
Then `StaleWritesStayInTheirWindow`, `AcknowledgedWritesWereVisible`.

**ApplicationProofs.** `AppInv` is `AuthInv` and `SessionInv`, `Apart` (a request
is with `AuthService` or at the gate, not both, so the inner call of a password
operation is a call from outside to `Sessions`) and `BearerHeld` (a password
change carries the account of a token that passed the guard). A step of the
whole is a step of each part or leaves its variables alone
(`AppStepIsAuthStep`, `AppStepIsSessionStep`), so the inductive invariants of
the parts carry over. Then:

* `AppImplementsAuthService`, `AppImplementsSessions`, and through them what was
  proved of the parts, for the whole interface: `AppImplementsDirectory`,
  `AppImplementsResetLinks`, and `AppIsSafe` (unique addresses, lasting
  registrations, owned passwords, dead links, right tokens);
* `ChangesStayWithTheirAccount`, from `PasswordsAreTheirOwners`, `BearerHeld` and
  `TokensNameTheirAccount`.

**ListingProofs.** `ListingInv` adds to the shape of the variables what a client
relies on between two listings: a response is what `GetPaginationHeaders` makes
of its own page and total (`ResponseHeld`), the listing under way asks for its
next page (`NextHeld`), and rows already read are accounts (`ReaderHeld`).
`QuotientBounds` states the quotient, from which `PagesGrow` says that for a
positive, finite size more accounts never make fewer pages, so a page in range
stays in range; `CancelScale` takes page numbers from parts to wholes. Then
`ListingTypeCorrect`, `CountsCoverRows`, `WalksStayInside`, for every `Scale`.

**StartupProofs.** `StartupInv` adds `HalfWay` (at most one process is between
CREATE TABLE and the record, only while the table is there and unrecorded) and
`ScriptsHeld` (what a script past its INSERT knows of its address). Then
`StartupTypeCorrect`, `MigrationRunsOnce`, `NobodyServesWithoutSchema`,
`ExitZeroIsAdmin`. `StartupIsDirectory`: `ScriptsHeld` says that a script at its
INSERT has an address, so a step that registers it, one reported as failed
included, is a `Create` of `AccountDirectory`, and every other step leaves the
accounts alone.

**CsvReaderProofs.** Induction over the columns of a row: the library's
induction theorems take an operator and cannot be used, so a proof by induction
collects the numbers with the property in a set and shows that it is all of
`Nat` (`NatSet`, from the least number outside it; `UpTo` for a range). A
recursive function is unfolded by exhibiting one that satisfies its equation
(`Iteration`, `PathType`, `NestIs`). `CsvTyped` says what the variables hold and
that the file is one of those read; from it `CsvTypes`.

* `RecordsAreTheirRows`: paths of which none is a prefix of another (`Apart`)
  meet no obstacle and do not disturb each other (`SetApart`), so after n
  assignments the object holds the values of exactly those n (`Held`,
  `NestApart`); for `Exact` headers `FlatRow` is one assignment for each column
  (`FlatRowExact`), hence `RecordOfRow`. With `CsvTyped` the property is inductive:
  each step that reads a line leaves the increasing map from records to rows
  alone (`HoldSkip`) or extends it by the line (`HoldPush`).
* `LostRowsAreObstructed`: after n assignments, clashing or not, an object holds
  values of these assignments at their own paths, and building it threw only if
  one of them stood in the way of a later one (`Given`, `InTheWay`, `NestGiven`);
  hence what one row does (`RowMakesRecord`). The increasing map from records to
  rows is extended by a row that makes a record and left alone by one that is
  obstructed (`AccountedPush`, `AccountedSkip`).
* `TheScriptsAgree`: on `Plain` files both scripts see the same headers and
  cells, and values alike (`Plain...`), and whether a value is in the way depends
  on whether it is truthy only; so step by step a row throws in both or in none
  and leaves records alike (`SameSet`, `SameNest`, `RowsAgree`). `Agreeing` is
  inductive: as far as no row throws, the n-th record of the first script is that
  of the n-th row (`Kept`); all records of the second one are those of its first
  rows, of which none threw, and it has read no other row unless it is dead
  (`Ended`). So the n-th records of both are of one row.

Only model-checked: the liveness properties `EveryRequestEnds`, `WalkEnds`,
`ServiceComesUp` and `EveryRunEnds`, which rest on fairness and are out of reach
of the prover. Every invariant, action property and refinement that a passing
run checks is a theorem.

## 5. Plan

Done: every component with state or arithmetic of its own has its module, every
safety property its proof. What could still be added:

1. `Startup` with two server processes and a rolling restart, and the operator's
   `migration:revert`.
2. `Listing` on `UsersService` itself instead of `AccountDirectory`, so that
   failing and lost queries of registrations appear between the pages.
3. The safety half of `WalkEnds` as a theorem: each page that is followed is
   higher than the one before, and none is above the number of accounts.

## 6. Not modelled

Well-formedness of bodies (`ValidationPipe`): a malformed body is refused before
any handler. Columns nobody reads or writes. Email verification: commented out;
`UsersRepository.verifyEmail` has no caller. Response bodies, the logger,
Swagger, the health endpoint and test support: no state that behaviour depends
on. Configuration other than the switch that decides about migrations: read
once, and constants here. `migration:revert`. Opening the CSV file and printing
the records. Redis time to live as a number: expiry happens at any moment
instead. The cost of bcrypt, which blocks the process but interleaves with
nothing.
