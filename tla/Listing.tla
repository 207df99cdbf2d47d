------------------------------- MODULE Listing -------------------------------
(***************************************************************************)
(* GET users: findAll, the page arithmetic in front of it and behind it    *)
(* (pagination.decorator.ts, pagination-helper.ts), the interceptor that   *)
(* puts the metadata in headers or in the body, and clients that walk the  *)
(* pages by x-next-page while accounts are created.                        *)
(*                                                                         *)
(* The accounts are those of AccountDirectory, which UsersService was      *)
(* shown to implement: they are only ever added.  findAndCount reads the   *)
(* rows and then their number; nothing ties the two to one moment.  Only   *)
(* an admin may list, so there is an account from the start.               *)
(*                                                                         *)
(* page and perPage are whatever number the text of the query is to        *)
(* JavaScript, fractions and infinities included.  A finite number is the  *)
(* integer that counts its parts of 1/Scale: Scale is the number 1.  What  *)
(* doubles round away beyond 2^53 is left out.                             *)
(***************************************************************************)
EXTENDS AccountDirectory, Integers, FiniteSets

CONSTANTS
  Reader,    \* clients with an admin's token, one walk each
  Scale,     \* the parts of a whole
  Infinity, MinusInfinity,
  Input,     \* numbers clients may send as page or perPage
  MaxPage    \* bound on the pages a walk asks for

VARIABLES
  stage,     \* the query each listing waits for
  query,     \* the Pagination of the listing under way
  rows,      \* the accounts its first query has returned
  answer     \* the last response to each client

listingVars == <<stage, query, rows, answer>>
listingAllVars == <<directory, listingVars>>

Style == {"header", "body"}

Infinite == {Infinity, MinusInfinity}
Number == Int \cup Infinite

ASSUME NumberAssumption ==
  /\ Scale \in Nat \ {0}
  /\ \A n \in Infinite : n \notin Int
  /\ None \notin Number
ASSUME InputAssumption == Input \subseteq Number /\ MaxPage \in Nat
ASSUME DirectoryAssumption == IsFiniteSet(Id)

-----------------------------------------------------------------------------
Accounts == {id \in Id : directory[id] # None}

(* Mutant of OrDefault: `value ?? default`.                                *)
OrDefaultIfMissing(value, default) == IF value = None THEN default ELSE value

(* `+value || default`: nothing, no number and zero are the default.       *)
OrDefault(value, default) == IF value \in {None, 0} THEN default ELSE value

CreatePagination(page, perPage) ==
  [page |-> OrDefault(page, Scale), perPage |-> OrDefault(perPage, 20 * Scale)]

Pagination == [page : Number, perPage : Number \ {0}]

(* Mutant of PagesCount: Math.floor.                                       *)
PagesCountFloor(total, perPage) ==
  IF perPage \in Infinite THEN 0
  ELSE IF perPage > 0 THEN (total * Scale) \div perPage
  ELSE 0 - ((total * Scale - perPage - 1) \div (0 - perPage))

(* Math.ceil(totalCount / perPage)                                         *)
PagesCount(total, perPage) ==
  IF perPage \in Infinite THEN 0
  ELSE IF perPage > 0 THEN (total * Scale + perPage - 1) \div perPage
  ELSE 0 - ((total * Scale) \div (0 - perPage))

(* page + 1                                                                *)
PlusOne(page) == IF page \in Infinite THEN page ELSE page + Scale

(* Mutant of NextPage: the last page leads on as well.                     *)
NextPageAlways(page, pages) == PlusOne(page)

NextPage(page, pages) == IF page = pages * Scale THEN page ELSE PlusOne(page)

GetPaginationHeaders(q, total) ==
  LET pages == PagesCount(total, q.perPage) IN
  [page |-> q.page, perPage |-> q.perPage, total |-> total,
   pages |-> pages, next |-> NextPage(q.page, pages)]

Headers == [page : Number \cup {None}, perPage : (Number \ {0}) \cup {None},
            total : Nat, pages : Int, next : Number \cup {None}]

Response == [items : SUBSET Id, header : Headers \cup {None}, metadata : Headers \cup {None}]

ASSUME ResponseAssumption == None \notin Account \cup Headers \cup Response

(* JSON has no infinities and writes null for them; a header has the text. *)
Json(number) == IF number \in Infinite THEN None ELSE number

InBody(headers) ==
  [headers EXCEPT !.page = Json(@), !.perPage = Json(@), !.next = Json(@)]

(* PaginationInterceptor: the metadata goes to one place or the other.     *)
Intercept(style, items, headers) ==
  [items    |-> items,
   header   |-> IF style = "body" THEN None ELSE headers,
   metadata |-> IF style = "body" THEN InBody(headers) ELSE None]

Metadata(response) == IF response.header = None THEN response.metadata ELSE response.header

Last(r) == Metadata(answer[r])

-----------------------------------------------------------------------------
ListingInit ==
  /\ Init
  /\ Accounts # {}
  /\ stage = [r \in Reader |-> "idle"]
  /\ query = [r \in Reader |-> None]
  /\ rows = [r \in Reader |-> {}]
  /\ answer = [r \in Reader |-> None]

Find(r, q) ==
  /\ stage' = [stage EXCEPT ![r] = "find"]
  /\ query' = [query EXCEPT ![r] = q]
  /\ UNCHANGED <<directory, rows, answer>>

(* A walk begins, with any query or none.                                  *)
Ask(r, page, perPage) == stage[r] = "idle" /\ Find(r, CreatePagination(page, perPage))

(* The client goes on to x-next-page.                                      *)
LeadsOn(r) == stage[r] = "answered" /\ Last(r).next # Last(r).page

Follow(r) ==
  /\ LeadsOn(r)
  /\ Last(r).next <= MaxPage * Scale
  /\ Find(r, CreatePagination(Last(r).next, Last(r).perPage))

(* findAndCount: the rows, all of them whatever the page.                  *)
FindRows(r) ==
  /\ stage[r] = "find"
  /\ rows' = [rows EXCEPT ![r] = Accounts]
  /\ stage' = [stage EXCEPT ![r] = "count"]
  /\ UNCHANGED <<directory, query, answer>>

(* Mutant of CountRows: the number first, then the rows.                   *)
CountThenRows(r, style) ==
  /\ stage[r] = "count"
  /\ answer' = [answer EXCEPT ![r] =
       Intercept(style, Accounts, GetPaginationHeaders(query[r], Cardinality(rows[r])))]
  /\ stage' = [stage EXCEPT ![r] = "answered"]
  /\ rows' = [rows EXCEPT ![r] = {}]
  /\ UNCHANGED <<directory, query>>

(* findAndCount: their number; then the response.                          *)
CountRows(r, style) ==
  /\ stage[r] = "count"
  /\ answer' = [answer EXCEPT ![r] =
       Intercept(style, rows[r], GetPaginationHeaders(query[r], Cardinality(Accounts)))]
  /\ stage' = [stage EXCEPT ![r] = "answered"]
  /\ rows' = [rows EXCEPT ![r] = {}]
  /\ UNCHANGED <<directory, query>>

QueryFails(r) ==
  /\ stage[r] \in {"find", "count"}
  /\ stage' = [stage EXCEPT ![r] = "failed"]
  /\ rows' = [rows EXCEPT ![r] = {}]
  /\ UNCHANGED <<directory, query, answer>>

CreateAccount == Next /\ UNCHANGED listingVars

(* The walk has come to the page that leads nowhere else, or met an error. *)
WalkEnded(r) == stage[r] = "failed" \/ (stage[r] = "answered" /\ Last(r).next = Last(r).page)

ListingFinished ==
  /\ \A r \in Reader : WalkEnded(r) \/ (LeadsOn(r) /\ Last(r).next > MaxPage * Scale)
  /\ UNCHANGED listingAllVars

ListingProgress(r) == Follow(r) \/ FindRows(r) \/ \E style \in Style : CountRows(r, style)

ListingNext ==
  \/ \E r \in Reader :
       \/ \E page, perPage \in Input \cup {None} : Ask(r, page, perPage)
       \/ ListingProgress(r) \/ QueryFails(r)
  \/ CreateAccount
  \/ ListingFinished

ListingSpec == ListingInit /\ [][ListingNext]_listingAllVars

(* The database answers, and the clients go on to the next page.           *)
ListingFairSpec == ListingSpec /\ \A r \in Reader : WF_listingAllVars(ListingProgress(r))

-----------------------------------------------------------------------------
(* Every variable has its shape; a query never divides by zero.            *)
ListingTypeOK ==
  /\ directory \in [Id -> Account \cup {None}]
  /\ stage \in [Reader -> {"idle", "find", "count", "answered", "failed"}]
  /\ query \in [Reader -> Pagination \cup {None}]
  /\ rows \in [Reader -> SUBSET Id]
  /\ answer \in [Reader -> Response \cup {None}]

(* Although the rows and their number come from two queries, a response    *)
(* never lists more accounts than x-total-count says, nor counts more than *)
(* there are by the time it is read.                                       *)
CountCoversRows ==
  \A r \in Reader : answer[r] # None =>
    Cardinality(answer[r].items) <= Last(r).total /\ Last(r).total <= Cardinality(Accounts)

OnAPage(response) ==
  \E k \in 1 .. Metadata(response).pages : Metadata(response).page = k * Scale

PositiveFinite(number) == number \in Int /\ number > 0

(* A walk by x-next-page that begins at the first page never leaves the    *)
(* pages there are, whatever accounts are created on the way: no response  *)
(* sends it past the last page, and the last page never moves back.  The   *)
(* size of its pages is a positive number, whole or not, but not Infinity: *)
(* that one makes no page at all, and page 1 leads to page 2 and on.       *)
WalkStaysInside ==
  [][\A r \in Reader :
       /\ answer'[r] # answer[r] /\ PositiveFinite(query[r].perPage)
       /\ IF answer[r] = None THEN query[r].page = Scale ELSE OnAPage(answer[r])
       => OnAPage(answer'[r])]_listingAllVars

(* A walk that is on a page comes to its end: x-next-page equals x-page    *)
(* some time, as the pages are finitely many, however small they are.      *)
WalkEnds ==
  \A r \in Reader : (answer[r] # None /\ OnAPage(answer[r])) ~> WalkEnded(r)

(* `Items per page`, as the description of the query parameter perPage     *)
(* says: a response holds no more items than that, if it is a whole number *)
(* of items.                                                               *)
AtMostPerPage ==
  \A r \in Reader, size \in 1 .. Cardinality(Id) :
    (answer[r] # None /\ Last(r).perPage = size * Scale) => Cardinality(answer[r].items) <= size

=============================================================================
