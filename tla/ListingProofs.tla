---------------------------- MODULE ListingProofs ----------------------------
(***************************************************************************)
(* Proofs about Listing, for any number of readers, any accounts and any   *)
(* numbers as page and perPage: whole or not, positive or not, infinite.   *)
(***************************************************************************)
EXTENDS Listing, FiniteSetTheorems, TLAPS

(* The quotient is where it should be.                                     *)
LEMMA QuotientBounds ==
  ASSUME NEW x \in Int, NEW p \in Nat \ {0}
  PROVE  x \div p \in Int /\ p * (x \div p) <= x /\ x < p * (x \div p) + p
  OBVIOUS

LEMMA QuotientMonotone ==
  ASSUME NEW x \in Int, NEW y \in Int, NEW p \in Nat \ {0}, x <= y
  PROVE  x \div p <= y \div p
<1> DEFINE a == x \div p
<1> DEFINE b == y \div p
<1>1. a \in Int /\ p * a <= x
  BY QuotientBounds
<1>2. b \in Int /\ y < p * b + p
  BY QuotientBounds
<1> HIDE DEF a, b
<1>3. p * a < p * (b + 1)
  BY <1>1, <1>2
<1>4. a < b + 1
  BY <1>1, <1>2, <1>3
<1>5. a <= b
  BY <1>1, <1>2, <1>4
<1> QED BY <1>5 DEF a, b

(* Accounts in parts of 1/Scale.                                           *)
LEMMA ScaledMonotone ==
  ASSUME NEW m \in Nat, NEW n \in Nat, m <= n
  PROVE  m * Scale \in Nat /\ n * Scale \in Nat /\ m * Scale <= n * Scale
<1>1. Scale \in Nat
  BY NumberAssumption
<1>2. PICK d \in Nat : n = m + d
  <2>1. n - m \in Nat /\ n = m + (n - m)
    OBVIOUS
  <2> QED BY <2>1
<1>3. (m + d) * Scale = m * Scale + d * Scale
  BY <1>1
<1>4. m * Scale \in Nat /\ d * Scale \in Nat
  BY <1>1
<1> QED BY <1>2, <1>3, <1>4

(* The null value is no number, and no infinity is an integer.             *)
LEMMA IntNotNone == None \notin Number /\ None \notin Int /\ \A n \in Int : n \notin Infinite
  BY NumberAssumption DEF Number

(* More accounts never make fewer pages, and one account makes a page.     *)
LEMMA PagesGrow ==
  ASSUME NEW m \in Nat, NEW n \in Nat, m <= n, NEW p \in Int, p > 0
  PROVE  PagesCount(m, p) \in Int /\ PagesCount(m, p) <= PagesCount(n, p)
<1>1. PICK x \in Nat, y \in Nat : x = m * Scale /\ y = n * Scale /\ x <= y
  BY ScaledMonotone
<1>2. x + p - 1 \in Int /\ y + p - 1 \in Int /\ x + p - 1 <= y + p - 1 /\ p \in Nat \ {0}
  BY <1>1
<1>3. PagesCount(m, p) = (x + p - 1) \div p /\ PagesCount(n, p) = (y + p - 1) \div p
  BY <1>1, IntNotNone DEF PagesCount
<1> QED BY <1>2, <1>3, QuotientMonotone, QuotientBounds

LEMMA OnePageAtLeast ==
  ASSUME NEW n \in Nat, n >= 1, NEW p \in Int, p > 0
  PROVE  PagesCount(n, p) >= 1
<1>1. PICK x \in Nat : x = n * Scale /\ x >= 1
  <2>1. 1 * Scale \in Nat /\ n * Scale \in Nat /\ 1 * Scale <= n * Scale
    BY ScaledMonotone
  <2>2. Scale \in Nat \ {0}
    BY NumberAssumption
  <2> QED BY <2>1, <2>2
<1> DEFINE q == (x + p - 1) \div p
<1>2. x + p - 1 \in Int /\ p \in Nat \ {0}
  BY <1>1
<1>3. q \in Int /\ x + p - 1 < p * q + p
  BY <1>2, QuotientBounds
<1>4. PagesCount(n, p) = q
  BY <1>1, IntNotNone DEF PagesCount
<1> HIDE DEF q
<1>5. p * q >= 0 + x
  BY <1>3
<1>6. q >= 1
  BY <1>1, <1>3, <1>5
<1> QED BY <1>4, <1>6

(* The page count is an integer, for either sign and for no bound at all.  *)
LEMMA PagesCountTyped ==
  ASSUME NEW n \in Nat, NEW p \in Number \ {0}
  PROVE  PagesCount(n, p) \in Int
<1>1. CASE p \in Infinite
  BY <1>1 DEF PagesCount
<1>2. CASE p \in Int /\ p > 0
  BY <1>2, PagesGrow
<1>3. CASE p \in Int /\ ~(p > 0)
  <2>1. 0 - p \in Nat \ {0}
    BY <1>3
  <2>2. n * Scale \in Int
    BY ScaledMonotone
  <2>3. PagesCount(n, p) = 0 - ((n * Scale) \div (0 - p))
    BY <1>3, IntNotNone DEF PagesCount
  <2> QED BY <2>1, <2>2, <2>3, QuotientBounds
<1> QED BY <1>1, <1>2, <1>3 DEF Number

LEMMA HeadersTyped ==
  ASSUME NEW q \in Pagination, NEW n \in Nat
  PROVE  /\ GetPaginationHeaders(q, n) \in Headers
         /\ InBody(GetPaginationHeaders(q, n)) \in Headers
<1>1. PagesCount(n, q.perPage) \in Int
  BY PagesCountTyped DEF Pagination
<1>2. ASSUME NEW m \in Number PROVE PlusOne(m) \in Number
  BY NumberAssumption DEF PlusOne, Number
<1>3. GetPaginationHeaders(q, n).next \in Number
  BY <1>2 DEF GetPaginationHeaders, NextPage, Pagination
<1>4. GetPaginationHeaders(q, n) \in Headers
  BY <1>1, <1>3 DEF Pagination, Headers, GetPaginationHeaders
<1>5. ASSUME NEW h \in Headers PROVE InBody(h) \in Headers
  BY DEF InBody, Json, Headers
<1> QED BY <1>4, <1>5

-----------------------------------------------------------------------------
(* What the next response will be to, while its queries are under way.     *)
NextHeld(r) ==
  (stage[r] \in {"find", "count"} /\ answer[r] # None) =>
    /\ query[r] = CreatePagination(Last(r).next, Last(r).perPage)
    /\ Last(r).next # Last(r).page

(* Metadata that q and the number of accounts make, in either style.       *)
MadeOf(metadata, q, total) ==
  metadata \in {GetPaginationHeaders(q, total), InBody(GetPaginationHeaders(q, total))}

(* What a client reads off the metadata, header or body.                   *)
LEMMA ReadOff ==
  ASSUME NEW q \in Pagination, NEW total \in Nat, NEW m, MadeOf(m, q, total)
  PROVE  /\ m.total = total
         /\ m.pages = PagesCount(total, q.perPage)
         /\ m.page \in {q.page, Json(q.page)}
         /\ m.perPage \in {q.perPage, Json(q.perPage)}
         /\ m.next \in {NextPage(q.page, m.pages), Json(NextPage(q.page, m.pages))}
<1> DEFINE h == GetPaginationHeaders(q, total)
<1>1. /\ h.total = total /\ h.pages = PagesCount(total, q.perPage)
      /\ h.page = q.page /\ h.perPage = q.perPage /\ h.next = NextPage(q.page, h.pages)
  BY DEF GetPaginationHeaders
<1>2. h \in Headers
  BY HeadersTyped
<1>3. m = h \/ m = InBody(h)
  BY DEF MadeOf
<1> HIDE DEF h
<1>4. /\ InBody(h).total = h.total /\ InBody(h).pages = h.pages
      /\ InBody(h).page = Json(h.page) /\ InBody(h).perPage = Json(h.perPage)
      /\ InBody(h).next = Json(h.next)
  BY <1>2 DEF InBody, Headers
<1> QED BY <1>1, <1>3, <1>4

ResponseHeld(r) ==
  answer[r] # None =>
    /\ Last(r) \in Headers
    /\ \E q \in Pagination : MadeOf(Last(r), q, Last(r).total)

ReaderHeld(r) ==
  /\ stage[r] \in {"find", "count"} => query[r] \in Pagination
  /\ stage[r] = "idle" => answer[r] = None
  /\ stage[r] = "answered" => answer[r] # None
  /\ rows[r] \subseteq Accounts
  /\ NextHeld(r)
  /\ ResponseHeld(r)

ListingInv ==
  /\ ListingTypeOK
  /\ Accounts # {}
  /\ CountCoversRows
  /\ \A r \in Reader : ReaderHeld(r)

-----------------------------------------------------------------------------
(* A response of the right shape, and what its client reads off it.        *)
LEMMA InterceptedIsResponse ==
  ASSUME NEW style \in Style, NEW items \in SUBSET Id,
         NEW h \in Headers, InBody(h) \in Headers
  PROVE  /\ Intercept(style, items, h) \in Response
         /\ Intercept(style, items, h).items = items
         /\ Metadata(Intercept(style, items, h)) \in {h, InBody(h)}
  BY ResponseAssumption DEF Intercept, Metadata, Response, Style

(* Accounts are finitely many, and their number only grows.                *)
LEMMA AccountsCounted ==
  ASSUME ListingTypeOK
  PROVE  /\ IsFiniteSet(Accounts)
         /\ Cardinality(Accounts) \in Nat
         /\ Accounts # {} => Cardinality(Accounts) >= 1
         /\ \A S \in SUBSET Accounts : Cardinality(S) <= Cardinality(Accounts)
<1>1. Accounts \subseteq Id
  BY DEF Accounts
<1>2. IsFiniteSet(Accounts)
  BY <1>1, DirectoryAssumption, FS_Subset
<1>3. Cardinality(Accounts) \in Nat /\ (Accounts # {} => Cardinality(Accounts) # 0)
  BY <1>2, FS_CardinalityType, FS_EmptySet
<1>4. \A S \in SUBSET Accounts : Cardinality(S) <= Cardinality(Accounts)
  BY <1>2, FS_Subset
<1> QED BY <1>2, <1>3, <1>4

(* The account created is new, so the others and their number stay.        *)
LEMMA CreateGrows ==
  ASSUME ListingTypeOK, Next
  PROVE  /\ directory' \in [Id -> Account \cup {None}]
         /\ Accounts \subseteq Accounts'
<1>1. PICK id \in Id, account \in Account : Create(id, account)
  BY DEF Next
<1> QED BY <1>1, ResponseAssumption DEF Create, ListingTypeOK, Accounts

-----------------------------------------------------------------------------
(* The invariant holds at the start and is preserved.                      *)
LEMMA ListingInitInv == ListingInit => ListingInv
  BY DEF ListingInit, Init, ListingInv, ListingTypeOK, CountCoversRows, ReaderHeld, NextHeld,
         ResponseHeld, Accounts

(* The defaults are numbers.                                               *)
LEMMA ScaleIsANumber == Scale \in Number \ {0} /\ 20 * Scale \in Number \ {0}
  BY NumberAssumption DEF Number

(* A query leaves for the database.                                        *)
LEMMA FindHeld ==
  ASSUME ListingInv, NEW r \in Reader, NEW q \in Pagination, Find(r, q),
         answer[r] # None => /\ q = CreatePagination(Last(r).next, Last(r).perPage)
                             /\ Last(r).next # Last(r).page
  PROVE  ListingInv'
<1> USE DEF Find, ListingInv
<1>1. ListingTypeOK'
  BY DEF ListingTypeOK
<1>2. Accounts' = Accounts /\ answer' = answer /\ rows' = rows
  BY DEF Accounts
<1>3. CountCoversRows'
  BY <1>2 DEF CountCoversRows, Last
<1>4. \A s \in Reader : ReaderHeld(s)'
  BY <1>2 DEF ReaderHeld, NextHeld, ResponseHeld, Last, ListingTypeOK
<1> QED BY <1>1, <1>2, <1>3, <1>4

(* What a response to a query is: its metadata is computed of that query   *)
(* and the number of accounts at that moment.                              *)
LEMMA CountRowsAnswers ==
  ASSUME ListingInv, NEW r \in Reader, NEW style \in Style, CountRows(r, style)
  PROVE  /\ answer'[r] \in Response
         /\ answer'[r].items = rows[r]
         /\ MadeOf(Last(r)', query[r], Cardinality(Accounts))
         /\ Last(r)' \in Headers
         /\ \A s \in Reader \ {r} : answer'[s] = answer[s]
<1> DEFINE h == GetPaginationHeaders(query[r], Cardinality(Accounts))
<1>1. h \in Headers /\ InBody(h) \in Headers
  BY AccountsCounted, HeadersTyped DEF ListingInv, ReaderHeld, CountRows
<1>2. answer' = [answer EXCEPT ![r] = Intercept(style, rows[r], h)] /\ rows[r] \in SUBSET Id
  BY DEF CountRows, ListingInv, ListingTypeOK
<1> HIDE DEF h
<1>3. answer'[r] = Intercept(style, rows[r], h) /\ \A s \in Reader \ {r} : answer'[s] = answer[s]
  BY <1>2 DEF ListingInv, ListingTypeOK
<1> QED BY <1>1, <1>2, <1>3, InterceptedIsResponse DEF Last, MadeOf, h

LEMMA CountRowsHeld ==
  ASSUME ListingInv, NEW r \in Reader, NEW style \in Style, CountRows(r, style)
  PROVE  ListingInv'
<1>1. /\ answer'[r] \in Response /\ answer'[r].items = rows[r]
      /\ MadeOf(Last(r)', query[r], Cardinality(Accounts))
      /\ Last(r)' \in Headers
      /\ \A s \in Reader \ {r} : answer'[s] = answer[s]
  BY CountRowsAnswers
<1>2. /\ answer' \in [Reader -> Response \cup {None}]
      /\ stage' = [stage EXCEPT ![r] = "answered"] /\ rows' = [rows EXCEPT ![r] = {}]
      /\ UNCHANGED <<directory, query>> /\ Accounts' = Accounts
      /\ query[r] \in Pagination
  <2>1. answer' = [answer EXCEPT ![r] = answer'[r]]
    BY DEF CountRows, ListingInv, ListingTypeOK
  <2> QED BY <1>1, <2>1 DEF CountRows, ListingInv, ListingTypeOK, ReaderHeld, Accounts
<1>3. ListingTypeOK'
  BY <1>2 DEF ListingInv, ListingTypeOK
<1>4. Last(r)'.total = Cardinality(Accounts)
  <2>1. query[r] \in Pagination /\ Cardinality(Accounts) \in Nat
    BY <1>2, AccountsCounted DEF ListingInv
  <2> QED BY <1>1, <2>1, ReadOff
<1>5. CountCoversRows'
  <2>1. Cardinality(rows[r]) <= Cardinality(Accounts) /\ Cardinality(Accounts) \in Nat
    BY AccountsCounted DEF ListingInv, ReaderHeld
  <2>2. ASSUME NEW s \in Reader \ {r}, answer'[s] # None
        PROVE  /\ Cardinality(answer'[s].items) <= Last(s)'.total
               /\ Last(s)'.total <= Cardinality(Accounts)
    BY <1>1, <2>2 DEF ListingInv, CountCoversRows, Last
  <2> QED BY <1>1, <1>2, <1>4, <2>1, <2>2 DEF CountCoversRows
<1>6. ResponseHeld(r)'
  BY <1>1, <1>2, <1>4 DEF ResponseHeld
<1>7. answer'[r] # None
  BY <1>1, ResponseAssumption
<1>8. ReaderHeld(r)'
  BY <1>2, <1>6, <1>7 DEF ListingInv, ListingTypeOK, ReaderHeld, NextHeld
<1>9. ASSUME NEW s \in Reader \ {r} PROVE ReaderHeld(s)'
  BY <1>1, <1>2 DEF ListingInv, ListingTypeOK, ReaderHeld, NextHeld, ResponseHeld, Last
<1> QED BY <1>2, <1>3, <1>5, <1>8, <1>9 DEF ListingInv

(* Every step of a listing.                                                *)
LEMMA ListingStep ==
  ASSUME ListingInv, NEW r \in Reader,
         \/ \E page, perPage \in Input \cup {None} : Ask(r, page, perPage)
         \/ Follow(r) \/ FindRows(r) \/ QueryFails(r)
         \/ \E style \in Style : CountRows(r, style)
  PROVE  ListingInv'
<1>1. ASSUME NEW page \in Input \cup {None}, NEW perPage \in Input \cup {None}, Ask(r, page, perPage)
      PROVE  ListingInv'
  <2>1. CreatePagination(page, perPage) \in Pagination
    BY InputAssumption, ScaleIsANumber DEF CreatePagination, OrDefault, Pagination
  <2>2. answer[r] = None
    BY <1>1 DEF Ask, ListingInv, ReaderHeld
  <2> QED BY <1>1, <2>1, <2>2, FindHeld DEF Ask
<1>2. CASE Follow(r)
  <2>1. Last(r) \in Headers
    BY <1>2 DEF Follow, LeadsOn, ListingInv, ReaderHeld, ResponseHeld
  <2>2. CreatePagination(Last(r).next, Last(r).perPage) \in Pagination
    BY <2>1, ScaleIsANumber DEF CreatePagination, OrDefault, Pagination, Headers
  <2> QED BY <1>2, <2>2, FindHeld DEF Follow, LeadsOn
<1>3. CASE FindRows(r) \/ QueryFails(r)
  <2>1. /\ UNCHANGED <<directory, query, answer>> /\ Accounts' = Accounts
        /\ \E next \in {"count", "failed"} : stage' = [stage EXCEPT ![r] = next]
        /\ \E new \in {{}, Accounts} : rows' = [rows EXCEPT ![r] = new]
        /\ stage[r] \in {"find", "count"}
    BY <1>3 DEF FindRows, QueryFails, Accounts
  <2>2. ListingTypeOK'
    BY <2>1 DEF ListingInv, ListingTypeOK, Accounts
  <2>3. CountCoversRows'
    BY <2>1 DEF ListingInv, CountCoversRows, Last
  <2>4. \A s \in Reader : ReaderHeld(s)'
    BY <2>1 DEF ListingInv, ListingTypeOK, ReaderHeld, NextHeld, ResponseHeld, Last
  <2> QED BY <2>1, <2>2, <2>3, <2>4 DEF ListingInv
<1> QED BY <1>1, <1>2, <1>3, CountRowsHeld

LEMMA ListingNextInv == ListingInv /\ [ListingNext]_listingAllVars => ListingInv'
<1> SUFFICES ASSUME ListingInv, [ListingNext]_listingAllVars
             PROVE  ListingInv'
  OBVIOUS
<1>1. CASE CreateAccount
  <2>1. /\ directory' \in [Id -> Account \cup {None}] /\ Accounts \subseteq Accounts'
        /\ UNCHANGED listingVars
    BY <1>1, CreateGrows DEF CreateAccount, ListingInv
  <2>2. ListingTypeOK'
    BY <2>1 DEF ListingInv, ListingTypeOK, listingVars
  <2>3. Cardinality(Accounts) <= Cardinality(Accounts') /\ Cardinality(Accounts) \in Nat
        /\ Cardinality(Accounts') \in Nat
    <3>1. IsFiniteSet(Accounts')
      BY <2>2, DirectoryAssumption, FS_Subset DEF Accounts
    <3> QED BY <2>1, <3>1, FS_Subset, FS_CardinalityType
  <2>4. CountCoversRows'
    <3> SUFFICES ASSUME NEW r \in Reader, answer[r] # None
                 PROVE  /\ Cardinality(answer[r].items) <= Last(r).total
                        /\ Last(r).total <= Cardinality(Accounts')
      BY <2>1 DEF CountCoversRows, Last, listingVars
    <3>1. Last(r).total \in Nat
      BY DEF ListingInv, ReaderHeld, ResponseHeld, Headers
    <3> QED BY <2>3, <3>1 DEF ListingInv, CountCoversRows
  <2>5. \A s \in Reader : ReaderHeld(s)'
    BY <2>1 DEF ListingInv, ReaderHeld, NextHeld, ResponseHeld, Last, listingVars
  <2> QED BY <2>1, <2>2, <2>4, <2>5 DEF ListingInv
<1>2. CASE UNCHANGED listingAllVars
  BY <1>2 DEF listingAllVars, listingVars, ListingInv, ListingTypeOK, Accounts, CountCoversRows,
              ReaderHeld, NextHeld, ResponseHeld, Last
<1> QED BY <1>1, <1>2, ListingStep DEF ListingNext, ListingProgress, ListingFinished

-----------------------------------------------------------------------------
(* Different whole numbers have different parts.                           *)
LEMMA CancelScale ==
  ASSUME NEW i \in Int, NEW j \in Int
  PROVE  i * Scale = j * Scale <=> i = j
<1>1. Scale \in Nat \ {0}
  BY NumberAssumption
<1>2. ASSUME NEW a \in Int, NEW b \in Int, a < b PROVE a * Scale < b * Scale
  <2>1. PICK d \in Nat \ {0} : b = a + d
    <3>1. b - a \in Nat \ {0} /\ b = a + (b - a)
      BY <1>2
    <3> QED BY <3>1
  <2>2. (a + d) * Scale = a * Scale + d * Scale
    BY <1>1
  <2>3. d * Scale > 0 /\ a * Scale \in Int /\ d * Scale \in Int
    BY <1>1
  <2> QED BY <2>1, <2>2, <2>3
<1>3. i * Scale \in Int /\ j * Scale \in Int
  BY <1>1
<1>4. i < j \/ j < i \/ i = j
  OBVIOUS
<1> QED BY <1>2, <1>3, <1>4

(* A response is on a page if it is the first of a walk, or the page was   *)
(* sent for by a response that was on one.                                 *)
LEMMA NextResponseOnAPage ==
  ASSUME ListingInv, NEW r \in Reader, NEW style \in Style, CountRows(r, style),
         PositiveFinite(query[r].perPage),
         IF answer[r] = None THEN query[r].page = Scale ELSE OnAPage(answer[r])
  PROVE  OnAPage(answer'[r])
<1> DEFINE n == Cardinality(Accounts)
<1> DEFINE p == query[r].perPage
<1> DEFINE pages == PagesCount(n, p)
<1>1. n \in Nat /\ n >= 1 /\ query[r] \in Pagination /\ p \in Int /\ p > 0 /\ Scale \in Nat \ {0}
  BY AccountsCounted, NumberAssumption DEF ListingInv, ReaderHeld, CountRows, PositiveFinite
<1>2. pages \in Int /\ pages >= 1
  BY <1>1, OnePageAtLeast, PagesGrow
<1> SUFFICES \E k \in 1 .. pages : query[r].page = k * Scale
  <2>1. MadeOf(Metadata(answer'[r]), query[r], n)
    BY CountRowsAnswers DEF Last, Metadata
  <2>2. /\ Metadata(answer'[r]).pages = pages
        /\ Metadata(answer'[r]).page \in {query[r].page, Json(query[r].page)}
    BY <1>1, <2>1, ReadOff
  <2>3. ASSUME NEW k \in 1 .. pages, query[r].page = k * Scale
        PROVE  Metadata(answer'[r]).page = k * Scale
    <3>1. k * Scale \in Int
      BY <1>1, <1>2, <2>3
    <3>2. Json(query[r].page) = query[r].page
      BY <2>3, <3>1, IntNotNone DEF Json
    <3> QED BY <2>2, <2>3, <3>2
  <2> QED BY <2>2, <2>3 DEF OnAPage
<1> HIDE DEF n, p, pages
<1>3. CASE answer[r] = None
  <2>1. Scale = 1 * Scale
    BY <1>1
  <2> QED BY <1>2, <1>3, <2>1
<1>4. CASE answer[r] # None
  <2> DEFINE old == Last(r)
  <2>1. PICK q \in Pagination : MadeOf(old, q, old.total)
    BY <1>4 DEF ListingInv, ReaderHeld, ResponseHeld
  <2>2. /\ old \in Headers /\ old.total \in Nat /\ old.total <= n
        /\ query[r] = CreatePagination(old.next, old.perPage) /\ old.next # old.page
    BY <1>4 DEF ListingInv, CountCoversRows, ReaderHeld, NextHeld, ResponseHeld, Headers, CountRows, n
  <2>3. PICK k \in 1 .. old.pages : old.page = k * Scale
    BY <1>4 DEF OnAPage, Last
  <2> HIDE DEF old
  <2>4. old.pages \in Int /\ k \in Int /\ k >= 1 /\ old.pages >= 1 /\ old.page \in Int
    <3>1. old.pages \in Int
      BY <2>2 DEF Headers
    <3> QED BY <1>1, <2>3, <3>1
  <2>5. /\ old.pages = PagesCount(old.total, q.perPage)
        /\ q.page = old.page
        /\ q.perPage \in Int /\ old.perPage = q.perPage
    <3>1. old.pages = PagesCount(old.total, q.perPage)
      BY <2>1, <2>2, ReadOff
    <3>2. q.perPage \in Int
      BY <2>4, <3>1 DEF PagesCount, Pagination, Number
    <3>3. old.page = q.page \/ old.page = Json(q.page)
      BY <2>1, <2>2, ReadOff
    <3>4. q.page = old.page
      BY <2>4, <3>3, IntNotNone DEF Json
    <3>5. old.perPage = q.perPage
      BY <2>1, <2>2, <3>2, ReadOff, IntNotNone DEF Json
    <3> QED BY <3>1, <3>2, <3>4, <3>5
  <2>6. old.next = (k + 1) * Scale /\ k # old.pages
    <3>1. old.next = NextPage(q.page, old.pages) \/ old.next = Json(NextPage(q.page, old.pages))
      BY <2>1, <2>2, ReadOff
    <3>2. NextPage(q.page, old.pages) = IF k = old.pages THEN old.page ELSE old.page + Scale
      <4>1. old.page = old.pages * Scale <=> k = old.pages
        BY <1>1, <2>3, <2>4, CancelScale
      <4> QED BY <2>4, <2>5, <4>1, IntNotNone DEF NextPage, PlusOne
    <3>3. old.next = NextPage(q.page, old.pages)
      BY <1>1, <2>4, <3>1, <3>2, IntNotNone DEF Json
    <3>4. (k + 1) * Scale = k * Scale + Scale
      BY <1>1, <2>4
    <3> QED BY <2>2, <2>3, <3>2, <3>3, <3>4
  <2>7. query[r].page = (k + 1) * Scale /\ p = q.perPage
    <3>1. (k + 1) * Scale \in Int /\ (k + 1) * Scale # 0
      <4>1. k + 1 \in Nat \ {0}
        BY <2>4
      <4>2. (k + 1) * Scale = 0 * Scale <=> k + 1 = 0
        BY <1>1, <2>4, CancelScale
      <4> QED BY <1>1, <4>1, <4>2
    <3>2. q.perPage # 0
      BY DEF Pagination
    <3> QED BY <2>2, <2>5, <2>6, <3>1, <3>2, IntNotNone DEF CreatePagination, OrDefault, p
  <2>8. old.pages <= pages
    BY <1>1, <2>2, <2>5, <2>7, PagesGrow DEF p, pages
  <2>9. k + 1 \in 1 .. pages
    BY <1>2, <2>3, <2>4, <2>6, <2>8
  <2> QED BY <2>7, <2>9
<1> QED BY <1>3, <1>4

(* The inductive invariant holds in every reachable state of Listing.      *)
THEOREM ListingInvariance == ListingSpec => []ListingInv
  BY ListingInitInv, ListingNextInv, PTL DEF ListingSpec

(* Type correctness of the listings: no query divides by zero.             *)
THEOREM ListingTypeCorrect == ListingSpec => []ListingTypeOK
<1>1. ListingInv => ListingTypeOK
  BY DEF ListingInv
<1> QED BY <1>1, ListingInvariance, PTL

(* The number in a response covers its rows, and the table covers both.    *)
THEOREM CountsCoverRows == ListingSpec => []CountCoversRows
<1>1. ListingInv => CountCoversRows
  BY DEF ListingInv
<1> QED BY <1>1, ListingInvariance, PTL

(* A walk from the first page, with any positive finite number as the size *)
(* of its pages, stays on the pages there are, whatever is created on the  *)
(* way.                                                                    *)
THEOREM WalksStayInside == ListingSpec => WalkStaysInside
<1> DEFINE Good ==
      \A r \in Reader :
        /\ answer'[r] # answer[r] /\ PositiveFinite(query[r].perPage)
        /\ IF answer[r] = None THEN query[r].page = Scale ELSE OnAPage(answer[r])
        => OnAPage(answer'[r])
<1>1. ListingInv /\ [ListingNext]_listingAllVars => [Good]_listingAllVars
  <2> SUFFICES ASSUME ListingInv, ListingNext, NEW r \in Reader,
                      answer'[r] # answer[r], PositiveFinite(query[r].perPage),
                      IF answer[r] = None THEN query[r].page = Scale ELSE OnAPage(answer[r])
               PROVE  OnAPage(answer'[r])
    OBVIOUS
  <2>1. PICK s \in Reader, style \in Style : CountRows(s, style)
    BY DEF ListingNext, ListingProgress, Ask, Follow, Find, FindRows, QueryFails, CreateAccount,
           ListingFinished, listingVars, listingAllVars
  <2>2. s = r
    BY <2>1, CountRowsAnswers
  <2> QED BY <2>1, <2>2, NextResponseOnAPage
<1> QED BY <1>1, ListingInvariance, PTL DEF ListingSpec, WalkStaysInside

=============================================================================
