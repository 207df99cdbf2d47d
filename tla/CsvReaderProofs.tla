--------------------------- MODULE CsvReaderProofs ---------------------------
(***************************************************************************)
(* Proofs about the CSV readers, for any lines and any number of them.     *)
(* What a recursive function computes is found by naming its result,       *)
(* showing that the result satisfies the function's equation and, with     *)
(* NatSet, that only one function does.                                    *)
(***************************************************************************)
EXTENDS CsvReader, WellFoundedInduction, SequenceTheorems, TLAPS

(* Induction: a set of numbers that has 0 and the successor of each of its *)
(* numbers misses none, since it would miss a smallest one.                *)
LEMMA NatSet ==
  ASSUME NEW S, 0 \in S, \A n \in Nat : n \in S => n + 1 \in S
  PROVE  Nat \subseteq S
<1> SUFFICES ASSUME Nat \ S # {} PROVE FALSE
  OBVIOUS
<1>1. PICK x \in Nat \ S : \A y \in Nat \ S : ~ (<<y, x>> \in OpToRel(<, Nat))
  BY NatLessThanWellFounded, WFMin
<1>2. x # 0 /\ x - 1 \in Nat
  OBVIOUS
<1>3. x - 1 \in Nat \ S
  BY <1>2
<1>4. <<x - 1, x>> \in OpToRel(<, Nat)
  BY <1>2 DEF OpToRel
<1> QED
  BY <1>1, <1>3, <1>4

(* The same from 1 to N.                                                   *)
LEMMA UpTo ==
  ASSUME NEW N \in Nat, NEW S, 1 \in S, \A n \in 1..N - 1 : n \in S => n + 1 \in S
  PROVE  1..N \subseteq S
<1> DEFINE T == {n \in Nat : n \in 1..N => n \in S}
<1>1. 0 \in T
  OBVIOUS
<1>2. ASSUME NEW n \in Nat, n \in T PROVE n + 1 \in T
  <2>1. CASE n = 0
    BY <2>1
  <2>2. CASE n # 0
    BY <1>2, <2>2
  <2> QED
    BY <2>1, <2>2
<1>3. Nat \subseteq T
  <2> HIDE DEF T
  <2> QED
    BY <1>1, <1>2, NatSet
<1> QED
  BY <1>3

(* The results of a step repeated from 1 to N: there is a function that    *)
(* has them all.                                                           *)
Steps(S, N) == [S \X (1..N) -> S]

Results(f, S, N, base, step) ==
  /\ f \in [1..N -> S]
  /\ f[1] = base
  /\ \A n \in 2..N : f[n] = step[<<f[n - 1], n>>]

LEMMA Iteration ==
  ASSUME NEW N, N \in Nat \ {0}, NEW S, NEW base, base \in S, NEW step, step \in Steps(S, N)
  PROVE  \E f : Results(f, S, N, base, step)
<1> USE DEF Steps
<1> DEFINE Good(n, f) == f[1] = base /\ \A m \in 2..n : f[m] = step[<<f[m - 1], m>>]
           T == {n \in 1..N : \E f \in [1..n -> S] : Good(n, f)}
<1>1. 1 \in T
  <2> DEFINE g == [m \in 1..1 |-> base]
  <2>1. g \in [1..1 -> S] /\ Good(1, g)
    OBVIOUS
  <2>2. 1 \in 1..N
    OBVIOUS
  <2> HIDE DEF g, Good
  <2> QED
    BY <2>1, <2>2
<1>2. ASSUME NEW n \in 1..N - 1, n \in T PROVE n + 1 \in T
  <2>1. PICK f \in [1..n -> S] : Good(n, f)
    BY <1>2
  <2> DEFINE g == [m \in 1..n + 1 |-> IF m = n + 1 THEN step[<<f[n], n + 1>>] ELSE f[m]]
  <2>2. g \in [1..n + 1 -> S]
    <3>1. f[n] \in S /\ <<f[n], n + 1>> \in S \X (1..N)
      OBVIOUS
    <3> QED
      BY <3>1
  <2>3. Good(n + 1, g)
    <3>1. g[1] = base
      BY <2>1
    <3>2. ASSUME NEW m \in 2..n + 1 PROVE g[m] = step[<<g[m - 1], m>>]
      <4>1. CASE m = n + 1
        <5>1. m - 1 = n /\ n \in 1..n + 1 /\ n # n + 1 /\ m \in 1..n + 1
          BY <4>1
        <5>2. g[m - 1] = f[n] /\ g[m] = step[<<f[n], n + 1>>]
          BY <4>1, <5>1
        <5> QED
          BY <4>1, <5>2
      <4>2. CASE m # n + 1
        <5>1. m \in 2..n /\ m \in 1..n /\ m - 1 \in 1..n
          BY <4>2
        <5>2. g[m] = f[m] /\ g[m - 1] = f[m - 1]
          BY <5>1
        <5> QED
          BY <5>1, <5>2, <2>1
      <4> QED
        BY <4>1, <4>2
    <3> QED
      BY <3>1, <3>2
  <2>4. n + 1 \in 1..N
    OBVIOUS
  <2> HIDE DEF g, Good
  <2> QED
    BY <2>2, <2>3, <2>4
<1>3. N \in T
  <2> HIDE DEF T
  <2>1. N \in 1..N
    OBVIOUS
  <2> QED
    BY <1>1, <1>2, <2>1, UpTo
<1> QED
  BY <1>3 DEF Results

-----------------------------------------------------------------------------
(* FlattenSeq of sequences of a set that is closed under \o is in that set. *)
LEMMA FlattenType ==
  ASSUME NEW S, \A s, t \in S : s \o t \in S, NEW seqs \in Seq(S), seqs # <<>>
  PROVE  FlattenSeq(seqs) \in S
<1> DEFINE N == Len(seqs)
           Next1(f, i) == IF i = 1 THEN seqs[i] ELSE f[i - 1] \o seqs[i]
           flatten == CHOOSE f : f = [i \in 1..N |-> Next1(f, i)]
           base == seqs[1]
           step == [x \in S \X (1..N) |-> x[1] \o seqs[x[2]]]
<1>1. FlattenSeq(seqs) = flatten[N]
  BY DEF FlattenSeq
<1>2. N \in Nat \ {0} /\ 1 \in 1..N /\ N \in 1..N
  OBVIOUS
<1>3. \A i \in 1..N : seqs[i] \in S
  OBVIOUS
<1>4. step \in Steps(S, N)
  BY <1>3 DEF Steps
<1>5. ASSUME NEW x \in S, NEW n \in 1..N PROVE step[<<x, n>>] = x \o seqs[n]
  OBVIOUS
<1> HIDE DEF N, step, flatten
<1>6. base \in S
  BY <1>2, <1>3
<1> HIDE DEF base
<1>7. PICK g : Results(g, S, N, base, step)
  BY <1>2, <1>4, <1>6, Iteration
<1>8. ASSUME NEW n \in 1..N PROVE g[n] \in S /\ g[n] = Next1(g, n)
  <2>1. CASE n = 1
    BY <1>7, <2>1 DEF Results, base
  <2>2. CASE n # 1
    <3>1. n \in 2..N /\ n - 1 \in 1..N
      BY <1>2, <2>2
    <3>2. g[n - 1] \in S /\ g[n] = step[<<g[n - 1], n>>]
      BY <1>7, <3>1 DEF Results
    <3> QED
      BY <1>5, <1>7, <2>2, <3>2 DEF Results
  <2> QED
    BY <2>1, <2>2
<1> HIDE DEF Next1
<1>9. g = [n \in 1..N |-> Next1(g, n)]
  BY <1>7, <1>8 DEF Results
<1>10. flatten = [n \in 1..N |-> Next1(flatten, n)]
  BY <1>9 DEF flatten
<1> DEFINE T == {n \in 1..N : flatten[n] \in S}
<1>11. 1 \in T
  BY <1>2, <1>6, <1>10 DEF Next1, base
<1>12. ASSUME NEW n \in 1..N - 1, n \in T PROVE n + 1 \in T
  <2> DEFINE m == n + 1
  <2>1. m \in 1..N /\ m # 1 /\ m - 1 = n
    BY <1>2
  <2> HIDE DEF m
  <2>2. flatten[m] = Next1(flatten, m)
    BY <1>10, <2>1
  <2>3. Next1(flatten, m) = flatten[n] \o seqs[m]
    BY <2>1, Zenon DEF Next1
  <2>4. m \in T
    BY <1>3, <1>12, <2>1, <2>2, <2>3
  <2> QED
    BY <2>4 DEF m
<1>13. 1..N \subseteq T
  <2> HIDE DEF T
  <2> QED
    BY <1>2, <1>11, <1>12, UpTo
<1> QED
  BY <1>1, <1>2, <1>13

(* The property names of a cell.                                           *)
Name == Seq(STRING) \ {<<>>}
Path == Seq(Name) \ {<<>>}

LEMMA WordsType ==
  ASSUME NEW part \in Seq(STRING)
  PROVE  Words(part) \in Seq(Name) /\ Len(Words(part)) = Len(part)
BY DEF Words, Name

LEMMA FuseType ==
  ASSUME NEW path \in Path, NEW part \in PartText
  PROVE  Fuse(path, part) \in Path
<1>1. Front(path) \in Seq(Name) /\ Last(path) \in Name
  BY SubSeqProperties DEF Path, Front, Last
<1>2. Head(part) \in STRING /\ Tail(part) \in Seq(STRING)
  BY HeadTailProperties DEF PartText
<1>3. Append(Last(path), Head(part)) \in Name
  BY <1>1, <1>2 DEF Name
<1>4. Front(path) \o <<Append(Last(path), Head(part))>> \in Path
  BY <1>1, <1>3 DEF Path
<1>5. Words(Tail(part)) \in Seq(Name)
  BY <1>2, WordsType
<1> DEFINE start == Front(path) \o <<Append(Last(path), Head(part))>>
           rest == Words(Tail(part))
<1>6. start \in Seq(Name) /\ Len(start) > 0 /\ rest \in Seq(Name)
  BY <1>4, <1>5 DEF Path
<1>7. Fuse(path, part) = start \o rest
  BY DEF Fuse
<1> HIDE DEF start, rest
<1> QED
  BY <1>6, <1>7, ConcatProperties DEF Path

LEMMA PathType ==
  ASSUME NEW cell \in CellText
  PROVE  PropertyPath(cell) \in Path
<1> DEFINE N == Len(cell)
           Next1(f, i) == IF i = 1 THEN Words(cell[1]) ELSE Fuse(f[i - 1], cell[i])
           path == CHOOSE f : f = [i \in 1..N |-> Next1(f, i)]
           base == Words(cell[1])
           step == [x \in Path \X (1..N) |-> Fuse(x[1], cell[x[2]])]
<1>1. PropertyPath(cell) = path[N]
  BY DEF PropertyPath
<1>2. N \in Nat \ {0} /\ 1 \in 1..N /\ N \in 1..N
  BY DEF CellText
<1>3. \A i \in 1..N : cell[i] \in PartText
  BY DEF CellText
<1>4. step \in Steps(Path, N)
  BY <1>3, FuseType DEF Steps
<1>5. ASSUME NEW x \in Path, NEW n \in 1..N PROVE step[<<x, n>>] = Fuse(x, cell[n])
  OBVIOUS
<1> HIDE DEF N, step, path
<1>6. base \in Path
  BY <1>2, <1>3, WordsType DEF Path, PartText
<1> HIDE DEF base
<1>7. PICK g : Results(g, Path, N, base, step)
  BY <1>2, <1>4, <1>6, Iteration
<1>8. ASSUME NEW n \in 1..N PROVE g[n] \in Path /\ g[n] = Next1(g, n)
  <2>1. CASE n = 1
    BY <1>7, <2>1 DEF Results, base
  <2>2. CASE n # 1
    <3>1. n \in 2..N /\ n - 1 \in 1..N
      BY <1>2, <2>2
    <3>2. g[n - 1] \in Path /\ g[n] = step[<<g[n - 1], n>>]
      BY <1>7, <3>1 DEF Results
    <3> QED
      BY <1>5, <1>7, <2>2, <3>2 DEF Results
  <2> QED
    BY <2>1, <2>2
<1> HIDE DEF Next1
<1>9. g = [n \in 1..N |-> Next1(g, n)]
  BY <1>7, <1>8 DEF Results
<1>10. path = [n \in 1..N |-> Next1(path, n)]
  BY <1>9 DEF path
<1> DEFINE T == {n \in 1..N : path[n] \in Path}
<1>11. 1 \in T
  BY <1>2, <1>6, <1>10 DEF Next1, base
<1>12. ASSUME NEW n \in 1..N - 1, n \in T PROVE n + 1 \in T
  <2>1. n + 1 \in 1..N /\ n + 1 # 1 /\ n + 1 - 1 = n
    BY <1>2
  <2>2. path[n + 1] = Next1(path, n + 1)
    BY <1>10, <2>1
  <2>3. Next1(path, n + 1) = Fuse(path[n], cell[n + 1])
    BY <2>1 DEF Next1
  <2> QED
    BY <1>3, <1>12, <2>1, <2>2, <2>3, FuseType
<1>13. 1..N \subseteq T
  <2> HIDE DEF T
  <2> QED
    BY <1>2, <1>11, <1>12, UpTo
<1> QED
  BY <1>1, <1>2, <1>13

(* FlattenSeq of sequences of one element each.                            *)
LEMMA FlattenSingletons ==
  ASSUME NEW U, NEW seqs \in Seq(Seq(U)), \A i \in DOMAIN seqs : Len(seqs[i]) = 1
  PROVE  FlattenSeq(seqs) = [i \in DOMAIN seqs |-> seqs[i][1]]
<1> DEFINE N == Len(seqs)
           Next1(f, i) == IF i = 1 THEN seqs[i] ELSE f[i - 1] \o seqs[i]
           flatten == CHOOSE f : f = [i \in 1..N |-> Next1(f, i)]
           g == [i \in 1..N |-> [k \in 1..i |-> seqs[k][1]]]
<1>1. N \in Nat /\ DOMAIN seqs = 1..N
  OBVIOUS
<1>2. CASE N = 0
  <2>1. FlattenSeq(seqs) = seqs
    BY <1>2 DEF FlattenSeq
  <2>2. seqs = [i \in DOMAIN seqs |-> seqs[i][1]]
    BY <1>1, <1>2
  <2> QED
    BY <2>1, <2>2
<1>3. CASE N # 0
  <2>1. FlattenSeq(seqs) = flatten[N]
    BY <1>3 DEF FlattenSeq
  <2>2. ASSUME NEW i \in 1..N PROVE g[i] = Next1(g, i)
    <3>1. seqs[i] \in Seq(U) /\ Len(seqs[i]) = 1
      BY <1>1
    <3>2. CASE i = 1
      <4>1. seqs[1] = [k \in 1..1 |-> seqs[k][1]]
        BY <3>1, <3>2
      <4> QED
        BY <3>2, <4>1
    <3>3. CASE i # 1
      <4> DEFINE short == [k \in 1..i - 1 |-> seqs[k][1]]
                 long == [k \in 1..i |-> seqs[k][1]]
      <4>1. ASSUME NEW k \in 1..N PROVE seqs[k][1] \in U
        <5>1. seqs[k] \in Seq(U) /\ Len(seqs[k]) = 1
          BY <1>1
        <5> QED
          BY <5>1
      <4>2. i - 1 \in Nat /\ short \in Seq(U) /\ Len(short) = i - 1
        BY <3>3, <4>1
      <4>3. long \in Seq(U) /\ Len(long) = i
        BY <4>1
      <4>4. short \o seqs[i] \in Seq(U) /\ Len(short \o seqs[i]) = i
        <5> DEFINE last == seqs[i]
        <5>1. last \in Seq(U) /\ Len(last) = 1 /\ i \in Int
          BY <3>1
        <5> HIDE DEF short, last
        <5>2. short \o last \in Seq(U) /\ Len(short \o last) = i
          <6>1. short \in Seq(U) /\ last \in Seq(U)
            BY <4>2, <5>1
          <6>2. short \o last \in Seq(U) /\ Len(short \o last) = Len(short) + Len(last)
            BY <6>1, ConcatProperties
          <6> QED
            BY <4>2, <5>1, <6>2
        <5> QED
          BY <5>2 DEF last
      <4>5. ASSUME NEW k \in 1..i PROVE (short \o seqs[i])[k] = long[k]
        <5>1. CASE k = i
          BY <3>1, <4>2, <5>1
        <5>2. CASE k # i
          BY <3>1, <4>2, <5>2
        <5> QED
          BY <5>1, <5>2
      <4>6. short \o seqs[i] = long
        <5> HIDE DEF short, long
        <5> QED
          BY <4>3, <4>4, <4>5
      <4>7. g[i - 1] = short /\ g[i] = long
        BY <3>3
      <4> HIDE DEF short, long, g
      <4> QED
        BY <3>3, <4>6, <4>7
    <3> QED
      BY <3>2, <3>3
  <2> HIDE DEF Next1
  <2>3. g = [i \in 1..N |-> Next1(g, i)]
    <3>1. DOMAIN g = 1..N /\ g = [i \in 1..N |-> g[i]]
      OBVIOUS
    <3> HIDE DEF g
    <3> QED
      BY <2>2, <3>1
  <2>4. flatten = [i \in 1..N |-> Next1(flatten, i)]
    <3> HIDE DEF g
    <3> QED
      BY <2>3
  <2> DEFINE T == {n \in 1..N : flatten[n] = g[n]}
  <2> HIDE DEF flatten, N, g
  <2>5. 1 \in T
    <3>1. 1 \in 1..N
      BY <1>1, <1>3
    <3> QED
      BY <2>2, <2>4, <3>1 DEF Next1
  <2>6. ASSUME NEW n \in 1..N - 1, n \in T PROVE n + 1 \in T
    <3> DEFINE m == n + 1
    <3>1. m \in 1..N /\ m # 1 /\ m - 1 = n
      BY <1>1
    <3> HIDE DEF m
    <3>2. Next1(flatten, m) = Next1(g, m)
      BY <2>6, <3>1, Zenon DEF Next1
    <3>3. m \in T
      BY <2>2, <2>4, <3>1, <3>2
    <3> QED
      BY <3>3 DEF m
  <2>7. 1..N \subseteq T
    <3> HIDE DEF T
    <3> QED
      BY <1>1, <2>5, <2>6, UpTo
  <2>8. flatten[N] = g[N]
    BY <1>1, <1>3, <2>7
  <2>9. g[N] = [k \in 1..N |-> seqs[k][1]]
    BY <1>1, <1>3 DEF g
  <2> QED
    BY <1>1, <2>1, <2>8, <2>9
<1> QED
  BY <1>2, <1>3

(* A cell of one part: its words are the property names.                   *)
LEMMA PathOfOnePart ==
  ASSUME NEW cell \in CellText, Len(cell) = 1
  PROVE  PropertyPath(cell) = Words(cell[1])
<1> DEFINE Next1(f, i) == IF i = 1 THEN Words(cell[1]) ELSE Fuse(f[i - 1], cell[i])
           path == CHOOSE f : f = [i \in 1..1 |-> Next1(f, i)]
           g == [i \in 1..1 |-> Words(cell[1])]
<1>1. PropertyPath(cell) = path[1]
  BY DEF PropertyPath
<1>2. \A f : Next1(f, 1) = Words(cell[1])
  OBVIOUS
<1> HIDE DEF Next1
<1>3. g = [i \in 1..1 |-> Next1(g, i)]
  BY <1>2
<1>4. path = [i \in 1..1 |-> Next1(path, i)]
  <2> HIDE DEF g
  <2> QED
    BY <1>3
<1> QED
  BY <1>1, <1>2, <1>4

(* Nest computes what satisfies its equation.                              *)
LEMMA NestIs ==
  ASSUME NEW as, Len(as) \in Nat, NEW g,
         g = [n \in 0..Len(as) |-> IF n = 0 THEN Blank ELSE Set(g[n - 1], as[n])]
  PROVE  Nest(as) = g[Len(as)]
<1> DEFINE N == Len(as)
           Next1(f, n) == IF n = 0 THEN Blank ELSE Set(f[n - 1], as[n])
           built == CHOOSE f : f = [n \in 0..N |-> Next1(f, n)]
           T == {n \in Nat : n \in 0..N => built[n] = g[n]}
<1>0. N \in Nat
  OBVIOUS
<1>1. Nest(as) = built[N]
  BY DEF Nest
<1>2. g = [n \in 0..N |-> Next1(g, n)]
  OBVIOUS
<1> HIDE DEF Next1
<1>3. built = [n \in 0..N |-> Next1(built, n)]
  BY <1>2
<1> HIDE DEF built, N
<1>4. ASSUME NEW n \in 0..N PROVE built[n] = Next1(built, n) /\ g[n] = Next1(g, n)
  BY <1>2, <1>3
<1>5. 0 \in T
  BY <1>4 DEF Next1
<1>6. ASSUME NEW n \in Nat, n \in T PROVE n + 1 \in T
  <2> DEFINE m == n + 1
  <2>1. m \in Nat /\ m # 0 /\ m - 1 = n /\ (m \in 0..N => n \in 0..N)
    BY <1>0
  <2> HIDE DEF m
  <2>2. m \in 0..N => built[n] = g[n]
    BY <1>6, <2>1
  <2>3. m \in 0..N => Next1(built, m) = Next1(g, m)
    BY <2>1, <2>2, Zenon DEF Next1
  <2>4. m \in T
    BY <1>4, <2>1, <2>3
  <2> QED
    BY <2>4 DEF m
<1>7. Nat \subseteq T
  <2> HIDE DEF T
  <2> QED
    BY <1>5, <1>6, NatSet
<1>8. N \in 0..N
  BY <1>0
<1> QED
  BY <1>0, <1>1, <1>7, <1>8 DEF N

-----------------------------------------------------------------------------
(* The prefixes of a sequence.                                             *)
LEMMA PrefixShape ==
  ASSUME NEW U, NEW p \in Seq(U), NEW n \in 0..Len(p)
  PROVE  /\ SubSeq(p, 1, n) \in Seq(U)
         /\ Len(SubSeq(p, 1, n)) = n
         /\ \A i \in 1..n : SubSeq(p, 1, n)[i] = p[i]
<1>1. \A i \in 1..n : i \in 1..Len(p)
  OBVIOUS
<1> QED
  BY <1>1, SubSeqProperties

LEMMA PrefixesType ==
  ASSUME NEW U, NEW p \in Seq(U)
  PROVE  Prefixes(p) \subseteq Seq(U) /\ p \in Prefixes(p)
<1>1. SubSeq(p, 1, Len(p)) = p /\ Len(p) \in 0..Len(p)
  BY SubSeqFull
<1> QED
  BY <1>1, PrefixShape DEF Prefixes

LEMMA PrefixIff ==
  ASSUME NEW U, NEW p \in Seq(U), NEW q \in Seq(U)
  PROVE  q \in Prefixes(p) <=> IsPrefix(q, p)
<1>1. SubSeq(q, 1, Len(q)) = q
  BY SubSeqFull
<1>2. ASSUME NEW n \in 0..Len(p), q = SubSeq(p, 1, n) PROVE n = Len(q)
  BY <1>2, PrefixShape
<1>3. Len(q) \in Nat /\ Len(p) \in Nat
  OBVIOUS
<1>4. q \in Prefixes(p) => IsPrefix(q, p)
  <2> SUFFICES ASSUME NEW n \in 0..Len(p), q = SubSeq(p, 1, n) PROVE IsPrefix(q, p)
    BY DEF Prefixes
  <2>1. n = Len(q)
    BY <1>2
  <2>2. q = SubSeq(p, 1, Len(q))
    BY <2>1
  <2> QED
    BY <1>1, <1>3, <2>1, <2>2 DEF IsPrefix
<1>5. IsPrefix(q, p) => q \in Prefixes(p)
  <2> SUFFICES ASSUME IsPrefix(q, p) PROVE q \in Prefixes(p)
    OBVIOUS
  <2>1. Len(q) \in 0..Len(p) /\ q = SubSeq(p, 1, Len(q))
    BY <1>1, <1>3 DEF IsPrefix
  <2> QED
    BY <2>1 DEF Prefixes
<1> QED
  BY <1>4, <1>5

LEMMA PrefixTransitive ==
  ASSUME NEW U, NEW p \in Seq(U), NEW q \in Prefixes(p), NEW r \in Prefixes(q)
  PROVE  r \in Prefixes(p)
<1>1. PICK n \in 0..Len(p) : q = SubSeq(p, 1, n)
  BY DEF Prefixes
<1>2. q \in Seq(U) /\ Len(q) = n
  BY <1>1, PrefixShape
<1>3. PICK m \in 0..n : r = SubSeq(q, 1, m)
  BY <1>2 DEF Prefixes
<1>4. SubSeq(q, 1, m) = SubSeq(p, 1, m)
  <2>1. /\ SubSeq(q, 1, m) \in Seq(U) /\ Len(SubSeq(q, 1, m)) = m
        /\ SubSeq(p, 1, m) \in Seq(U) /\ Len(SubSeq(p, 1, m)) = m
    BY <1>2, PrefixShape
  <2>2. ASSUME NEW i \in 1..m PROVE SubSeq(q, 1, m)[i] = SubSeq(p, 1, m)[i]
    BY <1>1, <1>2, PrefixShape
  <2> QED
    BY <2>1, <2>2, SeqEqual
<1> QED
  BY <1>3, <1>4 DEF Prefixes

LEMMA PrefixesOfFront ==
  ASSUME NEW U, NEW p \in Seq(U), p # <<>>
  PROVE  Front(p) \in Seq(U) /\ Prefixes(Front(p)) = Prefixes(p) \ {p}
<1>1. Len(p) - 1 \in 0..Len(p)
  OBVIOUS
<1>2. Front(p) \in Seq(U) /\ Len(Front(p)) = Len(p) - 1 /\ Front(p) \in Prefixes(p)
  BY <1>1, PrefixShape DEF Front, Prefixes
<1>3. Prefixes(Front(p)) \subseteq Prefixes(p)
  BY <1>2, PrefixTransitive
<1>4. p \notin Prefixes(Front(p))
  BY <1>2, PrefixShape DEF Prefixes
<1>5. ASSUME NEW n \in 0..Len(p) - 1 PROVE SubSeq(p, 1, n) \in Prefixes(Front(p))
  <2>1. SubSeq(Front(p), 1, n) = SubSeq(p, 1, n)
    <3>1. n \in 0..Len(p) /\ n \in 0..Len(Front(p))
      BY <1>2
    <3>2. /\ SubSeq(Front(p), 1, n) \in Seq(U) /\ Len(SubSeq(Front(p), 1, n)) = n
          /\ SubSeq(p, 1, n) \in Seq(U) /\ Len(SubSeq(p, 1, n)) = n
      BY <1>2, <3>1, PrefixShape
    <3>3. ASSUME NEW i \in 1..n PROVE SubSeq(Front(p), 1, n)[i] = SubSeq(p, 1, n)[i]
      <4>1. SubSeq(Front(p), 1, n)[i] = Front(p)[i] /\ SubSeq(p, 1, n)[i] = p[i]
        BY <1>2, <3>1, PrefixShape
      <4>2. Front(p)[i] = p[i]
        BY <1>1, PrefixShape DEF Front
      <4> QED
        BY <4>1, <4>2
    <3> QED
      BY <3>2, <3>3, SeqEqual
  <2> QED
    BY <1>2, <2>1 DEF Prefixes
<1>6. Prefixes(p) \ {p} \subseteq Prefixes(Front(p))
  <2>1. SubSeq(p, 1, Len(p)) = p
    BY SubSeqFull
  <2> SUFFICES ASSUME NEW q \in Prefixes(p), q # p PROVE q \in Prefixes(Front(p))
    OBVIOUS
  <2>2. PICK n \in 0..Len(p) : q = SubSeq(p, 1, n)
    BY DEF Prefixes
  <2>3. n # Len(p)
    BY <2>1, <2>2
  <2>4. n \in 0..Len(p) - 1
    BY <2>3
  <2> QED
    BY <1>5, <2>2, <2>4
<1> QED
  BY <1>2, <1>3, <1>4, <1>6

-----------------------------------------------------------------------------
(* Assignments to places none of which is inside another one.  The first n *)
(* of them make the levels on the way to them and leave each its value.    *)
Apart(as, N) ==
  /\ \A i \in 1..N : as[i].path \in Path /\ as[i].value \notin {Object, Lost}
  /\ \A i, j \in 1..N : i # j => ~IsPrefix(as[i].path, as[j].path)

Levels(path) == Prefixes(path) \ {<<>>}
Places(as, n) == UNION {Levels(as[i].path) : i \in 1..n}
Held(as, n, q) ==
  IF \E i \in 1..n : q = as[i].path
  THEN as[CHOOSE i \in 1..n : q = as[i].path].value
  ELSE Object
Held1(as, n) == [q \in Places(as, n) |-> Held(as, n, q)]

LEMMA PathsApart ==
  ASSUME NEW as, NEW N \in Nat, Apart(as, N), NEW i \in 1..N, NEW j \in 1..N,
         as[i].path \in Prefixes(as[j].path)
  PROVE  i = j
BY PrefixIff DEF Apart, Path

LEMMA HeldValue ==
  ASSUME NEW as, NEW N \in Nat, Apart(as, N), NEW n \in 1..N, NEW i \in 1..n
  PROVE  Held(as, n, as[i].path) = as[i].value
<1> DEFINE c == CHOOSE j \in 1..n : as[i].path = as[j].path
<1>1. c \in 1..n /\ as[i].path = as[c].path
  OBVIOUS
<1> HIDE DEF c
<1>4. i \in 1..N /\ c \in 1..N
  BY <1>1
<1>2. as[i].path \in Prefixes(as[i].path)
  BY <1>4, PrefixesType DEF Apart, Path
<1>3. c = i
  BY <1>1, <1>2, <1>4, PathsApart
<1> QED
  BY <1>3 DEF Held, c

LEMMA HeldGrows ==
  ASSUME NEW as, NEW N \in Nat, Apart(as, N), NEW n \in 1..N, NEW q, q # as[n].path
  PROVE  Held(as, n, q) = Held(as, n - 1, q)
<1>1. ASSUME NEW i \in 1..n, q = as[i].path PROVE i \in 1..n - 1
  <2>1. i # n
    BY <1>1
  <2> QED
    BY <2>1
<1>2. \A i \in 1..n - 1 : i \in 1..n
  OBVIOUS
<1>3. (\E i \in 1..n : q = as[i].path) <=> (\E i \in 1..n - 1 : q = as[i].path)
  BY <1>1, <1>2
<1>4. ASSUME NEW i \in 1..n - 1, q = as[i].path
      PROVE  Held(as, n, q) = as[i].value /\ Held(as, n - 1, q) = as[i].value
  <2>1. i \in 1..n /\ n - 1 \in 1..N
    OBVIOUS
  <2> QED
    BY <1>4, <2>1, HeldValue
<1> QED
  BY <1>3, <1>4 DEF Held

LEMMA ObjectTruthy == Truthy(Object) /\ Object # Lost
BY DEF Truthy, Object, Undefined, Text, Number, Lost

(* What the next assignment finds on its way and under its own place.      *)
LEMMA WayIsClear ==
  ASSUME NEW as, NEW N \in Nat, Apart(as, N), NEW n \in 1..N, NEW q \in Places(as, n - 1)
  PROVE  /\ q \in Seq(Name)
         /\ ~IsPrefix(as[n].path, q)
         /\ q \in Prefixes(as[n].path) => Held(as, n - 1, q) = Object
<1>1. PICK i \in 1..n - 1 : q \in Prefixes(as[i].path)
  BY DEF Places, Levels
<1>2. i \in 1..N /\ i # n
  OBVIOUS
<1>3. as[i].path \in Seq(Name) /\ as[n].path \in Seq(Name)
  BY <1>2 DEF Apart, Path
<1>4. q \in Seq(Name)
  BY <1>1, <1>3, PrefixesType
<1>5. ~IsPrefix(as[n].path, q)
  BY <1>1, <1>2, <1>3, <1>4, PathsApart, PrefixIff, PrefixTransitive
<1>6. q \in Prefixes(as[n].path) => Held(as, n - 1, q) = Object
  <2> SUFFICES ASSUME NEW j \in 1..n - 1, q = as[j].path PROVE q \notin Prefixes(as[n].path)
    BY DEF Held
  <2>1. j \in 1..N /\ j # n
    OBVIOUS
  <2> QED
    BY <2>1, PathsApart
<1> QED
  BY <1>4, <1>5, <1>6

LEMMA MakesLevels ==
  ASSUME NEW as, NEW N \in Nat, Apart(as, N), NEW n \in 1..N
  PROVE  LET path == as[n].path
             at == MakeLevels(Held1(as, n - 1), Front(path))
         IN /\ Obstacles(Held1(as, n - 1), path) = {}
            /\ DOMAIN at = Places(as, n - 1) \cup (Levels(path) \ {path})
            /\ \A q \in DOMAIN at : at[q] = Held(as, n - 1, q)
<1> DEFINE path == as[n].path
           held == Held1(as, n - 1)
           at == MakeLevels(held, Front(path))
<1>1. path \in Seq(Name) /\ path # <<>> /\ Prefixes(Front(path)) = Prefixes(path) \ {path}
  BY PrefixesOfFront DEF Apart, Path
<1>2. DOMAIN held = Places(as, n - 1) /\ \A q \in Places(as, n - 1) : held[q] = Held(as, n - 1, q)
  BY DEF Held1
<1>3. ASSUME NEW q \in Places(as, n - 1), q \in Prefixes(path) PROVE held[q] = Object
  BY <1>2, <1>3, WayIsClear
<1> HIDE DEF held, path
<1>4. Obstacles(held, path) = {}
  <2> SUFFICES ASSUME NEW q \in Places(as, n - 1), IsPrefix(q, path) PROVE held[q] = Object
    BY <1>2 DEF Obstacles, IsStrictPrefix
  <2> QED
    BY <1>1, <1>3, WayIsClear, PrefixIff
<1>5. DOMAIN at = Places(as, n - 1) \cup (Levels(path) \ {path})
  BY <1>1, <1>2 DEF MakeLevels, Levels
<1>6. ASSUME NEW q \in DOMAIN at PROVE at[q] = Held(as, n - 1, q)
  <2>1. CASE q \in Places(as, n - 1)
    BY <1>1, <1>2, <1>3, <1>6, <2>1, ObjectTruthy DEF MakeLevels
  <2>2. CASE q \notin Places(as, n - 1)
    <3>1. at[q] = Object
      BY <1>2, <1>6, <2>2 DEF MakeLevels
    <3>2. ASSUME NEW i \in 1..n - 1 PROVE q # as[i].path
      <4>1. i \in 1..N
        OBVIOUS
      <4>2. as[i].path \in Levels(as[i].path)
        BY <4>1, PrefixesType DEF Apart, Path, Levels
      <4> QED
        BY <2>2, <4>2 DEF Places
    <3> QED
      BY <3>1, <3>2 DEF Held
  <2> QED
    BY <2>1, <2>2
<1> QED
  BY <1>4, <1>5, <1>6 DEF held, path

LEMMA SetApart ==
  ASSUME NEW as, NEW N \in Nat, Apart(as, N), NEW n \in 1..N
  PROVE  Set([threw |-> FALSE, at |-> Held1(as, n - 1)], as[n])
           = [threw |-> FALSE, at |-> Held1(as, n)]
<1> DEFINE path == as[n].path
           value == as[n].value
           held == Held1(as, n - 1)
           at == MakeLevels(held, Front(path))
           after == Assign(at, path, value)
<1>1. /\ Obstacles(held, path) = {}
      /\ DOMAIN at = Places(as, n - 1) \cup (Levels(path) \ {path})
      /\ \A q \in DOMAIN at : at[q] = Held(as, n - 1, q)
  BY MakesLevels
<1>2. value # Lost /\ path \in Seq(Name) /\ path # <<>>
  BY DEF Apart, Path
<1>3. Set([threw |-> FALSE, at |-> held], as[n]) = [threw |-> FALSE, at |-> after]
  <2> HIDE DEF held
  <2> QED
    BY <1>1, <1>2 DEF Set
<1>4. path \in Levels(path)
  BY <1>2, PrefixesType DEF Levels
<1> HIDE DEF at, held, path, value
<1>5. ASSUME NEW q \in DOMAIN at PROVE ~IsStrictPrefix(path, q)
  <2>1. CASE q \in Places(as, n - 1)
    BY <2>1, WayIsClear DEF IsStrictPrefix, path
  <2>2. CASE q \in Prefixes(path) \ {path}
    <3>1. PICK k \in 0..Len(path) : q = SubSeq(path, 1, k)
      BY <2>2 DEF Prefixes
    <3>2. Len(q) = k /\ k # Len(path)
      BY <1>2, <2>2, <3>1, PrefixShape, SubSeqFull
    <3>3. Len(path) \in Nat
      BY <1>2
    <3>4. ~(Len(path) <= k)
      BY <3>2, <3>3
    <3>5. ~(Len(path) <= Len(q))
      BY <3>2, <3>4, Zenon
    <3> QED
      BY <3>5 DEF IsStrictPrefix, IsPrefix
  <2> QED
    BY <1>1, <2>1, <2>2 DEF Levels
<1>6. Places(as, n) = Places(as, n - 1) \cup Levels(path)
  <2>1. \A i \in 1..n : i = n \/ i \in 1..n - 1
    OBVIOUS
  <2>2. n \in 1..n /\ \A i \in 1..n - 1 : i \in 1..n
    OBVIOUS
  <2> QED
    BY <2>1, <2>2 DEF Places, path
<1>7. DOMAIN after = Places(as, n)
  BY <1>1, <1>4, <1>5, <1>6 DEF Assign
<1>8. ASSUME NEW q \in Places(as, n) PROVE after[q] = Held(as, n, q)
  <2>1. CASE q = path
    <3>1. n \in 1..n
      OBVIOUS
    <3>2. after[q] = value
      BY <2>1 DEF Assign
    <3> QED
      BY <2>1, <3>1, <3>2, HeldValue DEF path, value
  <2>2. CASE q # path
    <3>1. q \in DOMAIN at
      BY <1>1, <1>6, <1>8, <2>2
    <3>2. after[q] = at[q]
      BY <1>5, <2>2, <3>1 DEF Assign
    <3> QED
      BY <1>1, <2>2, <3>1, <3>2, HeldGrows DEF path
  <2> QED
    BY <2>1, <2>2
<1>9. after = [q \in Places(as, n) |-> Held(as, n, q)]
  <2>1. after = [q \in DOMAIN after |-> after[q]]
    BY DEF Assign
  <2> HIDE DEF after
  <2> QED
    BY <1>7, <1>8, <2>1
<1> QED
  BY <1>3, <1>9 DEF Held1, held

LEMMA NestApart ==
  ASSUME NEW as, Len(as) \in Nat, Apart(as, Len(as))
  PROVE  Nest(as) = [threw |-> FALSE, at |-> Held1(as, Len(as))]
<1> DEFINE N == Len(as)
           R(n) == [threw |-> FALSE, at |-> Held1(as, n)]
           g == [n \in 0..N |-> R(n)]
<1>1. N \in Nat /\ Apart(as, N)
  OBVIOUS
<1> HIDE DEF N
<1>2. R(0) = Blank
  <2>1. Places(as, 0) = {}
    BY DEF Places
  <2> QED
    BY <2>1 DEF Held1, Blank
<1>3. ASSUME NEW n \in 1..N PROVE R(n) = Set(R(n - 1), as[n])
  BY <1>1, SetApart
<1> HIDE DEF R
<1>4. ASSUME NEW n \in 0..N PROVE R(n) = IF n = 0 THEN Blank ELSE Set(g[n - 1], as[n])
  <2>1. CASE n = 0
    BY <1>2, <2>1
  <2>2. CASE n # 0
    <3>1. n \in 1..N /\ n - 1 \in 0..N
      BY <1>1, <2>2
    <3>2. g[n - 1] = R(n - 1)
      BY <3>1
    <3> HIDE DEF g
    <3> QED
      BY <1>3, <2>2, <3>1, <3>2
  <2> QED
    BY <2>1, <2>2
<1>5. g = [n \in 0..N |-> IF n = 0 THEN Blank ELSE Set(g[n - 1], as[n])]
  <2>1. g = [n \in 0..N |-> R(n)]
    OBVIOUS
  <2> HIDE DEF g
  <2> QED
    BY <1>4, <2>1
<1>6. g[N] = R(N)
  BY <1>1
<1> HIDE DEF g
<1>7. Nest(as) = g[N]
  BY <1>1, <1>5, NestIs DEF N
<1> QED
  BY <1>6, <1>7 DEF R, N

(* Flattened again, they are the assignments.                              *)
LEMMA FilledApart ==
  ASSUME NEW as, NEW N \in Nat, Apart(as, N)
  PROVE  LET at == Held1(as, N)
         IN {<<q, at[q]>> : q \in {p \in DOMAIN at : at[p] # Object}}
              = {<<as[i].path, as[i].value>> : i \in 1..N}
<1> DEFINE at == Held1(as, N)
<1>1. DOMAIN at = Places(as, N) /\ \A q \in Places(as, N) : at[q] = Held(as, N, q)
  BY DEF Held1
<1>2. ASSUME NEW i \in 1..N
      PROVE  as[i].path \in DOMAIN at /\ at[as[i].path] = as[i].value /\ as[i].value # Object
  <2>1. as[i].path \in Places(as, N)
    <3>1. as[i].path \in Levels(as[i].path)
      BY PrefixesType DEF Apart, Path, Levels
    <3> QED
      BY <3>1 DEF Places
  <2>2. N \in 1..N
    OBVIOUS
  <2> QED
    BY <1>1, <2>1, <2>2, HeldValue DEF Apart
<1>3. ASSUME NEW q \in DOMAIN at, at[q] # Object PROVE \E i \in 1..N : q = as[i].path
  BY <1>1, <1>3 DEF Held
<1> HIDE DEF at
<1> DEFINE Flat == {<<q, at[q]>> : q \in {p \in DOMAIN at : at[p] # Object}}
           Given == {<<as[i].path, as[i].value>> : i \in 1..N}
<1>4. ASSUME NEW x \in Flat PROVE x \in Given
  <2>1. PICK q \in DOMAIN at : at[q] # Object /\ x = <<q, at[q]>>
    OBVIOUS
  <2>2. PICK i \in 1..N : q = as[i].path
    BY <1>3, <2>1
  <2>3. at[q] = as[i].value
    BY <1>2, <2>2
  <2>4. x = <<as[i].path, as[i].value>>
    BY <2>1, <2>2, <2>3
  <2> QED
    BY <2>4
<1>5. ASSUME NEW x \in Given PROVE x \in Flat
  <2>1. PICK i \in 1..N : x = <<as[i].path, as[i].value>>
    OBVIOUS
  <2> DEFINE q == as[i].path
  <2>2. q \in DOMAIN at /\ at[q] # Object /\ x = <<q, at[q]>>
    BY <1>2, <2>1
  <2> HIDE DEF q
  <2> QED
    BY <2>2
<1>6. Flat = Given
  <2> HIDE DEF Flat, Given
  <2> QED
    BY <1>4, <1>5
<1> QED
  BY <1>6 DEF at

-----------------------------------------------------------------------------
(* A path without empty names is kept as it is, and so is no path at all.  *)
LEMMA SkipNone ==
  ASSUME NEW path \in Seq(Name), EmptyWord \notin ToSet(path), NEW value, path = <<>> => value = Lost
  PROVE  SkipEmptyNames([path |-> path, value |-> value]) = [path |-> path, value |-> value]
<1> DEFINE names == [i \in DOMAIN path |-> IF path[i] = EmptyWord THEN <<>> ELSE <<path[i]>>]
<1>1. DOMAIN path = 1..Len(path) /\ Len(path) \in Nat /\ \A i \in DOMAIN path : path[i] \in Name /\ path[i] # EmptyWord
  BY DEF ToSet
<1>2. \A i \in DOMAIN path : names[i] = <<path[i]>>
  BY <1>1
<1>3. names \in Seq(Seq(Name)) /\ DOMAIN names = DOMAIN path
  BY <1>1
<1>4. \A i \in DOMAIN names : Len(names[i]) = 1 /\ names[i][1] = path[i]
  BY <1>2
<1>5. FlattenSeq(names) = path
  <2> HIDE DEF names
  <2>1. FlattenSeq(names) = [i \in DOMAIN path |-> names[i][1]]
    BY <1>3, <1>4, FlattenSingletons
  <2>2. path = [i \in DOMAIN path |-> path[i]]
    OBVIOUS
  <2> QED
    BY <1>3, <1>4, <2>1, <2>2
<1>6. path # <<>> => Last(path) # EmptyWord
  BY <1>1 DEF Last
<1> QED
  BY <1>5, <1>6 DEF SkipEmptyNames

LEMMA LenOfFunction ==
  ASSUME NEW T, NEW N \in Nat, NEW f \in [1..N -> T]
  PROVE  f \in Seq(T) /\ Len(f) = N
OBVIOUS

LEMMA SkipNothing == SkipEmptyNames(Nothing) = Nothing
<1>1. <<>> \in Seq(Name) /\ EmptyWord \notin ToSet(<<>>)
  BY DEF ToSet
<1> QED
  BY <1>1, SkipNone DEF Nothing

(* With headers that mean different places, each has its own assignment.   *)
LEMMA FlatRowExact ==
  ASSUME NEW hs \in Seq(CellText), Exact(hs), NEW values, NEW i \in DOMAIN hs
  PROVE  FlatRow(hs, values)[i] = [path |-> PropertyPath(hs[i]), value |-> values[i]]
<1>1. ASSUME NEW j \in DOMAIN hs, hs[j] = hs[i] PROVE j = i
  <2>1. PropertyPath(hs[i]) \in Seq(Name)
    BY PathType DEF Path
  <2>2. IsPrefix(PropertyPath(hs[i]), PropertyPath(hs[i]))
    BY <2>1, PrefixesType, PrefixIff
  <2> QED
    BY <1>1, <2>2 DEF Exact
<1>2. ~ \E j \in 1..i - 1 : hs[j] = hs[i]
  <2>1. \A j \in 1..i - 1 : j \in DOMAIN hs /\ j # i
    OBVIOUS
  <2> QED
    BY <1>1, <2>1
<1>3. {j \in DOMAIN hs : hs[j] = hs[i]} = {i}
  BY <1>1
<1>4. Max({i}) = i
  BY DEF Max
<1> QED
  BY <1>2, <1>3, <1>4 DEF FlatRow

(* The record of a row, for such headers: made without a TypeError, and    *)
(* flattened again the row.                                                *)

LEMMA RecordOfRow ==
  ASSUME NEW hs \in Seq(CellText), Exact(hs), NEW values,
         \A i \in DOMAIN hs : values[i] \notin {Object, Lost}
  PROVE  LET record == ConvertDotNotationToNested(hs, values)
         IN /\ ~record.threw
            /\ {<<q, record.at[q]>> : q \in {p \in DOMAIN record.at : record.at[p] # Object}}
                 = {<<PropertyPath(hs[i]), values[i]>> : i \in DOMAIN hs}
<1> DEFINE as == [i \in DOMAIN hs |-> SkipEmptyNames(FlatRow(hs, values)[i])]
           N == Len(hs)
<1>1. N \in Nat /\ DOMAIN hs = 1..N
  OBVIOUS
<1>2. Len(as) = N
  <2> DEFINE T == {as[i] : i \in DOMAIN hs}
  <2>1. as \in [1..N -> T]
    BY <1>1
  <2> HIDE DEF as, T, N
  <2> QED
    BY <1>1, <2>1, LenOfFunction
<1>3. ASSUME NEW i \in 1..N
      PROVE  as[i].path = PropertyPath(hs[i]) /\ as[i].value = values[i] /\ PropertyPath(hs[i]) \in Path
  <2>0. i \in DOMAIN hs
    BY <1>1
  <2>1. PropertyPath(hs[i]) \in Path /\ EmptyWord \notin ToSet(PropertyPath(hs[i]))
    BY <2>0, PathType DEF Exact
  <2>2. FlatRow(hs, values)[i] = [path |-> PropertyPath(hs[i]), value |-> values[i]]
    BY <2>0, FlatRowExact
  <2>3. as[i] = SkipEmptyNames(FlatRow(hs, values)[i])
    BY <2>0
  <2>4. as[i] = [path |-> PropertyPath(hs[i]), value |-> values[i]]
    BY <2>1, <2>2, <2>3, SkipNone DEF Path
  <2> HIDE DEF as
  <2> QED
    BY <2>1, <2>4
<1> HIDE DEF as, N
<1>4. Apart(as, N)
  <2>1. ASSUME NEW i \in 1..N PROVE as[i].path \in Path /\ as[i].value \notin {Object, Lost}
    BY <1>1, <1>3
  <2>2. ASSUME NEW i \in 1..N, NEW j \in 1..N, i # j PROVE ~IsPrefix(as[i].path, as[j].path)
    <3>1. ~IsPrefix(PropertyPath(hs[i]), PropertyPath(hs[j]))
      BY <1>1, <2>2 DEF Exact
    <3>2. as[i].path = PropertyPath(hs[i]) /\ as[j].path = PropertyPath(hs[j])
      BY <1>3
    <3> QED
      BY <3>1, <3>2
  <2> QED
    BY <2>1, <2>2 DEF Apart
<1>5. Nest(as) = [threw |-> FALSE, at |-> Held1(as, N)]
  BY <1>1, <1>2, <1>4, NestApart
<1>6. ConvertDotNotationToNested(hs, values) = Nest(as)
  BY DEF ConvertDotNotationToNested, as
<1> DEFINE Flat(at) == {<<q, at[q]>> : q \in {p \in DOMAIN at : at[p] # Object}}
<1>7. Flat(Held1(as, N)) = {<<as[i].path, as[i].value>> : i \in 1..N}
  BY <1>1, <1>4, FilledApart
<1>8. {<<as[i].path, as[i].value>> : i \in 1..N} = {<<PropertyPath(hs[i]), values[i]>> : i \in DOMAIN hs}
  <2>1. \A i \in 1..N : <<as[i].path, as[i].value>> = <<PropertyPath(hs[i]), values[i]>>
    BY <1>3
  <2> QED
    BY <1>1, <2>1
<1>9. LET record == Nest(as) IN ~record.threw /\ record.at = Held1(as, N)
  BY <1>5
<1> QED
  BY <1>6, <1>7, <1>8, <1>9

-----------------------------------------------------------------------------
(* The cells of a line, to the first script.                               *)
LEMMA ExtractType ==
  ASSUME NEW l \in LineText
  PROVE  ExtractRowValues(l) \in Seq(CellText)
<1>1. \A c, d \in CellText : c \o d \in CellText
  BY ConcatProperties DEF CellText
<1>2. l.cells \in Seq(CellText) /\ l.cells # <<>>
  BY DEF LineText
<1>3. FlattenSeq(l.cells) \in CellText
  BY <1>1, <1>2, FlattenType
<1> QED
  BY <1>2, <1>3 DEF ExtractRowValues, SplitQuoted

(* What RecordsHoldTheirRows says of the first l lines of a file f, the    *)
(* headers hs and the records rs.                                          *)
Filled(record) == {<<q, record[q]>> : q \in {p \in DOMAIN record : record[p] # Object}}

RowOf(f, hs, k) ==
  LET cells == ExtractRowValues(f[k])
  IN {<<PropertyPath(hs[i]), ConvertToNumber(cells[i])>> : i \in DOMAIN hs}

Numbers(f, l, hs, rs, row) ==
  /\ row \in [DOMAIN rs -> 2..l]
  /\ \A m, n \in DOMAIN row : m < n => row[m] < row[n]
  /\ \A k \in 2..l : Fits(ExtractRowValues(f[k]), hs) <=> k \in {row[n] : n \in DOMAIN row}
  /\ \A n \in DOMAIN row : Filled(rs[n]) = RowOf(f, hs, row[n])

Hold(f, l, hs, rs) == \E row : Numbers(f, l, hs, rs, row)

LEMMA HoldIff ==
  RecordsHoldTheirRows <=>
    LET s == "readFileCSV"
    IN line[s] > 0 /\ Exact(headers[s]) => Hold(file, line[s], headers[s], records[s])
BY DEF RecordsHoldTheirRows, Hold, Numbers, Filled, RowOf, ConvertToNumber

LEMMA HoldHeader ==
  ASSUME NEW f, NEW hs
  PROVE  Hold(f, 1, hs, <<>>)
<1>1. Numbers(f, 1, hs, <<>>, [n \in DOMAIN <<>> |-> 2])
  BY DEF Numbers
<1> QED
  BY <1>1 DEF Hold

LEMMA HoldSkip ==
  ASSUME NEW f, NEW l \in Nat \ {0}, NEW hs, NEW rs, Hold(f, l, hs, rs),
         ~Fits(ExtractRowValues(f[l + 1]), hs)
  PROVE  Hold(f, l + 1, hs, rs)
<1>1. PICK row : Numbers(f, l, hs, rs, row)
  BY DEF Hold
<1>2. 2..l \subseteq 2..l + 1 /\ l + 1 \notin 2..l /\ \A k \in 2..l + 1 : k = l + 1 \/ k \in 2..l
  OBVIOUS
<1>3. row \in [DOMAIN rs -> 2..l] /\ l + 1 \notin {row[n] : n \in DOMAIN row}
  BY <1>1, <1>2 DEF Numbers
<1>4. Numbers(f, l + 1, hs, rs, row)
  BY <1>1, <1>2, <1>3 DEF Numbers
<1> QED
  BY <1>4 DEF Hold

LEMMA HoldPush ==
  ASSUME NEW f, NEW l \in Nat \ {0}, NEW hs, NEW U, NEW rs \in Seq(U), Hold(f, l, hs, rs),
         Fits(ExtractRowValues(f[l + 1]), hs),
         NEW record, Filled(record) = RowOf(f, hs, l + 1)
  PROVE  Hold(f, l + 1, hs, Append(rs, record))
<1>1. PICK row : Numbers(f, l, hs, rs, row)
  BY DEF Hold
<1> DEFINE N == Len(rs)
           ss == Append(rs, record)
           next == [n \in 1..N + 1 |-> IF n = N + 1 THEN l + 1 ELSE row[n]]
<1>2. N \in Nat /\ DOMAIN rs = 1..N
  OBVIOUS
<1>3. DOMAIN ss = 1..N + 1 /\ ss[N + 1] = record /\ \A n \in 1..N : ss[n] = rs[n]
  OBVIOUS
<1> HIDE DEF N, ss
<1>4. row \in [1..N -> 2..l]
  BY <1>1, <1>2 DEF Numbers
<1>5. /\ next \in [1..N + 1 -> 2..l + 1]
      /\ next[N + 1] = l + 1
      /\ \A n \in 1..N : next[n] = row[n] /\ row[n] \in 2..l
  BY <1>2, <1>4
<1>6. \A n \in 1..N + 1 : n = N + 1 \/ n \in 1..N
  BY <1>2
<1> HIDE DEF next
<1>7. ASSUME NEW m \in 1..N + 1, NEW n \in 1..N + 1, m < n PROVE next[m] < next[n]
  <2>1. m \in 1..N
    BY <1>2, <1>7
  <2>2. CASE n = N + 1
    BY <1>5, <2>1, <2>2
  <2>3. CASE n \in 1..N
    BY <1>1, <1>2, <1>4, <1>5, <1>7, <2>1, <2>3 DEF Numbers
  <2> QED
    BY <1>6, <2>2, <2>3
<1>8. ASSUME NEW k \in 2..l + 1
      PROVE  Fits(ExtractRowValues(f[k]), hs) <=> k \in {next[n] : n \in DOMAIN next}
  <2>1. CASE k = l + 1
    <3>1. N + 1 \in DOMAIN next
      BY <1>2, <1>5
    <3> QED
      BY <1>5, <2>1, <3>1
  <2>2. CASE k \in 2..l
    <3>1. k \in {next[n] : n \in DOMAIN next} <=> k \in {row[n] : n \in DOMAIN row}
      <4>1. k # l + 1
        BY <2>2
      <4>2. \A n \in DOMAIN next : next[n] = k => n \in DOMAIN row /\ row[n] = k
        BY <1>4, <1>5, <1>6, <4>1
      <4>3. \A n \in DOMAIN row : n \in DOMAIN next /\ next[n] = row[n]
        BY <1>2, <1>4, <1>5
      <4> QED
        BY <4>2, <4>3
    <3> QED
      BY <1>1, <2>2, <3>1 DEF Numbers
  <2> QED
    BY <2>1, <2>2
<1>9. ASSUME NEW n \in 1..N + 1 PROVE Filled(ss[n]) = RowOf(f, hs, next[n])
  <2>1. CASE n = N + 1
    BY <1>3, <1>5, <2>1
  <2>2. CASE n \in 1..N
    BY <1>1, <1>3, <1>4, <1>5, <2>2 DEF Numbers
  <2> QED
    BY <1>6, <2>1, <2>2
<1>10. Numbers(f, l + 1, hs, ss, next)
  BY <1>3, <1>5, <1>7, <1>8, <1>9 DEF Numbers
<1> QED
  BY <1>10 DEF Hold, ss

-----------------------------------------------------------------------------
HeaderCells(s, l) == IF s = "readFileCSV" THEN ExtractRowValues(l) ELSE SplitCommas(l)

CsvTyped ==
  /\ file \in Seq(LineText) /\ file # <<>>
  /\ line \in [Script -> Nat]
  /\ headers \in [Script -> Seq(CellText)]
  /\ \E U : records \in [Script -> Seq(U)]
  /\ dead \in BOOLEAN
  /\ \A s \in Script :
       /\ line[s] <= Len(file)
       /\ line[s] = 0 => records[s] = <<>>
       /\ line[s] > 0 => headers[s] = HeaderCells(s, file[1])

LEMMA SplitType ==
  ASSUME NEW l \in LineText
  PROVE  SplitCommas(l) \in Seq(CellText)
<1>1. \A c, d \in CellText : c \o d \in CellText
  BY ConcatProperties DEF CellText
<1>2. l.cells \in Seq(CellText) /\ l.cells # <<>>
  BY DEF LineText
<1>3. FlattenSeq(l.cells) \in CellText
  BY <1>1, <1>2, FlattenType
<1> DEFINE parts == FlattenSeq(l.cells)
<1>4. parts \in Seq(PartText)
  BY <1>3 DEF CellText
<1> HIDE DEF parts
<1>5. [i \in 1..Len(parts) |-> <<parts[i]>>] \in Seq(CellText)
  BY <1>4 DEF CellText
<1> QED
  BY <1>5 DEF SplitCommas, parts

LEMMA AppendAny ==
  ASSUME NEW U, NEW rs \in Seq(U), NEW x
  PROVE  /\ rs \in Seq(U \cup {x})
         /\ Append(rs, x) \in Seq(U \cup {x})
         /\ Len(Append(rs, x)) = Len(rs) + 1
         /\ Append(rs, x)[Len(rs) + 1] = x
         /\ \A n \in 1..Len(rs) : Append(rs, x)[n] = rs[n]
<1>1. rs \in Seq(U \cup {x})
  OBVIOUS
<1> QED
  BY <1>1, AppendProperties

(* A push keeps the records of both scripts sequences.                     *)
LEMMA PushTyped ==
  ASSUME NEW s \in Script, \E U : records \in [Script -> Seq(U)], NEW object, Push(s, object)
  PROVE  /\ \E U : records' \in [Script -> Seq(U)]
         /\ records'[s] = Append(records[s], object.at)
         /\ \A t \in Script \ {s} : records'[t] = records[t]
<1>1. PICK U : records \in [Script -> Seq(U)]
  OBVIOUS
<1> DEFINE V == U \cup {object.at}
<1>2. \A t \in Script : records[t] \in Seq(V)
  BY <1>1
<1>3. Append(records[s], object.at) \in Seq(V)
  BY <1>1, AppendAny
<1>4. records' = [records EXCEPT ![s] = Append(records[s], object.at)]
  BY DEF Push
<1> HIDE DEF V
<1>5. records' \in [Script -> Seq(V)]
  BY <1>1, <1>2, <1>3, <1>4
<1> QED
  BY <1>1, <1>4, <1>5

LEMMA CsvTypedInit == CsvInit => CsvTyped
<1> SUFFICES ASSUME CsvInit PROVE CsvTyped
  OBVIOUS
<1>0. PICK h \in HeaderLine, n \in 0..MaxRows : \E rows \in [1..n -> DataLine] : file = <<h>> \o rows
  BY DEF CsvInit
<1>1. PICK rows \in [1..n -> DataLine] : file = <<h>> \o rows
  BY <1>0
<1>2. n \in Nat /\ h \in LineText /\ rows \in [1..n -> LineText]
  BY RowsAssumption, LineAssumption
<1>3. rows \in Seq(LineText) /\ <<h>> \in Seq(LineText)
  BY <1>2
<1>4. file \in Seq(LineText) /\ Len(file) = Len(<<h>>) + Len(rows)
  BY <1>1, <1>3, ConcatProperties
<1>5. file # <<>>
  BY <1>3, <1>4
<1>6. records \in [Script -> Seq({})]
  BY DEF CsvInit
<1>7. line = [s \in Script |-> 0] /\ headers = [s \in Script |-> <<>>] /\ records = [s \in Script |-> <<>>]
      /\ dead = FALSE
  BY DEF CsvInit
<1>8. /\ line \in [Script -> Nat] /\ headers \in [Script -> Seq(CellText)]
      /\ file \in Seq(LineText) /\ 0 <= Len(file)
  BY <1>4, <1>7
<1>9. \A s \in Script : line[s] = 0 /\ records[s] = <<>>
  BY <1>7
<1> QED
  <2>1. ASSUME NEW s \in Script
        PROVE  line[s] <= Len(file) /\ records[s] = <<>> /\ ~(line[s] > 0)
    BY <1>8, <1>9
  <2>2. dead \in BOOLEAN /\ \E U : records \in [Script -> Seq(U)]
    BY <1>6, <1>7
  <2> QED
    BY <1>5, <1>8, <2>1, <2>2 DEF CsvTyped

LEMMA CsvTypedNext == CsvTyped /\ [CsvNext]_csvVars => CsvTyped'
<1> SUFFICES ASSUME CsvTyped, [CsvNext]_csvVars PROVE CsvTyped'
  OBVIOUS
<1>1. file[1] \in LineText /\ Len(file) \in Nat
  BY DEF CsvTyped
<1>2. ASSUME NEW s \in Script, NEW cells, ReadHeaders(s, cells), cells = HeaderCells(s, file[1]) PROVE CsvTyped'
  <2>1. cells \in Seq(CellText)
    BY <1>1, <1>2, ExtractType, SplitType DEF HeaderCells
  <2>2. UNCHANGED <<file, records, dead>> /\ line[s] = 0 /\ line[s] < Len(file)
        /\ line' = [line EXCEPT ![s] = line[s] + 1] /\ headers' = [headers EXCEPT ![s] = cells]
    BY <1>2 DEF ReadHeaders, NextLine
  <2>3. records[s] = <<>>
    BY <2>2 DEF CsvTyped
  <2> QED
    BY <1>1, <1>2, <2>1, <2>2 DEF CsvTyped
<1>3. ASSUME NEW s \in Script, NextLine(s), line[s] > 0, UNCHANGED headers, dead' \in BOOLEAN,
             UNCHANGED records \/ \E object : Push(s, object)
      PROVE  CsvTyped'
  <2>1. UNCHANGED <<file, headers>> /\ line[s] < Len(file) /\ line' = [line EXCEPT ![s] = line[s] + 1]
    BY <1>3 DEF NextLine
  <2>2. /\ \E U : records' \in [Script -> Seq(U)]
        /\ \A t \in Script \ {s} : records'[t] = records[t]
    <3>1. CASE UNCHANGED records
      BY <3>1 DEF CsvTyped
    <3>2. CASE \E object : Push(s, object)
      BY <3>2, PushTyped DEF CsvTyped
    <3> QED
      BY <1>3, <3>1, <3>2
  <2>3. line' \in [Script -> Nat]
    BY <2>1 DEF CsvTyped
  <2>4. ASSUME NEW t \in Script
        PROVE  /\ line'[t] <= Len(file)
               /\ line'[t] = 0 => records'[t] = <<>>
               /\ line'[t] > 0 => headers[t] = HeaderCells(t, file[1])
    <3>1. CASE t = s
      <4>1. line'[t] = line[s] + 1 /\ line[s] \in Nat /\ headers[t] = HeaderCells(t, file[1])
        BY <1>3, <2>1, <3>1 DEF CsvTyped
      <4> QED
        BY <1>1, <2>1, <4>1
    <3>2. CASE t # s
      BY <2>1, <2>2, <3>2 DEF CsvTyped
    <3> QED
      BY <3>1, <3>2
  <2> QED
    BY <1>3, <2>1, <2>2, <2>3, <2>4 DEF CsvTyped
<1>4. CASE ReadHeaders("readFileCSV", ExtractRowValues(file[1]))
  BY <1>2, <1>4 DEF Script, HeaderCells
<1>5. CASE ReadHeaders("readFileCSVAnhHoang", SplitCommas(file[1]))
  BY <1>2, <1>5 DEF Script, HeaderCells
<1>6. CASE ProcessRow
  BY <1>3, <1>6 DEF ProcessRow, Script, CsvTyped
<1>7. CASE ReadCsvRow
  BY <1>3, <1>7 DEF ReadCsvRow, Script, CsvTyped
<1>8. CASE UNCHANGED csvVars
  BY <1>8 DEF csvVars, CsvTyped
<1> QED
  BY <1>4, <1>5, <1>6, <1>7, <1>8 DEF CsvNext, CsvFinished

THEOREM CsvTypes == CsvSpec => []CsvTyped
BY CsvTypedInit, CsvTypedNext, PTL DEF CsvSpec

(* A row as wide as the header line becomes a record that holds it.        *)
LEMMA RowHeld ==
  ASSUME NEW hs \in Seq(CellText), Exact(hs), NEW k, Fits(ExtractRowValues(file[k]), hs),
         ExtractRowValues(file[k]) \in Seq(CellText)
  PROVE  LET cells == ExtractRowValues(file[k])
             record == ConvertDotNotationToNested(hs, [i \in DOMAIN cells |-> ConvertToNumber(cells[i])])
         IN ~record.threw /\ Filled(record.at) = RowOf(file, hs, k)
<1> DEFINE cells == ExtractRowValues(file[k])
           values == [i \in DOMAIN cells |-> ConvertToNumber(cells[i])]
<1>1. DOMAIN cells = DOMAIN hs
  BY DEF Fits
<1>2. \A cell : ConvertToNumber(cell) \notin {Object, Lost}
  BY DEF ConvertToNumber, Number, Text, Object, Lost
<1>3. \A i \in DOMAIN hs : values[i] = ConvertToNumber(cells[i])
  BY <1>1
<1> HIDE DEF values
<1>4. \A i \in DOMAIN hs : values[i] \notin {Object, Lost}
  BY <1>2, <1>3
<1> DEFINE record == ConvertDotNotationToNested(hs, values)
<1>5. ~record.threw /\ Filled(record.at) = {<<PropertyPath(hs[i]), values[i]>> : i \in DOMAIN hs}
  BY <1>4, RecordOfRow DEF Filled
<1>6. {<<PropertyPath(hs[i]), values[i]>> : i \in DOMAIN hs} = RowOf(file, hs, k)
  BY <1>3 DEF RowOf
<1> QED
  BY <1>5, <1>6 DEF values

LEMMA HoldTheirRowsNext ==
  CsvTyped /\ RecordsHoldTheirRows /\ [CsvNext]_csvVars => RecordsHoldTheirRows'
<1> SUFFICES ASSUME CsvTyped, RecordsHoldTheirRows, [CsvNext]_csvVars
             PROVE  RecordsHoldTheirRows'
  OBVIOUS
<1> DEFINE s == "readFileCSV"
           other == "readFileCSVAnhHoang"
           Held0 == line[s] > 0 /\ Exact(headers[s]) => Hold(file, line[s], headers[s], records[s])
<1>1. Held0 /\ (RecordsHoldTheirRows' <=> Held0')
  <2>1. RecordsHoldTheirRows' <=> Held0'
    BY DEF RecordsHoldTheirRows, Hold, Numbers, Filled, RowOf, ConvertToNumber
  <2> QED
    BY <2>1, HoldIff
<1>2. s \in Script /\ other \in Script /\ s # other
  BY DEF Script
<1>3. CASE UNCHANGED <<file, line[s], headers[s], records[s]>>
  BY <1>1, <1>3
<1>4. CASE ReadHeaders(s, ExtractRowValues(file[1]))
  <2>1. line[s] = 0 /\ line' = [line EXCEPT ![s] = line[s] + 1] /\ records' = records
    BY <1>4 DEF ReadHeaders, NextLine
  <2>2. line'[s] = 1 /\ records'[s] = <<>>
    BY <1>2, <2>1 DEF CsvTyped
  <2>3. Held0'
    BY <2>2, HoldHeader
  <2> QED
    BY <1>1, <2>3
<1>5. CASE ReadHeaders(other, SplitCommas(file[1]))
  BY <1>2, <1>3, <1>5 DEF ReadHeaders, NextLine, CsvTyped
<1>6. CASE ReadCsvRow
  <2>1. UNCHANGED <<file, line[s], headers[s]>>
    BY <1>2, <1>6 DEF ReadCsvRow, NextLine, CsvTyped
  <2>2. UNCHANGED records \/ \E object : Push(other, object)
    BY <1>6 DEF ReadCsvRow
  <2>3. UNCHANGED records[s]
    BY <1>2, <2>2, PushTyped DEF CsvTyped
  <2> QED
    BY <1>3, <2>1, <2>3
<1>7. CASE ProcessRow
  <2> DEFINE k == line[s] + 1
             cells == ExtractRowValues(file[k])
             record == ConvertDotNotationToNested(headers[s], [i \in DOMAIN cells |-> ConvertToNumber(cells[i])])
  <2>1. /\ line[s] \in Nat \ {0} /\ line'[s] = k
        /\ UNCHANGED <<file, headers>>
        /\ headers[s] \in Seq(CellText)
        /\ k \in 1..Len(file)
    BY <1>2, <1>7 DEF ProcessRow, NextLine, CsvTyped
  <2>2. cells \in Seq(CellText)
    BY <2>1, ExtractType DEF CsvTyped
  <2>3. \/ ~Fits(cells, headers[s]) /\ UNCHANGED records
        \/ Fits(cells, headers[s]) /\ record.threw /\ UNCHANGED records
        \/ Fits(cells, headers[s]) /\ ~record.threw /\ Push(s, record)
    BY <1>7 DEF ProcessRow, Current
  <2> HIDE DEF cells, record
  <2> SUFFICES ASSUME Exact(headers[s]) PROVE Hold(file, k, headers[s], records'[s])
    BY <1>1, <2>1
  <2>4. Hold(file, line[s], headers[s], records[s])
    BY <1>1, <2>1
  <2>5. CASE ~Fits(cells, headers[s])
    BY <2>1, <2>3, <2>4, <2>5, HoldSkip DEF cells
  <2>6. CASE Fits(cells, headers[s])
    <3>1. ~record.threw /\ Filled(record.at) = RowOf(file, headers[s], k)
      BY <2>1, <2>2, <2>6, RowHeld DEF cells, record
    <3>2. Push(s, record)
      BY <2>3, <2>6, <3>1
    <3>3. PICK U : records \in [Script -> Seq(U)]
      BY DEF CsvTyped
    <3>4. records[s] \in Seq(U) /\ records'[s] = Append(records[s], record.at)
      BY <1>2, <3>2, <3>3, PushTyped
    <3> QED
      BY <2>1, <2>4, <2>6, <3>1, <3>4, HoldPush DEF cells
  <2> QED
    BY <2>5, <2>6
<1>8. CASE UNCHANGED csvVars
  BY <1>3, <1>8 DEF csvVars
<1> QED
  BY <1>4, <1>5, <1>6, <1>7, <1>8 DEF CsvNext, CsvFinished

(* RecordsHoldTheirRows, for any lines, header cells and number of rows.   *)
THEOREM RecordsAreTheirRows == CsvSpec => []RecordsHoldTheirRows
<1>1. CsvInit => RecordsHoldTheirRows
  BY HoldIff DEF CsvInit, Script
<1>2. CsvTyped /\ RecordsHoldTheirRows /\ [CsvNext]_csvVars => RecordsHoldTheirRows'
  BY HoldTheirRowsNext
<1> QED
  BY <1>1, <1>2, CsvTypes, PTL DEF CsvSpec

-----------------------------------------------------------------------------
(* Nesting step by step: what there is after each assignment.              *)
Stages(as, g) ==
  /\ g[0] = Blank
  /\ \A n \in 1..Len(as) : g[n] = Set(g[n - 1], as[n])
  /\ Nest(as) = g[Len(as)]

LEMMA Nesting ==
  ASSUME NEW as, Len(as) \in Nat
  PROVE  \E g : Stages(as, g)
<1> DEFINE N == Len(as)
           Next1(f, m) == IF m = 0 THEN Blank ELSE Set(f[m - 1], as[m])
           Grown(n, f) == f = [m \in 0..n |-> Next1(f, m)]
           Reached(n) == \E f : Grown(n, f)
           T == {n \in Nat : n \in 0..N => Reached(n)}
<1>0. N \in Nat
  OBVIOUS
<1> HIDE DEF N
<1>1. 0 \in T
  <2> DEFINE f == [m \in 0..0 |-> Blank]
  <2>1. \A m \in 0..0 : Next1(f, m) = Blank
    OBVIOUS
  <2>2. [m \in 0..0 |-> Next1(f, m)] = [m \in 0..0 |-> Blank]
    <3> HIDE DEF Next1, f
    <3> QED
      BY <2>1
  <2>3. Grown(0, f)
    BY <2>2
  <2> HIDE DEF f, Grown
  <2> QED
    BY <2>3
<1>2. ASSUME NEW n \in Nat, n \in T PROVE n + 1 \in T
  <2> SUFFICES ASSUME n + 1 \in 0..N PROVE Reached(n + 1)
    <3> HIDE DEF Reached
    <3> QED
      OBVIOUS
  <2>1. n \in 0..N
    BY <1>0
  <2>2. PICK f : Grown(n, f)
    <3> HIDE DEF Grown
    <3> QED
      BY <1>2, <2>1
  <2> DEFINE g == [m \in 0..n + 1 |-> IF m = n + 1 THEN Set(f[n], as[n + 1]) ELSE f[m]]
  <2>3. ASSUME NEW m \in 0..n + 1 PROVE g[m] = Next1(g, m)
    <3>1. CASE m = n + 1
      <4>1. m # 0 /\ m - 1 = n /\ n \in 0..n + 1 /\ n # n + 1
        BY <3>1
      <4>2. g[m] = Set(f[n], as[m]) /\ g[m - 1] = f[n]
        BY <3>1, <4>1
      <4> HIDE DEF g
      <4> QED
        BY <4>1, <4>2
    <3>2. CASE m # n + 1
      <4>1. m \in 0..n /\ g[m] = f[m]
        BY <3>2
      <4>2. f[m] = Next1(f, m)
        <5> HIDE DEF Next1
        <5> QED
          BY <2>2, <4>1
      <4>3. m # 0 => m - 1 \in 0..n + 1 /\ m - 1 # n + 1 /\ g[m - 1] = f[m - 1]
        BY <4>1
      <4> HIDE DEF g
      <4> QED
        BY <4>1, <4>2, <4>3
    <3> QED
      BY <3>1, <3>2
  <2>4. g = [m \in 0..n + 1 |-> g[m]]
    OBVIOUS
  <2> HIDE DEF g, Next1
  <2>5. Grown(n + 1, g)
    BY <2>3, <2>4
  <2> HIDE DEF Grown
  <2> QED
    BY <2>5
<1>3. Nat \subseteq T
  <2> HIDE DEF T
  <2> QED
    BY <1>1, <1>2, NatSet
<1>4. PICK g : Grown(N, g)
  <2> HIDE DEF Grown
  <2>1. N \in 0..N
    BY <1>0
  <2> QED
    BY <1>0, <1>3, <2>1
<1>5. Nest(as) = g[N]
  BY <1>4, NestIs DEF N
<1>6. ASSUME NEW n \in 0..N PROVE g[n] = Next1(g, n)
  <2> HIDE DEF Next1
  <2> QED
    BY <1>4
<1>7. 0 \in 0..N /\ \A n \in 1..N : n \in 0..N /\ n # 0
  BY <1>0
<1>8. Stages(as, g)
  BY <1>5, <1>6, <1>7 DEF Stages, N
<1> QED
  BY <1>8

(* Some number of a set of them is the largest.                            *)
LEMMA MaxIsThere ==
  ASSUME NEW N \in Nat, NEW S \in SUBSET (1..N), S # {}
  PROVE  Max(S) \in S /\ \A n \in S : n <= Max(S)
<1> DEFINE Top(R) == \E x \in R : \A y \in R : x >= y
           T == {n \in Nat : \A R \in SUBSET (1..n) : R # {} => Top(R)}
<1>1. 0 \in T
  <2>1. \A R \in SUBSET (1..0) : R = {}
    OBVIOUS
  <2> HIDE DEF Top
  <2> QED
    BY <2>1
<1>2. ASSUME NEW n \in Nat, n \in T PROVE n + 1 \in T
  <2> SUFFICES ASSUME NEW R \in SUBSET (1..n + 1), R # {} PROVE Top(R)
    <3> HIDE DEF Top
    <3> QED
      OBVIOUS
  <2>1. CASE n + 1 \in R
    BY <2>1
  <2>2. CASE n + 1 \notin R
    <3>1. \A x \in R : x \in 1..n
      BY <2>2
    <3>2. R \in SUBSET (1..n)
      BY <3>1
    <3> QED
      BY <1>2, <3>2
  <2> QED
    BY <2>1, <2>2
<1>3. Nat \subseteq T
  <2> HIDE DEF T
  <2> QED
    BY <1>1, <1>2, NatSet
<1>4. Top(S)
  BY <1>3
<1>5. \A n \in S : n \in Nat
  OBVIOUS
<1> QED
  BY <1>4, <1>5 DEF Max

LEMMA LenOfRow ==
  ASSUME NEW hs \in Seq(CellText), NEW values
  PROVE  LET row == FlatRow(hs, values)
         IN DOMAIN row = DOMAIN hs /\ Len(row) = Len(hs) /\ Len(hs) \in Nat
<1> DEFINE row == FlatRow(hs, values)
           U == {row[i] : i \in DOMAIN hs}
<1>1. Len(hs) \in Nat /\ DOMAIN hs = 1..Len(hs)
  OBVIOUS
<1>2. DOMAIN row = DOMAIN hs /\ row = [i \in DOMAIN hs |-> row[i]]
  BY DEF FlatRow
<1> HIDE DEF row
<1>3. row \in [1..Len(hs) -> U]
  BY <1>1, <1>2
<1> HIDE DEF U
<1> QED
  BY <1>1, <1>2, <1>3, LenOfFunction DEF row

(* A cell of a flat row: the last one of its name, or nothing.             *)
LEMMA FlatCell ==
  ASSUME NEW hs \in Seq(CellText), NEW values, NEW i \in DOMAIN hs
  PROVE  \/ FlatRow(hs, values)[i] = Nothing
         \/ LET m == Max({j \in DOMAIN hs : hs[j] = hs[i]})
            IN /\ m \in DOMAIN hs /\ hs[m] = hs[i] /\ \A n \in DOMAIN hs : hs[n] = hs[i] => n <= m
               /\ FlatRow(hs, values)[i] = [path |-> PropertyPath(hs[i]), value |-> values[m]]
<1> DEFINE S == {j \in DOMAIN hs : hs[j] = hs[i]}
<1>1. S \in SUBSET (1..Len(hs)) /\ S # {} /\ Len(hs) \in Nat
  OBVIOUS
<1>2. Max(S) \in S /\ \A n \in S : n <= Max(S)
  <2> HIDE DEF S
  <2> QED
    BY <1>1, MaxIsThere
<1>3. \/ FlatRow(hs, values)[i] = Nothing
      \/ FlatRow(hs, values)[i] = [path |-> PropertyPath(hs[i]), value |-> values[Max(S)]]
  BY DEF FlatRow
<1> QED
  BY <1>2, <1>3

(* One assignment.                                                         *)
Built(object) == object \in [threw : BOOLEAN, at : {object.at}]

Blocked(object, a) == object.threw \/ \E q \in Obstacles(object.at, a.path) : Len(q) + 1 < Len(a.path)

Changed(at, a) ==
  IF a.value = Lost THEN MakeLevels(at, a.path)
  ELSE Assign(MakeLevels(at, Front(a.path)), a.path, a.value)

LEMMA SetCases ==
  ASSUME NEW object, Built(object), NEW a
  PROVE  /\ Built(Set(object, a))
         /\ Set(object, a).threw = Blocked(object, a)
         /\ Blocked(object, a) \/ Obstacles(object.at, a.path) # {} => Set(object, a).at = object.at
         /\ ~Blocked(object, a) /\ Obstacles(object.at, a.path) = {} =>
              Set(object, a).at = Changed(object.at, a)
<1> DEFINE in == Obstacles(object.at, a.path) # {}
<1>1. object \in [threw : BOOLEAN, at : {object.at}]
  BY DEF Built
<1>2. CASE Blocked(object, a)
  <2> DEFINE after == [object EXCEPT !.threw = TRUE]
  <2>1. Set(object, a) = after
    BY <1>2 DEF Set, Blocked
  <2>2. after.threw = TRUE /\ after.at = object.at /\ after \in [threw : BOOLEAN, at : {object.at}]
    BY <1>1
  <2> HIDE DEF after
  <2> QED
    BY <1>2, <2>1, <2>2 DEF Built
<1>3. CASE ~Blocked(object, a) /\ in
  <2>1. Set(object, a) = object
    BY <1>3 DEF Set, Blocked
  <2> QED
    BY <1>1, <1>3, <2>1 DEF Built, Blocked
<1>4. CASE ~Blocked(object, a) /\ ~in
  <2> DEFINE at == Changed(object.at, a)
             after == [object EXCEPT !.at = at]
  <2>1. Set(object, a) = after
    BY <1>4 DEF Set, Blocked, Changed
  <2> HIDE DEF at
  <2>2. after.threw = object.threw /\ after.at = at /\ after \in [threw : BOOLEAN, at : {at}]
    BY <1>1
  <2>3. object.threw = FALSE
    BY <1>1, <1>4 DEF Blocked
  <2> HIDE DEF after
  <2>4. Blocked(object, a) = FALSE
    BY <1>4 DEF Blocked
  <2> QED
    BY <1>4, <2>1, <2>2, <2>3, <2>4 DEF Built, at
<1> QED
  BY <1>2, <1>3, <1>4

LEMMA BlankBuilt == Built(Blank) /\ Blank.threw = FALSE /\ DOMAIN Blank.at = {}
BY DEF Built, Blank

-----------------------------------------------------------------------------
(* Values that differ in empty cells only make no difference to nesting.   *)
SameObject(o, p) == Built(o) /\ Built(p) /\ o.threw = p.threw /\ SameRecord(o.at, p.at)

LEMMA SameFacts ==
  ASSUME NEW v, NEW w, SameValue(v, w)
  PROVE  /\ Truthy(v) <=> Truthy(w)
         /\ v = Object <=> w = Object
         /\ v = Lost <=> w = Lost
<1>1. CASE v = w
  BY <1>1
<1>2. CASE v = Text(EmptyCell) /\ w = Number(ZeroCell)
  BY <1>2 DEF Truthy, Text, Number, Object, Lost, Undefined
<1> QED
  BY <1>1, <1>2 DEF SameValue

LEMMA SameObstacles ==
  ASSUME NEW r, NEW t, SameRecord(r, t), NEW path
  PROVE  Obstacles(r, path) = Obstacles(t, path)
BY SameFacts DEF SameRecord, Obstacles

LEMMA SameLevels ==
  ASSUME NEW r, NEW t, SameRecord(r, t), NEW path
  PROVE  SameRecord(MakeLevels(r, path), MakeLevels(t, path))
<1>1. DOMAIN MakeLevels(r, path) = DOMAIN r \cup (Prefixes(path) \ {<<>>})
  BY DEF MakeLevels
<1>2. DOMAIN MakeLevels(t, path) = DOMAIN MakeLevels(r, path) /\ DOMAIN r = DOMAIN t
  BY <1>1 DEF MakeLevels, SameRecord
<1>3. ASSUME NEW q \in DOMAIN MakeLevels(r, path)
      PROVE  SameValue(MakeLevels(r, path)[q], MakeLevels(t, path)[q])
  <2>1. q \in DOMAIN r => SameValue(r[q], t[q]) /\ (Truthy(r[q]) <=> Truthy(t[q]))
    BY SameFacts DEF SameRecord
  <2>2. MakeLevels(r, path)[q] = IF q \in DOMAIN r /\ (q \notin Prefixes(path) \/ Truthy(r[q])) THEN r[q] ELSE Object
    BY <1>1 DEF MakeLevels
  <2>3. MakeLevels(t, path)[q] = IF q \in DOMAIN r /\ (q \notin Prefixes(path) \/ Truthy(t[q])) THEN t[q] ELSE Object
    BY <1>1, <1>2 DEF MakeLevels
  <2>4. SameValue(Object, Object)
    BY DEF SameValue
  <2> QED
    BY <2>1, <2>2, <2>3, <2>4
<1> QED
  BY <1>2, <1>3 DEF SameRecord

LEMMA SameAssigned ==
  ASSUME NEW r, NEW t, SameRecord(r, t), NEW path, NEW v, NEW w, SameValue(v, w)
  PROVE  SameRecord(Assign(r, path, v), Assign(t, path, w))
BY DEF SameRecord, Assign

LEMMA SameSet ==
  ASSUME NEW o, NEW p, SameObject(o, p), NEW a, NEW b, a.path = b.path, SameValue(a.value, b.value)
  PROVE  SameObject(Set(o, a), Set(p, b))
<1>1. Built(o) /\ Built(p) /\ o.threw = p.threw /\ SameRecord(o.at, p.at)
  BY DEF SameObject
<1>2. Obstacles(o.at, a.path) = Obstacles(p.at, b.path)
  BY <1>1, SameObstacles
<1>3. Blocked(o, a) = Blocked(p, b)
  BY <1>1, <1>2 DEF Blocked
<1>4. SameRecord(Changed(o.at, a), Changed(p.at, b))
  <2>1. a.value = Lost <=> b.value = Lost
    BY SameFacts
  <2> QED
    BY <1>1, <2>1, SameLevels, SameAssigned DEF Changed
<1> DEFINE first == Set(o, a)
           second == Set(p, b)
<1>5. /\ Built(first) /\ Built(second)
      /\ first.threw = Blocked(o, a) /\ second.threw = Blocked(p, b)
  BY <1>1, SetCases
<1>6. SameRecord(first.at, second.at)
  <2>1. CASE Blocked(o, a) \/ Obstacles(o.at, a.path) # {}
    <3>1. first.at = o.at /\ second.at = p.at
      BY <1>1, <1>2, <1>3, <2>1, SetCases
    <3> HIDE DEF first, second
    <3> QED
      BY <1>1, <3>1
  <2>2. CASE ~Blocked(o, a) /\ Obstacles(o.at, a.path) = {}
    <3>1. first.at = Changed(o.at, a) /\ second.at = Changed(p.at, b)
      BY <1>1, <1>2, <1>3, <2>2, SetCases
    <3> HIDE DEF first, second
    <3> QED
      BY <1>4, <3>1
  <2> QED
    BY <2>1, <2>2
<1> HIDE DEF first, second
<1>7. SameObject(first, second)
  BY <1>3, <1>5, <1>6 DEF SameObject
<1> QED
  BY <1>7 DEF first, second

LEMMA SameNest ==
  ASSUME NEW as, NEW bs, Len(as) \in Nat, Len(bs) = Len(as),
         \A i \in 1..Len(as) : as[i].path = bs[i].path /\ SameValue(as[i].value, bs[i].value)
  PROVE  SameObject(Nest(as), Nest(bs))
<1>1. PICK f : Stages(as, f)
  BY Nesting
<1>2. PICK g : Stages(bs, g)
  BY Nesting
<1> DEFINE N == Len(as)
           T == {n \in Nat : n \in 0..N => SameObject(f[n], g[n])}
<1>3. N \in Nat
  OBVIOUS
<1> HIDE DEF N
<1>4. 0 \in T
  <2>1. SameRecord(Blank.at, Blank.at)
    BY BlankBuilt DEF SameRecord
  <2> QED
    BY <1>1, <1>2, <2>1, BlankBuilt DEF Stages, SameObject
<1>5. ASSUME NEW n \in Nat, n \in T PROVE n + 1 \in T
  <2> SUFFICES ASSUME n + 1 \in 0..N PROVE SameObject(f[n + 1], g[n + 1])
    OBVIOUS
  <2> DEFINE m == n + 1
  <2>1. n \in 0..N /\ m \in 1..N /\ m - 1 = n
    BY <1>3
  <2>2. SameObject(f[m - 1], g[m - 1])
    BY <1>5, <2>1
  <2>3. f[m] = Set(f[m - 1], as[m]) /\ g[m] = Set(g[m - 1], bs[m])
    BY <1>1, <1>2, <2>1 DEF Stages, N
  <2>4. as[m].path = bs[m].path /\ SameValue(as[m].value, bs[m].value)
    BY <2>1 DEF N
  <2>5. SameObject(Set(f[m - 1], as[m]), Set(g[m - 1], bs[m]))
    BY <2>2, <2>4, SameSet
  <2> QED
    BY <2>3, <2>5
<1>6. Nat \subseteq T
  <2> HIDE DEF T
  <2> QED
    BY <1>4, <1>5, NatSet
<1>7. SameObject(f[N], g[N])
  BY <1>3, <1>6
<1> QED
  BY <1>1, <1>2, <1>7 DEF Stages, N

-----------------------------------------------------------------------------
(* The files that both scripts are made for.  What each makes of line k.   *)
RecordOf(f, k) ==
  Nest(FlatRow(f[1].cells, [i \in DOMAIN f[1].cells |-> ConvertToNumber(f[k].cells[i])]))

CastOf(f, k) ==
  Nest(FlatRow(f[1].cells, [i \in DOMAIN f[1].cells |-> CastNumber(f[k].cells[i])]))

LEMMA RowsAgree ==
  ASSUME CsvTyped, NEW k
  PROVE  SameObject(RecordOf(file, k), CastOf(file, k))
<1> DEFINE hs == file[1].cells
           v == [i \in DOMAIN hs |-> ConvertToNumber(file[k].cells[i])]
           w == [i \in DOMAIN hs |-> CastNumber(file[k].cells[i])]
           as == FlatRow(hs, v)
           bs == FlatRow(hs, w)
<1>1. hs \in Seq(CellText)
  <2>1. file[1] \in LineText
    BY DEF CsvTyped
  <2> QED
    BY <2>1 DEF LineText
<1>2. \A cell : SameValue(ConvertToNumber(cell), CastNumber(cell))
  <2>1. ~IsNumeral(EmptyCell)
    BY NumeralAssumption DEF IsNumeral, EmptyCell, EmptyWord
  <2> QED
    BY <2>1 DEF SameValue, ConvertToNumber, CastNumber
<1>3. \A i \in DOMAIN hs : SameValue(v[i], w[i])
  BY <1>2
<1>4. RecordOf(file, k) = Nest(as) /\ CastOf(file, k) = Nest(bs)
  BY DEF RecordOf, CastOf
<1> HIDE DEF hs, v, w
<1>5. ASSUME NEW i \in DOMAIN hs PROVE as[i].path = bs[i].path /\ SameValue(as[i].value, bs[i].value)
  <2> DEFINE m == Max({j \in DOMAIN hs : hs[j] = hs[i]})
  <2>1. CASE \E j \in 1..i - 1 : hs[j] = hs[i]
    <3>1. as[i] = Nothing /\ bs[i] = Nothing
      BY <2>1 DEF FlatRow
    <3> QED
      BY <3>1 DEF SameValue
  <2>2. CASE ~ \E j \in 1..i - 1 : hs[j] = hs[i]
    <3>1. /\ as[i] = [path |-> PropertyPath(hs[i]), value |-> v[m]]
          /\ bs[i] = [path |-> PropertyPath(hs[i]), value |-> w[m]]
      BY <2>2 DEF FlatRow
    <3>2. m \in DOMAIN hs
      <4>1. {j \in DOMAIN hs : hs[j] = hs[i]} \in SUBSET (1..Len(hs)) /\ Len(hs) \in Nat
        BY <1>1
      <4>2. {j \in DOMAIN hs : hs[j] = hs[i]} # {}
        OBVIOUS
      <4>3. m \in {j \in DOMAIN hs : hs[j] = hs[i]}
        BY <4>1, <4>2, MaxIsThere
      <4> QED
        BY <4>3
    <3> HIDE DEF m
    <3> QED
      BY <1>3, <3>1, <3>2
  <2> QED
    BY <2>1, <2>2
<1>6. Len(as) = Len(hs) /\ Len(bs) = Len(hs) /\ Len(hs) \in Nat
  BY <1>1, LenOfRow
<1>7. DOMAIN hs = 1..Len(hs)
  BY <1>1
<1> HIDE DEF as, bs
<1>8. SameObject(Nest(as), Nest(bs))
  BY <1>5, <1>6, <1>7, SameNest
<1> QED
  BY <1>4, <1>8

LEMMA PlainHeader ==
  ASSUME CsvTyped, Plain
  PROVE  ExtractRowValues(file[1]) = file[1].cells /\ SplitCommas(file[1]) = file[1].cells
<1> DEFINE cells == file[1].cells
<1>1. 1 \in DOMAIN file /\ file[1] \in LineText
  BY DEF CsvTyped
<1>2. cells \in Seq(CellText) /\ cells # <<>>
  BY <1>1 DEF LineText
<1>3. ExtractRowValues(file[1]) = cells
  BY <1>1 DEF Plain, ExtractRowValues, SplitQuoted
<1>4. ASSUME NEW i \in DOMAIN cells PROVE cells[i] \in Seq(PartText) /\ Len(cells[i]) = 1
  <2>1. cells[i] \in CellText
    BY <1>2
  <2>2. Len(cells[i]) = 1
    BY DEF Plain
  <2> QED
    BY <2>1, <2>2 DEF CellText
<1>5. cells \in Seq(Seq(PartText))
  BY <1>2, <1>4
<1> HIDE DEF cells
<1> DEFINE parts == FlattenSeq(cells)
<1>6. parts = [i \in DOMAIN cells |-> cells[i][1]]
  BY <1>4, <1>5, FlattenSingletons
<1>7. DOMAIN cells = 1..Len(cells) /\ Len(cells) \in Nat /\ \A i \in DOMAIN cells : cells[i][1] \in PartText
  BY <1>2, <1>4
<1>8. parts \in [1..Len(cells) -> PartText]
  BY <1>6, <1>7
<1> HIDE DEF parts
<1>9. Len(parts) = Len(cells)
  BY <1>7, <1>8, LenOfFunction
<1>10. \A i \in DOMAIN cells : <<parts[i]>> = cells[i]
  BY <1>4, <1>6
<1>11. SplitCommas(file[1]) = [i \in 1..Len(parts) |-> <<parts[i]>>]
  BY DEF SplitCommas, parts, cells
<1>12. [i \in 1..Len(parts) |-> <<parts[i]>>] = [i \in DOMAIN cells |-> cells[i]]
  BY <1>7, <1>9, <1>10
<1>13. cells = [i \in DOMAIN cells |-> cells[i]]
  BY <1>2
<1> QED
  BY <1>3, <1>11, <1>12, <1>13 DEF cells

LEMMA FirstPart ==
  ASSUME NEW cell \in CellText
  PROVE  cell[1] \in PartText
<1>1. cell \in Seq(PartText) /\ cell # <<>>
  BY DEF CellText
<1>2. 1 \in 1..Len(cell)
  BY <1>1
<1> QED
  BY <1>1, <1>2

LEMMA PlainPath ==
  ASSUME NEW part \in PartText, "" \notin ToSet(part), NEW cell \in CellText, cell[1] = part, Len(cell) = 1
  PROVE  PropertyPath(cell) \in Seq(Name) /\ EmptyWord \notin ToSet(PropertyPath(cell))
<1>1. PropertyPath(cell) = Words(part)
  BY PathOfOnePart
<1>2. PropertyPath(cell) \in Seq(Name)
  BY PathType DEF Path
<1>3. \A i \in DOMAIN Words(part) : Words(part)[i] # EmptyWord
  <2>1. \A i \in DOMAIN part : part[i] # ""
    BY Zenon DEF ToSet
  <2>2. part \in Seq(STRING)
    BY DEF PartText
  <2>3. DOMAIN part = 1..Len(part)
    BY <2>2, LenProperties, Zenon
  <2> QED
    BY <2>1, <2>3 DEF Words, EmptyWord
<1> QED
  BY <1>1, <1>2, <1>3 DEF ToSet

LEMMA PlainRow ==
  ASSUME CsvTyped, Plain, NEW k \in DOMAIN file
  PROVE  LET hs == file[1].cells
             cells == ExtractRowValues(file[k])
             split == SplitQuoted(file[k])
         IN /\ Fits(cells, hs)
            /\ ConvertDotNotationToNested(hs, [i \in DOMAIN cells |-> ConvertToNumber(cells[i])])
                 = RecordOf(file, k)
            /\ FlattenToNested(hs, [i \in DOMAIN hs |->
                 IF i \in DOMAIN split THEN CastNumber(split[i]) ELSE Undefined])
                 = CastOf(file, k)
<1> DEFINE hs == file[1].cells
           cells == file[k].cells
           split == SplitQuoted(file[k])
           values == [i \in DOMAIN hs |-> ConvertToNumber(cells[i])]
           cast == [i \in DOMAIN hs |-> CastNumber(cells[i])]
           row == FlatRow(hs, values)
<1>1. 1 \in DOMAIN file /\ file[1] \in LineText /\ file[k] \in LineText
  BY DEF CsvTyped
<1>2. hs \in Seq(CellText) /\ cells \in Seq(CellText)
  BY <1>1 DEF LineText
<1>3. Len(cells) = Len(hs) /\ ExtractRowValues(file[k]) = cells /\ split = cells
  BY <1>1 DEF Plain, ExtractRowValues, SplitQuoted
<1>4. DOMAIN cells = DOMAIN hs
  BY <1>2, <1>3
<1>6. [i \in DOMAIN cells |-> ConvertToNumber(cells[i])] = values
  BY <1>4
<1>7. [i \in DOMAIN hs |-> IF i \in DOMAIN split THEN CastNumber(split[i]) ELSE Undefined] = cast
  BY <1>3, <1>4
<1>8. ASSUME NEW i \in DOMAIN hs PROVE SkipEmptyNames(row[i]) = row[i]
  <2>1. row[i] = Nothing \/ \E value : row[i] = [path |-> PropertyPath(hs[i]), value |-> value]
    BY DEF FlatRow
  <2>2. PropertyPath(hs[i]) \in Seq(Name) /\ EmptyWord \notin ToSet(PropertyPath(hs[i]))
    <3>1. hs[i] \in CellText
      BY <1>2
    <3>2. Len(hs[i]) = 1 /\ "" \notin ToSet(hs[i][1])
      BY DEF Plain
    <3>3. hs[i][1] \in PartText
      BY <3>1, FirstPart
    <3> HIDE DEF hs
    <3> QED
      BY <3>1, <3>2, <3>3, PlainPath
  <2>3. PropertyPath(hs[i]) # <<>>
    BY <1>2, PathType DEF Path
  <2> HIDE DEF row
  <2> QED
    BY <2>1, <2>2, <2>3, SkipNone, SkipNothing
<1>9. row = [i \in DOMAIN hs |-> row[i]]
  BY DEF FlatRow
<1>10. [i \in DOMAIN hs |-> SkipEmptyNames(row[i])] = row
  <2> HIDE DEF row
  <2> QED
    BY <1>8, <1>9
<1>11. RecordOf(file, k) = Nest(row) /\ CastOf(file, k) = Nest(FlatRow(hs, cast))
  BY DEF RecordOf, CastOf
<1> HIDE DEF hs, cells, split, values, cast
<1>12. ConvertDotNotationToNested(hs, values) = Nest(row) /\ FlattenToNested(hs, cast) = Nest(FlatRow(hs, cast))
  BY <1>10 DEF ConvertDotNotationToNested, FlattenToNested
<1> QED
  BY <1>3, <1>6, <1>7, <1>11, <1>12 DEF Fits, hs, split

(* The records of each script, while every row before made one: those of   *)
(* the first rows, in order.                                               *)
Clean(f, k) == \A j \in 2..k : ~RecordOf(f, j).threw

Kept(f, l, rs) ==
  /\ Len(rs) < l
  /\ \A k \in 1..l - 1 : Clean(f, k + 1) => k <= Len(rs) /\ rs[k] = RecordOf(f, k + 1).at

Ended(f, l, rs, ended) ==
  /\ Len(rs) < l
  /\ Clean(f, Len(rs) + 1)
  /\ \A k \in 1..Len(rs) : rs[k] = CastOf(f, k + 1).at
  /\ ended \/ Len(rs) + 1 = l

Agreeing ==
  LET s == "readFileCSV"
      t == "readFileCSVAnhHoang"
  IN Plain => /\ line[s] > 0 => Kept(file, line[s], records[s])
              /\ line[t] > 0 => Ended(file, line[t], records[t], dead)

LEMMA KeptSkip ==
  ASSUME NEW f, NEW l \in Nat \ {0}, NEW U, NEW rs \in Seq(U), Kept(f, l, rs), RecordOf(f, l + 1).threw
  PROVE  Kept(f, l + 1, rs)
<1>1. Len(rs) < l + 1
  BY DEF Kept
<1>2. ASSUME NEW k \in 1..l + 1 - 1, Clean(f, k + 1) PROVE k \in 1..l - 1
  <2>1. k # l
    <3>1. l + 1 \in 2..l + 1
      OBVIOUS
    <3> QED
      BY <1>2, <3>1 DEF Clean
  <2> QED
    BY <2>1
<1> QED
  BY <1>1, <1>2 DEF Kept

LEMMA KeptPush ==
  ASSUME NEW f, NEW l \in Nat \ {0}, NEW U, NEW rs \in Seq(U), Kept(f, l, rs)
  PROVE  Kept(f, l + 1, Append(rs, RecordOf(f, l + 1).at))
<1> DEFINE x == RecordOf(f, l + 1).at
           ss == Append(rs, x)
           N == Len(rs)
           M == Len(ss)
<1>1. N \in Nat /\ M = N + 1 /\ ss[N + 1] = x /\ \A n \in 1..N : ss[n] = rs[n]
  BY AppendAny
<1>2. N < l /\ \A k \in 1..l - 1 : Clean(f, k + 1) => k <= N /\ rs[k] = RecordOf(f, k + 1).at
  BY DEF Kept
<1> HIDE DEF ss, N, M
<1>3. ASSUME NEW k \in 1..l, Clean(f, k + 1) PROVE k <= M /\ ss[k] = RecordOf(f, k + 1).at
  <2>1. CASE k # l
    BY <1>1, <1>2, <1>3, <2>1
  <2>2. CASE k = l
    <3>1. N = l - 1
      <4>1. CASE l = 1
        BY <1>1, <1>2, <4>1
      <4>2. CASE l # 1
        <5>1. l - 1 \in 1..l - 1 /\ l - 1 + 1 = l
          BY <4>2
        <5>2. Clean(f, l)
          <6>1. 2..l \subseteq 2..l + 1
            OBVIOUS
          <6> QED
            BY <1>3, <2>2, <6>1 DEF Clean
        <5> QED
          BY <1>1, <1>2, <5>1, <5>2
      <4> QED
        BY <4>1, <4>2
    <3> QED
      BY <1>1, <2>2, <3>1 DEF x
  <2> QED
    BY <2>1, <2>2
<1>4. M < l + 1 /\ l + 1 - 1 = l
  BY <1>1, <1>2
<1> QED
  BY <1>3, <1>4 DEF Kept, M, ss

LEMMA EndedPush ==
  ASSUME NEW f, NEW l \in Nat \ {0}, NEW U, NEW rs \in Seq(U), Ended(f, l, rs, FALSE),
         ~RecordOf(f, l + 1).threw
  PROVE  Ended(f, l + 1, Append(rs, CastOf(f, l + 1).at), FALSE)
<1> DEFINE x == CastOf(f, l + 1).at
           ss == Append(rs, x)
           N == Len(rs)
           M == Len(ss)
<1>1. N \in Nat /\ M = N + 1 /\ ss[N + 1] = x /\ \A n \in 1..N : ss[n] = rs[n]
  BY AppendAny
<1>2. N + 1 = l /\ Clean(f, l) /\ \A k \in 1..N : rs[k] = CastOf(f, k + 1).at
  BY DEF Ended
<1> HIDE DEF ss, N, M
<1>3. M = l /\ M + 1 = l + 1 /\ M < l + 1
  BY <1>1, <1>2
<1>4. Clean(f, l + 1)
  <2>1. \A j \in 2..l + 1 : j = l + 1 \/ j \in 2..l
    OBVIOUS
  <2> QED
    BY <1>2, <2>1 DEF Clean
<1>5. ASSUME NEW k \in 1..M PROVE ss[k] = CastOf(f, k + 1).at
  <2>1. CASE k = l
    BY <1>1, <1>2, <2>1 DEF x
  <2>2. CASE k # l
    BY <1>1, <1>2, <1>3, <2>2
  <2> QED
    BY <2>1, <2>2
<1>6. Clean(f, M + 1)
  BY <1>3, <1>4
<1> QED
  BY <1>3, <1>5, <1>6 DEF Ended, M, ss

LEMMA AgreeingNext == CsvTyped /\ Agreeing /\ [CsvNext]_csvVars => Agreeing'
<1> SUFFICES ASSUME CsvTyped, Agreeing, [CsvNext]_csvVars, Plain'
             PROVE  LET s == "readFileCSV"
                        t == "readFileCSVAnhHoang"
                    IN /\ line'[s] > 0 => Kept(file', line'[s], records'[s])
                       /\ line'[t] > 0 => Ended(file', line'[t], records'[t], dead')
  BY DEF Agreeing
<1> DEFINE s == "readFileCSV"
           t == "readFileCSVAnhHoang"
           KeptNow == line[s] > 0 => Kept(file, line[s], records[s])
           EndedNow == line[t] > 0 => Ended(file, line[t], records[t], dead)
<1>1. file' = file
  BY DEF CsvNext, ReadHeaders, ProcessRow, ReadCsvRow, CsvFinished, NextLine, csvVars
<1>2. Plain /\ KeptNow /\ EndedNow
  BY <1>1 DEF Agreeing, Plain
<1>3. s \in Script /\ t \in Script /\ s # t
  BY DEF Script
<1>4. line \in [Script -> Nat]
  BY DEF CsvTyped
<1>5. PICK U : records \in [Script -> Seq(U)]
  BY DEF CsvTyped
<1>6. CASE ReadHeaders(s, ExtractRowValues(file[1]))
  <2>1. /\ line[s] = 0 /\ line' = [line EXCEPT ![s] = line[s] + 1]
        /\ UNCHANGED <<records, dead>>
    BY <1>6 DEF ReadHeaders, NextLine
  <2>2. line'[s] = 1 /\ line'[t] = line[t] /\ records[s] = <<>>
    BY <1>3, <1>4, <2>1 DEF CsvTyped
  <2>3. Kept(file, 1, <<>>)
    BY DEF Kept
  <2> QED
    BY <1>1, <1>2, <2>1, <2>2, <2>3
<1>7. CASE ReadHeaders(t, SplitCommas(file[1]))
  <2>1. /\ line[t] = 0 /\ line' = [line EXCEPT ![t] = line[t] + 1]
        /\ UNCHANGED <<records, dead>>
    BY <1>7 DEF ReadHeaders, NextLine
  <2>2. line'[t] = 1 /\ line'[s] = line[s] /\ records[t] = <<>>
    BY <1>3, <1>4, <2>1 DEF CsvTyped
  <2>3. Ended(file, 1, <<>>, dead)
    BY DEF Ended, Clean
  <2> QED
    BY <1>1, <1>2, <2>1, <2>2, <2>3
<1>8. CASE ProcessRow
  <2> DEFINE k == line[s] + 1
             record == RecordOf(file, k)
  <2>1. /\ line[s] \in Nat \ {0} /\ line'[s] = k /\ line'[t] = line[t]
        /\ UNCHANGED dead /\ k \in DOMAIN file
        /\ headers[s] = ExtractRowValues(file[1])
    BY <1>3, <1>8 DEF ProcessRow, NextLine, CsvTyped, HeaderCells
  <2>2. headers[s] = file[1].cells
    BY <1>2, <2>1, PlainHeader
  <2>3. \/ record.threw /\ UNCHANGED records
        \/ ~record.threw /\ Push(s, record)
    BY <1>2, <1>8, <2>1, <2>2, PlainRow DEF ProcessRow, Current
  <2> HIDE DEF record
  <2>4. Kept(file, line[s], records[s])
    BY <1>2, <2>1
  <2>5. CASE record.threw
    BY <1>1, <1>2, <1>3, <1>5, <2>1, <2>3, <2>4, <2>5, KeptSkip DEF record
  <2>6. CASE ~record.threw
    <3>1. records'[s] = Append(records[s], record.at) /\ records'[t] = records[t]
      BY <1>3, <1>5, <2>3, <2>6, PushTyped
    <3> QED
      BY <1>1, <1>2, <1>3, <1>5, <2>1, <2>4, <3>1, KeptPush DEF record
  <2> QED
    BY <2>5, <2>6
<1>9. CASE ReadCsvRow
  <2> DEFINE k == line[t] + 1
             record == CastOf(file, k)
  <2>1. /\ line[t] \in Nat \ {0} /\ line'[t] = k /\ line'[s] = line[s]
        /\ dead = FALSE /\ k \in DOMAIN file
        /\ headers[t] = SplitCommas(file[1])
    BY <1>3, <1>9 DEF ReadCsvRow, NextLine, CsvTyped, HeaderCells
  <2>2. headers[t] = file[1].cells
    BY <1>2, <2>1, PlainHeader
  <2>3. \/ record.threw /\ dead' = TRUE /\ UNCHANGED records
        \/ ~record.threw /\ Push(t, record) /\ UNCHANGED dead
    BY <1>2, <1>9, <2>1, <2>2, PlainRow DEF ReadCsvRow, Current
  <2>7. record.threw = RecordOf(file, k).threw
    BY RowsAgree DEF SameObject
  <2> HIDE DEF record
  <2>4. Ended(file, line[t], records[t], FALSE)
    BY <1>2, <2>1 DEF Ended
  <2>5. CASE record.threw
    <3>1. Ended(file, k, records[t], TRUE)
      <4>1. Len(records[t]) < k
        BY <1>3, <1>5, <2>1, <2>4 DEF Ended
      <4> QED
        BY <2>4, <4>1 DEF Ended
    <3> QED
      BY <1>1, <1>2, <2>1, <2>3, <2>5, <3>1
  <2>6. CASE ~record.threw
    <3>1. records'[t] = Append(records[t], record.at) /\ records'[s] = records[s]
      BY <1>3, <1>5, <2>3, <2>6, PushTyped
    <3>2. Ended(file, k, records'[t], FALSE)
      BY <1>3, <1>5, <2>1, <2>4, <2>6, <2>7, <3>1, EndedPush DEF record
    <3> QED
      BY <1>1, <1>2, <2>1, <2>3, <2>6, <3>1, <3>2
  <2> QED
    BY <2>5, <2>6
<1>10. CASE UNCHANGED csvVars
  BY <1>2, <1>10 DEF csvVars
<1> QED
  BY <1>6, <1>7, <1>8, <1>9, <1>10 DEF CsvNext, CsvFinished

(* ScriptsAgree, for any lines, header cells and number of rows.           *)
THEOREM TheScriptsAgree == CsvSpec => []ScriptsAgree
<1>1. CsvInit => Agreeing
  BY DEF CsvInit, Script, Agreeing
<1>2. CsvTyped /\ Agreeing => ScriptsAgree
  <2> SUFFICES ASSUME CsvTyped, Agreeing, Plain PROVE ScriptsAgree
    BY DEF ScriptsAgree
  <2> DEFINE s == "readFileCSV"
             t == "readFileCSVAnhHoang"
  <2>1. s \in Script /\ t \in Script
    BY DEF Script
  <2>2. PICK U : records \in [Script -> Seq(U)]
    BY DEF CsvTyped
  <2>3. records[s] \in Seq(U) /\ records[t] \in Seq(U) /\ line[s] \in Nat /\ line[t] \in Nat
    BY <2>1, <2>2 DEF CsvTyped
  <2>4. ASSUME NEW n \in DOMAIN records[s] \cap DOMAIN records[t]
        PROVE  SameRecord(records[s][n], records[t][n])
    <3>1. /\ n \in 1..Len(records[s]) /\ n \in 1..Len(records[t])
          /\ Len(records[s]) \in Nat /\ Len(records[t]) \in Nat
      BY <2>3
    <3>2. line[s] > 0 /\ line[t] > 0
      BY <2>1, <2>3, <3>1 DEF CsvTyped
    <3>3. Kept(file, line[s], records[s]) /\ Ended(file, line[t], records[t], dead)
      BY <3>2 DEF Agreeing
    <3>4. Clean(file, n + 1)
      <4>1. 2..n + 1 \subseteq 2..Len(records[t]) + 1
        BY <3>1
      <4> QED
        BY <3>3, <4>1 DEF Ended, Clean
    <3>5. n \in 1..line[s] - 1
      BY <2>3, <3>1, <3>3 DEF Kept
    <3>6. records[s][n] = RecordOf(file, n + 1).at
      BY <3>3, <3>4, <3>5 DEF Kept
    <3>7. records[t][n] = CastOf(file, n + 1).at
      BY <3>1, <3>3 DEF Ended
    <3> QED
      BY <3>6, <3>7, RowsAgree DEF SameObject
  <2> QED
    BY <2>4 DEF ScriptsAgree
<1> QED
  BY <1>1, <1>2, AgreeingNext, CsvTypes, PTL DEF CsvSpec

-----------------------------------------------------------------------------
(* Whatever the assignments: an object holds values of theirs, and building *)
(* it threw only if one of them stood in the way of a later one.           *)
InTheWay(as, n) ==
  \E i, j \in 1..n :
    /\ i < j
    /\ as[i].value \notin {Lost, Object} /\ Truthy(as[i].value)
    /\ IsStrictPrefix(as[i].path, as[j].path) /\ Len(as[i].path) + 1 < Len(as[j].path)

Given(as, n, at) ==
  \A q \in DOMAIN at :
    at[q] = Object \/ \E i \in 1..n : as[i].value # Lost /\ q = as[i].path /\ at[q] = as[i].value

LEMMA GivenLevels ==
  ASSUME NEW as, NEW n, NEW at, Given(as, n, at), NEW path
  PROVE  Given(as, n, MakeLevels(at, path))
<1> SUFFICES ASSUME NEW q \in DOMAIN MakeLevels(at, path), MakeLevels(at, path)[q] # Object
             PROVE  q \in DOMAIN at /\ MakeLevels(at, path)[q] = at[q]
  BY DEF Given
<1> QED
  BY DEF MakeLevels

LEMMA GivenSet ==
  ASSUME NEW as, NEW n \in Nat, NEW at, Given(as, n, at)
  PROVE  Given(as, n + 1, Changed(at, as[n + 1])) /\ Given(as, n + 1, at)
<1> DEFINE a == as[n + 1]
           levels == MakeLevels(at, Front(a.path))
<1>1. n + 1 \in 1..n + 1 /\ \A i \in 1..n : i \in 1..n + 1
  OBVIOUS
<1>2. ASSUME NEW r, Given(as, n, r) PROVE Given(as, n + 1, r)
  BY <1>1, <1>2 DEF Given
<1>3. Given(as, n + 1, MakeLevels(at, a.path)) /\ Given(as, n + 1, levels)
  BY <1>2, GivenLevels
<1> HIDE DEF levels
<1>4. ASSUME a.value # Lost PROVE Given(as, n + 1, Assign(levels, a.path, a.value))
  <2> DEFINE r == Assign(levels, a.path, a.value)
  <2>1. r[a.path] = a.value /\ \A q \in DOMAIN r : q # a.path => q \in DOMAIN levels /\ r[q] = levels[q]
    <3>1. DOMAIN r = {p \in DOMAIN levels : ~IsStrictPrefix(a.path, p)} \cup {a.path}
      BY DEF Assign
    <3>2. \A q \in DOMAIN r : r[q] = IF q = a.path THEN a.value ELSE levels[q]
      BY <3>1 DEF Assign
    <3> HIDE DEF r, a
    <3> QED
      BY <3>1, <3>2
  <2> HIDE DEF r
  <2> SUFFICES ASSUME NEW q \in DOMAIN r, r[q] # Object
               PROVE  \E i \in 1..n + 1 : as[i].value # Lost /\ q = as[i].path /\ r[q] = as[i].value
    BY DEF Given, r
  <2>2. CASE q = a.path
    BY <1>1, <1>4, <2>1, <2>2
  <2>3. CASE q # a.path
    BY <1>3, <2>1, <2>3 DEF Given
  <2> QED
    BY <2>2, <2>3
<1> QED
  BY <1>2, <1>3, <1>4 DEF Changed, levels

LEMMA NestGiven ==
  ASSUME NEW as, Len(as) \in Nat
  PROVE  /\ Nest(as).threw => InTheWay(as, Len(as))
         /\ Given(as, Len(as), Nest(as).at)
<1>1. PICK g : Stages(as, g)
  BY Nesting
<1> DEFINE N == Len(as)
           Good(n, o) == Built(o) /\ (o.threw => InTheWay(as, n)) /\ Given(as, n, o.at)
           T == {n \in Nat : n \in 0..N => Good(n, g[n])}
<1>2. N \in Nat
  OBVIOUS
<1> HIDE DEF N
<1>3. 0 \in T
  <2>1. Good(0, Blank)
    BY BlankBuilt DEF Given
  <2> HIDE DEF Good
  <2> QED
    BY <1>1, <2>1 DEF Stages
<1>4. ASSUME NEW n \in Nat, n \in T PROVE n + 1 \in T
  <2> SUFFICES ASSUME n + 1 \in 0..N PROVE Good(n + 1, g[n + 1])
    <3> HIDE DEF Good
    <3> QED
      OBVIOUS
  <2> DEFINE m == n + 1
             o == g[n]
             a == as[m]
  <2>1. n \in 0..N /\ m \in 1..N /\ m - 1 = n
    BY <1>2
  <2>2. Good(n, o)
    <3> HIDE DEF Good
    <3> QED
      BY <1>4, <2>1
  <2>3. g[m] = Set(o, a)
    BY <1>1, <2>1 DEF Stages, N
  <2> HIDE DEF o
  <2>4. Built(Set(o, a)) /\ Set(o, a).threw = Blocked(o, a)
    BY <2>2, SetCases
  <2>5. Given(as, m, Set(o, a).at)
    <3>1. Given(as, m, o.at) /\ Given(as, m, Changed(o.at, a))
      BY <2>2, GivenSet
    <3>2. Set(o, a).at = o.at \/ Set(o, a).at = Changed(o.at, a)
      BY <2>2, SetCases
    <3> QED
      BY <3>1, <3>2
  <2>6. ASSUME Blocked(o, a) PROVE InTheWay(as, m)
    <3>1. CASE o.threw
      <4>1. \A i \in 1..n : i \in 1..m
        OBVIOUS
      <4> QED
        BY <2>2, <3>1, <4>1 DEF InTheWay
    <3>2. CASE ~o.threw
      <4>1. PICK q \in Obstacles(o.at, a.path) : Len(q) + 1 < Len(a.path)
        BY <2>6, <3>2 DEF Blocked
      <4>2. q \in DOMAIN o.at /\ IsStrictPrefix(q, a.path) /\ Truthy(o.at[q]) /\ o.at[q] # Object
        BY DEF Obstacles
      <4>3. PICK i \in 1..n : as[i].value # Lost /\ q = as[i].path /\ o.at[q] = as[i].value
        BY <2>2, <4>2 DEF Given
      <4>4. i \in 1..m /\ m \in 1..m /\ i < m
        OBVIOUS
      <4> QED
        BY <4>1, <4>2, <4>3, <4>4 DEF InTheWay
    <3> QED
      BY <3>1, <3>2
  <2> QED
    BY <2>3, <2>4, <2>5, <2>6
<1>5. Nat \subseteq T
  <2> HIDE DEF T
  <2> QED
    BY <1>3, <1>4, NatSet
<1>6. Good(N, g[N])
  <2> HIDE DEF Good
  <2> QED
    BY <1>2, <1>5
<1> QED
  BY <1>1, <1>6 DEF Stages, N

-----------------------------------------------------------------------------
(* What the first script assigns for a column.                             *)
LEMMA PlaceType ==
  ASSUME NEW header \in CellText, NEW value
  PROVE  /\ Place(header) \in Seq(Name)
         /\ SkipEmptyNames([path |-> PropertyPath(header), value |-> value])
              = [path |-> Place(header), value |-> IF Keeps(header) THEN value ELSE Lost]
<1> DEFINE path == PropertyPath(header)
           names == [i \in DOMAIN path |-> IF path[i] = EmptyWord THEN <<>> ELSE <<path[i]>>]
<1>1. path \in Seq(Name) /\ path # <<>>
  BY PathType DEF Path
<1>2. Place(header) = FlattenSeq(names)
  BY DEF Place, SkipEmptyNames
<1>3. SkipEmptyNames([path |-> path, value |-> value])
        = [path |-> FlattenSeq(names), value |-> IF path # <<>> /\ Last(path) = EmptyWord THEN Lost ELSE value]
  BY DEF SkipEmptyNames
<1>4. FlattenSeq(names) \in Seq(Name)
  <2>1. \A i \in 1..Len(path) : <<path[i]>> \in Seq(Name)
    BY <1>1
  <2>2. names \in [1..Len(path) -> Seq(Name)] /\ Len(path) \in Nat /\ Len(path) # 0
    BY <1>1, <2>1
  <2> HIDE DEF names, path
  <2>3. names \in Seq(Seq(Name)) /\ names # <<>>
    BY <2>2, LenOfFunction
  <2>4. \A s, t \in Seq(Name) : s \o t \in Seq(Name)
    OBVIOUS
  <2> QED
    BY <2>3, <2>4, FlattenType
<1> HIDE DEF names, path
<1> QED
  BY <1>1, <1>2, <1>3, <1>4 DEF Keeps, path

LEMMA TruthyCell ==
  ASSUME NEW cell, Truthy(ConvertToNumber(cell))
  PROVE  cell \notin {EmptyCell, ZeroCell}
<1>1. ~IsNumeral(EmptyCell) /\ IsNumeral(ZeroCell)
  BY NumeralAssumption DEF IsNumeral, EmptyCell, EmptyWord, ZeroCell
<1> QED
  BY <1>1 DEF ConvertToNumber, Truthy

(* What LostRowsWereObstructed says of a row of the file, and of a record. *)
Obstructed(f, hs, k) ==
  LET cells == ExtractRowValues(f[k])
  IN \E i, j, m \in DOMAIN hs :
       /\ i < j /\ hs[m] = hs[i] /\ \A n \in DOMAIN hs : hs[n] = hs[i] => n <= m
       /\ Keeps(hs[i]) /\ cells[m] \notin {EmptyCell, ZeroCell}
       /\ IsStrictPrefix(Place(hs[i]), Place(hs[j])) /\ Len(Place(hs[i])) + 1 < Len(Place(hs[j]))

Holds(f, hs, k, record) ==
  LET cells == ExtractRowValues(f[k])
  IN \A q \in {p \in DOMAIN record : record[p] # Object} :
       \E i \in DOMAIN hs : /\ Keeps(hs[i]) /\ q = Place(hs[i])
                           /\ \A j \in DOMAIN hs : hs[j] = hs[i] => j <= i
                           /\ record[q] = ConvertToNumber(cells[i])

LEMMA RowMakesRecord ==
  ASSUME NEW f, NEW hs \in Seq(CellText), NEW k, Fits(ExtractRowValues(f[k]), hs),
         ExtractRowValues(f[k]) \in Seq(CellText)
  PROVE  LET cells == ExtractRowValues(f[k])
             record == ConvertDotNotationToNested(hs, [i \in DOMAIN cells |-> ConvertToNumber(cells[i])])
         IN /\ record.threw => Obstructed(f, hs, k)
            /\ Holds(f, hs, k, record.at)
<1> DEFINE cells == ExtractRowValues(f[k])
           values == [i \in DOMAIN cells |-> ConvertToNumber(cells[i])]
           row == FlatRow(hs, values)
           as == [i \in DOMAIN hs |-> SkipEmptyNames(row[i])]
           Final(i, m) == m \in DOMAIN hs /\ hs[m] = hs[i] /\ \A n \in DOMAIN hs : hs[n] = hs[i] => n <= m
<1>1. DOMAIN cells = DOMAIN hs /\ DOMAIN hs = 1..Len(hs) /\ Len(hs) \in Nat
  BY DEF Fits
<1>2. \A i \in DOMAIN hs : values[i] = ConvertToNumber(cells[i])
  BY <1>1
<1>3. ConvertDotNotationToNested(hs, values) = Nest(as)
  BY DEF ConvertDotNotationToNested
<1> HIDE DEF values
<1>4. ASSUME NEW i \in DOMAIN hs
      PROVE  \/ as[i] = Nothing
             \/ \E m : /\ Final(i, m)
                       /\ as[i] = [path |-> Place(hs[i]), value |-> IF Keeps(hs[i]) THEN values[m] ELSE Lost]
  <2>1. as[i] = SkipEmptyNames(row[i]) /\ hs[i] \in CellText
    OBVIOUS
  <2> HIDE DEF as
  <2>2. CASE row[i] = Nothing
    BY <2>1, <2>2, SkipNothing
  <2>3. CASE row[i] # Nothing
    <3> DEFINE m == Max({j \in DOMAIN hs : hs[j] = hs[i]})
    <3>1. Final(i, m) /\ row[i] = [path |-> PropertyPath(hs[i]), value |-> values[m]]
      BY <2>3, FlatCell
    <3> HIDE DEF m, row, Final
    <3> QED
      BY <2>1, <3>1, PlaceType
  <2> QED
    BY <2>2, <2>3
<1>5. Len(as) = Len(hs)
  <2> DEFINE U == {as[i] : i \in DOMAIN hs}
  <2>1. as \in [1..Len(hs) -> U]
    BY <1>1
  <2> HIDE DEF as, U
  <2> QED
    BY <1>1, <2>1, LenOfFunction
<1> HIDE DEF as
<1>6. /\ Nest(as).threw => InTheWay(as, Len(hs))
      /\ Given(as, Len(hs), Nest(as).at)
  BY <1>1, <1>5, NestGiven
<1>7. ASSUME NEW i \in DOMAIN hs, as[i].value # Lost
      PROVE  \E m : /\ Final(i, m) /\ Keeps(hs[i]) /\ as[i].path = Place(hs[i])
                    /\ as[i].value = ConvertToNumber(cells[m])
  <2>1. as[i] # Nothing
    <3>1. Nothing.value = Lost
      BY DEF Nothing
    <3> QED
      BY <1>7, <3>1
  <2> HIDE DEF Final
  <2>2. PICK m : /\ Final(i, m)
                 /\ as[i] = [path |-> Place(hs[i]), value |-> IF Keeps(hs[i]) THEN values[m] ELSE Lost]
    BY <1>4, <2>1
  <2>3. Keeps(hs[i]) /\ as[i].path = Place(hs[i]) /\ as[i].value = values[m]
    BY <1>7, <2>2
  <2>4. values[m] = ConvertToNumber(cells[m])
    BY <1>2, <2>2 DEF Final
  <2> QED
    BY <2>2, <2>3, <2>4
<1>8. ASSUME InTheWay(as, Len(hs)) PROVE Obstructed(f, hs, k)
  <2>1. PICK i \in 1..Len(hs), j \in 1..Len(hs) :
          /\ i < j
          /\ as[i].value \notin {Lost, Object} /\ Truthy(as[i].value)
          /\ IsStrictPrefix(as[i].path, as[j].path) /\ Len(as[i].path) + 1 < Len(as[j].path)
    BY <1>8 DEF InTheWay
  <2>2. PICK m : /\ Final(i, m) /\ Keeps(hs[i]) /\ as[i].path = Place(hs[i])
                 /\ as[i].value = ConvertToNumber(cells[m])
    <3> HIDE DEF Final
    <3> QED
      BY <1>1, <1>7, <2>1
  <2>3. as[j].path = Place(hs[j])
    <3>1. as[j] # Nothing
      <4>1. hs[i] \in CellText
        BY <1>1
      <4>2. Place(hs[i]) \in Seq(Name)
        BY <4>1, PlaceType
      <4>3. Len(as[i].path) \in Nat
        BY <2>2, <4>2
      <4>4. Nothing.path = <<>> /\ Len(<<>>) = 0
        BY DEF Nothing
      <4>5. ASSUME as[j] = Nothing PROVE FALSE
        <5>1. Len(as[j].path) = 0
          BY <4>4, <4>5
        <5> DEFINE n == Len(as[i].path)
        <5>2. n + 1 < 0 /\ n \in Nat
          BY <2>1, <4>3, <5>1
        <5> HIDE DEF n
        <5> QED
          BY <5>2
      <4> QED
        BY <4>5
    <3> HIDE DEF Final
    <3>2. PICK n : /\ Final(j, n)
                   /\ as[j] = [path |-> Place(hs[j]), value |-> IF Keeps(hs[j]) THEN values[n] ELSE Lost]
      BY <1>1, <1>4, <3>1
    <3> QED
      BY <3>2
  <2>4. cells[m] \notin {EmptyCell, ZeroCell}
    BY <2>1, <2>2, TruthyCell
  <2> QED
    BY <1>1, <2>1, <2>2, <2>3, <2>4 DEF Obstructed
<1>9. Holds(f, hs, k, Nest(as).at)
  <2> DEFINE at == Nest(as).at
  <2> HIDE DEF at
  <2> SUFFICES ASSUME NEW q \in DOMAIN at, at[q] # Object
               PROVE  \E i \in DOMAIN hs : /\ Keeps(hs[i]) /\ q = Place(hs[i])
                                           /\ \A j \in DOMAIN hs : hs[j] = hs[i] => j <= i
                                           /\ at[q] = ConvertToNumber(cells[i])
    BY DEF Holds, at
  <2>1. PICK i \in DOMAIN hs : as[i].value # Lost /\ q = as[i].path /\ at[q] = as[i].value
    BY <1>1, <1>6 DEF Given, at
  <2>2. PICK m : /\ Final(i, m) /\ Keeps(hs[i]) /\ as[i].path = Place(hs[i])
                 /\ as[i].value = ConvertToNumber(cells[m])
    <3> HIDE DEF Final
    <3> QED
      BY <1>7, <2>1
  <2> QED
    BY <2>1, <2>2
<1> QED
  BY <1>3, <1>6, <1>8, <1>9 DEF values

(* The same of the first l lines and the records made of them.             *)
AccountedBy(f, l, hs, rs, row) ==
  /\ row \in [DOMAIN rs -> 2..l]
  /\ \A m, n \in DOMAIN row : m < n => row[m] < row[n]
  /\ \A n \in DOMAIN row : Fits(ExtractRowValues(f[row[n]]), hs)
  /\ \A k \in 2..l : Fits(ExtractRowValues(f[k]), hs) =>
                      Obstructed(f, hs, k) \/ k \in {row[n] : n \in DOMAIN row}
  /\ \A n \in DOMAIN row : Holds(f, hs, row[n], rs[n])

Accounted(f, l, hs, rs) == \E row : AccountedBy(f, l, hs, rs, row)

AllAccounted ==
  LET s == "readFileCSV"
  IN line[s] > 0 => Accounted(file, line[s], headers[s], records[s])

LEMMA AccountedHeader ==
  ASSUME NEW f, NEW hs
  PROVE  Accounted(f, 1, hs, <<>>)
<1>1. AccountedBy(f, 1, hs, <<>>, [n \in DOMAIN <<>> |-> 2])
  BY DEF AccountedBy
<1> QED
  BY <1>1 DEF Accounted

LEMMA AccountedSkip ==
  ASSUME NEW f, NEW l \in Nat \ {0}, NEW hs, NEW rs, Accounted(f, l, hs, rs),
         Fits(ExtractRowValues(f[l + 1]), hs) => Obstructed(f, hs, l + 1)
  PROVE  Accounted(f, l + 1, hs, rs)
<1>1. PICK row : AccountedBy(f, l, hs, rs, row)
  BY DEF Accounted
<1>2. 2..l \subseteq 2..l + 1 /\ \A k \in 2..l + 1 : k = l + 1 \/ k \in 2..l
  OBVIOUS
<1>3. AccountedBy(f, l + 1, hs, rs, row)
  BY <1>1, <1>2 DEF AccountedBy
<1> QED
  BY <1>3 DEF Accounted

LEMMA AccountedPush ==
  ASSUME NEW f, NEW l \in Nat \ {0}, NEW hs, NEW U, NEW rs \in Seq(U), Accounted(f, l, hs, rs),
         Fits(ExtractRowValues(f[l + 1]), hs),
         NEW record, Holds(f, hs, l + 1, record)
  PROVE  Accounted(f, l + 1, hs, Append(rs, record))
<1>1. PICK row : AccountedBy(f, l, hs, rs, row)
  BY DEF Accounted
<1> DEFINE N == Len(rs)
           ss == Append(rs, record)
           next == [n \in 1..N + 1 |-> IF n = N + 1 THEN l + 1 ELSE row[n]]
<1>2. N \in Nat /\ DOMAIN rs = 1..N
  OBVIOUS
<1>3. DOMAIN ss = 1..N + 1 /\ ss[N + 1] = record /\ \A n \in 1..N : ss[n] = rs[n]
  OBVIOUS
<1> HIDE DEF N, ss
<1>4. row \in [1..N -> 2..l]
  BY <1>1, <1>2 DEF AccountedBy
<1>5. /\ next \in [1..N + 1 -> 2..l + 1]
      /\ next[N + 1] = l + 1
      /\ \A n \in 1..N : next[n] = row[n] /\ row[n] \in 2..l
  BY <1>2, <1>4
<1>6. \A n \in 1..N + 1 : n = N + 1 \/ n \in 1..N
  BY <1>2
<1> HIDE DEF next
<1>7. ASSUME NEW m \in 1..N + 1, NEW n \in 1..N + 1, m < n PROVE next[m] < next[n]
  <2>1. m \in 1..N
    BY <1>2, <1>7
  <2>2. CASE n = N + 1
    BY <1>5, <2>1, <2>2
  <2>3. CASE n \in 1..N
    BY <1>1, <1>2, <1>4, <1>5, <1>7, <2>1, <2>3 DEF AccountedBy
  <2> QED
    BY <1>6, <2>2, <2>3
<1>8. ASSUME NEW k \in 2..l + 1, Fits(ExtractRowValues(f[k]), hs)
      PROVE  Obstructed(f, hs, k) \/ k \in {next[n] : n \in DOMAIN next}
  <2>1. CASE k = l + 1
    <3>1. N + 1 \in DOMAIN next
      BY <1>2, <1>5
    <3> QED
      BY <1>5, <2>1, <3>1
  <2>2. CASE k \in 2..l
    <3>1. \A n \in DOMAIN row : n \in DOMAIN next /\ next[n] = row[n]
      BY <1>2, <1>4, <1>5
    <3>2. Obstructed(f, hs, k) \/ k \in {row[n] : n \in DOMAIN row}
      BY <1>1, <1>8, <2>2 DEF AccountedBy
    <3> QED
      BY <3>1, <3>2
  <2> QED
    BY <2>1, <2>2
<1>9. ASSUME NEW n \in 1..N + 1
      PROVE  Fits(ExtractRowValues(f[next[n]]), hs) /\ Holds(f, hs, next[n], ss[n])
  <2>1. CASE n = N + 1
    BY <1>3, <1>5, <2>1
  <2>2. CASE n \in 1..N
    BY <1>1, <1>3, <1>4, <1>5, <2>2 DEF AccountedBy
  <2> QED
    BY <1>6, <2>1, <2>2
<1>10. AccountedBy(f, l + 1, hs, ss, next)
  BY <1>3, <1>5, <1>7, <1>8, <1>9 DEF AccountedBy
<1> QED
  BY <1>10 DEF Accounted, ss

LEMMA AllAccountedNext == CsvTyped /\ AllAccounted /\ [CsvNext]_csvVars => AllAccounted'
<1> SUFFICES ASSUME CsvTyped, AllAccounted, [CsvNext]_csvVars
             PROVE  AllAccounted'
  OBVIOUS
<1> DEFINE s == "readFileCSV"
           other == "readFileCSVAnhHoang"
<1>2. s \in Script /\ other \in Script /\ s # other
  BY DEF Script
<1>3. CASE UNCHANGED <<file, line[s], headers[s], records[s]>>
  BY <1>3 DEF AllAccounted
<1>4. CASE ReadHeaders(s, ExtractRowValues(file[1]))
  <2>1. line[s] = 0 /\ line' = [line EXCEPT ![s] = line[s] + 1] /\ records' = records
    BY <1>4 DEF ReadHeaders, NextLine
  <2>2. line'[s] = 1 /\ records'[s] = <<>>
    BY <1>2, <2>1 DEF CsvTyped
  <2> QED
    BY <2>2, AccountedHeader DEF AllAccounted
<1>5. CASE ReadHeaders(other, SplitCommas(file[1]))
  BY <1>2, <1>3, <1>5 DEF ReadHeaders, NextLine, CsvTyped
<1>6. CASE ReadCsvRow
  <2>1. UNCHANGED <<file, line[s], headers[s]>>
    BY <1>2, <1>6 DEF ReadCsvRow, NextLine, CsvTyped
  <2>2. UNCHANGED records \/ \E object : Push(other, object)
    BY <1>6 DEF ReadCsvRow
  <2>3. UNCHANGED records[s]
    BY <1>2, <2>2, PushTyped DEF CsvTyped
  <2> QED
    BY <1>3, <2>1, <2>3
<1>7. CASE ProcessRow
  <2> DEFINE k == line[s] + 1
             cells == ExtractRowValues(file[k])
             record == ConvertDotNotationToNested(headers[s], [i \in DOMAIN cells |-> ConvertToNumber(cells[i])])
  <2>1. /\ line[s] \in Nat \ {0} /\ line'[s] = k
        /\ UNCHANGED <<file, headers>>
        /\ headers[s] \in Seq(CellText)
        /\ k \in 1..Len(file)
    BY <1>2, <1>7 DEF ProcessRow, NextLine, CsvTyped
  <2>2. cells \in Seq(CellText)
    BY <2>1, ExtractType DEF CsvTyped
  <2>3. \/ ~Fits(cells, headers[s]) /\ UNCHANGED records
        \/ Fits(cells, headers[s]) /\ record.threw /\ UNCHANGED records
        \/ Fits(cells, headers[s]) /\ ~record.threw /\ Push(s, record)
    BY <1>7 DEF ProcessRow, Current
  <2>4. Accounted(file, line[s], headers[s], records[s])
    BY <2>1 DEF AllAccounted
  <2>5. Fits(cells, headers[s]) =>
          /\ record.threw => Obstructed(file, headers[s], k)
          /\ Holds(file, headers[s], k, record.at)
    BY <2>1, <2>2, RowMakesRecord
  <2> HIDE DEF cells, record
  <2>6. CASE UNCHANGED records /\ (Fits(cells, headers[s]) => Obstructed(file, headers[s], k))
    <3>1. Accounted(file, k, headers[s], records[s])
      BY <2>1, <2>4, <2>6, AccountedSkip DEF cells
    <3> QED
      BY <2>1, <2>6, <3>1 DEF AllAccounted
  <2>7. CASE Fits(cells, headers[s]) /\ ~record.threw /\ Push(s, record)
    <3>1. PICK U : records \in [Script -> Seq(U)]
      BY DEF CsvTyped
    <3>2. records[s] \in Seq(U) /\ records'[s] = Append(records[s], record.at)
      BY <1>2, <2>7, <3>1, PushTyped
    <3>3. Accounted(file, k, headers[s], records'[s])
      BY <2>1, <2>4, <2>5, <2>7, <3>2, AccountedPush DEF cells
    <3> QED
      BY <2>1, <3>3 DEF AllAccounted
  <2> QED
    BY <2>3, <2>5, <2>6, <2>7
<1>8. CASE UNCHANGED csvVars
  BY <1>3, <1>8 DEF csvVars
<1> QED
  BY <1>4, <1>5, <1>6, <1>7, <1>8 DEF CsvNext, CsvFinished

(* LostRowsWereObstructed, for any lines, header cells and number of rows. *)
THEOREM LostRowsAreObstructed == CsvSpec => []LostRowsWereObstructed
<1>1. CsvInit => AllAccounted
  BY DEF CsvInit, Script, AllAccounted
<1>2. AllAccounted => LostRowsWereObstructed
  BY DEF AllAccounted, Accounted, AccountedBy, Obstructed, Holds, LostRowsWereObstructed
<1> QED
  BY <1>1, <1>2, AllAccountedNext, CsvTypes, PTL DEF CsvSpec

=============================================================================
