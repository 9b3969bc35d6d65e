-------------------------- MODULE ReadModelsProofs --------------------------
(***************************************************************************)
(* For every log, alteration and order of jobs: the view tables keep their *)
(* types; what is served as complete is a projection of all the evidence;  *)
(* the tolerant reading and the strict one agree on every log that the     *)
(* runtime accepts; and over such a log nobody is asked to look at what is *)
(* in order.                                                               *)
(***************************************************************************)
EXTENDS ReadModels, SequenceTheorems, FiniteSetTheorems, TLAPS

-----------------------------------------------------------------------------
(* Induction, as a fact about sets.                                        *)

\* A set of naturals that holds 0 and with a number its successor holds them all.
LEMMA Induction ==
  ASSUME NEW T, T \subseteq Nat, 0 \in T, \A n \in T : n + 1 \in T
  PROVE  T = Nat
<1> DEFINE less == OpToRel(<, Nat)
           Rest == Nat \ T
<1>1. SUFFICES ASSUME Rest # {}
               PROVE  FALSE
  OBVIOUS
<1>2. PICK m \in Rest : \A n \in Rest : <<n, m>> \notin less
  <2>1. IsWellFoundedOn(less, Nat)
    BY NatLessThanWellFounded
  <2>2. Rest \subseteq Nat
    OBVIOUS
  <2> HIDE DEF less, Rest
  <2> QED
    BY <1>1, <2>1, <2>2, WFMin
<1>3. \A n \in Rest : ~(n < m)
  BY <1>2 DEF OpToRel
<1>4. m - 1 \in T
  BY <1>3
<1>5. (m - 1) + 1 = m
  OBVIOUS
<1> QED
  BY <1>4, <1>5

\* A sequence that is not empty ends in its last element.
LEMMA LastOfSeq ==
  ASSUME NEW S, NEW f \in Seq(S), NEW n \in Nat, Len(f) = n + 1
  PROVE  \E front \in Seq(S), last \in S : f = Append(front, last) /\ Len(front) = n
<1>1. n + 1 \in 1 .. Len(f) /\ 1 \in 1 .. Len(f) /\ n + 1 \in 1 .. n + 1
  OBVIOUS
<1>2. f[n + 1] \in S
  BY <1>1, ElementOfSeq
<1>3. SubSeq(f, 1, n) \in Seq(S) /\ Len(SubSeq(f, 1, n)) = n
  BY SubSeqProperties, LenProperties, ElementOfSeq
<1>4. SubSeq(f, 1, n + 1) = SubSeq(f, 1, n) \o <<f[n + 1]>>
  BY <1>1, SubSeqRecursiveSecond
<1>5. SubSeq(f, 1, n + 1) = f
  BY SubSeqFull
<1>6. f = Append(SubSeq(f, 1, n), f[n + 1])
  BY <1>2, <1>3, <1>4, <1>5, AppendIsConcat
<1> QED
  BY <1>2, <1>3, <1>6

-----------------------------------------------------------------------------
(* The two readings, as folds of the rows.                                 *)

OKRow == [is : {"OK"}, event : Event, id : Nat \ {0}]

\* The tolerant reading of rows, row by row, is g.
SeenBy(g, rows) ==
  g = [k \in 0 .. Len(rows) |-> IF k = 0 THEN NoViews ELSE Viewed(g[k - 1], rows[k])]

\* One function is the fold over rows.
SeenDefined(rows) == \E g : \A h : SeenBy(h, rows) <=> h = g

LEMMA SeenIsDefined ==
  ASSUME NEW rows, NEW f, \A h : SeenBy(h, rows) <=> h = f
  PROVE  SeenDefined(rows)
BY DEF SeenDefined

LEMMA SeenIsFold ==
  ASSUME NEW rows, NEW g, \A h : SeenBy(h, rows) <=> h = g
  PROVE  Seen(rows) = g[Len(rows)]
<1>1. g = CHOOSE h : SeenBy(h, rows)
  OBVIOUS
<1>2. Seen(rows) = (CHOOSE h : SeenBy(h, rows))[Len(rows)]
  BY DEF Seen, SeenBy
<1> QED
  BY <1>1, <1>2

LEMMA SeenStarts ==
  ASSUME NEW rows, Len(rows) = 0
  PROVE  SeenDefined(rows) /\ Seen(rows) = NoViews
<1> DEFINE g == [k \in 0 .. 0 |-> NoViews]
<1>1. \A h : SeenBy(h, rows) <=> h = g
  <2>1. ASSUME NEW h, SeenBy(h, rows)
        PROVE  h = g
    BY <2>1 DEF SeenBy
  <2>2. SeenBy(g, rows)
    BY DEF SeenBy
  <2> QED
    BY <2>1, <2>2
<1>2. Seen(rows) = g[0]
  BY <1>1, SeenIsFold
<1>3. g[0] = NoViews
  OBVIOUS
<1> HIDE DEF g
<1>4. SeenDefined(rows)
  BY ONLY <1>1, SeenIsDefined
<1> QED
  BY <1>2, <1>3, <1>4

LEMMA SeenGrows ==
  ASSUME NEW rows \in Seq(OKRow), NEW row \in OKRow, SeenDefined(rows)
  PROVE  /\ SeenDefined(Append(rows, row))
         /\ Seen(Append(rows, row)) = Viewed(Seen(rows), row)
<1> DEFINE F == Append(rows, row)
           n == Len(rows)
<1>1. /\ Len(F) = n + 1 /\ n \in Nat
      /\ \A k \in 1 .. n : F[k] = rows[k]
      /\ F[n + 1] = row
  BY AppendProperties
<1>2. PICK g : \A h : SeenBy(h, rows) <=> h = g
  BY DEF SeenDefined
<1>3. g = [k \in 0 .. n |-> IF k = 0 THEN NoViews ELSE Viewed(g[k - 1], rows[k])]
  BY <1>2 DEF SeenBy
<1> DEFINE G == [k \in 0 .. n + 1 |-> IF k <= n THEN g[k] ELSE Viewed(g[n], row)]
<1> HIDE DEF F, n
<1>4. SeenBy(G, F)
  <2>1. ASSUME NEW k \in 0 .. n + 1
        PROVE  G[k] = IF k = 0 THEN NoViews ELSE Viewed(G[k - 1], F[k])
    <3>1. CASE k = 0
      BY <1>1, <1>3, <3>1
    <3>2. CASE k \in 1 .. n
      BY <1>1, <1>3, <3>2
    <3>3. CASE k = n + 1
      BY <1>1, <3>3
    <3> QED
      BY <1>1, <3>1, <3>2, <3>3
  <2> QED
    BY <1>1, <2>1 DEF SeenBy
<1>5. ASSUME NEW h, SeenBy(h, F)
      PROVE  h = G
  <2>1. h = [k \in 0 .. n + 1 |-> IF k = 0 THEN NoViews ELSE Viewed(h[k - 1], F[k])]
    BY <1>1, <1>5 DEF SeenBy
  <2> DEFINE r == [k \in 0 .. n |-> h[k]]
  <2>2. SeenBy(r, rows)
    <3>1. ASSUME NEW k \in 0 .. n
          PROVE  r[k] = IF k = 0 THEN NoViews ELSE Viewed(r[k - 1], rows[k])
      <4>1. CASE k = 0
        BY <1>1, <2>1, <4>1
      <4>2. CASE k \in 1 .. n
        BY <1>1, <2>1, <4>2
      <4> QED
        BY <1>1, <4>1, <4>2
    <3> QED
      BY <3>1 DEF SeenBy, n
  <2>3. r = g
    BY <1>2, <2>2
  <2>4. \A k \in 0 .. n : h[k] = g[k]
    BY <2>3
  <2>5. h[n + 1] = Viewed(g[n], row)
    <3>1. n + 1 \in 0 .. n + 1 /\ n + 1 # 0 /\ (n + 1) - 1 = n /\ n \in 0 .. n
      BY <1>1
    <3>2. h[n + 1] = Viewed(h[n], F[n + 1])
      BY <2>1, <3>1
    <3> QED
      BY <1>1, <2>4, <3>1, <3>2
  <2>6. \A k \in 0 .. n + 1 : h[k] = G[k]
    BY <1>1, <2>4, <2>5
  <2>7. h = [k \in 0 .. n + 1 |-> h[k]]
    BY <2>1
  <2>8. G = [k \in 0 .. n + 1 |-> G[k]]
    OBVIOUS
  <2> HIDE DEF G
  <2> QED
    BY <2>6, <2>7, <2>8
<1>6. \A h : SeenBy(h, F) <=> h = G
  BY <1>4, <1>5
<1>7. Seen(rows) = g[n] /\ Seen(F) = G[n + 1]
  BY <1>1, <1>2, <1>6, SeenIsFold DEF n
<1>8. G[n + 1] = Viewed(Seen(rows), row)
  BY <1>1, <1>7
<1> HIDE DEF G
<1>9. SeenDefined(F)
  BY ONLY <1>6, SeenIsDefined
<1> QED
  BY <1>7, <1>8, <1>9 DEF F

LEMMA SeenAlways ==
  ASSUME NEW rows \in Seq(OKRow)
  PROVE  SeenDefined(rows)
<1> DEFINE Lengths == {n \in Nat : \A f \in Seq(OKRow) : Len(f) = n => SeenDefined(f)}
<1>1. 0 \in Lengths
  BY SeenStarts
<1>2. ASSUME NEW n \in Lengths
      PROVE  n + 1 \in Lengths
  <2> SUFFICES ASSUME NEW f \in Seq(OKRow), Len(f) = n + 1
               PROVE  SeenDefined(f)
    OBVIOUS
  <2>1. PICK front \in Seq(OKRow), last \in OKRow : f = Append(front, last) /\ Len(front) = n
    BY LastOfSeq
  <2>2. SeenDefined(front)
    BY <2>1
  <2> QED
    BY <2>1, <2>2, SeenGrows
<1>3. Lengths = Nat
  <2> HIDE DEF Lengths
  <2>1. Lengths \subseteq Nat
    BY DEF Lengths
  <2> QED
    BY <1>1, <1>2, <2>1, Induction
<1> QED
  BY <1>3, LenProperties

\* The strict reading of rows, row by row, is g.
StrictBy(g, rows) ==
  g = [k \in 0 .. Len(rows) |-> IF k = 0 THEN StrictStart ELSE StrictStep(g[k - 1], rows[k])]

\* One function is the fold over rows.
StrictDefined(rows) == \E g : \A h : StrictBy(h, rows) <=> h = g

LEMMA StrictIsDefined ==
  ASSUME NEW rows, NEW f, \A h : StrictBy(h, rows) <=> h = f
  PROVE  StrictDefined(rows)
BY DEF StrictDefined

LEMMA StrictIsFold ==
  ASSUME NEW rows, NEW g, \A h : StrictBy(h, rows) <=> h = g
  PROVE  Strict(rows) = g[Len(rows)]
<1>1. g = CHOOSE h : StrictBy(h, rows)
  OBVIOUS
<1>2. Strict(rows) = (CHOOSE h : StrictBy(h, rows))[Len(rows)]
  BY DEF Strict, StrictBy
<1> QED
  BY <1>1, <1>2

LEMMA StrictStarts ==
  ASSUME NEW rows, Len(rows) = 0
  PROVE  StrictDefined(rows) /\ Strict(rows) = StrictStart
<1> DEFINE g == [k \in 0 .. 0 |-> StrictStart]
<1>1. \A h : StrictBy(h, rows) <=> h = g
  <2>1. ASSUME NEW h, StrictBy(h, rows)
        PROVE  h = g
    BY <2>1 DEF StrictBy
  <2>2. StrictBy(g, rows)
    BY DEF StrictBy
  <2> QED
    BY <2>1, <2>2
<1>2. Strict(rows) = g[0]
  BY <1>1, StrictIsFold
<1>3. g[0] = StrictStart
  OBVIOUS
<1> HIDE DEF g
<1>4. StrictDefined(rows)
  BY ONLY <1>1, StrictIsDefined
<1> QED
  BY <1>2, <1>3, <1>4

LEMMA StrictGrows ==
  ASSUME NEW rows \in Seq(OKRow), NEW row \in OKRow, StrictDefined(rows)
  PROVE  /\ StrictDefined(Append(rows, row))
         /\ Strict(Append(rows, row)) = StrictStep(Strict(rows), row)
<1> DEFINE F == Append(rows, row)
           n == Len(rows)
<1>1. /\ Len(F) = n + 1 /\ n \in Nat
      /\ \A k \in 1 .. n : F[k] = rows[k]
      /\ F[n + 1] = row
  BY AppendProperties
<1>2. PICK g : \A h : StrictBy(h, rows) <=> h = g
  BY DEF StrictDefined
<1>3. g = [k \in 0 .. n |-> IF k = 0 THEN StrictStart ELSE StrictStep(g[k - 1], rows[k])]
  BY <1>2 DEF StrictBy
<1> DEFINE G == [k \in 0 .. n + 1 |-> IF k <= n THEN g[k] ELSE StrictStep(g[n], row)]
<1> HIDE DEF F, n
<1>4. StrictBy(G, F)
  <2>1. ASSUME NEW k \in 0 .. n + 1
        PROVE  G[k] = IF k = 0 THEN StrictStart ELSE StrictStep(G[k - 1], F[k])
    <3>1. CASE k = 0
      BY <1>1, <1>3, <3>1
    <3>2. CASE k \in 1 .. n
      BY <1>1, <1>3, <3>2
    <3>3. CASE k = n + 1
      BY <1>1, <3>3
    <3> QED
      BY <1>1, <3>1, <3>2, <3>3
  <2> QED
    BY <1>1, <2>1 DEF StrictBy
<1>5. ASSUME NEW h, StrictBy(h, F)
      PROVE  h = G
  <2>1. h = [k \in 0 .. n + 1 |-> IF k = 0 THEN StrictStart ELSE StrictStep(h[k - 1], F[k])]
    BY <1>1, <1>5 DEF StrictBy
  <2> DEFINE r == [k \in 0 .. n |-> h[k]]
  <2>2. StrictBy(r, rows)
    <3>1. ASSUME NEW k \in 0 .. n
          PROVE  r[k] = IF k = 0 THEN StrictStart ELSE StrictStep(r[k - 1], rows[k])
      <4>1. CASE k = 0
        BY <1>1, <2>1, <4>1
      <4>2. CASE k \in 1 .. n
        BY <1>1, <2>1, <4>2
      <4> QED
        BY <1>1, <4>1, <4>2
    <3> QED
      BY <3>1 DEF StrictBy, n
  <2>3. r = g
    BY <1>2, <2>2
  <2>4. \A k \in 0 .. n : h[k] = g[k]
    BY <2>3
  <2>5. h[n + 1] = StrictStep(g[n], row)
    <3>1. n + 1 \in 0 .. n + 1 /\ n + 1 # 0 /\ (n + 1) - 1 = n /\ n \in 0 .. n
      BY <1>1
    <3>2. h[n + 1] = StrictStep(h[n], F[n + 1])
      BY <2>1, <3>1
    <3> QED
      BY <1>1, <2>4, <3>1, <3>2
  <2>6. \A k \in 0 .. n + 1 : h[k] = G[k]
    BY <1>1, <2>4, <2>5
  <2>7. h = [k \in 0 .. n + 1 |-> h[k]]
    BY <2>1
  <2>8. G = [k \in 0 .. n + 1 |-> G[k]]
    OBVIOUS
  <2> HIDE DEF G
  <2> QED
    BY <2>6, <2>7, <2>8
<1>6. \A h : StrictBy(h, F) <=> h = G
  BY <1>4, <1>5
<1>7. Strict(rows) = g[n] /\ Strict(F) = G[n + 1]
  BY <1>1, <1>2, <1>6, StrictIsFold DEF n
<1>8. G[n + 1] = StrictStep(Strict(rows), row)
  BY <1>1, <1>7
<1> HIDE DEF G
<1>9. StrictDefined(F)
  BY ONLY <1>6, StrictIsDefined
<1> QED
  BY <1>7, <1>8, <1>9 DEF F

LEMMA StrictAlways ==
  ASSUME NEW rows \in Seq(OKRow)
  PROVE  StrictDefined(rows)
<1> DEFINE Lengths == {n \in Nat : \A f \in Seq(OKRow) : Len(f) = n => StrictDefined(f)}
<1>1. 0 \in Lengths
  BY StrictStarts
<1>2. ASSUME NEW n \in Lengths
      PROVE  n + 1 \in Lengths
  <2> SUFFICES ASSUME NEW f \in Seq(OKRow), Len(f) = n + 1
               PROVE  StrictDefined(f)
    OBVIOUS
  <2>1. PICK front \in Seq(OKRow), last \in OKRow : f = Append(front, last) /\ Len(front) = n
    BY LastOfSeq
  <2>2. StrictDefined(front)
    BY <2>1
  <2> QED
    BY <2>1, <2>2, StrictGrows
<1>3. Lengths = Nat
  <2> HIDE DEF Lengths
  <2>1. Lengths \subseteq Nat
    BY DEF Lengths
  <2> QED
    BY <1>1, <1>2, <2>1, Induction
<1> QED
  BY <1>3, LenProperties

-----------------------------------------------------------------------------
(* The order in which the OK rows are read.                                *)

\* A bound on the length of a log that is indexed.
LEMMA Bounds ==
  /\ MaxRows \in Nat
  /\ \A h \in Histories : Len(h) \in Nat /\ Len(h) + MaxNew <= MaxRows
<1> DEFINE Lengths == {Len(h) : h \in Histories}
           top == CHOOSE n \in Lengths : \A h \in Histories : Len(h) <= n
<1>1. \A h \in Histories : Len(h) \in Nat
  BY ReadModelsAssumption, LenProperties
<1>2. \E n \in Lengths : \A h \in Histories : Len(h) <= n
  BY ReadModelsAssumption
<1>3. top \in Lengths /\ \A h \in Histories : Len(h) <= top
  BY <1>2
<1>4. top \in Nat
  BY <1>1, <1>3
<1>5. MaxRows = MaxNew + top
  BY DEF MaxRows
<1>6. MaxNew \in Nat
  BY ReadModelsAssumption
<1> QED
  BY <1>1, <1>3, <1>4, <1>5, <1>6

LEMMA GoodRows ==
  ASSUME NEW rows \in Seq(Row)
  PROVE  /\ Good(rows) \subseteq 1 .. Len(rows) /\ Good(rows) \subseteq Nat
         /\ IsFiniteSet(Good(rows)) /\ Cardinality(Good(rows)) \in Nat
         /\ \A k \in Good(rows) :
              /\ rows[k] \in OKRow /\ rows[k].id \in 1 .. MaxRows
              /\ rows[k].event \in Event
<1>1. Good(rows) \subseteq 1 .. Len(rows) /\ Len(rows) \in Nat
  BY LenProperties DEF Good
<1>2. IsFiniteSet(Good(rows))
  <2>1. IsFiniteSet(1 .. Len(rows))
    BY <1>1, FS_Interval
  <2> QED
    BY <1>1, <2>1, FS_Subset
<1>3. ASSUME NEW k \in Good(rows)
      PROVE  rows[k] \in OKRow /\ rows[k].id \in 1 .. MaxRows /\ rows[k].event \in Event
  <2>1. rows[k] \in Row /\ rows[k].is = "OK"
    BY <1>1, ElementOfSeq DEF Good
  <2>2. PICK e \in Event, id \in 1 .. MaxRows : rows[k] = OK(e, id)
    BY <2>1 DEF Row, Torn, Malformed
  <2>3. id \in Nat \ {0}
    BY <2>2, Bounds
  <2> QED
    BY <2>2, <2>3 DEF OK, OKRow
<1> QED
  BY <1>1, <1>2, <1>3, FS_CardinalityType

\* The positions up to k, in reading order.
UpTo(rows, k) == {j \in Good(rows) : j = k \/ Before(rows, j, k)}

LEMMA RankOfUpTo ==
  ASSUME NEW rows \in Seq(Row), NEW k \in Good(rows)
  PROVE  /\ Rank(rows, k) = Cardinality(UpTo(rows, k))
         /\ IsFiniteSet(UpTo(rows, k))
         /\ Rank(rows, k) \in 1 .. Cardinality(Good(rows))
<1>1. Rank(rows, k) = Cardinality(UpTo(rows, k))
  BY DEF Rank, UpTo
<1>2. UpTo(rows, k) \subseteq Good(rows) /\ k \in UpTo(rows, k)
  BY DEF UpTo
<1>3. /\ IsFiniteSet(UpTo(rows, k)) /\ Cardinality(UpTo(rows, k)) \in Nat
      /\ Cardinality(UpTo(rows, k)) <= Cardinality(Good(rows))
  BY <1>2, GoodRows, FS_Subset, FS_CardinalityType
<1>4. Cardinality(UpTo(rows, k)) # 0
  BY <1>2, <1>3, FS_EmptySet
<1> QED
  BY <1>1, <1>3, <1>4, GoodRows

\* What is read earlier has a lower rank, and of two rows one is read earlier.
LEMMA RankMonotone ==
  ASSUME NEW rows \in Seq(Row), NEW j \in Good(rows), NEW k \in Good(rows)
  PROVE  /\ Before(rows, j, k) => Rank(rows, j) < Rank(rows, k)
         /\ j # k => Before(rows, j, k) \/ Before(rows, k, j)
<1>1. \A i \in Good(rows) : i \in Nat /\ rows[i].id \in Nat
  BY GoodRows, Bounds
<1>2. j # k => Before(rows, j, k) \/ Before(rows, k, j)
  BY <1>1 DEF Before
<1>3. ASSUME Before(rows, j, k)
      PROVE  Rank(rows, j) < Rank(rows, k)
  <2>1. UpTo(rows, j) \subseteq UpTo(rows, k)
    BY <1>1, <1>3 DEF UpTo, Before
  <2>2. k \in UpTo(rows, k) /\ k \notin UpTo(rows, j)
    BY <1>1, <1>3 DEF UpTo, Before
  <2>3. /\ Cardinality(UpTo(rows, j)) <= Cardinality(UpTo(rows, k))
        /\ Cardinality(UpTo(rows, j)) # Cardinality(UpTo(rows, k))
    BY <2>1, <2>2, RankOfUpTo, FS_Subset
  <2> QED
    BY <2>3, RankOfUpTo, GoodRows
<1> QED
  BY <1>2, <1>3

\* Every rank is that of one position.
LEMMA RankOnto ==
  ASSUME NEW rows \in Seq(Row), NEW n \in 1 .. Cardinality(Good(rows))
  PROVE  \E k \in Good(rows) : Rank(rows, k) = n
<1> DEFINE N == Cardinality(Good(rows))
           f == [k \in Good(rows) |-> Rank(rows, k)]
<1>1. N \in Nat /\ IsFiniteSet(1 .. N) /\ Cardinality(1 .. N) = N
  <2>1. N \in Nat
    BY GoodRows
  <2> HIDE DEF N
  <2>2. IsFiniteSet(1 .. N) /\ Cardinality(1 .. N) = IF 1 > N THEN 0 ELSE N - 1 + 1
    BY <2>1, FS_Interval
  <2> QED
    BY <2>1, <2>2
<1>2. f \in [Good(rows) -> 1 .. N]
  BY RankOfUpTo
<1>3. ASSUME NEW j \in Good(rows), NEW k \in Good(rows), f[j] = f[k]
      PROVE  j = k
  <2>1. Rank(rows, j) = Rank(rows, k) /\ Rank(rows, j) \in Nat /\ Rank(rows, k) \in Nat
    BY <1>3, RankOfUpTo, GoodRows
  <2> QED
    BY <2>1, RankMonotone
<1>4. f \in Injection(Good(rows), 1 .. N)
  BY <1>2, <1>3 DEF Injection, IsInjective
<1>5. f \in Surjection(Good(rows), 1 .. N)
  <2> HIDE DEF f, N
  <2>1. Cardinality(Good(rows)) = Cardinality(1 .. N)
    BY <1>1 DEF N
  <2> QED
    BY <1>1, <1>4, <2>1, FS_Injection
<1> QED
  BY <1>5 DEF Surjection

LEMMA RankUnique ==
  ASSUME NEW rows \in Seq(Row), NEW j \in Good(rows), NEW k \in Good(rows),
         Rank(rows, j) = Rank(rows, k)
  PROVE  j = k
<1>1. Rank(rows, j) \in Nat /\ Rank(rows, k) \in Nat
  BY RankOfUpTo, GoodRows
<1> QED
  BY <1>1, RankMonotone

\* The OK rows are each read once, at the rank of their position.
LEMMA OKRowsRead ==
  ASSUME NEW rows \in Seq(Row)
  PROVE  /\ OKRows(rows) \in Seq(OKRow) /\ Len(OKRows(rows)) = Cardinality(Good(rows))
         /\ \A k \in Good(rows) : OKRows(rows)[Rank(rows, k)] = rows[k]
         /\ \A n \in 1 .. Len(OKRows(rows)) :
              \E k \in Good(rows) : Rank(rows, k) = n /\ OKRows(rows)[n] = rows[k]
<1> DEFINE N == Cardinality(Good(rows))
           At(n) == CHOOSE k \in Good(rows) : Rank(rows, k) = n
<1>1. N \in Nat
  BY GoodRows
<1>2. ASSUME NEW n \in 1 .. N
      PROVE  At(n) \in Good(rows) /\ Rank(rows, At(n)) = n
  BY RankOnto
<1>3. OKRows(rows) = [n \in 1 .. N |-> rows[At(n)]]
  BY DEF OKRows
<1> HIDE DEF At, N
<1>4. OKRows(rows) \in [1 .. N -> OKRow]
  BY <1>2, <1>3, GoodRows
<1>5. OKRows(rows) \in Seq(OKRow) /\ Len(OKRows(rows)) = N
  BY <1>1, <1>4
<1>6. ASSUME NEW k \in Good(rows)
      PROVE  OKRows(rows)[Rank(rows, k)] = rows[k]
  <2>1. Rank(rows, k) \in 1 .. N
    BY RankOfUpTo DEF N
  <2>2. At(Rank(rows, k)) = k
    BY <1>2, <2>1, RankUnique
  <2> QED
    BY <1>3, <2>1, <2>2
<1> QED
  BY <1>2, <1>3, <1>5, <1>6 DEF N

\* They are read in the order of their ids.
LEMMA OKRowsSorted ==
  ASSUME NEW rows \in Seq(Row), NEW m \in 1 .. Len(OKRows(rows)),
         NEW n \in 1 .. Len(OKRows(rows)), m < n
  PROVE  OKRows(rows)[m].id <= OKRows(rows)[n].id
<1>1. PICK j \in Good(rows) : Rank(rows, j) = m /\ OKRows(rows)[m] = rows[j]
  BY OKRowsRead
<1>2. PICK k \in Good(rows) : Rank(rows, k) = n /\ OKRows(rows)[n] = rows[k]
  BY OKRowsRead
<1>3. j # k /\ ~Before(rows, k, j)
  BY <1>1, <1>2, RankMonotone
<1>4. Before(rows, j, k)
  BY <1>3, RankMonotone
<1>5. rows[j].id \in Nat /\ rows[k].id \in Nat
  BY GoodRows, Bounds
<1> QED
  BY <1>1, <1>2, <1>4, <1>5 DEF Before

\* A row in the place of one that is not OK, or of none, which no OK row follows.
LEMMA OKRowsGrow ==
  ASSUME NEW old \in Seq(Row), NEW new \in Seq(Row), NEW K \in 1 .. Len(new),
         Good(new) \ {K} = Good(old), K \notin Good(old),
         \A k \in Good(old) : new[k] = old[k] /\ k < K,
         new[K].is = "OK" => \A k \in Good(old) : old[k].id <= new[K].id
  PROVE  OKRows(new) = IF new[K].is = "OK" THEN Append(OKRows(old), new[K]) ELSE OKRows(old)
<1>0. K \in DOMAIN new /\ (K \in Good(new) <=> new[K].is = "OK")
  BY LenProperties DEF Good
<1>1. \A j, k \in Good(old) : Before(new, j, k) <=> Before(old, j, k)
  BY DEF Before
<1>2. ASSUME NEW k \in Good(old), K \in Good(new) => Before(new, k, K)
      PROVE  k \in Good(new) /\ Rank(new, k) = Rank(old, k)
  <2>1. k \in Good(new)
    BY <1>2
  <2>2. K \in Good(new) => ~Before(new, K, k) /\ K # k
    BY <1>2, <2>1, RankMonotone, RankOfUpTo, GoodRows
  <2>3. UpTo(new, k) = UpTo(old, k)
    BY <1>1, <2>2 DEF UpTo
  <2> QED
    BY <2>1, <2>3, RankOfUpTo
<1>3. CASE new[K].is # "OK"
  <2>1. Good(new) = Good(old)
    BY <1>0, <1>3
  <2>2. Len(OKRows(new)) = Len(OKRows(old))
    BY <2>1, OKRowsRead
  <2>3. ASSUME NEW n \in 1 .. Len(OKRows(old))
        PROVE  OKRows(new)[n] = OKRows(old)[n]
    <3>1. PICK k \in Good(old) : Rank(old, k) = n /\ OKRows(old)[n] = old[k]
      BY OKRowsRead
    <3>2. k \in Good(new) /\ Rank(new, k) = n
      BY <1>0, <1>2, <1>3, <3>1
    <3>3. OKRows(new)[n] = new[k]
      BY <3>2, OKRowsRead
    <3> QED
      BY <3>1, <3>3
  <2>4. OKRows(new) \in Seq(OKRow) /\ OKRows(old) \in Seq(OKRow)
    BY OKRowsRead
  <2>5. OKRows(new) = OKRows(old)
    BY <2>2, <2>3, <2>4, SeqEqual
  <2> QED
    BY <1>3, <2>5
<1>4. CASE new[K].is = "OK"
  <2>1. K \in Good(new) /\ Good(new) = Good(old) \cup {K}
    BY <1>0, <1>4
  <2>2. \A k \in Good(old) : Before(new, k, K)
    <3>1. new[K].id \in Nat /\ \A k \in Good(old) : old[k].id \in Nat /\ k \in Nat
      BY <2>1, GoodRows, Bounds
    <3> QED
      BY <1>4, <3>1 DEF Before
  <2>3. \A k \in Good(old) : k \in Good(new) /\ Rank(new, k) = Rank(old, k)
    BY <1>2, <2>2
  <2>4. /\ Cardinality(Good(old)) \in Nat
        /\ Cardinality(Good(new)) = Cardinality(Good(old)) + 1
    BY <2>1, GoodRows, FS_AddElement
  <2>5. Rank(new, K) = Cardinality(Good(old)) + 1
    <3>1. UpTo(new, K) = Good(new)
      BY <2>1, <2>2 DEF UpTo
    <3> QED
      BY <2>1, <2>4, <3>1, RankOfUpTo
  <2>6. /\ OKRows(new) \in Seq(OKRow) /\ OKRows(old) \in Seq(OKRow) /\ new[K] \in OKRow
        /\ Len(OKRows(old)) = Cardinality(Good(old))
        /\ Len(OKRows(new)) = Len(OKRows(old)) + 1
        /\ OKRows(new)[Len(OKRows(old)) + 1] = new[K]
    <3>1. OKRows(new) \in Seq(OKRow) /\ OKRows(old) \in Seq(OKRow) /\ new[K] \in OKRow
      BY <2>1, OKRowsRead, GoodRows
    <3>2. /\ Len(OKRows(old)) = Cardinality(Good(old))
          /\ Len(OKRows(new)) = Cardinality(Good(new))
          /\ OKRows(new)[Rank(new, K)] = new[K]
      BY <2>1, OKRowsRead
    <3> QED
      BY <2>4, <2>5, <3>1, <3>2
  <2>7. ASSUME NEW n \in 1 .. Len(OKRows(old))
        PROVE  OKRows(new)[n] = OKRows(old)[n]
    <3>1. PICK k \in Good(old) : Rank(old, k) = n /\ OKRows(old)[n] = old[k]
      BY OKRowsRead
    <3>2. k \in Good(new) /\ Rank(new, k) = n
      BY <2>3, <3>1
    <3>3. OKRows(new)[n] = new[k]
      BY <3>2, OKRowsRead
    <3> QED
      BY <3>1, <3>3
  <2>8. OKRows(new) = Append(OKRows(old), new[K])
    <3> DEFINE s == OKRows(new)
               t == Append(OKRows(old), new[K])
    <3>1. /\ t \in Seq(OKRow) /\ Len(t) = Len(OKRows(old)) + 1
          /\ \A n \in 1 .. Len(OKRows(old)) : t[n] = OKRows(old)[n]
          /\ t[Len(OKRows(old)) + 1] = new[K]
      BY <2>6, AppendProperties
    <3>2. Len(OKRows(old)) \in Nat
      BY <2>4, <2>6
    <3>3. \A n \in 1 .. Len(s) : s[n] = t[n]
      BY <2>6, <2>7, <3>1, <3>2
    <3>4. s \in Seq(OKRow) /\ Len(s) = Len(t)
      BY <2>6, <3>1
    <3> HIDE DEF s, t
    <3>5. s = t
      BY <3>1, <3>3, <3>4, SeqEqual
    <3> QED
      BY <3>5 DEF s, t
  <2> QED
    BY <1>4, <2>8
<1> QED
  BY <1>3, <1>4

-----------------------------------------------------------------------------
(* What an event names.                                                    *)

LEMMA TypeSets ==
  /\ TypesOf(IssueMoves) = {"IssueActivated", "IssueCompleted", "IssueEscalated"}
  /\ TypesOf(ExecutionMoves) =
       {"ExecutionFinished", "ExecutionCrashed", "ValidationPassed", "ValidationFailed",
        "ReviewApproved", "ReviewRejected"}
<1>1. TypesOf(IssueMoves) = {"IssueActivated", "IssueCompleted", "IssueEscalated"}
  <2>1. \A m \in IssueMoves :
          m.type \in {"IssueActivated", "IssueCompleted", "IssueEscalated"}
    BY DEF IssueMoves, Move
  <2>2. \A m \in IssueMoves : m.type \in TypesOf(IssueMoves)
    BY DEF TypesOf
  <2>3. {"IssueActivated", "IssueCompleted", "IssueEscalated"} \subseteq TypesOf(IssueMoves)
    BY <2>2 DEF IssueMoves, Move
  <2> QED
    BY <2>1, <2>3 DEF TypesOf
<1>2. TypesOf(ExecutionMoves) =
       {"ExecutionFinished", "ExecutionCrashed", "ValidationPassed", "ValidationFailed",
        "ReviewApproved", "ReviewRejected"}
  <2> DEFINE types ==
        {"ExecutionFinished", "ExecutionCrashed", "ValidationPassed", "ValidationFailed",
         "ReviewApproved", "ReviewRejected"}
  <2>1. \A m \in ExecutionMoves : m.type \in types
    BY DEF ExecutionMoves, Move
  <2>2. \A m \in ExecutionMoves : m.type \in TypesOf(ExecutionMoves)
    BY DEF TypesOf
  <2>3. types \subseteq TypesOf(ExecutionMoves)
    BY <2>2 DEF ExecutionMoves, Move
  <2> QED
    BY <2>1, <2>3 DEF TypesOf
<1> QED
  BY <1>1, <1>2

IssueType == {"IssueCreated", "IssueActivated", "IssueCompleted", "IssueEscalated"}
ExecutionType ==
  {"ExecutionFinished", "ExecutionCrashed", "ValidationPassed", "ValidationFailed",
   "ReviewApproved", "ReviewRejected", "CommitIntent", "CommitCreated"}
RunType == {"RunStarted", "RunFinished"}

\* The columns an event of each kind has.
OfIssue(e) ==
  /\ e.type \in IssueType
  /\ e.issue \in Issue /\ e.execution = None /\ e.run = None
OfExecution(e) ==
  /\ e.type \in ExecutionType
  /\ e.issue \in Issue /\ e.execution \in Execution /\ e.run = None
OfSpawn(e) ==
  /\ e.type = "ExecutionSpawned"
  /\ e.issue \in Issue /\ e.execution \in Execution /\ e.run \in Run
OfContainment(e) ==
  /\ e.type \in ContainmentType
  /\ e.issue \in Issue /\ e.execution \in Execution /\ e.run = None
  /\ e.generation \in Generation /\ e.workspace \in Workspace /\ e.outcome = "none"
OfRun(e) ==
  /\ e.type \in RunType /\ e.issue = None /\ e.execution = None /\ e.run \in Run
  /\ e.type = "RunStarted" => e.outcome \in {"complete", "malformed"}
OfNothing(e) ==
  e.type = "Unheard" /\ e.issue = None /\ e.execution = None /\ e.run = None

LEMMA EventKinds ==
  ASSUME NEW e \in Event
  PROVE  /\ \/ OfIssue(e) \/ OfExecution(e) \/ OfSpawn(e)
            \/ OfContainment(e) \/ OfRun(e) \/ OfNothing(e)
         /\ e.workspace \in Workspace \cup {None}
         /\ e.type \notin ContainmentType => e.workspace = None
<1> DEFINE Goal ==
      /\ \/ OfIssue(e) \/ OfExecution(e) \/ OfSpawn(e)
         \/ OfContainment(e) \/ OfRun(e) \/ OfNothing(e)
      /\ e.workspace \in Workspace \cup {None}
      /\ e.type \notin ContainmentType => e.workspace = None
<1>1. ASSUME NEW type \in IssueType, NEW outcome, e \in IssueEvent(type, outcome)
      PROVE  Goal
  BY <1>1 DEF IssueEvent, Blank, OfIssue, IssueType
<1>2. ASSUME NEW type \in ExecutionType, NEW outcome, NEW cost,
             e \in ExecutionEvent(type, outcome, cost)
      PROVE  Goal
  <2>1. PICK i \in Issue, x \in Execution :
          e = OnExecution(type, outcome, cost, i, x)
    BY <1>2 DEF ExecutionEvent
  <2> QED
    BY <2>1 DEF OnExecution, Blank, OfExecution, ExecutionType
<1>3. ASSUME NEW s \in ExecutionEvent("ExecutionSpawned", "none", "unknown"), NEW r \in Run,
             e = InRun(s, r)
      PROVE  Goal
  <2>1. PICK i \in Issue, x \in Execution :
          s = OnExecution("ExecutionSpawned", "none", "unknown", i, x)
    BY DEF ExecutionEvent
  <2> QED
    BY <1>3, <2>1 DEF InRun, OnExecution, Blank, OfSpawn, ContainmentType
<1>4. ASSUME NEW type \in ContainmentType, e \in ContainmentEvent(type)
      PROVE  Goal
  <2>1. PICK i \in Issue, x \in Execution, g \in Generation, w \in Workspace :
          e = OnBoundary(type, i, x, g, w)
    BY <1>4 DEF ContainmentEvent
  <2> QED
    BY <2>1 DEF OnBoundary, Blank, OfContainment
<1>5. ASSUME NEW type \in RunType, NEW outcome, e \in RunEvent(type, outcome),
             type = "RunStarted" => outcome \in {"complete", "malformed"}
      PROVE  Goal
  BY <1>5 DEF RunEvent, Blank, OfRun, RunType, ContainmentType
<1>6. ASSUME e = Unheard
      PROVE  Goal
  BY <1>6 DEF Unheard, Blank, OfNothing, ContainmentType
<1> HIDE DEF Goal
<1>7. \/ \E type \in IssueType : \E outcome : e \in IssueEvent(type, outcome)
      \/ \E type \in ExecutionType : \E outcome, cost :
           e \in ExecutionEvent(type, outcome, cost)
      \/ \E s \in ExecutionEvent("ExecutionSpawned", "none", "unknown"), r \in Run :
           e = InRun(s, r)
      \/ \E type \in ContainmentType : e \in ContainmentEvent(type)
      \/ \E type \in RunType : \E outcome :
           /\ e \in RunEvent(type, outcome)
           /\ type = "RunStarted" => outcome \in {"complete", "malformed"}
      \/ e = Unheard
  <2>1. \/ \E type \in {"IssueCreated", "IssueActivated", "IssueCompleted"} :
             e \in IssueEvent(type, "none")
        \/ \E outcome \in {"human", "decompose"} : e \in IssueEvent("IssueEscalated", outcome)
        \/ e \in ExecutionEvent("ExecutionFinished", "finished", "metered")
        \/ e \in ExecutionEvent("ExecutionFinished", "REJECTED", "unknown")
        \/ \E type \in {"ExecutionCrashed", "ValidationPassed", "ValidationFailed",
                       "ReviewApproved", "ReviewRejected", "CommitIntent", "CommitCreated"} :
             e \in ExecutionEvent(type, "none", "unknown")
        \/ \E s \in ExecutionEvent("ExecutionSpawned", "none", "unknown"), r \in Run : e = InRun(s, r)
        \/ \E type \in ContainmentType : e \in ContainmentEvent(type)
        \/ \E outcome \in {"complete", "malformed"} : e \in RunEvent("RunStarted", outcome)
        \/ \E outcome \in {"COMPLETED", "malformed"} : e \in RunEvent("RunFinished", outcome)
        \/ e = Unheard
    BY SMTT(60) DEF Event
  <2>2. /\ {"IssueCreated", "IssueActivated", "IssueCompleted", "IssueEscalated"} \subseteq IssueType
        /\ {"ExecutionFinished", "ExecutionCrashed", "ValidationPassed", "ValidationFailed",
            "ReviewApproved", "ReviewRejected", "CommitIntent", "CommitCreated"}
             \subseteq ExecutionType
        /\ "RunStarted" \in RunType /\ "RunFinished" \in RunType
    BY DEF IssueType, ExecutionType, RunType
  <2> QED
    BY <2>1, <2>2
<1>8. Goal
  BY <1>1, <1>2, <1>3, <1>4, <1>5, <1>6, <1>7
<1> QED
  BY <1>8 DEF Goal

-----------------------------------------------------------------------------
(* The tolerant reading, view by view.                                     *)

\* The states that transitions lead to are among these, and none is no state.
LEMMA Targets ==
  /\ \A m \in IssueMoves : m.to \in IssueState
  /\ \A m \in ExecutionMoves : m.to \in ExecutionState
  /\ \A m \in ContainmentMoves : m.to \in ContainmentState
  /\ "NONE" \notin IssueState \cup ExecutionState \cup ContainmentState
BY DEF IssueMoves, ExecutionMoves, ContainmentMoves, Move, IssueState, ExecutionState,
   ContainmentState, Terminal

LEMMA AfterIsTarget ==
  ASSUME NEW moves, NEW state, NEW e, Legal(moves, state, e) # {}
  PROVE  \E m \in moves : After(moves, state, e) = m.to /\ m \in Legal(moves, state, e)
BY DEF After, Legal

\* A view of an entity, which has a state only when it exists.
Known(view, states) == view \in View(states) /\ (view.state = "NONE" => view = NoView)

LEMMA NoneKnown == \A states : Known(NoView, states) /\ NoView.state = "NONE"
BY Bounds DEF Known, View, NoView

LEMMA MarkedKnown ==
  ASSUME NEW states, NEW view, Known(view, states), view # NoView
  PROVE  Known(Marked(view), states) /\ Marked(view).state # "NONE"
BY DEF Known, View, Marked

LEMMA CreatedKnown ==
  ASSUME NEW states, NEW view, Known(view, states), NEW row \in OKRow, row.id <= MaxRows,
         NEW state \in states, state # "NONE"
  PROVE  Known(Created(view, row, state), states) /\ Created(view, row, state).state # "NONE"
<1>1. CASE view # NoView
  BY <1>1, MarkedKnown DEF Created
<1>2. CASE view = NoView
  <2>1. row.event.workspace \in Workspace \cup {None} /\ row.id \in 0 .. MaxRows
    BY EventKinds, Bounds DEF OKRow
  <2> QED
    BY <1>2, <2>1 DEF Created, Known, View, NoView
<1> QED
  BY <1>1, <1>2

LEMMA MovedKnown ==
  ASSUME NEW states, NEW view, Known(view, states), NEW row \in OKRow, row.id <= MaxRows,
         NEW moves, \A m \in moves : m.to \in states, "NONE" \notin states
  PROVE  /\ Known(Moved(view, row, moves), states)
         /\ Moved(view, row, moves).state = "NONE" => view.state = "NONE"
<1>1. CASE view = NoView \/ view.bad
  BY <1>1 DEF Moved
<1>2. CASE ~(view = NoView \/ view.bad) /\ Legal(moves, view.state, row.event) = {}
  BY <1>2, MarkedKnown DEF Moved
<1>3. CASE ~(view = NoView \/ view.bad) /\ Legal(moves, view.state, row.event) # {}
  <2>1. /\ After(moves, view.state, row.event) \in states
        /\ After(moves, view.state, row.event) # "NONE"
    BY <1>3, AfterIsTarget
  <2>2. Moved(view, row, moves) =
          [view EXCEPT !.state = After(moves, view.state, row.event), !.last = row.id]
    BY <1>3 DEF Moved
  <2>3. row.id \in 0 .. MaxRows
    BY Bounds DEF OKRow
  <2> QED
    BY <2>1, <2>2, <2>3 DEF Known, View
<1> QED
  BY <1>1, <1>2, <1>3

LEMMA IssueStepKnown ==
  ASSUME NEW view, Known(view, IssueState), NEW row \in OKRow, row.id <= MaxRows
  PROVE  /\ Known(IssueStep(view, row), IssueState)
         /\ IssueStep(view, row).state = "NONE" => view.state = "NONE"
<1>1. CASE row.event.type = "IssueCreated"
  <2>1. /\ Known(Created(view, row, "PENDING"), IssueState)
        /\ Created(view, row, "PENDING").state # "NONE"
    BY CreatedKnown DEF IssueState
  <2> QED
    BY <1>1, <2>1, TypeSets DEF IssueStep
<1>2. CASE row.event.type # "IssueCreated" /\ row.event.type \in TypesOf(IssueMoves)
  BY <1>2, MovedKnown, Targets DEF IssueStep
<1>3. CASE row.event.type # "IssueCreated" /\ row.event.type \notin TypesOf(IssueMoves)
  BY <1>3 DEF IssueStep
<1> QED
  BY <1>1, <1>2, <1>3

LEMMA ExecutionStepKnown ==
  ASSUME NEW view, Known(view, ExecutionState), NEW row \in OKRow, row.id <= MaxRows
  PROVE  /\ Known(ExecutionStep(view, row), ExecutionState)
         /\ ExecutionStep(view, row).state = "NONE" => view.state = "NONE"
<1>1. CASE row.event.type = "ExecutionSpawned"
  <2>1. /\ Known(Created(view, row, "EXECUTING"), ExecutionState)
        /\ Created(view, row, "EXECUTING").state # "NONE"
    BY CreatedKnown DEF ExecutionState
  <2> QED
    BY <1>1, <2>1, TypeSets DEF ExecutionStep
<1>2. CASE row.event.type # "ExecutionSpawned" /\ row.event.type \in TypesOf(ExecutionMoves)
  <2> DEFINE m == Moved(view, row, ExecutionMoves)
  <2>1. Known(m, ExecutionState) /\ (m.state = "NONE" => view.state = "NONE")
    BY MovedKnown, Targets
  <2>2. ExecutionStep(view, row) = Metered(m, view, row)
    BY <1>2 DEF ExecutionStep
  <2> HIDE DEF m
  <2>3. \/ Metered(m, view, row) = m
        \/ Metered(m, view, row) = [m EXCEPT !.cost = "metered"] /\ m.state # view.state
    BY DEF Metered
  <2>4. CASE Metered(m, view, row) = m
    BY <2>1, <2>2, <2>4
  <2>5. CASE Metered(m, view, row) = [m EXCEPT !.cost = "metered"] /\ m.state # view.state
    <3>1. m.state # "NONE"
      BY <2>1, <2>5
    <3> QED
      BY <2>1, <2>2, <2>5, <3>1 DEF Known, View
  <2> QED
    BY <2>3, <2>4, <2>5
<1>3. CASE row.event.type # "ExecutionSpawned" /\ row.event.type \notin TypesOf(ExecutionMoves)
  BY <1>3 DEF ExecutionStep
<1> QED
  BY <1>1, <1>2, <1>3

LEMMA ContainmentStepKnown ==
  ASSUME NEW view, Known(view, ContainmentState), NEW row \in OKRow, row.id <= MaxRows, NEW g
  PROVE  Known(ContainmentStep(view, row, g), ContainmentState)
<1>1. Known(Created(view, row, "PREPARED"), ContainmentState)
  BY CreatedKnown DEF ContainmentState
<1>2. Known(Moved(view, row, ContainmentMoves), ContainmentState)
  BY MovedKnown, Targets
<1>3. view # NoView => Known(Marked(view), ContainmentState)
  BY MarkedKnown
<1> QED
  BY <1>1, <1>2, <1>3 DEF ContainmentStep

\* What was observed of a run is not later than what is shown, nor than the
\* last row.
RunKnown(view, top) ==
  /\ view \in RunRow
  /\ view.finished # 0 => view.until # 0 /\ view.until <= view.finished
  /\ view.from <= view.started
  /\ view.from <= top /\ view.until <= top

LEMMA NoRunKnown == RunKnown(NoRun, 0)
BY Bounds DEF RunKnown, RunRow, NoRun

\* Marking a run changes nothing that is shown of it.
LEMMA RunMarkedKnown ==
  ASSUME NEW view, NEW top, RunKnown(view, top)
  PROVE  RunKnown(Marked(view), top) /\ Marked(view).from = view.from
BY DEF RunKnown, RunRow, Marked

LEMMA RunStepKnown ==
  ASSUME NEW view, NEW top \in Nat, RunKnown(view, top), view.from = 0 => view = NoRun,
         NEW row \in OKRow, row.id <= MaxRows, top <= row.id
  PROVE  /\ RunKnown(RunStep(view, row), row.id)
         /\ RunStep(view, row).from = 0 => RunStep(view, row) = NoRun /\ view = NoRun
<1>0. row.id \in 0 .. MaxRows /\ row.id # 0 /\ row.id \in Nat /\ MaxRows \in Nat
  BY Bounds DEF OKRow
<1>1. RunKnown(view, row.id)
  BY <1>0 DEF RunKnown, RunRow
<1>2. CASE row.event.type = "RunStarted"
  <2> DEFINE outcome == row.event.outcome
             taken == [view EXCEPT !.started = row.id, !.record = outcome, !.last = row.id]
             first == [taken EXCEPT !.from = row.id]
  <2>1. RunStep(view, row) =
          IF view = NoRun
          THEN IF outcome = "complete" THEN first ELSE Marked(first)
          ELSE IF outcome = "complete" /\ view.record # "complete" THEN Marked(taken)
          ELSE Marked(view)
    BY <1>2 DEF RunStep, RunStarted
  <2>2. outcome \in {"complete", "malformed"}
    BY <1>2, EventKinds DEF OKRow, OfIssue, OfExecution, OfSpawn, OfContainment, OfRun,
       OfNothing, IssueType, ExecutionType, ContainmentType
  <2>3. RunKnown(taken, row.id) /\ taken.from = view.from /\ taken.started = row.id
    BY <1>0, <1>1, <2>2 DEF RunKnown, RunRow
  <2> HIDE DEF taken, outcome
  <2>4. RunKnown(first, row.id) /\ first.from # 0
    BY <1>0, <2>3 DEF RunKnown, RunRow
  <2> HIDE DEF first
  <2> QED
    BY <1>1, <2>1, <2>3, <2>4, RunMarkedKnown
<1>3. CASE row.event.type = "RunFinished"
  <2> DEFINE first == IF view.until = 0 THEN [view EXCEPT !.until = row.id] ELSE view
             shown == [first EXCEPT !.finished = row.id, !.last = row.id]
  <2>1. /\ view = NoRun => RunStep(view, row) = view
        /\ RunStep(view, row) \in {view, first, shown, Marked(first), Marked(shown)}
    BY <1>3 DEF RunStep, RunFinished
  <2>2. RunKnown(first, row.id) /\ first.from = view.from
    BY <1>0, <1>1 DEF RunKnown, RunRow
  <2>3. first.until # 0
    BY <1>0, <1>1 DEF RunKnown, RunRow
  <2> HIDE DEF first
  <2>4. RunKnown(shown, row.id) /\ shown.from = view.from
    BY <1>0, <2>2, <2>3 DEF RunKnown, RunRow
  <2> HIDE DEF shown
  <2> QED
    BY <1>1, <2>1, <2>2, <2>4, RunMarkedKnown
<1>4. CASE row.event.type \notin RunType
  BY <1>1, <1>4 DEF RunStep, RunType
<1> QED
  BY <1>2, <1>3, <1>4 DEF RunType

-----------------------------------------------------------------------------
(* The tolerant reading of rows that are in order.                         *)

\* Every view is one of an entity, and no run was observed after `top'.
Sane(v, top) ==
  /\ v = [issue |-> v.issue, execution |-> v.execution, containment |-> v.containment,
          run |-> v.run]
  /\ v.issue \in [Issue -> View(IssueState)]
  /\ v.execution \in [Execution -> View(ExecutionState)]
  /\ v.containment \in [Execution \X Generation -> View(ContainmentState)]
  /\ v.run \in [Run -> RunRow]
  /\ \A i \in Issue : Known(v.issue[i], IssueState)
  /\ \A x \in Execution : Known(v.execution[x], ExecutionState)
  /\ \A b \in Execution \X Generation : Known(v.containment[b], ContainmentState)
  /\ \A r \in Run : RunKnown(v.run[r], top) /\ (v.run[r].from = 0 => v.run[r] = NoRun)

LEMMA NoViewsSane == Sane(NoViews, 0)
<1>1. \A states : Known(NoView, states) /\ NoView \in View(states)
  BY NoneKnown DEF Known
<1>2. RunKnown(NoRun, 0) /\ NoRun \in RunRow
  BY NoRunKnown DEF RunKnown
<1> QED
  BY <1>1, <1>2 DEF Sane, NoViews

LEMMA ViewedSane ==
  ASSUME NEW v, NEW top \in Nat, Sane(v, top),
         NEW row \in OKRow, row.id <= MaxRows, top <= row.id
  PROVE  Sane(Viewed(v, row), row.id)
<1> DEFINE new == Viewed(v, row)
<1>1. new = [issue |-> new.issue, execution |-> new.execution,
             containment |-> new.containment, run |-> new.run]
  BY DEF Viewed
<1>2. /\ new.issue \in [Issue -> View(IssueState)]
      /\ \A i \in Issue : Known(new.issue[i], IssueState)
  <2>1. new.issue = [i \in Issue |->
          IF row.event.issue = i THEN IssueStep(v.issue[i], row) ELSE v.issue[i]]
    BY DEF Viewed
  <2>2. ASSUME NEW i \in Issue
        PROVE  Known(IssueStep(v.issue[i], row), IssueState) /\ Known(v.issue[i], IssueState)
    BY IssueStepKnown DEF Sane
  <2> HIDE DEF new
  <2>3. \A i \in Issue : Known(new.issue[i], IssueState)
    BY <2>1, <2>2
  <2> QED
    BY <2>1, <2>3 DEF Known
<1>3. /\ new.execution \in [Execution -> View(ExecutionState)]
      /\ \A x \in Execution : Known(new.execution[x], ExecutionState)
  <2>1. new.execution = [x \in Execution |->
          IF row.event.execution = x THEN ExecutionStep(v.execution[x], row)
          ELSE v.execution[x]]
    BY DEF Viewed
  <2>2. ASSUME NEW x \in Execution
        PROVE  /\ Known(ExecutionStep(v.execution[x], row), ExecutionState)
               /\ Known(v.execution[x], ExecutionState)
    BY ExecutionStepKnown DEF Sane
  <2> HIDE DEF new
  <2>3. \A x \in Execution : Known(new.execution[x], ExecutionState)
    BY <2>1, <2>2
  <2> QED
    BY <2>1, <2>3 DEF Known
<1>4. /\ new.containment \in [Execution \X Generation -> View(ContainmentState)]
      /\ \A b \in Execution \X Generation : Known(new.containment[b], ContainmentState)
  <2>1. new.containment = [b \in Execution \X Generation |->
          IF row.event.execution = b[1] THEN ContainmentStep(v.containment[b], row, b[2])
          ELSE v.containment[b]]
    BY DEF Viewed
  <2>2. ASSUME NEW b \in Execution \X Generation
        PROVE  /\ Known(ContainmentStep(v.containment[b], row, b[2]), ContainmentState)
               /\ Known(v.containment[b], ContainmentState)
    BY ContainmentStepKnown DEF Sane
  <2> HIDE DEF new
  <2>3. \A b \in Execution \X Generation : Known(new.containment[b], ContainmentState)
    BY <2>1, <2>2
  <2> QED
    BY <2>1, <2>3 DEF Known
<1>5. /\ new.run \in [Run -> RunRow]
      /\ \A r \in Run : RunKnown(new.run[r], row.id) /\ (new.run[r].from = 0 => new.run[r] = NoRun)
  <2>1. new.run = [r \in Run |->
          IF row.event.run = r THEN RunStep(v.run[r], row) ELSE v.run[r]]
    BY DEF Viewed
  <2>2. ASSUME NEW r \in Run
        PROVE  /\ RunKnown(RunStep(v.run[r], row), row.id)
               /\ RunStep(v.run[r], row).from = 0 => RunStep(v.run[r], row) = NoRun
               /\ RunKnown(v.run[r], row.id)
               /\ v.run[r].from = 0 => v.run[r] = NoRun
    <3>1. RunKnown(v.run[r], top) /\ (v.run[r].from = 0 => v.run[r] = NoRun)
      BY DEF Sane
    <3>2. row.id \in Nat
      BY DEF OKRow
    <3>3. RunKnown(v.run[r], row.id)
      BY <3>1, <3>2, Bounds DEF RunKnown, RunRow
    <3> QED
      BY <3>1, <3>3, RunStepKnown
  <2> HIDE DEF new
  <2>3. \A r \in Run : RunKnown(new.run[r], row.id) /\ (new.run[r].from = 0 => new.run[r] = NoRun)
    BY <2>1, <2>2
  <2> QED
    BY <2>1, <2>3 DEF RunKnown
<1> HIDE DEF new
<1>6. Sane(new, row.id)
  BY <1>1, <1>2, <1>3, <1>4, <1>5 DEF Sane
<1> QED
  BY <1>6 DEF new

\* The ids of the rows do not fall, nor pass the bound; `Top' is the last.
InOrder(rows) ==
  /\ \A n \in 1 .. Len(rows) : rows[n].id <= MaxRows
  /\ \A m, n \in 1 .. Len(rows) : m < n => rows[m].id <= rows[n].id
Top(rows) == IF Len(rows) = 0 THEN 0 ELSE rows[Len(rows)].id

LEMMA SeenSane ==
  ASSUME NEW rows \in Seq(OKRow), InOrder(rows)
  PROVE  Sane(Seen(rows), Top(rows))
<1> DEFINE Lengths == {n \in Nat : \A f \in Seq(OKRow) :
                         Len(f) = n /\ InOrder(f) => Sane(Seen(f), Top(f))}
<1>1. 0 \in Lengths
  BY SeenStarts, NoViewsSane DEF Top
<1>2. ASSUME NEW n \in Lengths
      PROVE  n + 1 \in Lengths
  <2> SUFFICES ASSUME NEW f \in Seq(OKRow), Len(f) = n + 1, InOrder(f)
               PROVE  Sane(Seen(f), Top(f))
    OBVIOUS
  <2>1. PICK front \in Seq(OKRow), last \in OKRow : f = Append(front, last) /\ Len(front) = n
    BY LastOfSeq
  <2>2. /\ \A k \in 1 .. n : f[k] = front[k]
        /\ f[n + 1] = last
    BY <2>1, AppendProperties
  <2>3. n + 1 \in 1 .. n + 1 /\ n \in Nat /\ \A k \in 1 .. n : k \in 1 .. n + 1 /\ k < n + 1
    OBVIOUS
  <2>4. InOrder(front)
    BY <2>1, <2>2, <2>3 DEF InOrder
  <2>5. Sane(Seen(front), Top(front))
    BY <2>1, <2>4
  <2>6. last.id <= MaxRows /\ last.id \in Nat
    BY <2>2, <2>3 DEF InOrder, OKRow
  <2>7. Top(front) \in Nat /\ Top(front) <= last.id
    <3>1. CASE n = 0
      BY <2>1, <2>6, <3>1 DEF Top
    <3>2. CASE n # 0
      <4>1. n \in 1 .. n /\ n \in 1 .. n + 1 /\ n < n + 1
        BY <2>3, <3>2
      <4>2. Top(front) = front[n].id /\ front[n] \in OKRow
        BY <2>1, <3>2, <4>1, ElementOfSeq DEF Top
      <4>3. f[n].id <= f[n + 1].id
        BY <2>3, <4>1 DEF InOrder
      <4> QED
        BY <2>2, <4>1, <4>2, <4>3 DEF OKRow
    <3> QED
      BY <3>1, <3>2
  <2>8. Seen(f) = Viewed(Seen(front), last)
    BY <2>1, SeenAlways, SeenGrows
  <2>9. Top(f) = last.id
    BY <2>2 DEF Top
  <2> QED
    BY <2>5, <2>6, <2>7, <2>8, <2>9, ViewedSane
<1>3. Lengths = Nat
  <2> HIDE DEF Lengths
  <2>1. Lengths \subseteq Nat
    BY DEF Lengths
  <2> QED
    BY <1>1, <1>2, <2>1, Induction
<1> QED
  BY <1>3, LenProperties

LEMMA ReadInOrder ==
  ASSUME NEW rows \in Seq(Row)
  PROVE  OKRows(rows) \in Seq(OKRow) /\ InOrder(OKRows(rows))
<1>1. OKRows(rows) \in Seq(OKRow)
  BY OKRowsRead
<1>2. ASSUME NEW n \in 1 .. Len(OKRows(rows))
      PROVE  OKRows(rows)[n].id <= MaxRows
  <2>1. PICK k \in Good(rows) : OKRows(rows)[n] = rows[k]
    BY OKRowsRead
  <2> QED
    BY <2>1, GoodRows, Bounds
<1> QED
  BY <1>1, <1>2, OKRowsSorted DEF InOrder

-----------------------------------------------------------------------------
(* What is stored of it.                                                   *)

\* The row of an execution that is stored by a given version.
Costless(view) == [view EXCEPT !.cost = "unknown"]
Stored(view, v) == IF v = 3 THEN Pending(view) ELSE Costless(Pending(view))

\* The tables that a projection by a given version gives.
Table(seen, v) ==
  [issue |-> seen.issue, execution |-> [x \in Execution |-> Stored(seen.execution[x], v)],
   containment |-> seen.containment, run |-> seen.run]

StoredState == ExecutionState \cup {"Pending reconciliation"}

LEMMA ProjectedIsTable ==
  ASSUME NEW rows \in Seq(Row)
  PROVE  Projected(rows) = Table(Seen(OKRows(rows)), version)
<1> DEFINE seen == Seen(OKRows(rows))
<1>1. seen = [issue |-> seen.issue, execution |-> seen.execution,
              containment |-> seen.containment, run |-> seen.run]
  BY ReadInOrder, SeenSane DEF Sane
<1> HIDE DEF seen
<1>2. Views(OKRows(rows)) =
        [seen EXCEPT !.execution = [x \in Execution |-> Pending(seen.execution[x])]]
  BY DEF Views, seen
<1>3. Views(OKRows(rows)) =
        [issue |-> seen.issue, execution |-> [x \in Execution |-> Pending(seen.execution[x])],
         containment |-> seen.containment, run |-> seen.run]
  BY <1>1, <1>2
<1>4. CASE version = 3
  BY <1>3, <1>4 DEF Projected, Table, Stored, seen
<1>5. CASE version # 3
  <2> DEFINE w == Views(OKRows(rows))
  <2>1. w.execution = [x \in Execution |-> Pending(seen.execution[x])]
    BY <1>3
  <2>2. WithoutCost(w) =
          [w EXCEPT !.execution = [x \in Execution |-> Costless(w.execution[x])]]
    BY DEF WithoutCost, Costless
  <2>3. [x \in Execution |-> Costless(w.execution[x])] =
          [x \in Execution |-> Stored(seen.execution[x], version)]
    BY <1>5, <2>1 DEF Stored
  <2>4. Projected(rows) = WithoutCost(w)
    BY <1>5 DEF Projected
  <2> QED
    BY <1>3, <2>2, <2>3, <2>4 DEF Table, seen
<1> QED
  BY <1>4, <1>5

LEMMA StoredKnown ==
  ASSUME NEW view, Known(view, ExecutionState), NEW v
  PROVE  Known(Stored(view, v), StoredState) /\ (Stored(view, v) = NoView => view = NoView)
<1>1. /\ Known(Pending(view), StoredState)
      /\ Pending(view).state = "NONE" => view.state = "NONE" /\ Pending(view) = view
  BY DEF Pending, Known, View, StoredState
<1>2. /\ Known(Costless(Pending(view)), StoredState)
      /\ Costless(Pending(view)).state = Pending(view).state
  <2> DEFINE p == Pending(view)
  <2>1. Known(p, StoredState)
    BY <1>1
  <2> HIDE DEF p
  <2>2. Costless(p) \in View(StoredState) /\ Costless(p).state = p.state
    BY <2>1 DEF Costless, Known, View
  <2>3. Costless(NoView) = NoView
    <3>1. NoView \in View(StoredState)
      BY NoneKnown DEF Known
    <3>2. NoView.cost = "unknown"
      BY DEF NoView
    <3>3. \A w \in View(StoredState) : w.cost = "unknown" => Costless(w) = w
      BY DEF View, Costless
    <3> QED
      BY <3>1, <3>2, <3>3
  <2>4. Known(Costless(p), StoredState) /\ Costless(p).state = p.state
    BY <2>1, <2>2, <2>3 DEF Known
  <2> QED
    BY <2>4 DEF p
<1>3. NoView.state = "NONE"
  BY NoneKnown
<1>4. Known(Stored(view, v), StoredState)
  BY <1>1, <1>2 DEF Stored
<1>5. ASSUME Stored(view, v) = NoView
      PROVE  view = NoView
  <2>1. Pending(view).state = "NONE"
    BY <1>2, <1>3, <1>5 DEF Stored
  <2> QED
    BY <1>1, <2>1 DEF Known
<1> QED
  BY <1>4, <1>5

\* What the type invariant says of the tables.
Tables(v) ==
  /\ v \in
       [issue: [Issue -> View(IssueState)], execution: [Execution -> View(StoredState)],
        containment: [Execution \X Generation -> View(ContainmentState)], run: [Run -> RunRow]]
  /\ \A r \in Run : /\ v.run[r].finished # 0 =>
                         v.run[r].until # 0 /\ v.run[r].until <= v.run[r].finished
                    /\ v.run[r].from <= v.run[r].started

LEMMA TableTyped ==
  ASSUME NEW seen, NEW top, Sane(seen, top), NEW v
  PROVE  Tables(Table(seen, v))
<1>1. [x \in Execution |-> Stored(seen.execution[x], v)] \in [Execution -> View(StoredState)]
  BY StoredKnown DEF Sane, Known
<1>2. \A r \in Run : RunKnown(seen.run[r], top)
  BY DEF Sane
<1> QED
  BY <1>1, <1>2 DEF Tables, Table, Sane, RunKnown

LEMMA UpdatedTyped ==
  ASSUME NEW old, NEW new, Tables(old), Tables(new), NEW row
  PROVE  Tables(Updated(old, new, row))
<1> DEFINE u == Updated(old, new, row)
<1>1. u.issue \in [Issue -> View(IssueState)]
  BY DEF Updated, Applied1, Tables
<1>2. u.execution \in [Execution -> View(StoredState)]
  BY DEF Updated, Applied1, Tables
<1>3. u.containment \in [Execution \X Generation -> View(ContainmentState)]
  BY DEF Updated, Tables
<1>4. u.run \in [Run -> RunRow] /\ \A r \in Run : u.run[r] = new.run[r] \/ u.run[r] = old.run[r]
  BY DEF Updated, Applied1, Tables
<1>5. u = [issue |-> u.issue, execution |-> u.execution,
           containment |-> u.containment, run |-> u.run]
  BY DEF Updated
<1> HIDE DEF u
<1>6. Tables(u)
  BY <1>1, <1>2, <1>3, <1>4, <1>5 DEF Tables
<1> QED
  BY <1>6 DEF u

-----------------------------------------------------------------------------
(* Replaying only the entities that a row names.                           *)

LEMMA NamedOf ==
  ASSUME NEW row \in OKRow
  PROVE  /\ \A i \in Issue : i \in Named(row, "issue") <=> row.event.issue = i
         /\ \A x \in Execution : x \in Named(row, "execution") <=> row.event.execution = x
         /\ \A r \in Run : r \in Named(row, "run") <=> row.event.run = r
<1>1. /\ Named(row, "issue") = {row.event.issue} \ {None}
      /\ Named(row, "execution") = {row.event.execution} \ {None}
      /\ Named(row, "run") = {row.event.run} \ {None}
  BY DEF Named, OKRow
<1> QED
  BY <1>1, NoneAssumption

\* It gives what replaying all of them gives.
LEMMA UpdatedIsTable ==
  ASSUME NEW seen, NEW top \in Nat, Sane(seen, top), NEW v,
         NEW row \in OKRow, row.id <= MaxRows, top <= row.id
  PROVE  Updated(Table(seen, v), Table(Viewed(seen, row), v), row) = Table(Viewed(seen, row), v)
<1> DEFINE next == Viewed(seen, row)
           old == Table(seen, v)
           new == Table(next, v)
           u == Updated(old, new, row)
<1>0. /\ \A view : Known(view, IssueState) /\ view.state = "NONE" => view = NoView
      /\ \A view : Known(view, ExecutionState) /\ view.state = "NONE" => view = NoView
      /\ NoView.state = "NONE"
  BY NoneKnown DEF Known
<1>1. u.issue = new.issue
  <2>1. /\ old.issue = seen.issue /\ DOMAIN seen.issue = Issue
        /\ new.issue = [i \in Issue |->
             IF row.event.issue = i THEN IssueStep(seen.issue[i], row) ELSE seen.issue[i]]
    BY DEF Table, Viewed, Sane
  <2>2. u.issue = [i \in Issue |->
          IF row.event.issue = i /\ new.issue[i] # NoView THEN new.issue[i] ELSE seen.issue[i]]
    <3>1. u.issue = Applied1(new.issue, old.issue, NoView, Named(row, "issue"))
      BY DEF Updated
    <3> HIDE DEF u, new, old, next
    <3> QED
      BY <2>1, <3>1, NamedOf DEF Applied1
  <2>3. ASSUME NEW i \in Issue, IssueStep(seen.issue[i], row) = NoView
        PROVE  seen.issue[i] = NoView
    <3>1. Known(seen.issue[i], IssueState)
      BY DEF Sane
    <3>2. seen.issue[i].state = "NONE"
      BY <1>0, <2>3, <3>1, IssueStepKnown
    <3> QED
      BY <1>0, <3>1, <3>2
  <2> HIDE DEF u, new, old, next
  <2> QED
    BY <2>1, <2>2, <2>3
<1>2. u.execution = new.execution
  <2>1. /\ old.execution = [x \in Execution |-> Stored(seen.execution[x], v)]
        /\ new.execution = [x \in Execution |-> Stored(next.execution[x], v)]
        /\ next.execution = [x \in Execution |->
             IF row.event.execution = x THEN ExecutionStep(seen.execution[x], row)
             ELSE seen.execution[x]]
    BY DEF Table, Viewed
  <2>2. u.execution = [x \in Execution |->
          IF row.event.execution = x /\ new.execution[x] # NoView THEN new.execution[x]
          ELSE old.execution[x]]
    <3>1. u.execution = Applied1(new.execution, old.execution, NoView, Named(row, "execution"))
      BY DEF Updated
    <3> HIDE DEF u, new, old, next
    <3> QED
      BY <2>1, <3>1, NamedOf DEF Applied1
  <2>3. ASSUME NEW x \in Execution, row.event.execution = x, new.execution[x] = NoView
        PROVE  old.execution[x] = NoView
    <3>1. /\ Known(seen.execution[x], ExecutionState)
          /\ Known(ExecutionStep(seen.execution[x], row), ExecutionState)
          /\ ExecutionStep(seen.execution[x], row).state = "NONE"
               => seen.execution[x].state = "NONE"
      BY ExecutionStepKnown DEF Sane
    <3>2. ExecutionStep(seen.execution[x], row) = NoView
      <4>1. Stored(ExecutionStep(seen.execution[x], row), v) = NoView
        BY <2>1, <2>3
      <4> QED
        BY <3>1, <4>1, StoredKnown
    <3>3. seen.execution[x] = NoView
      BY <1>0, <3>1, <3>2
    <3> QED
      BY <2>1, <2>3, <3>2, <3>3
  <2> HIDE DEF u, new, old, next
  <2> QED
    BY <2>1, <2>2, <2>3
<1>3. u.containment = new.containment
  <2>1. /\ old.containment = seen.containment
        /\ DOMAIN seen.containment = Execution \X Generation
        /\ new.containment = [b \in Execution \X Generation |->
             IF row.event.execution = b[1] THEN ContainmentStep(seen.containment[b], row, b[2])
             ELSE seen.containment[b]]
    BY DEF Table, Viewed, Sane
  <2>2. u.containment = [b \in Execution \X Generation |->
          IF row.event.execution = b[1] THEN new.containment[b] ELSE seen.containment[b]]
    <3>1. u.containment = [b \in DOMAIN old.containment |->
            IF b[1] \in Named(row, "execution") THEN new.containment[b] ELSE old.containment[b]]
      BY DEF Updated
    <3> HIDE DEF u, new, old, next
    <3>2. \A b \in Execution \X Generation : b[1] \in Execution
      OBVIOUS
    <3> QED
      BY <2>1, <3>1, <3>2, NamedOf
  <2> HIDE DEF u, new, old, next
  <2> QED
    BY <2>1, <2>2
<1>4. u.run = new.run
  <2>1. /\ old.run = seen.run /\ DOMAIN seen.run = Run
        /\ new.run = [r \in Run |->
             IF row.event.run = r THEN RunStep(seen.run[r], row) ELSE seen.run[r]]
    BY DEF Table, Viewed, Sane
  <2>2. u.run = [r \in Run |->
          IF row.event.run = r /\ new.run[r] # NoRun THEN new.run[r] ELSE seen.run[r]]
    <3>1. u.run = Applied1(new.run, old.run, NoRun, Named(row, "run"))
      BY DEF Updated
    <3> HIDE DEF u, new, old, next
    <3> QED
      BY <2>1, <3>1, NamedOf DEF Applied1
  <2>3. ASSUME NEW r \in Run, RunStep(seen.run[r], row) = NoRun
        PROVE  seen.run[r] = NoRun
    <3>1. NoRun.from = 0
      BY DEF NoRun
    <3> QED
      BY <2>3, <3>1, RunStepKnown DEF Sane
  <2> HIDE DEF u, new, old, next
  <2> QED
    BY <2>1, <2>2, <2>3
<1>5. /\ u = [issue |-> u.issue, execution |-> u.execution,
              containment |-> u.containment, run |-> u.run]
      /\ new = [issue |-> new.issue, execution |-> new.execution,
                containment |-> new.containment, run |-> new.run]
  BY DEF Updated, Table
<1> HIDE DEF u, new, old, next
<1>6. u = new
  BY <1>1, <1>2, <1>3, <1>4, <1>5
<1> QED
  BY <1>6 DEF u, new, old, next

\* A row that names nothing leaves the tables alone.
LEMMA NothingUpdated ==
  ASSUME NEW t, Tables(t), NEW new, NEW row, row.is # "OK"
  PROVE  Updated(t, new, row) = t
<1>1. \A key : Named(row, key) = {}
  BY DEF Named
<1>2. t = [issue |-> t.issue, execution |-> t.execution, containment |-> t.containment,
           run |-> t.run]
  BY DEF Tables
<1>3. /\ t.issue = [k \in DOMAIN t.issue |-> t.issue[k]]
      /\ t.execution = [k \in DOMAIN t.execution |-> t.execution[k]]
      /\ t.containment = [k \in DOMAIN t.containment |-> t.containment[k]]
      /\ t.run = [k \in DOMAIN t.run |-> t.run[k]]
  BY DEF Tables
<1>4. /\ Applied1(new.issue, t.issue, NoView, {}) = t.issue
      /\ Applied1(new.execution, t.execution, NoView, {}) = t.execution
      /\ Applied1(new.run, t.run, NoRun, {}) = t.run
  BY <1>3 DEF Applied1
<1>5. [b \in DOMAIN t.containment |->
         IF b[1] \in {} THEN new.containment[b] ELSE t.containment[b]] = t.containment
  BY <1>3
<1> QED
  BY <1>1, <1>2, <1>4, <1>5 DEF Updated

-----------------------------------------------------------------------------
(* The inductive invariant.                                                *)

\* An id is that of the position, or was used before by an append that failed.
IdsLow == \A k \in Good(evidence) : evidence[k].id <= k

ReadInv ==
  /\ TypeOK
  /\ known + MaxNew <= MaxRows
  /\ IdsLow
  /\ ReadyIsComplete

LEMMA TypeParts ==
  TypeOK <=>
    /\ evidence \in Seq(Row) /\ known \in Nat /\ Len(evidence) <= known + MaxNew
    /\ corrupt \subseteq 1 .. MaxRows
    /\ Tables(views)
    /\ version \in {2, 3}
    /\ status \in {"PREPARING", "READY", "REBUILDING", "ERROR"}
    /\ edits \in Nat /\ oddities \in Nat /\ edits + oddities <= MaxOddities
BY DEF TypeOK, Tables, StoredState

LEMMA TypePartsNext ==
  TypeOK' <=>
    /\ evidence' \in Seq(Row) /\ known' \in Nat /\ Len(evidence') <= known' + MaxNew
    /\ corrupt' \subseteq 1 .. MaxRows
    /\ Tables(views')
    /\ version' \in {2, 3}
    /\ status' \in {"PREPARING", "READY", "REBUILDING", "ERROR"}
    /\ edits' \in Nat /\ oddities' \in Nat /\ edits' + oddities' <= MaxOddities
BY DEF TypeOK, Tables, StoredState

LEMMA ProjectedTyped ==
  ASSUME NEW rows \in Seq(Row)
  PROVE  Tables(Projected(rows))
BY ProjectedIsTable, ReadInOrder, SeenSane, TableTyped

LEMMA RowKinds ==
  /\ Torn \in Row /\ Malformed \in Row
  /\ Torn.is = "TORN" /\ Malformed.is = "MALFORMED"
  /\ \A e \in Event, id \in 1 .. MaxRows :
       OK(e, id) \in Row /\ OK(e, id).is = "OK" /\ OK(e, id).id = id /\ OK(e, id).event = e
  /\ \A row \in Row : row.is = "OK" => row \in OKRow /\ row.id \in 1 .. MaxRows
<1>1. ASSUME NEW row \in Row, row.is = "OK"
      PROVE  row \in OKRow /\ row.id \in 1 .. MaxRows
  <2>1. PICK e \in Event, id \in 1 .. MaxRows : row = OK(e, id)
    BY <1>1 DEF Row, Torn, Malformed
  <2> QED
    BY <2>1, Bounds DEF OK, OKRow
<1>2. /\ Torn \in Row /\ Malformed \in Row
      /\ \A e \in Event, id \in 1 .. MaxRows : OK(e, id) \in Row
  BY DEF Row
<1>3. Torn.is = "TORN" /\ Malformed.is = "MALFORMED"
  BY DEF Torn, Malformed
<1>4. \A e \in Event, id \in 1 .. MaxRows :
        OK(e, id).is = "OK" /\ OK(e, id).id = id /\ OK(e, id).event = e
  BY DEF OK
<1> QED
  BY <1>1, <1>2, <1>3, <1>4

LEMMA InitInv == Init => ReadInv
<1> SUFFICES ASSUME Init
             PROVE  ReadInv
  OBVIOUS
<1>1. PICK h \in Histories : known = Len(h) /\ evidence = [k \in DOMAIN h |-> OK(h[k], k)]
  BY DEF Init
<1>2. h \in Seq(Event) /\ Len(h) \in Nat /\ Len(h) + MaxNew <= MaxRows /\ DOMAIN h = 1 .. Len(h)
  BY Bounds, ReadModelsAssumption, LenProperties
<1>3. MaxNew \in Nat /\ MaxOddities \in Nat /\ MaxRows \in Nat
  BY Bounds, ReadModelsAssumption
<1>4. \A k \in 1 .. Len(h) : h[k] \in Event /\ k \in 1 .. MaxRows
  BY <1>2, <1>3, ElementOfSeq
<1>5. evidence \in [1 .. Len(h) -> Row]
  BY <1>1, <1>2, <1>4, RowKinds
<1>6. evidence \in Seq(Row) /\ Len(evidence) = Len(h)
  BY <1>2, <1>5
<1>7. Tables(views)
  BY <1>6, ProjectedTyped DEF Init
<1>8. TypeOK
  BY <1>1, <1>2, <1>3, <1>6, <1>7, TypeParts DEF Init
<1>9. IdsLow
  BY <1>1, <1>2, <1>4, RowKinds DEF IdsLow, Good
<1> QED
  BY <1>1, <1>2, <1>8, <1>9 DEF ReadInv, Init, ReadyIsComplete

\* What storing a row changes in the rows.
LEMMA Inserted ==
  ASSUME evidence \in Seq(Row), NEW K \in 1 .. Len(evidence) + 1, NEW row \in Row,
         Persist(K, row)
  PROVE  /\ evidence' \in Seq(Row) /\ K \in 1 .. Len(evidence')
         /\ Len(evidence') = IF K = Len(evidence) + 1 THEN Len(evidence) + 1 ELSE Len(evidence)
         /\ evidence'[K] = row
         /\ \A k \in 1 .. Len(evidence) : k # K => evidence'[k] = evidence[k]
<1>1. DOMAIN evidence = 1 .. Len(evidence) /\ Len(evidence) \in Nat
  BY LenProperties
<1>2. CASE K = Len(evidence) + 1
  <2>1. K \notin DOMAIN evidence
    BY <1>1, <1>2
  <2>2. evidence' = Append(evidence, row)
    BY <2>1 DEF Persist
  <2> QED
    BY <1>1, <1>2, <2>2, AppendProperties
<1>3. CASE K # Len(evidence) + 1
  <2>1. K \in DOMAIN evidence
    BY <1>1, <1>3
  <2>2. evidence' = [evidence EXCEPT ![K] = row]
    BY <2>1 DEF Persist
  <2>3. evidence' \in Seq(Row) /\ Len(evidence') = Len(evidence)
    BY <2>1, <2>2, ExceptSeq
  <2> QED
    BY <1>1, <1>3, <2>1, <2>2, <2>3
<1> QED
  BY <1>2, <1>3

\* The types of what it changes.
LEMMA PersistTyped ==
  ASSUME TypeOK, NEW K \in 1 .. Len(evidence) + 1, NEW row \in Row, Persist(K, row)
  PROVE  /\ evidence' \in Seq(Row) /\ corrupt' \subseteq 1 .. MaxRows /\ Tables(views')
         /\ status' \in {"PREPARING", "READY", "REBUILDING", "ERROR"}
         /\ known' = known /\ version' = version
<1>1. evidence \in Seq(Row) /\ corrupt \subseteq 1 .. MaxRows /\ Tables(views)
  BY TypeParts
<1>2. evidence' \in Seq(Row)
  BY <1>1, Inserted
<1>3. Tables(Projected(evidence'))
  BY <1>2, ProjectedTyped
<1>4. views' = views \/ views' = Updated(views, Projected(evidence'), row)
  BY DEF Persist
<1>5. Tables(views')
  BY <1>1, <1>3, <1>4, UpdatedTyped
<1>6. corrupt' \subseteq 1 .. MaxRows
  <2>1. Conflicts(row) => row.is = "OK"
    BY DEF Conflicts
  <2>2. corrupt' = IF Conflicts(row) THEN corrupt \cup {row.id} ELSE corrupt
    BY DEF Persist
  <2> QED
    BY <1>1, <2>1, <2>2, RowKinds
<1>7. status' \in {"PREPARING", "READY", "REBUILDING", "ERROR"}
  BY TypeParts DEF Persist
<1> QED
  BY <1>2, <1>5, <1>6, <1>7 DEF Persist

\* A row that comes behind the others is read behind the others.
LEMMA ArrivedRow ==
  ASSUME evidence \in Seq(Row), IdsLow, NEW K \in Nat, Arrives(K),
         NEW row \in Row, row.is = "OK" => row.id \in {K, K - 1}, Persist(K, row)
  PROVE  /\ K \in 1 .. Len(evidence) + 1
         /\ OKRows(evidence') =
              IF row.is = "OK" THEN Append(OKRows(evidence), row) ELSE OKRows(evidence)
         /\ IdsLow'
         /\ \A n \in 1 .. Len(OKRows(evidence)) : row.is = "OK" => OKRows(evidence)[n].id <= row.id
<1>1. Len(evidence) \in Nat /\ DOMAIN evidence = 1 .. Len(evidence)
  BY LenProperties
<1> DEFINE n == Len(evidence)
<1>3. K = n + 1 \/ (K = n /\ K > 0 /\ evidence[K] = Torn)
  BY DEF Arrives
<1>2. K \in 1 .. Len(evidence) + 1
  <2> HIDE DEF n
  <2>1. n \in Nat
    BY <1>1 DEF n
  <2>2. K \in 1 .. n + 1
    BY <1>3, <2>1
  <2> QED
    BY <2>2 DEF n
<1>4. /\ evidence' \in Seq(Row) /\ K \in 1 .. Len(evidence')
      /\ Len(evidence') = IF K = Len(evidence) + 1 THEN Len(evidence) + 1 ELSE Len(evidence)
      /\ evidence'[K] = row
      /\ \A k \in 1 .. Len(evidence) : k # K => evidence'[k] = evidence[k]
  BY <1>2, Inserted
<1>5. DOMAIN evidence' = 1 .. Len(evidence')
  BY <1>4, LenProperties
<1>6. K \notin Good(evidence)
  <2>1. CASE K = n + 1
    <3>1. Good(evidence) \subseteq 1 .. n
      BY <1>1 DEF Good
    <3> HIDE DEF n
    <3> QED
      BY <1>1, <2>1, <3>1 DEF n
  <2>2. CASE evidence[K] = Torn
    BY <2>2, RowKinds DEF Good
  <2> QED
    BY <1>3, <2>1, <2>2
<1>7. \A k \in Good(evidence) : k \in 1 .. Len(evidence) /\ k < K /\ evidence'[k] = evidence[k]
  BY <1>1, <1>3, <1>4, <1>6 DEF Good
<1>8. Good(evidence') \ {K} = Good(evidence)
  <2>1. ASSUME NEW k \in Good(evidence') \ {K}
        PROVE  k \in Good(evidence)
    <3>1. k \in 1 .. Len(evidence') /\ k # K /\ evidence'[k].is = "OK"
      BY <1>5 DEF Good
    <3>2. k \in 1 .. Len(evidence)
      <4>1. CASE K = Len(evidence) + 1
        <5>1. Len(evidence') = Len(evidence) + 1
          BY <1>4, <4>1
        <5>2. \A m \in Nat : k \in 1 .. m + 1 /\ k # m + 1 => k \in 1 .. m
          OBVIOUS
        <5> QED
          BY <1>1, <3>1, <4>1, <5>1, <5>2
      <4>2. CASE K # Len(evidence) + 1
        <5>1. Len(evidence') = Len(evidence)
          BY <1>4, <4>2
        <5> QED
          BY <3>1, <5>1
      <4> QED
        BY <4>1, <4>2
    <3> QED
      BY <1>1, <1>4, <3>1, <3>2 DEF Good
  <2>2. ASSUME NEW k \in Good(evidence)
        PROVE  k \in Good(evidence') \ {K}
    <3>1. k \in 1 .. Len(evidence')
      <4>1. k \in 1 .. n /\ n \in Nat /\ Len(evidence') \in {n, n + 1}
        BY <1>1, <1>4, <1>7
      <4> HIDE DEF n
      <4> QED
        BY <4>1
    <3>2. evidence[k].is = "OK"
      BY DEF Good
    <3> QED
      BY <1>5, <1>6, <1>7, <3>1, <3>2 DEF Good
  <2> QED
    BY <2>1, <2>2
<1>9. \A k \in Good(evidence) : evidence[k].id <= k /\ evidence[k].id \in Nat /\ k \in Nat
  BY GoodRows, Bounds DEF IdsLow
<1>10. row.is = "OK" => \A k \in Good(evidence) : evidence[k].id <= row.id
  <2> SUFFICES ASSUME row.is = "OK", NEW k \in Good(evidence)
               PROVE  evidence[k].id <= row.id
    OBVIOUS
  <2>1. k <= K - 1
    BY <1>7, <1>9
  <2> QED
    BY <1>9, <2>1
<1>11. OKRows(evidence') =
         IF row.is = "OK" THEN Append(OKRows(evidence), row) ELSE OKRows(evidence)
  <2> DEFINE old == evidence
             new == evidence'
  <2>1. /\ old \in Seq(Row) /\ new \in Seq(Row) /\ K \in 1 .. Len(new)
        /\ Good(new) \ {K} = Good(old) /\ K \notin Good(old)
        /\ \A k \in Good(old) : new[k] = old[k] /\ k < K
        /\ new[K] = row
        /\ row.is = "OK" => \A k \in Good(old) : old[k].id <= row.id
    BY <1>4, <1>6, <1>7, <1>8, <1>10
  <2> HIDE DEF old, new
  <2>2. OKRows(new) = IF row.is = "OK" THEN Append(OKRows(old), row) ELSE OKRows(old)
    BY <2>1, OKRowsGrow
  <2> QED
    BY <2>2 DEF old, new
<1>12. IdsLow'
  <2>1. ASSUME NEW k \in Good(evidence')
        PROVE  evidence'[k].id <= k
    <3>1. CASE k # K
      BY <1>7, <1>8, <1>9, <3>1
    <3>2. CASE k = K
      BY <1>4, <3>2 DEF Good
    <3> QED
      BY <3>1, <3>2
  <2> QED
    BY <2>1 DEF IdsLow
<1>13. \A m \in 1 .. Len(OKRows(evidence)) :
         row.is = "OK" => OKRows(evidence)[m].id <= row.id
  BY <1>10, OKRowsRead
<1> QED
  BY <1>2, <1>11, <1>12, <1>13

\* So the tables that storing it gives are those of all the rows.
LEMMA ArrivedServed ==
  ASSUME TypeOK, IdsLow, NEW K \in Nat, Arrives(K),
         NEW row \in Row, row.is = "OK" => row.id \in {K, K - 1}, Persist(K, row),
         row = Torn => K \notin DOMAIN evidence, views = Projected(evidence)
  PROVE  views' = Projected(evidence')
<1> DEFINE rows == OKRows(evidence)
           seen == Seen(rows)
           next == Seen(OKRows(evidence'))
<1>1. /\ evidence \in Seq(Row) /\ evidence' \in Seq(Row) /\ Tables(views)
      /\ K \in 1 .. Len(evidence) + 1
  BY ArrivedRow, PersistTyped, TypeParts
<1>2. views' = Updated(views, Projected(evidence'), row)
  <2>1. K \in DOMAIN evidence => evidence[K] = Torn
    BY <1>1, LenProperties DEF Arrives
  <2>2. K \notin DOMAIN evidence \/ evidence[K] # row
    BY <2>1
  <2> QED
    BY <2>2 DEF Persist
<1>3. /\ Projected(evidence) = Table(seen, version)
      /\ Projected(evidence') = Table(next, version)
  BY <1>1, ProjectedIsTable
<1>4. rows \in Seq(OKRow) /\ InOrder(rows) /\ Sane(seen, Top(rows))
  BY <1>1, ReadInOrder, SeenSane
<1>5. CASE row.is # "OK"
  <2>1. OKRows(evidence') = rows
    BY <1>1, <1>5, ArrivedRow
  <2>2. Projected(evidence') = views
    BY <1>3, <2>1
  <2> QED
    BY <1>1, <1>2, <1>5, <2>2, NothingUpdated
<1>6. CASE row.is = "OK"
  <2>1. row \in OKRow /\ row.id \in 1 .. MaxRows /\ row.id <= MaxRows /\ row.id \in Nat
    BY <1>6, RowKinds, Bounds
  <2>2. OKRows(evidence') = Append(rows, row)
    BY <1>1, <1>6, ArrivedRow
  <2>3. next = Viewed(seen, row)
    BY <1>4, <2>1, <2>2, SeenAlways, SeenGrows
  <2>4. Top(rows) \in Nat /\ Top(rows) <= row.id
    <3>1. CASE Len(rows) = 0
      BY <2>1, <3>1 DEF Top
    <3>2. CASE Len(rows) # 0
      <4>1. Len(rows) \in 1 .. Len(rows)
        BY <1>4, <3>2, LenProperties
      <4>2. Top(rows) = rows[Len(rows)].id /\ rows[Len(rows)] \in OKRow
        BY <1>4, <3>2, <4>1, ElementOfSeq DEF Top
      <4>3. rows[Len(rows)].id <= row.id
        BY <1>1, <1>6, <4>1, ArrivedRow
      <4> QED
        BY <4>2, <4>3 DEF OKRow
    <3> QED
      BY <3>1, <3>2
  <2> HIDE DEF rows, seen, next
  <2> QED
    BY <1>2, <1>3, <1>4, <2>1, <2>3, <2>4, UpdatedIsTable
<1> QED
  BY <1>5, <1>6

\* Which record arrives.
LEMMA RecordArrivesOf ==
  ASSUME ReadInv, RecordArrives
  PROVE  \E K \in Nat, row \in Row :
           /\ K <= known + MaxNew /\ Arrives(K) /\ Persist(K, row)
           /\ row = Torn => K \notin DOMAIN evidence
           /\ row.is = "OK" => row.id \in {K, K - 1}
           /\ edits' = edits /\ oddities' \in Nat /\ edits' + oddities' <= MaxOddities
<1> DEFINE regular(row, K) ==
      row = Torn \/ (row.is = "OK" /\ row.id = K /\ Accepts(Strict(OKRows(evidence)), row.event))
<1>0. /\ known + MaxNew <= MaxRows
      /\ known \in Nat /\ MaxNew \in Nat /\ MaxRows \in Nat /\ MaxOddities \in Nat
      /\ edits \in Nat /\ oddities \in Nat /\ edits + oddities <= MaxOddities
  BY TypeParts, Bounds, ReadModelsAssumption DEF ReadInv
<1> PICK K \in 1 .. known + MaxNew :
      /\ Arrives(K)
      /\ \E row \in {Torn, Malformed} \cup {OK(e, id) : e \in Event, id \in {K, K - 1} \ {0}} :
           /\ row = Torn => K \notin DOMAIN evidence
           /\ regular(row, K) \/ WithinBounds
           /\ oddities' = IF regular(row, K) THEN oddities ELSE oddities + 1
           /\ Persist(K, row)
      /\ edits' = edits
  BY DEF RecordArrives
<1>1. PICK row \in {Torn, Malformed} \cup {OK(e, id) : e \in Event, id \in {K, K - 1} \ {0}} :
        /\ Arrives(K)
        /\ row = Torn => K \notin DOMAIN evidence
        /\ regular(row, K) \/ WithinBounds
        /\ oddities' = IF regular(row, K) THEN oddities ELSE oddities + 1
        /\ Persist(K, row)
        /\ edits' = edits
  OBVIOUS
<1> HIDE DEF regular
<1>2. row \in Row /\ (row.is = "OK" => row.id \in {K, K - 1})
  <2>1. CASE row \in {Torn, Malformed}
    BY <2>1, RowKinds
  <2>2. CASE row \notin {Torn, Malformed}
    <3>1. PICK e \in Event, id \in {K, K - 1} \ {0} : row = OK(e, id)
      BY <1>1, <2>2
    <3>2. id \in 1 .. MaxRows
      BY <1>0
    <3> QED
      BY <3>1, <3>2, RowKinds
  <2> QED
    BY <2>1, <2>2
<1>3. edits' \in Nat /\ oddities' \in Nat /\ edits' + oddities' <= MaxOddities
  BY <1>0, <1>1 DEF WithinBounds
<1>4. K \in Nat /\ K <= known + MaxNew
  BY <1>0
<1> QED
  BY <1>1, <1>2, <1>3, <1>4

LEMMA RecordArrivesInv == ReadInv /\ RecordArrives => ReadInv'
<1> SUFFICES ASSUME ReadInv, RecordArrives
             PROVE  ReadInv'
  OBVIOUS
<1>0. /\ TypeOK /\ IdsLow /\ known + MaxNew <= MaxRows
      /\ known \in Nat /\ MaxNew \in Nat
      /\ evidence \in Seq(Row) /\ Len(evidence) \in Nat /\ Len(evidence) <= known + MaxNew
      /\ edits \in Nat
  BY TypeParts, ReadModelsAssumption, LenProperties DEF ReadInv
<1>1. PICK K \in Nat, row \in Row :
        /\ K <= known + MaxNew /\ Arrives(K) /\ Persist(K, row)
        /\ row = Torn => K \notin DOMAIN evidence
        /\ row.is = "OK" => row.id \in {K, K - 1}
        /\ edits' = edits /\ oddities' \in Nat /\ edits' + oddities' <= MaxOddities
  BY RecordArrivesOf
<1>3. K \in 1 .. Len(evidence) + 1 /\ IdsLow'
  BY <1>0, <1>1, ArrivedRow
<1>4. /\ evidence' \in Seq(Row) /\ corrupt' \subseteq 1 .. MaxRows /\ Tables(views')
      /\ status' \in {"PREPARING", "READY", "REBUILDING", "ERROR"}
      /\ known' = known /\ version' = version
  BY <1>0, <1>1, <1>3, PersistTyped
<1>5. Len(evidence') <= known + MaxNew
  BY <1>0, <1>1, <1>3, Inserted
<1>6. edits' \in Nat /\ oddities' \in Nat /\ edits' + oddities' <= MaxOddities
  BY <1>0, <1>1
<1>7. TypeOK'
  BY <1>0, <1>4, <1>5, <1>6, TypeParts, TypePartsNext
<1>8. ReadyIsComplete'
  <2>1. SUFFICES ASSUME status' = "READY"
                 PROVE  views' = Projected(evidence)'
    BY DEF ReadyIsComplete
  <2>2. status = "READY"
    BY <1>1, <2>1 DEF Persist
  <2>3. views = Projected(evidence)
    BY <2>2 DEF ReadInv, ReadyIsComplete
  <2>4. views' = Projected(evidence')
    BY <1>0, <1>1, <2>3, ArrivedServed
  <2> QED
    BY <1>4, <2>4 DEF Projected
<1> QED
  BY <1>0, <1>3, <1>4, <1>7, <1>8 DEF ReadInv

LEMMA RecordAlteredInv == ReadInv /\ RecordAltered => ReadInv'
<1> SUFFICES ASSUME ReadInv, RecordAltered
             PROVE  ReadInv'
  OBVIOUS
<1>0. /\ TypeOK /\ IdsLow /\ known + MaxNew <= MaxRows
      /\ known \in Nat /\ MaxNew \in Nat /\ MaxRows \in Nat /\ MaxOddities \in Nat
      /\ evidence \in Seq(Row) /\ Len(evidence) \in Nat /\ Len(evidence) <= known + MaxNew
      /\ edits \in Nat /\ oddities \in Nat /\ edits + oddities <= MaxOddities
      /\ Altered \subseteq Event /\ DOMAIN evidence = 1 .. Len(evidence)
  BY TypeParts, Bounds, ReadModelsAssumption, LenProperties DEF ReadInv
<1> PICK K \in DOMAIN evidence :
      /\ evidence[K].is = "OK"
      /\ \E row \in ({Malformed} \cup {OK(e, evidence[K].id) : e \in Altered}) \ {evidence[K]} :
           Persist(K, row)
  BY DEF RecordAltered
<1>1. PICK row \in ({Malformed} \cup {OK(e, evidence[K].id) : e \in Altered}) \ {evidence[K]} :
        evidence[K].is = "OK" /\ Persist(K, row)
  OBVIOUS
<1>2. K \in Good(evidence) /\ evidence[K].id \in 1 .. MaxRows /\ evidence[K].id <= K
  BY <1>0, <1>1, GoodRows DEF Good, IdsLow
<1>3. row \in Row /\ (row.is = "OK" => row.id = evidence[K].id)
  <2>1. CASE row = Malformed
    BY <2>1, RowKinds
  <2>2. CASE row # Malformed
    BY <1>0, <1>1, <1>2, <2>2, RowKinds
  <2> QED
    BY <2>1, <2>2
<1>4. K \in 1 .. Len(evidence) + 1 /\ K # Len(evidence) + 1
  BY <1>0
<1>5. /\ evidence' \in Seq(Row) /\ corrupt' \subseteq 1 .. MaxRows /\ Tables(views')
      /\ status' \in {"PREPARING", "READY", "REBUILDING", "ERROR"}
      /\ known' = known /\ version' = version
  BY <1>0, <1>1, <1>3, <1>4, PersistTyped
<1>6. /\ Len(evidence') = Len(evidence) /\ evidence'[K] = row
      /\ \A k \in 1 .. Len(evidence) : k # K => evidence'[k] = evidence[k]
  BY <1>0, <1>1, <1>3, <1>4, Inserted
<1>7. TypeOK'
  <2>1. edits' \in Nat /\ oddities' \in Nat /\ edits' + oddities' <= MaxOddities
    BY <1>0 DEF RecordAltered, WithinBounds
  <2> QED
    BY <1>0, <1>5, <1>6, <2>1, TypeParts, TypePartsNext
<1>8. IdsLow'
  <2>1. ASSUME NEW k \in Good(evidence')
        PROVE  evidence'[k].id <= k
    <3>1. k \in 1 .. Len(evidence) /\ evidence'[k].is = "OK"
      BY <1>5, <1>6, LenProperties DEF Good
    <3>2. CASE k = K
      BY <1>2, <1>3, <1>6, <3>1, <3>2
    <3>3. CASE k # K
      BY <1>0, <1>6, <3>1, <3>3 DEF Good, IdsLow
    <3> QED
      BY <3>2, <3>3
  <2> QED
    BY <2>1 DEF IdsLow
<1>9. status' # "READY"
  BY <1>1 DEF Persist, Unsafe
<1> QED
  BY <1>0, <1>5, <1>7, <1>8, <1>9 DEF ReadInv, ReadyIsComplete

LEMMA NextInv == ReadInv /\ [Next]_vars => ReadInv'
<1> SUFFICES ASSUME ReadInv, [Next]_vars
             PROVE  ReadInv'
  OBVIOUS
<1>0. TypeOK /\ evidence \in Seq(Row)
  BY TypeParts DEF ReadInv
<1>1. CASE RecordArrives
  BY <1>1, RecordArrivesInv
<1>2. CASE RecordAltered
  BY <1>2, RecordAlteredInv
<1>3. CASE Rebuild
  <2>1. Tables(views')
    BY <1>0, <1>3, ProjectedTyped DEF Rebuild
  <2>2. TypeOK'
    BY <1>0, <1>3, <2>1, TypeParts, TypePartsNext DEF Rebuild
  <2>3. ReadyIsComplete'
    BY <1>3 DEF Rebuild, ReadyIsComplete, Projected
  <2> QED
    BY <1>3, <2>2, <2>3 DEF Rebuild, ReadInv, IdsLow
<1>4. CASE RebuildFails
  <2>1. TypeOK'
    BY <1>0, <1>4, TypeParts, TypePartsNext DEF RebuildFails
  <2>2. ReadyIsComplete'
    BY <1>4 DEF RebuildFails, ReadyIsComplete
  <2> QED
    BY <1>4, <2>1, <2>2 DEF RebuildFails, ReadInv, IdsLow
<1>5. CASE Upgrade
  <2>1. TypeOK'
    BY <1>0, <1>5, TypeParts, TypePartsNext DEF Upgrade, Upgraded
  <2>2. ReadyIsComplete'
    BY <1>5 DEF Upgrade, Upgraded, ReadyIsComplete
  <2> QED
    BY <1>5, <2>1, <2>2 DEF Upgrade, ReadInv, IdsLow
<1>6. CASE UNCHANGED vars
  <2>1. TypeOK' /\ ReadyIsComplete' /\ IdsLow'
    BY <1>6 DEF vars, ReadInv, TypeOK, ReadyIsComplete, Projected, IdsLow
  <2> QED
    BY <1>6, <2>1 DEF vars, ReadInv
<1> QED
  BY <1>1, <1>2, <1>3, <1>4, <1>5, <1>6 DEF Next

LEMMA ReadInvAlways == Spec => []ReadInv
BY InitInv, NextInv, PTL DEF Spec

\* Every row of the tables is of its type, a view that does not exist says
\* nothing, and no run is shown to have finished before it was seen to.
THEOREM TypesKeep == Spec => []TypeOK
<1>1. ReadInv => TypeOK
  BY DEF ReadInv
<1> QED
  BY <1>1, ReadInvAlways, PTL

\* Whatever was stored, altered, rebuilt or migrated: complete read models are
\* what a projection of all the evidence gives.
THEOREM ReadyAlwaysComplete == Spec => []ReadyIsComplete
<1>1. ReadInv => ReadyIsComplete
  BY DEF ReadInv
<1> QED
  BY <1>1, ReadInvAlways, PTL

-----------------------------------------------------------------------------
(* The strict reading.                                                     *)

Recorded == {"nothing", "intent", "merge"}
BoxRow == [state : {"NONE"} \cup ContainmentState, workspace : Workspace \cup {None}]

\* The state of the runtime; a box was prepared for an execution that exists.
Strictly(s) ==
  /\ s = [issue |-> s.issue, execution |-> s.execution, of |-> s.of, recorded |-> s.recorded,
          box |-> s.box, refused |-> s.refused]
  /\ s.issue \in [Issue -> {"NONE"} \cup IssueState]
  /\ s.execution \in [Execution -> {"NONE"} \cup ExecutionState]
  /\ s.of \in [Execution -> Issue \cup {None}]
  /\ s.recorded \in [Execution -> Recorded]
  /\ s.box \in [Execution \X Generation -> BoxRow]
  /\ s.refused \in Nat
  /\ \A b \in Execution \X Generation :
       s.box[b].state # "NONE" => s.execution[b[1]] # "NONE"

\* What an event does to it.
LEMMA IssueApplied ==
  ASSUME NEW s, NEW e \in Event, OfIssue(e)
  PROVE  \/ /\ e.type = "IssueCreated"
            /\ Applied(s, e) = IssueBecomes(s, e, "PENDING")
         \/ /\ e.type # "IssueCreated" /\ e.type \in TypesOf(IssueMoves)
            /\ Applied(s, e) = IssueBecomes(s, e, After(IssueMoves, s.issue[e.issue], e))
<1>1. e.type = "IssueCreated" \/ e.type \in TypesOf(IssueMoves)
  BY TypeSets DEF OfIssue, IssueType
<1>2. CASE e.type = "IssueCreated"
  BY <1>2, TypeSets DEF Applied, ContainmentType
<1>3. CASE e.type \in TypesOf(IssueMoves)
  BY <1>3, TypeSets DEF Applied, ContainmentType
<1> QED
  BY <1>1, <1>2, <1>3

LEMMA SpawnApplied ==
  ASSUME NEW s, NEW e \in Event, OfSpawn(e)
  PROVE  Applied(s, e) = ExecutionOf(ExecutionBecomes(s, e, "EXECUTING"), e)
BY TypeSets DEF Applied, OfSpawn, ContainmentType

LEMMA ContainmentApplied ==
  ASSUME NEW s, NEW e \in Event, OfContainment(e)
  PROVE  Applied(s, e) = BoxBecomes(s, e, BoxState[e.type])
BY TypeSets DEF Applied, OfContainment, ContainmentType

LEMMA ExecutionApplied ==
  ASSUME NEW s, NEW e \in Event, OfExecution(e)
  PROVE  \/ /\ e.type \in TypesOf(ExecutionMoves)
            /\ Applied(s, e) =
                 ExecutionBecomes(s, e, After(ExecutionMoves, s.execution[e.execution], e))
         \/ /\ e.type \in {"CommitIntent", "CommitCreated"}
            /\ \E to \in Recorded : Applied(s, e) = RecordBecomes(s, e, to)
<1>1. \/ e.type \in TypesOf(ExecutionMoves)
      \/ e.type \in {"CommitIntent", "CommitCreated"}
  BY TypeSets DEF OfExecution, ExecutionType
<1>2. CASE e.type \in TypesOf(ExecutionMoves)
  BY <1>2, TypeSets DEF Applied, ContainmentType
<1>3. CASE e.type = "CommitIntent"
  BY <1>3, TypeSets DEF Applied, ContainmentType, Recorded
<1>4. CASE e.type = "CommitCreated"
  BY <1>4, TypeSets DEF Applied, ContainmentType, Recorded
<1> QED
  BY <1>1, <1>2, <1>3, <1>4

LEMMA OtherApplied ==
  ASSUME NEW s, NEW e \in Event, OfRun(e) \/ OfNothing(e)
  PROVE  Applied(s, e) = s
BY TypeSets DEF Applied, OfRun, OfNothing, RunType, ContainmentType

\* What replaces a part of it.
LEMMA IssueReplaced ==
  ASSUME NEW s, NEW e, NEW to, Strictly(s), e.issue \in Issue
  PROVE  /\ \A i \in Issue : IssueBecomes(s, e, to).issue[i] = IF i = e.issue THEN to ELSE s.issue[i]
         /\ IssueBecomes(s, e, to).execution = s.execution
         /\ IssueBecomes(s, e, to).box = s.box
         /\ IssueBecomes(s, e, to).refused = s.refused
         /\ to \in IssueState => Strictly(IssueBecomes(s, e, to))
BY DEF IssueBecomes, Strictly

LEMMA RecordReplaced ==
  ASSUME NEW s, NEW e, NEW to, Strictly(s), e.execution \in Execution
  PROVE  /\ RecordBecomes(s, e, to).issue = s.issue
         /\ RecordBecomes(s, e, to).execution = s.execution
         /\ RecordBecomes(s, e, to).box = s.box
         /\ RecordBecomes(s, e, to).refused = s.refused
         /\ to \in Recorded => Strictly(RecordBecomes(s, e, to))
BY DEF RecordBecomes, Strictly

LEMMA ExecutionReplaced ==
  ASSUME NEW s, NEW e, NEW to, Strictly(s), e.execution \in Execution
  PROVE  /\ \A x \in Execution :
              ExecutionBecomes(s, e, to).execution[x] =
                IF x = e.execution THEN to ELSE s.execution[x]
         /\ ExecutionBecomes(s, e, to).issue = s.issue
         /\ ExecutionBecomes(s, e, to).box = s.box
         /\ ExecutionBecomes(s, e, to).refused = s.refused
         /\ to \in ExecutionState => Strictly(ExecutionBecomes(s, e, to))
<1> DEFINE t == ExecutionBecomes(s, e, to)
<1>1. t = [issue |-> t.issue, execution |-> t.execution, of |-> t.of,
           recorded |-> t.recorded, box |-> t.box, refused |-> t.refused]
  BY DEF ExecutionBecomes, Strictly
<1>2. /\ t.execution = [s.execution EXCEPT ![e.execution] = to]
      /\ t.issue = s.issue /\ t.of = s.of /\ t.recorded = s.recorded
      /\ t.box = s.box /\ t.refused = s.refused
  BY DEF ExecutionBecomes, Strictly
<1> HIDE DEF t
<1>3. ASSUME to \in ExecutionState
      PROVE  Strictly(t)
  <2>1. t.execution \in [Execution -> {"NONE"} \cup ExecutionState]
    BY <1>2, <1>3 DEF Strictly
  <2>2. \A b \in Execution \X Generation :
          t.box[b].state # "NONE" => t.execution[b[1]] # "NONE"
    BY <1>2, <1>3, Targets DEF Strictly
  <2> QED
    BY <1>1, <1>2, <2>1, <2>2 DEF Strictly
<1>4. \A x \in Execution : t.execution[x] = IF x = e.execution THEN to ELSE s.execution[x]
  BY <1>2 DEF Strictly
<1> QED
  BY <1>2, <1>3, <1>4 DEF t

\* What accepting an event says of it.
LEMMA Accepted ==
  ASSUME NEW s, NEW e, Accepts(s, e)
  PROVE  /\ e.type = "IssueCreated" => s.issue[e.issue] = "NONE"
         /\ e.type \in TypesOf(IssueMoves) => Legal(IssueMoves, s.issue[e.issue], e) # {}
         /\ e.type = "ExecutionSpawned" => MaySpawn(s, e)
         /\ e.type \in ContainmentType => MayContain(s, e)
         /\ e.type \in TypesOf(ExecutionMoves) =>
              Legal(ExecutionMoves, s.execution[e.execution], e) # {}
         /\ e.type \in RunType => e.outcome # "malformed"
         /\ e.type # "Unheard"
BY TypeSets DEF Accepts, ContainmentType, RunType

LEMMA AppliedStrictly ==
  ASSUME NEW s, Strictly(s), NEW e \in Event, Accepts(s, e)
  PROVE  Strictly(Applied(s, e)) /\ Applied(s, e).refused = s.refused
<1>1. CASE OfIssue(e)
  <2>1. e.issue \in Issue
    BY <1>1 DEF OfIssue
  <2>2. "PENDING" \in IssueState
    BY DEF IssueState
  <2>3. e.type \in TypesOf(IssueMoves) => After(IssueMoves, s.issue[e.issue], e) \in IssueState
    BY Accepted, AfterIsTarget, Targets
  <2>4. \E to \in IssueState : Applied(s, e) = IssueBecomes(s, e, to)
    BY <1>1, <2>2, <2>3, IssueApplied
  <2> QED
    BY <2>1, <2>4, IssueReplaced
<1>2. CASE OfExecution(e)
  <2>1. e.execution \in Execution
    BY <1>2 DEF OfExecution
  <2>2. e.type \in TypesOf(ExecutionMoves) =>
          After(ExecutionMoves, s.execution[e.execution], e) \in ExecutionState
    BY Accepted, AfterIsTarget, Targets
  <2>3. \/ \E to \in ExecutionState : Applied(s, e) = ExecutionBecomes(s, e, to)
        \/ \E to \in Recorded : Applied(s, e) = RecordBecomes(s, e, to)
    BY <1>2, <2>2, ExecutionApplied
  <2> QED
    BY <2>1, <2>3, ExecutionReplaced, RecordReplaced
<1>3. CASE OfSpawn(e)
  <2>1. e.execution \in Execution /\ e.issue \in Issue /\ "EXECUTING" \in ExecutionState
    BY <1>3 DEF OfSpawn, ExecutionState
  <2> DEFINE t == ExecutionBecomes(s, e, "EXECUTING")
  <2>2. Strictly(t) /\ t.refused = s.refused
    BY <2>1, ExecutionReplaced
  <2>4. Applied(s, e) = ExecutionOf(t, e)
    BY <1>3, SpawnApplied
  <2> HIDE DEF t
  <2>3. Strictly(ExecutionOf(t, e)) /\ ExecutionOf(t, e).refused = t.refused
    BY <2>1, <2>2 DEF ExecutionOf, Strictly
  <2> QED
    BY <2>2, <2>3, <2>4
<1>4. CASE OfContainment(e)
  <2> DEFINE b == <<e.execution, e.generation>>
             to == BoxState[e.type]
             t == BoxBecomes(s, e, to)
  <2>1. b \in Execution \X Generation /\ e.workspace \in Workspace /\ b[1] = e.execution
    BY <1>4 DEF OfContainment
  <2>2. s.execution[e.execution] = "EXECUTING"
    BY <1>4, Accepted DEF OfContainment, MayContain
  <2>3. to \in ContainmentState
    BY <1>4 DEF OfContainment, BoxState, ContainmentType, ContainmentState
  <2>4. /\ t = [issue |-> t.issue, execution |-> t.execution, of |-> t.of,
                recorded |-> t.recorded, box |-> t.box, refused |-> t.refused]
        /\ t.issue = s.issue /\ t.execution = s.execution /\ t.of = s.of
        /\ t.recorded = s.recorded /\ t.refused = s.refused
        /\ t.box = [s.box EXCEPT ![b] = [state |-> to, workspace |-> e.workspace]]
    BY DEF BoxBecomes, Strictly
  <2> HIDE DEF to, t, b
  <2>5. t.box \in [Execution \X Generation -> BoxRow]
    BY <2>1, <2>3, <2>4 DEF Strictly, BoxRow
  <2>6. \A c \in Execution \X Generation :
          t.box[c].state # "NONE" => t.execution[c[1]] # "NONE"
    BY <2>1, <2>2, <2>4 DEF Strictly
  <2>7. Strictly(t)
    BY <2>4, <2>5, <2>6 DEF Strictly
  <2> QED
    BY <1>4, <2>4, <2>7, ContainmentApplied DEF t, to
<1>5. CASE OfRun(e) \/ OfNothing(e)
  BY <1>5, OtherApplied
<1> QED
  BY <1>1, <1>2, <1>3, <1>4, <1>5, EventKinds

-----------------------------------------------------------------------------
(* The two readings agree.                                                 *)

LEMMA CreatedAgrees ==
  ASSUME NEW view, NEW states, Known(view, states), view.state = "NONE", NEW row, NEW state
  PROVE  LET new == Created(view, row, state)
         IN ~new.bad /\ new.state = state /\ new.workspace = row.event.workspace
<1>1. Created(view, row, state) =
        [NoView EXCEPT !.state = state, !.workspace = row.event.workspace, !.last = row.id]
  BY DEF Created, Known
<1>2. NoView = [state |-> NoView.state, workspace |-> NoView.workspace,
                cost |-> NoView.cost, last |-> NoView.last, bad |-> NoView.bad]
      /\ NoView.bad = FALSE
  BY DEF NoView
<1> QED
  BY <1>1, <1>2

LEMMA MovedAgrees ==
  ASSUME NEW view, NEW states, Known(view, states), ~view.bad, NEW row,
         NEW moves, \A m \in moves : m.from # "NONE",
         Legal(moves, view.state, row.event) # {}
  PROVE  LET new == Moved(view, row, moves)
         IN /\ ~new.bad /\ new.state = After(moves, view.state, row.event)
            /\ new.workspace = view.workspace
<1>1. view.state # "NONE"
  BY DEF Legal
<1>2. view # NoView
  BY <1>1, NoneKnown
<1>3. Moved(view, row, moves) =
        [view EXCEPT !.state = After(moves, view.state, row.event), !.last = row.id]
  BY <1>2 DEF Moved
<1> QED
  BY <1>3 DEF Known, View

LEMMA Sources ==
  /\ \A m \in IssueMoves : m.from # "NONE"
  /\ \A m \in ExecutionMoves : m.from # "NONE"
  /\ \A m \in ContainmentMoves : m.from # "NONE"
BY DEF IssueMoves, ExecutionMoves, ContainmentMoves, Move

IssuesAgree(s, v) == \A i \in Issue : ~v.issue[i].bad /\ v.issue[i].state = s.issue[i]
ExecutionsAgree(s, v) ==
  \A x \in Execution : ~v.execution[x].bad /\ v.execution[x].state = s.execution[x]
BoxesAgree(s, v) ==
  \A b \in Execution \X Generation :
    /\ ~v.containment[b].bad
    /\ v.containment[b].state = s.box[b].state
    /\ v.containment[b].workspace = s.box[b].workspace

LEMMA IssuesStillAgree ==
  ASSUME NEW s, Strictly(s), NEW v, NEW top, Sane(v, top), IssuesAgree(s, v),
         NEW row \in OKRow, Accepts(s, row.event)
  PROVE  IssuesAgree(Applied(s, row.event), Viewed(v, row))
<1> DEFINE e == row.event
<1>0. e \in Event
  BY DEF OKRow
<1>1. Viewed(v, row).issue =
        [i \in Issue |-> IF e.issue = i THEN IssueStep(v.issue[i], row) ELSE v.issue[i]]
  BY DEF Viewed
<1>2. \A i \in Issue : Known(v.issue[i], IssueState) /\ ~v.issue[i].bad /\ v.issue[i].state = s.issue[i]
  BY DEF Sane, IssuesAgree
<1>3. CASE OfIssue(e)
  <2>1. e.issue \in Issue
    BY <1>3 DEF OfIssue
  <2> DEFINE view == v.issue[e.issue]
             next == IssueStep(view, row)
  <2>2. /\ \A i \in Issue : Applied(s, e).issue[i] = IF i = e.issue THEN next.state ELSE s.issue[i]
        /\ ~next.bad
    <3>0. Known(view, IssueState) /\ ~view.bad /\ view.state = s.issue[e.issue]
      BY <1>2, <2>1
    <3>1. CASE e.type = "IssueCreated" /\ Applied(s, e) = IssueBecomes(s, e, "PENDING")
      <4>1. view.state = "NONE"
        BY <3>0, <3>1, Accepted
      <4>2. next = Created(view, row, "PENDING")
        BY <3>1, TypeSets DEF IssueStep
      <4> HIDE DEF view, next
      <4>3. ~Created(view, row, "PENDING").bad /\ Created(view, row, "PENDING").state = "PENDING"
        BY <3>0, <4>1, CreatedAgrees
      <4>4. \A i \in Issue : Applied(s, e).issue[i] = IF i = e.issue THEN "PENDING" ELSE s.issue[i]
        BY <2>1, <3>1, IssueReplaced
      <4> QED
        BY <4>2, <4>3, <4>4
    <3>2. CASE /\ e.type # "IssueCreated" /\ e.type \in TypesOf(IssueMoves)
               /\ Applied(s, e) = IssueBecomes(s, e, After(IssueMoves, s.issue[e.issue], e))
      <4> DEFINE to == After(IssueMoves, view.state, row.event)
      <4>1. Legal(IssueMoves, view.state, row.event) # {}
        BY <3>0, <3>2, Accepted
      <4>2. next = Moved(view, row, IssueMoves)
        BY <3>2 DEF IssueStep
      <4>4. \A i \in Issue : Applied(s, e).issue[i] = IF i = e.issue THEN to ELSE s.issue[i]
        <5>1. Applied(s, e) = IssueBecomes(s, e, to)
          BY <3>0, <3>2
        <5> HIDE DEF to
        <5> QED
          BY <2>1, <5>1, IssueReplaced
      <4> HIDE DEF view, next
      <4>3. ~Moved(view, row, IssueMoves).bad /\ Moved(view, row, IssueMoves).state = to
        BY <3>0, <4>1, MovedAgrees, Sources
      <4> QED
        BY <4>2, <4>3, <4>4
    <3> QED
      BY <1>0, <1>3, <3>1, <3>2, IssueApplied
  <2>3. ASSUME NEW i \in Issue
        PROVE  /\ ~Viewed(v, row).issue[i].bad
               /\ Viewed(v, row).issue[i].state = Applied(s, e).issue[i]
    <3>2. CASE i = e.issue
      BY <1>1, <2>1, <2>2, <3>2
    <3>3. CASE i # e.issue
      BY <1>1, <1>2, <2>1, <2>2, <3>3
    <3> QED
      BY <3>2, <3>3
  <2> QED
    BY <2>3 DEF IssuesAgree
<1>4. CASE ~OfIssue(e)
  <2>1. e.type # "IssueCreated" /\ e.type \notin TypesOf(IssueMoves)
    BY <1>0, <1>4, EventKinds, TypeSets DEF OfExecution, OfSpawn, OfContainment, OfRun, OfNothing,
       ExecutionType, ContainmentType, RunType
  <2>2. \A i \in Issue : IssueStep(v.issue[i], row) = v.issue[i]
    BY <2>1 DEF IssueStep
  <2>3. Applied(s, e).issue = s.issue
    <3>1. CASE OfExecution(e)
      <4>1. e.execution \in Execution
        BY <3>1 DEF OfExecution
      <4>2. \E to : Applied(s, e) = ExecutionBecomes(s, e, to) \/ Applied(s, e) = RecordBecomes(s, e, to)
        BY <1>0, <3>1, ExecutionApplied
      <4> QED
        BY <4>1, <4>2, ExecutionReplaced, RecordReplaced
    <3>2. CASE OfSpawn(e)
      <4> DEFINE t == ExecutionBecomes(s, e, "EXECUTING")
      <4>1. Applied(s, e) = ExecutionOf(t, e)
        BY <1>0, <3>2, SpawnApplied
      <4>2. e.execution \in Execution /\ "EXECUTING" \in ExecutionState
        BY <3>2 DEF OfSpawn, ExecutionState
      <4>3. Strictly(t) /\ t.issue = s.issue
        BY <4>2, ExecutionReplaced
      <4> HIDE DEF t
      <4>4. ExecutionOf(t, e).issue = t.issue
        BY <4>3 DEF ExecutionOf, Strictly
      <4> QED
        BY <4>1, <4>3, <4>4
    <3>3. CASE OfContainment(e)
      <4>1. Applied(s, e) = BoxBecomes(s, e, BoxState[e.type])
        BY <1>0, <3>3, ContainmentApplied
      <4>2. \A to : BoxBecomes(s, e, to).issue = s.issue
        BY DEF BoxBecomes, Strictly
      <4> QED
        BY <4>1, <4>2
    <3>4. CASE OfRun(e) \/ OfNothing(e)
      BY <1>0, <3>4, OtherApplied
    <3> QED
      BY <1>0, <1>4, <3>1, <3>2, <3>3, <3>4, EventKinds
  <2> QED
    BY <1>1, <1>2, <2>2, <2>3 DEF IssuesAgree
<1> QED
  BY <1>3, <1>4

LEMMA ExecutionsStillAgree ==
  ASSUME NEW s, Strictly(s), NEW v, NEW top, Sane(v, top), ExecutionsAgree(s, v),
         NEW row \in OKRow, row.id <= MaxRows, Accepts(s, row.event)
  PROVE  ExecutionsAgree(Applied(s, row.event), Viewed(v, row))
<1> DEFINE e == row.event
           t == Applied(s, e)
<1>0. e \in Event
  BY DEF OKRow
<1>1. Viewed(v, row).execution =
        [x \in Execution |->
           IF e.execution = x THEN ExecutionStep(v.execution[x], row) ELSE v.execution[x]]
  BY DEF Viewed
<1>2. \A x \in Execution :
        /\ Known(v.execution[x], ExecutionState) /\ ~v.execution[x].bad
        /\ v.execution[x].state = s.execution[x]
  BY DEF Sane, ExecutionsAgree
<1>3. ASSUME e.execution \in Execution,
             \A x \in Execution : x # e.execution => t.execution[x] = s.execution[x],
             ~ExecutionStep(v.execution[e.execution], row).bad,
             ExecutionStep(v.execution[e.execution], row).state = t.execution[e.execution]
      PROVE  ExecutionsAgree(t, Viewed(v, row))
  BY <1>1, <1>2, <1>3 DEF ExecutionsAgree
<1>4. ASSUME t.execution = s.execution,
             e.type \notin {"ExecutionSpawned"} \cup TypesOf(ExecutionMoves)
      PROVE  ExecutionsAgree(t, Viewed(v, row))
  <2>1. \A view : ExecutionStep(view, row) = view
    BY <1>4 DEF ExecutionStep
  <2> QED
    BY <1>1, <1>2, <1>4, <2>1 DEF ExecutionsAgree
<1> DEFINE view == v.execution[e.execution]
           next == ExecutionStep(view, row)
<1>5. CASE OfExecution(e)
  <2>1. e.execution \in Execution
    BY <1>5 DEF OfExecution
  <2>2. Known(view, ExecutionState) /\ ~view.bad /\ view.state = s.execution[e.execution]
    BY <1>2, <2>1
  <2>3. CASE /\ e.type \in TypesOf(ExecutionMoves)
             /\ t = ExecutionBecomes(s, e, After(ExecutionMoves, s.execution[e.execution], e))
    <3> DEFINE to == After(ExecutionMoves, view.state, row.event)
               m == Moved(view, row, ExecutionMoves)
    <3>1. Legal(ExecutionMoves, view.state, row.event) # {}
      BY <2>2, <2>3, Accepted
    <3>2. next = Metered(m, view, row)
      BY <2>3, TypeSets DEF ExecutionStep
    <3>3. t = ExecutionBecomes(s, e, to)
      BY <2>2, <2>3
    <3>4. Known(m, ExecutionState)
      <4>1. \A k \in ExecutionMoves : k.to \in ExecutionState
        BY Targets
      <4> HIDE DEF view
      <4> QED
        BY <2>2, <4>1, MovedKnown, Targets
    <3> HIDE DEF view, next, to
    <3>5. ~m.bad /\ m.state = to
      BY <2>2, <3>1, MovedAgrees, Sources DEF to
    <3> HIDE DEF m
    <3>6. next = m \/ next = [m EXCEPT !.cost = "metered"]
      BY <3>2 DEF Metered
    <3>7. ~next.bad /\ next.state = to
      BY <3>4, <3>5, <3>6 DEF Known, View
    <3>8. \A x \in Execution : t.execution[x] = IF x = e.execution THEN to ELSE s.execution[x]
      BY <2>1, <3>3, ExecutionReplaced
    <3> HIDE DEF t, e
    <3>9. /\ \A x \in Execution : x # e.execution => t.execution[x] = s.execution[x]
          /\ t.execution[e.execution] = to
      BY <2>1, <3>8
    <3>10. /\ ~ExecutionStep(v.execution[e.execution], row).bad
           /\ ExecutionStep(v.execution[e.execution], row).state = t.execution[e.execution]
      BY <3>7, <3>9 DEF next, view
    <3> QED
      BY <1>3, <2>1, <3>9, <3>10 DEF t, e
  <2>4. CASE /\ e.type \in {"CommitIntent", "CommitCreated"}
             /\ \E to \in Recorded : t = RecordBecomes(s, e, to)
    <3>1. t.execution = s.execution
      BY <2>1, <2>4, RecordReplaced
    <3> QED
      BY <1>4, <2>4, <3>1, TypeSets
  <2> QED
    BY <1>0, <1>5, <2>3, <2>4, ExecutionApplied
<1>6. CASE OfSpawn(e)
  <2> DEFINE r == ExecutionBecomes(s, e, "EXECUTING")
  <2>1. e.execution \in Execution /\ e.type = "ExecutionSpawned" /\ "EXECUTING" \in ExecutionState
    BY <1>6 DEF OfSpawn, ExecutionState
  <2>2. Known(view, ExecutionState) /\ view.state = s.execution[e.execution]
    BY <1>2, <2>1
  <2>3. view.state = "NONE"
    BY <2>1, <2>2, Accepted DEF MaySpawn
  <2>4. next = Created(view, row, "EXECUTING")
    BY <2>1, TypeSets DEF ExecutionStep
  <2>5. t = ExecutionOf(r, e)
    BY <1>0, <1>6, SpawnApplied
  <2>6. /\ Strictly(r)
        /\ \A x \in Execution : r.execution[x] = IF x = e.execution THEN "EXECUTING" ELSE s.execution[x]
    BY <2>1, ExecutionReplaced
  <2> HIDE DEF view, next, r
  <2>7. ~next.bad /\ next.state = "EXECUTING"
    BY <2>2, <2>3, <2>4, CreatedAgrees
  <2>8. t.execution = r.execution
    BY <2>5, <2>6 DEF ExecutionOf, Strictly
  <2> HIDE DEF t, e
  <2>9. /\ \A x \in Execution : x # e.execution => t.execution[x] = s.execution[x]
        /\ t.execution[e.execution] = "EXECUTING"
    BY <2>1, <2>6, <2>8
  <2>10. /\ ~ExecutionStep(v.execution[e.execution], row).bad
         /\ ExecutionStep(v.execution[e.execution], row).state = t.execution[e.execution]
    BY <2>7, <2>9 DEF next, view
  <2> QED
    BY <1>3, <2>1, <2>9, <2>10 DEF t, e
<1>7. CASE OfIssue(e)
  <2>1. e.issue \in Issue
    BY <1>7 DEF OfIssue
  <2>2. \E to : t = IssueBecomes(s, e, to)
    BY <1>0, <1>7, IssueApplied
  <2>3. t.execution = s.execution
    BY <2>1, <2>2, IssueReplaced
  <2> QED
    BY <1>4, <1>7, <2>3, TypeSets DEF OfIssue, IssueType
<1>8. CASE OfContainment(e)
  <2>1. t = BoxBecomes(s, e, BoxState[e.type])
    BY <1>0, <1>8, ContainmentApplied
  <2>2. \A to : BoxBecomes(s, e, to).execution = s.execution
    BY DEF BoxBecomes, Strictly
  <2> QED
    BY <1>4, <1>8, <2>1, <2>2, TypeSets DEF OfContainment, ContainmentType
<1>9. CASE OfRun(e) \/ OfNothing(e)
  BY <1>0, <1>4, <1>9, OtherApplied, TypeSets DEF OfRun, OfNothing, RunType
<1> QED
  BY <1>0, <1>5, <1>6, <1>7, <1>8, <1>9, EventKinds

\* A box, and the view of it, through an event that names it.
LEMMA BoxStepAgrees ==
  ASSUME NEW view, Known(view, ContainmentState), ~view.bad, NEW box \in BoxRow,
         view.state = box.state, view.workspace = box.workspace,
         NEW row \in OKRow, OfContainment(row.event),
         row.event.type = "ContainmentPrepared" => box = NoBox,
         row.event.type # "ContainmentPrepared" =>
           box # NoBox /\ box.workspace = row.event.workspace,
         row.event.type = "ContainmentEstablished" => box.state = "PREPARED",
         row.event.type = "TerminationUnconfirmed" => box.state = "ESTABLISHED",
         row.event.type = "ContainmentReleased" => box.state # "RELEASED"
  PROVE  LET new == ContainmentStep(view, row, row.event.generation)
         IN /\ ~new.bad /\ new.state = BoxState[row.event.type]
            /\ new.workspace = row.event.workspace
<1> DEFINE e == row.event
           new == ContainmentStep(view, row, e.generation)
<1>1. e.type \in ContainmentType /\ e.outcome = "none"
  BY DEF OfContainment
<1>2. CASE e.type = "ContainmentPrepared"
  <2>1. view.state = "NONE"
    BY <1>2 DEF NoBox
  <2>2. new = Created(view, row, "PREPARED")
    BY <1>1, <1>2 DEF ContainmentStep
  <2>3. BoxState[e.type] = "PREPARED"
    BY <1>2 DEF BoxState, ContainmentType
  <2> QED
    BY <2>1, <2>2, <2>3, CreatedAgrees
<1>3. CASE e.type # "ContainmentPrepared"
  <2>1. box = [state |-> box.state, workspace |-> box.workspace]
    BY DEF BoxRow
  <2>2. view # NoView
    BY <1>3, <2>1 DEF NoBox, NoView
  <2>3. view.state \in ContainmentState
    BY <2>2 DEF Known, View
  <2>4. \E m \in ContainmentMoves : m.from = view.state /\ m.type = e.type /\ m.outcome = "none"
    <3>1. \/ e.type = "ContainmentEstablished" /\ view.state = "PREPARED"
          \/ e.type = "TerminationUnconfirmed" /\ view.state = "ESTABLISHED"
          \/ e.type = "ContainmentReleased"
             /\ view.state \in {"PREPARED", "ESTABLISHED", "UNCONFIRMED"}
      BY <1>1, <1>3, <2>3 DEF ContainmentType, ContainmentState
    <3> HIDE DEF e
    <3> QED
      BY <3>1 DEF ContainmentMoves, Move
  <2>5. Legal(ContainmentMoves, view.state, e) # {}
    BY <1>1, <2>4 DEF Legal
  <2>6. new = Moved(view, row, ContainmentMoves)
    BY <1>1, <1>3, <2>2 DEF ContainmentStep
  <2>7. \A m \in ContainmentMoves : m.to = BoxState[m.type]
    BY DEF ContainmentMoves, Move, BoxState, ContainmentType
  <2>8. After(ContainmentMoves, view.state, e) = BoxState[e.type]
    BY <2>5, <2>7, AfterIsTarget DEF Legal
  <2>9. /\ ~Moved(view, row, ContainmentMoves).bad
        /\ Moved(view, row, ContainmentMoves).state = After(ContainmentMoves, view.state, row.event)
        /\ Moved(view, row, ContainmentMoves).workspace = view.workspace
    BY <2>5, MovedAgrees, Sources
  <2> QED
    BY <1>3, <2>6, <2>8, <2>9
<1> QED
  BY <1>2, <1>3

LEMMA BoxesStillAgree ==
  ASSUME NEW s, Strictly(s), NEW v, NEW top, Sane(v, top), BoxesAgree(s, v),
         NEW row \in OKRow, Accepts(s, row.event)
  PROVE  BoxesAgree(Applied(s, row.event), Viewed(v, row))
<1> DEFINE e == row.event
           t == Applied(s, e)
<1>0. e \in Event
  BY DEF OKRow
<1>1. Viewed(v, row).containment =
        [b \in Execution \X Generation |->
           IF e.execution = b[1] THEN ContainmentStep(v.containment[b], row, b[2])
           ELSE v.containment[b]]
  BY DEF Viewed
<1>2. \A b \in Execution \X Generation :
        /\ Known(v.containment[b], ContainmentState) /\ ~v.containment[b].bad
        /\ v.containment[b].state = s.box[b].state
        /\ v.containment[b].workspace = s.box[b].workspace
  BY DEF Sane, BoxesAgree
<1>3. ASSUME ~OfContainment(e), t.box = s.box
      PROVE  BoxesAgree(t, Viewed(v, row))
  <2>1. e.type \notin ContainmentType
    BY <1>0, <1>3, EventKinds DEF OfIssue, OfExecution, OfSpawn, OfRun, OfNothing,
       IssueType, ExecutionType, ContainmentType, RunType
  <2>2. \A view, g : ContainmentStep(view, row, g) = view
    BY <2>1 DEF ContainmentStep
  <2> QED
    BY <1>1, <1>2, <1>3, <2>2 DEF BoxesAgree
<1>4. CASE OfContainment(e)
  <2> DEFINE c == <<e.execution, e.generation>>
             to == [state |-> BoxState[e.type], workspace |-> e.workspace]
             next == ContainmentStep(v.containment[c], row, e.generation)
  <2>1. c \in Execution \X Generation /\ c[1] = e.execution /\ c[2] = e.generation
    BY <1>4 DEF OfContainment
  <2>2. t.box = [s.box EXCEPT ![c] = to]
    <3>1. t = BoxBecomes(s, e, BoxState[e.type])
      BY <1>0, <1>4, ContainmentApplied
    <3> QED
      BY <3>1 DEF BoxBecomes, Strictly
  <2>3. /\ s.box[c] \in BoxRow
        /\ e.type = "ContainmentPrepared" => s.box[c] = NoBox
        /\ e.type # "ContainmentPrepared" => s.box[c] # NoBox /\ s.box[c].workspace = e.workspace
        /\ e.type = "ContainmentEstablished" => s.box[c].state = "PREPARED"
        /\ e.type = "TerminationUnconfirmed" => s.box[c].state = "ESTABLISHED"
        /\ e.type = "ContainmentReleased" => s.box[c].state # "RELEASED"
    <3>1. MayContain(s, e)
      BY <1>4, Accepted DEF OfContainment
    <3>2. s.box[c] \in BoxRow
      BY <2>1 DEF Strictly
    <3> QED
      BY <3>1, <3>2 DEF MayContain
  <2>4. ~next.bad /\ next.state = to.state /\ next.workspace = to.workspace
    <3>1. /\ Known(v.containment[c], ContainmentState) /\ ~v.containment[c].bad
          /\ v.containment[c].state = s.box[c].state
          /\ v.containment[c].workspace = s.box[c].workspace
      BY <1>2, <2>1
    <3>2. to.state = BoxState[row.event.type] /\ to.workspace = row.event.workspace
      OBVIOUS
    <3>3. ASSUME NEW view, view = v.containment[c], NEW box \in BoxRow, box = s.box[c]
          PROVE  LET new == ContainmentStep(view, row, row.event.generation)
                 IN /\ ~new.bad /\ new.state = BoxState[row.event.type]
                    /\ new.workspace = row.event.workspace
      <4> HIDE DEF c, to, next
      <4>1. /\ Known(view, ContainmentState) /\ ~view.bad /\ view.state = box.state
            /\ view.workspace = box.workspace /\ OfContainment(row.event)
            /\ row.event.type = "ContainmentPrepared" => box = NoBox
            /\ row.event.type # "ContainmentPrepared" =>
                 box # NoBox /\ box.workspace = row.event.workspace
            /\ row.event.type = "ContainmentEstablished" => box.state = "PREPARED"
            /\ row.event.type = "TerminationUnconfirmed" => box.state = "ESTABLISHED"
            /\ row.event.type = "ContainmentReleased" => box.state # "RELEASED"
        BY <1>4, <2>3, <3>1, <3>3
      <4> QED
        BY <4>1, BoxStepAgrees
    <3> QED
      BY <2>3, <3>2, <3>3
  <2> HIDE DEF to, next
  <2>5. ASSUME NEW b \in Execution \X Generation
        PROVE  /\ ~Viewed(v, row).containment[b].bad
               /\ Viewed(v, row).containment[b].state = t.box[b].state
               /\ Viewed(v, row).containment[b].workspace = t.box[b].workspace
    <3>0. s.box \in [Execution \X Generation -> BoxRow]
      BY DEF Strictly
    <3>1. CASE b = c
      <4>1. Viewed(v, row).containment[c] = next /\ t.box[c] = to
        BY <1>1, <2>1, <2>2, <3>0 DEF next
      <4> QED
        BY <2>4, <3>1, <4>1
    <3>2. CASE b # c
      <4>1. ~(b[1] = e.execution /\ b[2] = e.generation)
        <5>1. b = <<b[1], b[2]>>
          OBVIOUS
        <5> QED
          BY <3>2, <5>1
      <4>2. t.box[b] = s.box[b]
        BY <2>1, <2>2, <3>0, <3>2
      <4>3. Viewed(v, row).containment[b] = v.containment[b]
        BY <1>1, <4>1 DEF ContainmentStep
      <4> QED
        BY <1>2, <4>2, <4>3
    <3> QED
      BY <3>1, <3>2
  <2> QED
    BY <2>5 DEF BoxesAgree
<1>5. CASE ~OfContainment(e)
  <2>1. CASE OfIssue(e)
    <3>1. e.issue \in Issue
      BY <2>1 DEF OfIssue
    <3>2. \E to : t = IssueBecomes(s, e, to)
      BY <1>0, <2>1, IssueApplied
    <3> QED
      BY <1>3, <1>5, <3>1, <3>2, IssueReplaced
  <2>2. CASE OfExecution(e)
    <3>1. e.execution \in Execution
      BY <2>2 DEF OfExecution
    <3>2. \E to : t = ExecutionBecomes(s, e, to) \/ t = RecordBecomes(s, e, to)
      BY <1>0, <2>2, ExecutionApplied
    <3> QED
      BY <1>3, <1>5, <3>1, <3>2, ExecutionReplaced, RecordReplaced
  <2>3. CASE OfSpawn(e)
    <3> DEFINE r == ExecutionBecomes(s, e, "EXECUTING")
    <3>1. e.execution \in Execution /\ "EXECUTING" \in ExecutionState
      BY <2>3 DEF OfSpawn, ExecutionState
    <3>2. t = ExecutionOf(r, e)
      BY <1>0, <2>3, SpawnApplied
    <3>3. Strictly(r) /\ r.box = s.box
      BY <3>1, ExecutionReplaced
    <3> HIDE DEF r
    <3>4. ExecutionOf(r, e).box = r.box
      BY <3>3 DEF ExecutionOf, Strictly
    <3> QED
      BY <1>3, <1>5, <3>2, <3>3, <3>4
  <2>4. CASE OfRun(e) \/ OfNothing(e)
    BY <1>0, <1>3, <1>5, <2>4, OtherApplied
  <2> QED
    BY <1>0, <1>5, <2>1, <2>2, <2>3, <2>4, EventKinds
<1> QED
  BY <1>4, <1>5

\* A run is faultless while it was started and finished once at most.
RunsClean(f, v) ==
  \A r \in Run :
    /\ ~v.run[r].bad
    /\ v.run[r] # NoRun =>
         \E k \in 1 .. Len(f) : f[k].event.type = "RunStarted" /\ f[k].event.run = r
    /\ v.run[r].until # 0 =>
         \E k \in 1 .. Len(f) : f[k].event.type = "RunFinished" /\ f[k].event.run = r

LEMMA RunsStayClean ==
  ASSUME NEW f \in Seq(OKRow), NEW row \in OKRow, NEW v, NEW top, NEW s,
         Sane(v, top), RunsClean(f, v), OncePerRun(Append(f, row)), Accepts(s, row.event)
  PROVE  RunsClean(Append(f, row), Viewed(v, row))
<1> DEFINE e == row.event
           F == Append(f, row)
<1>0. /\ Len(F) = Len(f) + 1 /\ Len(f) \in Nat /\ DOMAIN F = 1 .. Len(F)
      /\ \A k \in 1 .. Len(f) : F[k] = f[k] /\ k \in 1 .. Len(F) /\ k # Len(f) + 1
      /\ Len(f) + 1 \in 1 .. Len(F) /\ F[Len(f) + 1] = row
  BY AppendProperties, LenProperties
<1> HIDE DEF F
<1>1. Viewed(v, row).run =
        [r \in Run |-> IF e.run = r THEN RunStep(v.run[r], row) ELSE v.run[r]]
  BY DEF Viewed
<1>2. ASSUME NEW r \in Run
      PROVE  /\ ~v.run[r].bad /\ v.run[r] \in RunRow
             /\ v.run[r] # NoRun =>
                  \E k \in 1 .. Len(F) : F[k].event.type = "RunStarted" /\ F[k].event.run = r
             /\ v.run[r].until # 0 =>
                  \E k \in 1 .. Len(F) : F[k].event.type = "RunFinished" /\ F[k].event.run = r
  BY <1>0 DEF RunsClean, Sane
<1>3. ASSUME NEW type \in RunType, e.type = type, NEW k \in 1 .. Len(f), f[k].event.type = type
      PROVE  f[k].event.run # e.run
  <2>1. F[k].event.type = type /\ F[Len(f) + 1].event.type = type /\ k # Len(f) + 1
    BY <1>0, <1>3
  <2> QED
    BY <1>0, <1>3, <2>1 DEF OncePerRun, RunType, F
<1>4. ASSUME NEW r \in Run, e.run = r
      PROVE  LET new == RunStep(v.run[r], row)
             IN /\ ~new.bad
                /\ new # NoRun =>
                     \E k \in 1 .. Len(F) : F[k].event.type = "RunStarted" /\ F[k].event.run = r
                /\ new.until # 0 =>
                     \E k \in 1 .. Len(F) : F[k].event.type = "RunFinished" /\ F[k].event.run = r
  <2> DEFINE view == v.run[r]
             new == RunStep(view, row)
  <2>1. CASE e.type = "RunStarted"
    <3>1. view = NoRun
      BY <1>3, <1>4, <2>1 DEF RunsClean, RunType
    <3>2. e.outcome = "complete"
      BY <2>1, EventKinds, Accepted DEF OKRow, OfIssue, OfExecution, OfSpawn, OfContainment,
         OfRun, OfNothing, IssueType, ExecutionType, ContainmentType, RunType
    <3>3. new = [[view EXCEPT !.started = row.id, !.record = e.outcome, !.last = row.id]
                   EXCEPT !.from = row.id]
      BY <2>1, <3>1, <3>2 DEF RunStep, RunStarted
    <3>4. new.bad = view.bad /\ new.until = view.until
      BY <1>2, <3>3 DEF RunRow
    <3>5. \E k \in 1 .. Len(F) : F[k].event.type = "RunStarted" /\ F[k].event.run = r
      BY <1>0, <1>4, <2>1
    <3> QED
      BY <1>2, <3>4, <3>5
  <2>2. CASE e.type = "RunFinished"
    <3>1. view.until = 0
      BY <1>3, <1>4, <2>2 DEF RunsClean, RunType
    <3>2. e.outcome # "malformed"
      BY <2>2, Accepted DEF RunType
    <3> DEFINE first == [view EXCEPT !.until = row.id]
               shown == [first EXCEPT !.finished = row.id, !.last = row.id]
    <3>3. new \in {view, first, shown} /\ (view = NoRun => new = NoRun)
      BY <2>2, <3>1, <3>2 DEF RunStep, RunFinished
    <3>4. first.bad = view.bad /\ shown.bad = view.bad
      BY <1>2 DEF RunRow
    <3>5. \E k \in 1 .. Len(F) : F[k].event.type = "RunFinished" /\ F[k].event.run = r
      BY <1>0, <1>4, <2>2
    <3> HIDE DEF first, shown, view, new
    <3>6. ~view.bad /\ (view # NoRun =>
            \E k \in 1 .. Len(F) : F[k].event.type = "RunStarted" /\ F[k].event.run = r)
      BY <1>2 DEF view
    <3>7. ~new.bad /\ (new # NoRun => view # NoRun)
      BY <3>3, <3>4, <3>6
    <3> QED
      BY <3>5, <3>6, <3>7 DEF new, view
  <2>3. CASE e.type \notin RunType
    <3>1. new = view
      BY <2>3 DEF RunStep, RunType
    <3> QED
      BY <1>2, <3>1
  <2> QED
    BY <2>1, <2>2, <2>3 DEF RunType
<1>5. ASSUME NEW r \in Run
      PROVE  LET new == Viewed(v, row).run[r]
             IN /\ ~new.bad
                /\ new # NoRun =>
                     \E k \in 1 .. Len(F) : F[k].event.type = "RunStarted" /\ F[k].event.run = r
                /\ new.until # 0 =>
                     \E k \in 1 .. Len(F) : F[k].event.type = "RunFinished" /\ F[k].event.run = r
  <2>1. CASE e.run = r
    BY <1>1, <1>4, <2>1
  <2>2. CASE e.run # r
    BY <1>1, <1>2, <2>2
  <2> QED
    BY <2>1, <2>2
<1> QED
  BY <1>5 DEF RunsClean, F

\* What the runtime accepts, the dashboard sees as the runtime does.
Agree(f) ==
  /\ IssuesAgree(Strict(f), Seen(f))
  /\ ExecutionsAgree(Strict(f), Seen(f))
  /\ BoxesAgree(Strict(f), Seen(f))
  /\ RunsClean(f, Seen(f))
  /\ \A n \in 1 .. Len(f) : f[n].event.type # "Unheard"

LEMMA NothingAgrees ==
  ASSUME NEW f \in Seq(OKRow), Len(f) = 0
  PROVE  Strictly(Strict(f)) /\ Agree(f)
<1>1. Strict(f) = StrictStart /\ Seen(f) = NoViews
  BY StrictStarts, SeenStarts
<1>2. NoView.state = "NONE" /\ NoView.workspace = None /\ ~NoView.bad
  BY DEF NoView
<1>3. NoBox.state = "NONE" /\ NoBox.workspace = None /\ NoBox \in BoxRow
  BY DEF NoBox, BoxRow
<1>4. ~NoRun.bad /\ NoRun.until = 0
  BY DEF NoRun
<1>5. /\ IssuesAgree(StrictStart, NoViews) /\ ExecutionsAgree(StrictStart, NoViews)
      /\ BoxesAgree(StrictStart, NoViews) /\ RunsClean(f, NoViews)
  BY <1>2, <1>3, <1>4 DEF IssuesAgree, ExecutionsAgree, BoxesAgree, RunsClean, StrictStart, NoViews
<1>6. Strictly(StrictStart)
  BY <1>3 DEF Strictly, StrictStart, Recorded
<1> QED
  BY <1>1, <1>5, <1>6 DEF Agree

LEMMA RefusedStrictly ==
  ASSUME NEW s, Strictly(s), NEW row \in OKRow
  PROVE  /\ Strictly(StrictStep(s, row))
         /\ StrictStep(s, row).refused = 0 =>
              /\ s.refused = 0 /\ Accepts(s, row.event)
              /\ StrictStep(s, row) = Applied(s, row.event)
<1>0. row.event \in Event
  BY DEF OKRow
<1>1. CASE Accepts(s, row.event)
  BY <1>0, <1>1, AppliedStrictly DEF StrictStep
<1>2. CASE ~Accepts(s, row.event)
  <2>1. StrictStep(s, row) = [s EXCEPT !.refused = s.refused + 1]
    BY <1>2 DEF StrictStep
  <2>2. s.refused \in Nat
    BY DEF Strictly
  <2>3. /\ Strictly([s EXCEPT !.refused = s.refused + 1])
        /\ [s EXCEPT !.refused = s.refused + 1].refused = s.refused + 1
    BY <2>2 DEF Strictly
  <2> QED
    BY <2>1, <2>2, <2>3
<1> QED
  BY <1>1, <1>2

LEMMA ReadingsAgree ==
  ASSUME NEW rows \in Seq(OKRow), InOrder(rows)
  PROVE  /\ Strictly(Strict(rows))
         /\ Strict(rows).refused = 0 /\ OncePerRun(rows) => Agree(rows)
<1> DEFINE P(f) == /\ Strictly(Strict(f))
                   /\ Strict(f).refused = 0 /\ OncePerRun(f) => Agree(f)
           Lengths == {n \in Nat : \A f \in Seq(OKRow) : Len(f) = n /\ InOrder(f) => P(f)}
<1>1. 0 \in Lengths
  BY NothingAgrees
<1>2. ASSUME NEW n \in Lengths
      PROVE  n + 1 \in Lengths
  <2> SUFFICES ASSUME NEW f \in Seq(OKRow), Len(f) = n + 1, InOrder(f)
               PROVE  P(f)
    OBVIOUS
  <2>1. PICK front \in Seq(OKRow), row \in OKRow : f = Append(front, row) /\ Len(front) = n
    BY LastOfSeq
  <2>2. (\A k \in 1 .. n : f[k] = front[k]) /\ f[n + 1] = row
    BY <2>1, AppendProperties
  <2>3. /\ n + 1 \in 1 .. n + 1 /\ n \in Nat /\ \A k \in 1 .. n : k \in 1 .. n + 1 /\ k < n + 1
        /\ \A k \in 1 .. n + 1 : k \in 1 .. n \/ k = n + 1
    OBVIOUS
  <2>4. InOrder(front) /\ row.id <= MaxRows
    BY <2>1, <2>2, <2>3 DEF InOrder
  <2>5. P(front)
    BY <2>1, <2>4
  <2>6. Sane(Seen(front), Top(front))
    BY <2>4, SeenSane
  <2>7. Strict(f) = StrictStep(Strict(front), row) /\ Seen(f) = Viewed(Seen(front), row)
    BY <2>1, StrictAlways, StrictGrows, SeenAlways, SeenGrows
  <2>8. Strictly(Strict(f))
    BY <2>5, <2>7, RefusedStrictly
  <2>9. ASSUME Strict(f).refused = 0, OncePerRun(f)
        PROVE  Agree(f)
    <3>1. /\ Strict(front).refused = 0 /\ Accepts(Strict(front), row.event)
          /\ Strict(f) = Applied(Strict(front), row.event)
      BY <2>5, <2>7, <2>9, RefusedStrictly
    <3>2. OncePerRun(front)
      <4>1. DOMAIN front = 1 .. n /\ DOMAIN f = 1 .. n + 1
        BY <2>1, LenProperties
      <4> QED
        BY <2>2, <2>3, <2>9, <4>1 DEF OncePerRun
    <3>3. Agree(front)
      BY <2>5, <3>1, <3>2
    <3>4. /\ IssuesAgree(Strict(f), Seen(f)) /\ ExecutionsAgree(Strict(f), Seen(f))
          /\ BoxesAgree(Strict(f), Seen(f))
      BY <2>4, <2>5, <2>6, <2>7, <3>1, <3>3, IssuesStillAgree, ExecutionsStillAgree,
         BoxesStillAgree DEF Agree
    <3>5. RunsClean(f, Seen(f))
      BY <2>1, <2>6, <2>7, <2>9, <3>1, <3>3, RunsStayClean DEF Agree
    <3>6. row.event.type # "Unheard"
      BY <3>1, Accepted
    <3>7. \A k \in 1 .. Len(f) : f[k].event.type # "Unheard"
      BY <2>1, <2>2, <2>3, <3>3, <3>6 DEF Agree
    <3> QED
      BY <3>4, <3>5, <3>7 DEF Agree
  <2> QED
    BY <2>8, <2>9
<1>3. Lengths = Nat
  <2> HIDE DEF Lengths
  <2>1. Lengths \subseteq Nat
    BY DEF Lengths
  <2> QED
    BY <1>1, <1>2, <2>1, Induction
<1> QED
  BY <1>3, LenProperties

LEMMA ViewsAreTable ==
  ASSUME NEW rows \in Seq(OKRow), InOrder(rows)
  PROVE  Views(rows) = Table(Seen(rows), 3)
<1> DEFINE seen == Seen(rows)
<1>1. seen = [issue |-> seen.issue, execution |-> seen.execution,
              containment |-> seen.containment, run |-> seen.run]
  BY SeenSane DEF Sane
<1> HIDE DEF seen
<1>2. Views(rows) = [seen EXCEPT !.execution = [x \in Execution |-> Pending(seen.execution[x])]]
  BY DEF Views, seen
<1>3. Views(rows) =
        [issue |-> seen.issue, execution |-> [x \in Execution |-> Pending(seen.execution[x])],
         containment |-> seen.containment, run |-> seen.run]
  BY <1>1, <1>2
<1> QED
  BY <1>3 DEF Table, Stored, seen

\* A stored execution that is not inconsistent shows its state.
LEMMA StoredShows ==
  ASSUME NEW view, Known(view, ExecutionState), NEW v
  PROVE  /\ Stored(view, v).bad = view.bad
         /\ ~view.bad => Stored(view, v).state = Shown(view.state)
<1>1. Pending(view).bad = view.bad /\ (~view.bad => Pending(view).state = Shown(view.state))
  BY DEF Pending, Shown, Known, View
<1>2. Pending(view) \in View(StoredState)
  BY DEF Pending, Known, View, StoredState
<1>3. /\ Costless(Pending(view)).bad = Pending(view).bad
      /\ Costless(Pending(view)).state = Pending(view).state
  BY <1>2 DEF Costless, View
<1> QED
  BY <1>1, <1>3 DEF Stored

\* Of what both readings agree on, what the tables of a version show.
LEMMA TableShows ==
  ASSUME NEW rows \in Seq(OKRow), InOrder(rows), Sound(rows), NEW v
  PROVE  LET s == Strict(rows)
             t == Table(Seen(rows), v)
         IN /\ \A i \in Issue : ~t.issue[i].bad /\ t.issue[i].state = s.issue[i]
            /\ \A x \in Execution :
                 ~t.execution[x].bad /\ t.execution[x].state = Shown(s.execution[x])
            /\ \A b \in Execution \X Generation :
                 /\ ~t.containment[b].bad /\ t.containment[b].state = s.box[b].state
                 /\ t.containment[b].workspace = s.box[b].workspace
            /\ \A r \in Run : ~t.run[r].bad
<1> DEFINE s == Strict(rows)
           t == Table(Seen(rows), v)
           seen == Seen(rows)
<1>1. Agree(rows) /\ Sane(seen, Top(rows))
  BY ReadingsAgree, SeenSane DEF Sound, Replayable
<1>2. ASSUME NEW x \in Execution
      PROVE  ~t.execution[x].bad /\ t.execution[x].state = Shown(s.execution[x])
  <2>1. t.execution[x] = Stored(seen.execution[x], v)
    BY DEF Table
  <2>2. /\ Known(seen.execution[x], ExecutionState) /\ ~seen.execution[x].bad
        /\ seen.execution[x].state = s.execution[x]
    BY <1>1 DEF Sane, Agree, ExecutionsAgree
  <2> QED
    BY <2>1, <2>2, StoredShows
<1> QED
  BY <1>1, <1>2 DEF Table, Agree, IssuesAgree, BoxesAgree, RunsClean

LEMMA StrictAgreesHolds == evidence \in Seq(Row) => StrictAgrees
<1> SUFFICES ASSUME evidence \in Seq(Row), Sound(OKRows(evidence))
             PROVE  LET rows == OKRows(evidence)
                        s == Strict(rows)
                        v == Views(rows)
                    IN /\ Inconsistent(v) = {}
                       /\ \A i \in Issue : v.issue[i].state = s.issue[i]
                       /\ \A x \in Execution : v.execution[x].state = Shown(s.execution[x])
                       /\ \A b \in Execution \X Generation :
                            /\ ~v.containment[b].bad
                            /\ v.containment[b].state = s.box[b].state
                            /\ v.containment[b].workspace = s.box[b].workspace
  BY DEF StrictAgrees
<1> DEFINE rows == OKRows(evidence)
           v == Views(rows)
<1>1. rows \in Seq(OKRow) /\ InOrder(rows)
  BY ReadInOrder
<1>2. v = Table(Seen(rows), 3)
  BY <1>1, ViewsAreTable
<1> HIDE DEF rows
<1>3. Sound(rows)
  BY DEF rows
<1>4. LET s == Strict(rows)
      IN /\ \A i \in Issue : ~v.issue[i].bad /\ v.issue[i].state = s.issue[i]
         /\ \A x \in Execution :
              ~v.execution[x].bad /\ v.execution[x].state = Shown(s.execution[x])
         /\ \A b \in Execution \X Generation :
              /\ ~v.containment[b].bad /\ v.containment[b].state = s.box[b].state
              /\ v.containment[b].workspace = s.box[b].workspace
         /\ \A r \in Run : ~v.run[r].bad
  BY <1>1, <1>2, <1>3, TableShows
<1> HIDE DEF v
<1>5. Inconsistent(v) = {}
  BY <1>4 DEF Inconsistent
<1> QED
  BY <1>4, <1>5 DEF v, rows

\* In a log that the runtime can replay, with every run started and finished
\* once, the dashboard finds no fault, and it shows every issue, execution and
\* containment in the state that the runtime has it in.
THEOREM ReadingsAlwaysAgree == Spec => []StrictAgrees
<1>1. ReadInv => StrictAgrees
  BY StrictAgreesHolds, TypeParts DEF ReadInv
<1> QED
  BY <1>1, ReadInvAlways, PTL

-----------------------------------------------------------------------------
(* What the operator is asked to look at.                                  *)

\* While nothing was altered, the tables differ from a projection of all the
\* evidence in costs alone, and a corrupt id is one that two rows claim.
Faithful ==
  edits = 0 =>
    /\ WithoutCost(views) = Table(Seen(OKRows(evidence)), 2)
    /\ \A id \in corrupt : \E j, k \in Good(evidence) :
         j # k /\ evidence[j].id = id /\ evidence[k].id = id

LEMMA CostlessTable ==
  ASSUME NEW t, Tables(t)
  PROVE  WithoutCost(t) =
           [issue |-> t.issue, execution |-> [x \in Execution |-> Costless(t.execution[x])],
            containment |-> t.containment, run |-> t.run]
<1>1. t = [issue |-> t.issue, execution |-> t.execution, containment |-> t.containment,
           run |-> t.run]
  BY DEF Tables
<1>2. WithoutCost(t) = [t EXCEPT !.execution = [x \in Execution |-> Costless(t.execution[x])]]
  BY DEF WithoutCost, Costless
<1> QED
  BY <1>1, <1>2

LEMMA CostlessStored ==
  ASSUME NEW view, Known(view, ExecutionState), NEW v
  PROVE  Costless(Stored(view, v)) = Stored(view, 2)
<1>1. Stored(view, 2) = Costless(Pending(view))
  BY DEF Stored
<1>2. Pending(view) \in View(StoredState)
  BY DEF Pending, Known, View, StoredState
<1>3. \A w \in View(StoredState) : Costless(Costless(w)) = Costless(w)
  BY DEF Costless, View
<1> QED
  BY <1>1, <1>2, <1>3 DEF Stored

LEMMA CostlessProjected ==
  ASSUME NEW rows \in Seq(Row)
  PROVE  WithoutCost(Projected(rows)) = Table(Seen(OKRows(rows)), 2)
<1> DEFINE seen == Seen(OKRows(rows))
           t == Table(seen, version)
<1>1. Projected(rows) = t /\ Tables(t) /\ Sane(seen, Top(OKRows(rows)))
  BY ProjectedIsTable, ProjectedTyped, ReadInOrder, SeenSane
<1>2. \A x \in Execution : Costless(t.execution[x]) = Stored(seen.execution[x], 2)
  BY <1>1, CostlessStored DEF Table, Sane
<1>3. t.issue = seen.issue /\ t.containment = seen.containment /\ t.run = seen.run
  BY DEF Table
<1> HIDE DEF t, seen
<1>4. WithoutCost(t) = Table(seen, 2)
  BY <1>1, <1>2, <1>3, CostlessTable DEF Table
<1> QED
  BY <1>1, <1>4 DEF seen

\* What replaying the entities that a row names does to tables that differ in
\* costs alone.
LEMMA UpdatedIsFaithful ==
  ASSUME NEW old, Tables(old), NEW seen, NEW top \in Nat, Sane(seen, top),
         WithoutCost(old) = Table(seen, 2), NEW v,
         NEW row \in OKRow, row.id <= MaxRows, top <= row.id,
         Tables(Table(Viewed(seen, row), v))
  PROVE  WithoutCost(Updated(old, Table(Viewed(seen, row), v), row)) = Table(Viewed(seen, row), 2)
<1> DEFINE next == Viewed(seen, row)
           new == Table(next, v)
           other == Table(seen, v)
           u == Updated(old, new, row)
           N == Named(row, "execution")
<1>1. Updated(other, new, row) = new
  BY UpdatedIsTable
<1>2. /\ old.issue = seen.issue /\ old.containment = seen.containment /\ old.run = seen.run
      /\ \A x \in Execution : Costless(old.execution[x]) = Stored(seen.execution[x], 2)
  <2>1. Table(seen, 2) =
          [issue |-> old.issue, execution |-> [x \in Execution |-> Costless(old.execution[x])],
           containment |-> old.containment, run |-> old.run]
    BY CostlessTable
  <2> QED
    BY <2>1 DEF Table
<1>3. /\ other.issue = seen.issue /\ other.containment = seen.containment /\ other.run = seen.run
      /\ other.execution = [x \in Execution |-> Stored(seen.execution[x], v)]
      /\ new.issue = next.issue /\ new.containment = next.containment /\ new.run = next.run
      /\ new.execution = [x \in Execution |-> Stored(next.execution[x], v)]
  BY DEF Table
<1>4. Sane(next, row.id)
  BY ViewedSane
<1>5. \A x \in Execution : /\ Costless(new.execution[x]) = Stored(next.execution[x], 2)
                           /\ Costless(other.execution[x]) = Stored(seen.execution[x], 2)
  <2>1. \A x \in Execution : /\ Known(next.execution[x], ExecutionState)
                             /\ Known(seen.execution[x], ExecutionState)
    BY <1>4 DEF Sane
  <2> HIDE DEF next
  <2> QED
    BY <1>3, <2>1, CostlessStored
<1> HIDE DEF next, new, other
<1>6. /\ u.issue = new.issue /\ u.containment = new.containment /\ u.run = new.run
      /\ u.execution = Applied1(new.execution, old.execution, NoView, N)
      /\ new.execution = Applied1(new.execution, other.execution, NoView, N)
  <2>1. /\ u.issue = Updated(other, new, row).issue
        /\ u.containment = Updated(other, new, row).containment
        /\ u.run = Updated(other, new, row).run
    BY <1>2, <1>3 DEF Updated
  <2>2. /\ u.execution = Applied1(new.execution, old.execution, NoView, N)
        /\ Updated(other, new, row).execution =
             Applied1(new.execution, other.execution, NoView, N)
    BY DEF Updated
  <2> QED
    BY <1>1, <2>1, <2>2
<1> HIDE DEF N
<1>7. Tables(u)
  BY UpdatedTyped DEF new, next
<1> HIDE DEF u
<1>8. ASSUME NEW x \in Execution
      PROVE  Costless(u.execution[x]) = Stored(next.execution[x], 2)
  <2>1. DOMAIN old.execution = Execution /\ DOMAIN other.execution = Execution
    BY <1>3 DEF Tables
  <2>2. CASE x \in N /\ new.execution[x] # NoView
    BY <1>5, <1>6, <2>1, <2>2 DEF Applied1
  <2>3. CASE ~(x \in N /\ new.execution[x] # NoView)
    <3>1. u.execution[x] = old.execution[x] /\ new.execution[x] = other.execution[x]
      BY <1>6, <2>1, <2>3 DEF Applied1
    <3> QED
      BY <1>2, <1>5, <3>1
  <2> QED
    BY <2>2, <2>3
<1>9. WithoutCost(u) =
        [issue |-> u.issue, execution |-> [x \in Execution |-> Costless(u.execution[x])],
         containment |-> u.containment, run |-> u.run]
  BY <1>7, CostlessTable
<1>10. WithoutCost(u) = Table(next, 2)
  BY <1>3, <1>6, <1>8, <1>9 DEF Table
<1> QED
  BY <1>10 DEF u, new, next

LEMMA InitFaithful == Init => Faithful
<1> SUFFICES ASSUME Init
             PROVE  Faithful
  OBVIOUS
<1>1. evidence \in Seq(Row)
  BY InitInv, TypeParts DEF ReadInv
<1> QED
  BY <1>1, CostlessProjected DEF Init, Faithful

LEMMA ArrivedFaithful == ReadInv /\ Faithful /\ RecordArrives => Faithful'
<1> SUFFICES ASSUME ReadInv, Faithful, RecordArrives, edits' = 0
             PROVE  /\ WithoutCost(views') = Table(Seen(OKRows(evidence')), 2)
                    /\ \A id \in corrupt' : \E j, k \in Good(evidence') :
                         j # k /\ evidence'[j].id = id /\ evidence'[k].id = id
  BY DEF Faithful, WithoutCost
<1>0. TypeOK /\ IdsLow /\ evidence \in Seq(Row) /\ Tables(views) /\ Len(evidence) \in Nat
      /\ DOMAIN evidence = 1 .. Len(evidence)
  BY TypeParts, LenProperties DEF ReadInv
<1>1. PICK K \in Nat, row \in Row :
        /\ K <= known + MaxNew /\ Arrives(K) /\ Persist(K, row)
        /\ row = Torn => K \notin DOMAIN evidence
        /\ row.is = "OK" => row.id \in {K, K - 1}
        /\ edits' = edits
  BY RecordArrivesOf
<1> DEFINE rows == OKRows(evidence)
           seen == Seen(rows)
<1>2. /\ WithoutCost(views) = Table(seen, 2)
      /\ \A id \in corrupt : \E j, k \in Good(evidence) :
           j # k /\ evidence[j].id = id /\ evidence[k].id = id
  BY <1>1 DEF Faithful
<1>3. /\ K \in 1 .. Len(evidence) + 1
      /\ OKRows(evidence') = IF row.is = "OK" THEN Append(rows, row) ELSE rows
      /\ \A n \in 1 .. Len(rows) : row.is = "OK" => rows[n].id <= row.id
  BY <1>0, <1>1, ArrivedRow
<1>4. /\ evidence' \in Seq(Row) /\ K \in 1 .. Len(evidence') /\ evidence'[K] = row
      /\ Len(evidence') = IF K = Len(evidence) + 1 THEN Len(evidence) + 1 ELSE Len(evidence)
      /\ \A k \in 1 .. Len(evidence) : k # K => evidence'[k] = evidence[k]
  BY <1>0, <1>1, <1>3, Inserted
<1>5. views' = Updated(views, Projected(evidence'), row)
  <2>1. K \in DOMAIN evidence => evidence[K] = Torn
    <3>1. \/ K = Len(evidence) + 1
          \/ K = Len(evidence) /\ evidence[K] = Torn
      BY <1>1 DEF Arrives
    <3>2. Len(evidence) + 1 \notin 1 .. Len(evidence)
      BY <1>0
    <3> QED
      BY <1>0, <3>1, <3>2
  <2>2. K \notin DOMAIN evidence \/ evidence[K] # row
    BY <1>1, <2>1
  <2> QED
    BY <1>1, <2>2 DEF Persist
<1>6. WithoutCost(views') = Table(Seen(OKRows(evidence')), 2)
  <2>1. CASE row.is # "OK"
    BY <1>0, <1>2, <1>3, <1>5, <2>1, NothingUpdated
  <2>2. CASE row.is = "OK"
    <3>1. row \in OKRow /\ row.id <= MaxRows /\ row.id \in Nat
      BY <2>2, RowKinds, Bounds
    <3>2. rows \in Seq(OKRow) /\ Sane(seen, Top(rows))
      BY <1>0, ReadInOrder, SeenSane
    <3>3. Seen(OKRows(evidence')) = Viewed(seen, row)
      BY <1>3, <2>2, <3>1, <3>2, SeenAlways, SeenGrows
    <3>4. Top(rows) \in Nat /\ Top(rows) <= row.id
      <4>1. CASE Len(rows) = 0
        BY <3>1, <4>1 DEF Top
      <4>2. CASE Len(rows) # 0
        <5>1. Len(rows) \in 1 .. Len(rows)
          BY <3>2, <4>2, LenProperties
        <5>2. Top(rows) = rows[Len(rows)].id /\ rows[Len(rows)] \in OKRow
          BY <3>2, <4>2, <5>1, ElementOfSeq DEF Top
        <5> QED
          BY <1>3, <2>2, <5>1, <5>2 DEF OKRow
      <4> QED
        BY <4>1, <4>2
    <3>5. Projected(evidence') = Table(Viewed(seen, row), version)
      BY <1>4, <3>3, ProjectedIsTable
    <3>6. Tables(Table(Viewed(seen, row), version))
      BY <1>4, <3>5, ProjectedTyped
    <3> HIDE DEF seen, rows
    <3> QED
      BY <1>0, <1>2, <1>5, <3>1, <3>2, <3>3, <3>4, <3>5, <3>6, UpdatedIsFaithful
  <2> QED
    BY <2>1, <2>2
<1>7. ASSUME NEW id \in corrupt'
      PROVE  \E j, k \in Good(evidence') :
               j # k /\ evidence'[j].id = id /\ evidence'[k].id = id
  <2>0. \A k \in Good(evidence) : k # K /\ k \in Good(evidence') /\ evidence'[k] = evidence[k]
    <3> SUFFICES ASSUME NEW k \in Good(evidence)
                 PROVE  k # K /\ k \in Good(evidence') /\ evidence'[k] = evidence[k]
      OBVIOUS
    <3>1. k \in 1 .. Len(evidence) /\ evidence[k].is = "OK"
      BY <1>0 DEF Good
    <3>2. k # K
      <4>1. K \in DOMAIN evidence => evidence[K] = Torn
        BY <1>0, <1>1 DEF Arrives
      <4> QED
        BY <1>0, <3>1, <4>1, RowKinds
    <3>3. k \in 1 .. Len(evidence')
      BY <1>0, <1>4, <3>1
    <3> QED
      BY <1>4, <3>1, <3>2, <3>3, LenProperties DEF Good
  <2>1. CASE id \in corrupt
    BY <1>2, <2>0, <2>1
  <2>2. CASE id \notin corrupt
    <3>1. Conflicts(row) /\ id = row.id
      BY <1>1, <2>2 DEF Persist
    <3>2. PICK n \in DOMAIN evidence : evidence[n].is = "OK" /\ evidence[n].id = row.id
      BY <3>1 DEF Conflicts
    <3>3. n \in Good(evidence)
      BY <3>2 DEF Good
    <3>4. K \in Good(evidence')
      BY <1>4, <3>1, LenProperties DEF Good, Conflicts
    <3> QED
      BY <1>4, <2>0, <3>1, <3>2, <3>3, <3>4
  <2> QED
    BY <2>1, <2>2
<1> QED
  BY <1>6, <1>7

LEMMA NextFaithful == ReadInv /\ Faithful /\ [Next]_vars => Faithful'
<1> SUFFICES ASSUME ReadInv, Faithful, [Next]_vars
             PROVE  Faithful'
  OBVIOUS
<1>1. CASE RecordArrives
  BY <1>1, ArrivedFaithful
<1>2. CASE RecordAltered
  <2>1. edits \in Nat /\ edits' = edits + 1
    BY <1>2, TypeParts DEF ReadInv, RecordAltered
  <2> QED
    BY <2>1 DEF Faithful
<1>3. CASE Rebuild
  <2>1. WithoutCost(views') = Table(Seen(OKRows(evidence)), 2)
    BY <1>3, TypeParts, CostlessProjected DEF Rebuild, ReadInv
  <2> QED
    BY <1>3, <2>1 DEF Rebuild, Faithful, WithoutCost
<1>4. CASE UNCHANGED <<evidence, corrupt, views, edits>>
  BY <1>4 DEF Faithful, WithoutCost
<1> QED
  BY <1>1, <1>2, <1>3, <1>4 DEF Next, RebuildFails, Upgrade, vars

\* While nothing was altered, the stored tables show what both readings agree on.
LEMMA ViewsShow ==
  ASSUME Tables(views), evidence \in Seq(Row), Sound(OKRows(evidence)),
         WithoutCost(views) = Table(Seen(OKRows(evidence)), 2)
  PROVE  LET s == Strict(OKRows(evidence))
         IN /\ \A i \in Issue : ~views.issue[i].bad /\ views.issue[i].state = s.issue[i]
            /\ \A x \in Execution :
                 ~views.execution[x].bad /\ views.execution[x].state = Shown(s.execution[x])
            /\ \A b \in Execution \X Generation : views.containment[b].state = s.box[b].state
            /\ \A r \in Run : ~views.run[r].bad
<1> DEFINE rows == OKRows(evidence)
           s == Strict(rows)
           t == Table(Seen(rows), 2)
<1>1. t = [issue |-> views.issue, execution |-> [x \in Execution |-> Costless(views.execution[x])],
           containment |-> views.containment, run |-> views.run]
  BY CostlessTable
<1>2. /\ \A i \in Issue : ~t.issue[i].bad /\ t.issue[i].state = s.issue[i]
      /\ \A x \in Execution :
           ~t.execution[x].bad /\ t.execution[x].state = Shown(s.execution[x])
      /\ \A b \in Execution \X Generation : t.containment[b].state = s.box[b].state
      /\ \A r \in Run : ~t.run[r].bad
  <2>1. rows \in Seq(OKRow) /\ InOrder(rows) /\ Sound(rows)
    BY ReadInOrder
  <2> HIDE DEF rows
  <2> QED
    BY <2>1, TableShows
<1> HIDE DEF t, s, rows
<1>3. ASSUME NEW x \in Execution
      PROVE  /\ t.execution[x].bad = views.execution[x].bad
             /\ t.execution[x].state = views.execution[x].state
  <2>1. views.execution[x] \in View(StoredState) /\ t.execution[x] = Costless(views.execution[x])
    BY <1>1 DEF Tables
  <2>2. \A w \in View(StoredState) : Costless(w).bad = w.bad /\ Costless(w).state = w.state
    BY DEF Costless, View
  <2> QED
    BY <2>1, <2>2
<1>4. t.issue = views.issue /\ t.containment = views.containment /\ t.run = views.run
  BY <1>1
<1> QED
  BY <1>2, <1>3, <1>4 DEF s, rows

\* Nothing is said of the rows of a log that can be replayed.
LEMMA NothingReported ==
  ASSUME evidence \in Seq(Row), Sound(OKRows(evidence)), Malformed \notin Range(evidence),
         \A id \in corrupt : \E j, k \in Good(evidence) :
           j # k /\ evidence[j].id = id /\ evidence[k].id = id
  PROVE  /\ corrupt = {}
         /\ \A k \in DOMAIN evidence : evidence[k] # Malformed /\ evidence[k].event.type # "Unheard"
<1> DEFINE rows == OKRows(evidence)
<1>1. /\ rows \in Seq(OKRow) /\ InOrder(rows) /\ Sound(rows)
      /\ Len(rows) = Cardinality(Good(evidence)) /\ DOMAIN rows = 1 .. Len(rows)
      /\ \A k \in Good(evidence) : rows[Rank(evidence, k)] = evidence[k]
                                   /\ Rank(evidence, k) \in 1 .. Len(rows)
  BY ReadInOrder, OKRowsRead, RankOfUpTo, LenProperties
<1> HIDE DEF rows
<1>2. \A k \in Good(evidence) : evidence[k].id = Rank(evidence, k)
  BY <1>1 DEF Sound, Replayable
<1>3. corrupt = {}
  BY <1>2, RankUnique
<1>4. \A n \in 1 .. Len(rows) : rows[n].event.type # "Unheard"
  BY <1>1, ReadingsAgree DEF Sound, Replayable, Agree
<1>5. ASSUME NEW k \in DOMAIN evidence
      PROVE  evidence[k] # Malformed /\ evidence[k].event.type # "Unheard"
  <2>1. evidence[k] # Malformed
    BY DEF Range
  <2>2. evidence[k] \in Row
    BY LenProperties, ElementOfSeq
  <2>3. CASE evidence[k].is = "OK"
    <3>1. k \in Good(evidence)
      BY <2>3 DEF Good
    <3> QED
      BY <1>1, <1>4, <2>1, <3>1
  <2>4. CASE evidence[k].is # "OK"
    <3>1. evidence[k].event = Blank
      BY <2>2, <2>4 DEF Row, Torn, Malformed, OK
    <3> QED
      BY <2>1, <3>1 DEF Blank
  <2> QED
    BY <2>3, <2>4
<1> QED
  BY <1>3, <1>5

LEMMA WarrantedHolds == ReadInv /\ Faithful => AttentionIsWarranted
<1> DEFINE rows == OKRows(evidence)
           s == Strict(rows)
<1> SUFFICES ASSUME ReadInv, Faithful, edits = 0, Malformed \notin Range(evidence), Sound(rows)
             PROVE  Conditions(views) = Wanted(s)
  BY DEF AttentionIsWarranted
<1>0. evidence \in Seq(Row) /\ Tables(views)
  BY TypeParts DEF ReadInv
<1>1. /\ corrupt = {}
      /\ \A k \in DOMAIN evidence : evidence[k] # Malformed /\ evidence[k].event.type # "Unheard"
  BY <1>0, NothingReported DEF Faithful
<1>2. /\ \A i \in Issue : ~views.issue[i].bad /\ views.issue[i].state = s.issue[i]
      /\ \A x \in Execution :
           ~views.execution[x].bad /\ views.execution[x].state = Shown(s.execution[x])
      /\ \A b \in Execution \X Generation : views.containment[b].state = s.box[b].state
      /\ \A r \in Run : ~views.run[r].bad
  BY <1>0, ViewsShow DEF Faithful
<1>3. Strictly(s)
  BY <1>0, ReadInOrder, ReadingsAgree
<1> HIDE DEF rows, s
<1>4. Inconsistent(views) = {}
  BY <1>2 DEF Inconsistent
<1>5. /\ DOMAIN views.containment = Execution \X Generation
      /\ DOMAIN s.box = Execution \X Generation
      /\ \A b \in Execution \X Generation : b[1] \in Execution
  BY <1>0, <1>3 DEF Tables, Strictly
<1>6. \A i \in Issue : views.issue[i].state = s.issue[i]
  BY <1>2
<1>7. ASSUME NEW b \in Execution \X Generation
      PROVE  /\ (views.execution[b[1]] # NoView /\ views.containment[b].state = "UNCONFIRMED")
                  <=> s.box[b].state = "UNCONFIRMED"
             /\ (views.execution[b[1]].state \in Terminal /\ OpenBox(views, b))
                  <=> /\ s.execution[b[1]] \in Terminal
                      /\ s.box[b].state \notin {"NONE", "RELEASED"}
  <2>1. /\ views.containment[b].state = s.box[b].state
        /\ views.execution[b[1]].state = Shown(s.execution[b[1]])
    BY <1>2, <1>5
  <2>2. /\ s.box[b] \in BoxRow /\ s.execution[b[1]] \in {"NONE"} \cup ExecutionState
        /\ s.box[b].state # "NONE" => s.execution[b[1]] # "NONE"
    BY <1>3, <1>5 DEF Strictly
  <2>3. s.box[b].state = "UNCONFIRMED" => views.execution[b[1]] # NoView
    <3>1. NoView.state = "NONE"
      BY DEF NoView
    <3>2. s.box[b].state = "UNCONFIRMED" => Shown(s.execution[b[1]]) # "NONE"
      BY <2>2 DEF Shown
    <3> QED
      BY <2>1, <3>1, <3>2
  <2>4. views.execution[b[1]].state \in Terminal <=> s.execution[b[1]] \in Terminal
    BY <2>1 DEF Shown, Terminal
  <2>5. OpenBox(views, b) <=> s.box[b].state \notin {"NONE", "RELEASED"}
    BY <2>1, <2>2 DEF OpenBox, BoxRow, ContainmentState
  <2> QED
    BY <2>1, <2>3, <2>4, <2>5
<1> DEFINE asked == {<<s.issue[i], i>> :
             i \in {i \in Issue : s.issue[i] \in {"NEEDS_HUMAN", "NEEDS_DECOMPOSITION"}}}
           held == {<<"CONTAINMENT_UNCONFIRMED", b>> :
             b \in {b \in Execution \X Generation : s.box[b].state = "UNCONFIRMED"}}
           open == {<<"CONTAINMENT_UNRELEASED", b>> :
             b \in {b \in Execution \X Generation :
                      /\ s.execution[b[1]] \in Terminal
                      /\ s.box[b].state \notin {"NONE", "RELEASED"}}}
<1>8. Wanted(s) = asked \cup held \cup open
  BY <1>5 DEF Wanted
<1>9. {<<views.issue[i].state, i>> :
         i \in {i \in Issue : views.issue[i].state \in {"NEEDS_HUMAN", "NEEDS_DECOMPOSITION"}}}
        = asked
  BY <1>6
<1>10. {<<"CONTAINMENT_UNCONFIRMED", b>> :
          b \in {b \in DOMAIN views.containment :
                   views.execution[b[1]] # NoView /\ views.containment[b].state = "UNCONFIRMED"}}
         = held
  BY <1>5, <1>7
<1>11. {<<"CONTAINMENT_UNRELEASED", b>> :
          b \in {b \in DOMAIN views.containment :
                   views.execution[b[1]].state \in Terminal /\ OpenBox(views, b)}}
         = open
  BY <1>5, <1>7
<1>12. /\ {<<"CORRUPT_EVIDENCE", id>> : id \in corrupt} = {}
       /\ {<<"MALFORMED_EVIDENCE", 0>> : k \in {k \in DOMAIN evidence : evidence[k] = Malformed}} = {}
       /\ {<<"UNKNOWN_EVENT_TYPES", 0>> :
             k \in {k \in DOMAIN evidence : evidence[k].event.type = "Unheard"}} = {}
  BY <1>1
<1> HIDE DEF asked, held, open
<1>13. Conditions(views) = asked \cup held \cup open
  BY <1>4, <1>9, <1>10, <1>11, <1>12 DEF Conditions
<1> QED
  BY <1>8, <1>13 DEF s, rows

\* Over a log that the runtime can replay and that nobody altered, the operator
\* is asked to look at exactly what the runtime's own state says needs a human,
\* whichever transactions were stored, migrated or still wait for a rebuild.
THEOREM AttentionAlwaysWarranted == Spec => []AttentionIsWarranted
<1>1. Init => ReadInv /\ Faithful
  BY InitInv, InitFaithful
<1>2. ReadInv /\ Faithful /\ [Next]_vars => (ReadInv /\ Faithful)'
  BY NextInv, NextFaithful
<1>3. ReadInv /\ Faithful => AttentionIsWarranted
  BY WarrantedHolds
<1> QED
  BY <1>1, <1>2, <1>3, PTL DEF Spec

=============================================================================
