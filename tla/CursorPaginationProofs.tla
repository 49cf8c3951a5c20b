----------------------- MODULE CursorPaginationProofs -----------------------
(***************************************************************************)
(* Proofs about CursorPagination, for any rows, positions and page size.    *)
(***************************************************************************)
EXTENDS CursorPagination, FiniteSetTheorems, SequenceTheorems, WellFoundedInduction, TLAPS

(***************************************************************************)
(* The order of the rows.                                                   *)
(***************************************************************************)
Numbered == position \in [Rows -> Nat]

LEMMA RowsAreNumbers == Rows \subseteq Nat /\ IsFiniteSet(Rows)
BY PaginationAssumption

LEMMA BeforeIsAnOrder ==
    ASSUME Numbered
    PROVE  /\ \A r \in Rows : ~Before(r, r)
           /\ \A r, s \in Rows : Before(r, s) => ~Before(s, r)
           /\ \A r, s \in Rows : r # s => Before(r, s) \/ Before(s, r)
           /\ \A r, s, t \in Rows : Before(r, s) /\ Before(s, t) => Before(r, t)
BY PaginationAssumption DEF Numbered, Before, Precedes

\* How many rows of S come before r.
Rank(S, r) == Cardinality({s \in S : Before(s, r)})

LEMMA RankIsIndex ==
    ASSUME Numbered, NEW S \in SUBSET Rows
    PROVE  /\ IsFiniteSet(S) /\ Cardinality(S) \in Nat
           /\ \A r \in S : Rank(S, r) \in 0..(Cardinality(S) - 1)
           /\ \A r, s \in S : Before(r, s) => Rank(S, r) < Rank(S, s)
<1>1. IsFiniteSet(S) /\ Cardinality(S) \in Nat
  BY RowsAreNumbers, FS_Subset, FS_CardinalityType
<1>2. ASSUME NEW T \in SUBSET S, NEW x \in S, x \notin T
      PROVE  IsFiniteSet(T) /\ Cardinality(T) \in Nat /\ Cardinality(T) < Cardinality(S)
  BY <1>1, <1>2, FS_Subset, FS_CardinalityType
<1>3. ASSUME NEW r \in S
      PROVE  Rank(S, r) \in 0..(Cardinality(S) - 1)
  <2>1. r \notin {s \in S : Before(s, r)}
    BY BeforeIsAnOrder
  <2>. QED
    BY <1>1, <1>2, <2>1 DEF Rank
<1>4. ASSUME NEW r \in S, NEW s \in S, Before(r, s)
      PROVE  Rank(S, r) < Rank(S, s)
  <2>. DEFINE R == {t \in S : Before(t, r)}
              T == {t \in S : Before(t, s)}
  <2>1. R \subseteq T /\ r \in T /\ r \notin R
    BY <1>4, BeforeIsAnOrder
  <2>2. IsFiniteSet(T) /\ IsFiniteSet(R) /\ Cardinality(R) \in Nat /\ Cardinality(T) \in Nat
    BY <1>1, FS_Subset, FS_CardinalityType
  <2>3. Cardinality(R) <= Cardinality(T) /\ Cardinality(R) # Cardinality(T)
    BY <2>1, <2>2, FS_Subset
  <2>. QED
    BY <2>2, <2>3 DEF Rank
<1>. QED
  BY <1>1, <1>3, <1>4

\* The rank numbers the rows of S without a gap.
LEMMA RankIsOnto ==
    ASSUME Numbered, NEW S \in SUBSET Rows, NEW i \in 1..Cardinality(S)
    PROVE  \E r \in S : Rank(S, r) = i - 1
<1>. DEFINE n == Cardinality(S)
            rank == [r \in S |-> Rank(S, r)]
<1>1. IsFiniteSet(S) /\ n \in Nat /\ rank \in [S -> 0..(n - 1)]
  BY RankIsIndex
<1>2. ASSUME NEW r \in S, NEW s \in S, rank[r] = rank[s]
      PROVE  r = s
  <2>1. Before(r, s) => rank[r] < rank[s]
    BY RankIsIndex
  <2>2. Before(s, r) => rank[s] < rank[r]
    BY RankIsIndex
  <2>3. rank[r] \in Int
    BY <1>1
  <2>. QED
    BY <1>2, <2>1, <2>2, <2>3, BeforeIsAnOrder
<1>3. rank \in Injection(S, 0..(n - 1))
  BY <1>1, <1>2 DEF Injection, IsInjective
<1>4. IsFiniteSet(0..(n - 1)) /\ Cardinality(0..(n - 1)) = n
  <2>. HIDE DEF n
  <2>1. n - 1 \in Int /\ 0 \in Int /\ (0 > n - 1 => n = 0) /\ (n - 1) - 0 + 1 = n
    BY <1>1
  <2>. QED
    BY <2>1, FS_Interval
<1>5. rank \in Surjection(S, 0..(n - 1))
  BY <1>3, <1>4, FS_Injection
<1>6. PICK r \in S : rank[r] = i - 1
  <2>1. i - 1 \in 0..(n - 1)
    BY <1>1
  <2>. HIDE DEF n, rank
  <2>. QED
    BY <1>5, <2>1 DEF Surjection
<1>. QED
  BY <1>6

LEMMA OrderedRows ==
    ASSUME Numbered, NEW S \in SUBSET Rows
    PROVE  /\ Ordered(S) \in Seq(S) /\ Len(Ordered(S)) = Cardinality(S)
           /\ \A i \in 1..Len(Ordered(S)) : Rank(S, Ordered(S)[i]) = i - 1
           /\ \A i, j \in 1..Len(Ordered(S)) : i < j => Before(Ordered(S)[i], Ordered(S)[j])
           /\ \A r \in S : \E i \in 1..Len(Ordered(S)) : Ordered(S)[i] = r
<1>. DEFINE n == Cardinality(S)
            o == Ordered(S)
<1>1. n \in Nat
  BY RankIsIndex
<1>2. o = [i \in 1..n |-> CHOOSE r \in S : Rank(S, r) = i - 1]
  BY DEF Ordered, Rank
<1>3. ASSUME NEW i \in 1..n
      PROVE  o[i] \in S /\ Rank(S, o[i]) = i - 1
  BY <1>2, RankIsOnto
<1>4. o \in [1..n -> S]
  BY <1>2, <1>3
<1>5. o \in Seq(S) /\ Len(o) = n
  BY <1>1, <1>4, SeqDef, LenProperties
<1>6. ASSUME NEW r \in S, NEW s \in S
      PROVE  /\ Rank(S, r) = Rank(S, s) => r = s
             /\ Rank(S, r) < Rank(S, s) => Before(r, s)
  <2>1. \A t \in S : Rank(S, t) \in Int
    BY <1>1, RankIsIndex
  <2>2. /\ Before(r, s) => Rank(S, r) < Rank(S, s)
        /\ Before(s, r) => Rank(S, s) < Rank(S, r)
    BY RankIsIndex
  <2>. QED
    BY <2>1, <2>2, BeforeIsAnOrder
<1>7. ASSUME NEW i \in 1..n, NEW j \in 1..n, i < j
      PROVE  Before(o[i], o[j])
  <2>1. Rank(S, o[i]) < Rank(S, o[j])
    BY <1>1, <1>3, <1>7
  <2>. QED
    BY <1>3, <1>6, <2>1
<1>8. ASSUME NEW r \in S
      PROVE  \E i \in 1..n : o[i] = r
  <2>1. Rank(S, r) + 1 \in 1..n /\ Rank(S, r) \in Int
    BY <1>1, RankIsIndex
  <2>2. o[Rank(S, r) + 1] \in S /\ Rank(S, o[Rank(S, r) + 1]) = Rank(S, r)
    BY <1>3, <2>1
  <2>. QED
    BY <1>6, <2>1, <2>2
<1>. QED
  BY <1>3, <1>5, <1>7, <1>8

(***************************************************************************)
(* The rows a cursor leads to, in its direction.                            *)
(***************************************************************************)
Beyond(reverse, r, s) == IF reverse THEN Before(s, r) ELSE Before(r, s)

Query(cursor) ==
    IF cursor.reverse THEN Reverse(Ordered(Ahead(cursor))) ELSE Ordered(Ahead(cursor))

LEMMA ReversedRows ==
    ASSUME NEW S, NEW s \in Seq(S)
    PROVE  /\ Reverse(s) \in Seq(S) /\ Len(Reverse(s)) = Len(s)
           /\ \A i \in 1..Len(s) : Reverse(s)[i] = s[Len(s) - i + 1]
           /\ Range(Reverse(s)) = Range(s)
<1>1. Len(s) \in Nat /\ s \in [1..Len(s) -> S] /\ DOMAIN s = 1..Len(s)
  BY LenProperties
<1>2. \A i \in 1..Len(s) : Len(s) - i + 1 \in 1..Len(s)
  BY <1>1
<1>3. Reverse(s) \in [1..Len(s) -> S]
  BY <1>1, <1>2 DEF Reverse
<1>4. Reverse(s) \in Seq(S) /\ Len(Reverse(s)) = Len(s)
  BY <1>1, <1>3, SeqDef, LenProperties
<1>5. \A i \in 1..Len(s) : Reverse(s)[i] = s[Len(s) - i + 1]
  BY DEF Reverse
<1>6. \A i \in 1..Len(s) : Reverse(s)[Len(s) - i + 1] = s[i]
  <2>. SUFFICES ASSUME NEW i \in 1..Len(s)
                PROVE  Reverse(s)[Len(s) - i + 1] = s[i]
    OBVIOUS
  <2>1. Len(s) - (Len(s) - i + 1) + 1 = i
    BY <1>1
  <2>. QED
    BY <1>2, <1>5, <2>1
<1>7. Range(Reverse(s)) = {Reverse(s)[i] : i \in 1..Len(s)} /\ Range(s) = {s[i] : i \in 1..Len(s)}
  BY <1>1, <1>3 DEF Range
<1>8. Range(Reverse(s)) \subseteq Range(s) /\ Range(s) \subseteq Range(Reverse(s))
  BY <1>2, <1>5, <1>6, <1>7
<1>. QED
  BY <1>4, <1>5, <1>8

LEMMA QueriedRows ==
    ASSUME Numbered, rows \subseteq Rows, NEW c, c.reverse \in BOOLEAN
    PROVE  /\ Query(c) \in Seq(Ahead(c)) /\ Ahead(c) \in SUBSET rows
           /\ \A i, j \in 1..Len(Query(c)) : i < j => Beyond(c.reverse, Query(c)[i], Query(c)[j])
           /\ \A r \in Ahead(c) : \E i \in 1..Len(Query(c)) : Query(c)[i] = r
<1>. DEFINE o == Ordered(Ahead(c))
            n == Len(o)
<1>1. Ahead(c) \in SUBSET rows /\ Ahead(c) \in SUBSET Rows
  BY DEF Ahead
<1>2. /\ o \in Seq(Ahead(c))
      /\ \A i, j \in 1..n : i < j => Before(o[i], o[j])
      /\ \A r \in Ahead(c) : \E i \in 1..n : o[i] = r
  BY <1>1, OrderedRows
<1>3. n \in Nat
  BY <1>2, LenProperties
<1>4. CASE ~c.reverse
  BY <1>1, <1>2, <1>4 DEF Query, Beyond
<1>5. CASE c.reverse
  <2>. DEFINE q == Reverse(o)
  <2>1. q \in Seq(Ahead(c)) /\ Len(q) = n /\ \A i \in 1..n : q[i] = o[n - i + 1]
    BY <1>2, ReversedRows
  <2>. HIDE DEF o, n, q
  <2>2. ASSUME NEW i \in 1..n, NEW j \in 1..n, i < j
        PROVE  Before(q[j], q[i])
    <3>1. n - j + 1 \in 1..n /\ n - i + 1 \in 1..n /\ n - j + 1 < n - i + 1
      BY <1>3, <2>2
    <3>. QED
      BY <1>2, <2>1, <3>1
  <2>3. ASSUME NEW r \in Ahead(c)
        PROVE  \E i \in 1..n : q[i] = r
    <3>1. PICK i \in 1..n : o[i] = r
      BY <1>2
    <3>2. n - i + 1 \in 1..n /\ n - (n - i + 1) + 1 = i
      BY <1>3
    <3>. QED
      BY <2>1, <3>1, <3>2
  <2>4. Query(c) = q
    BY <1>5 DEF Query, q, o
  <2>. QED
    BY <1>1, <1>5, <2>1, <2>2, <2>3, <2>4 DEF Beyond
<1>. QED
  BY <1>4, <1>5

\* The rows of a page in the direction of its cursor.
Walked(p) == IF p.cursor.reverse THEN Reverse(p.items) ELSE p.items

\* How many rows there are behind the end of the page that has this offset.
EndOf(c) == IF Len(Query(c)) < Offset(c) + PageSize THEN Len(Query(c)) ELSE Offset(c) + PageSize

LEMMA SlicedRows ==
    ASSUME Numbered, rows \subseteq Rows, NEW c, c.reverse \in BOOLEAN, Offset(c) \in Nat
    PROVE  LET w == Slice(Query(c), Offset(c))
           IN  /\ w \in Seq(Ahead(c))
               /\ Len(w) = IF Offset(c) < EndOf(c) THEN EndOf(c) - Offset(c) ELSE 0
               /\ \A i \in 1..Len(w) : w[i] = Query(c)[Offset(c) + i]
               /\ EndOf(c) \in Nat /\ EndOf(c) <= Len(Query(c)) /\ EndOf(c) <= Offset(c) + PageSize
<1>. DEFINE q == Query(c)
            k == Offset(c)
            m == EndOf(c)
            w == SubSeq(q, k + 1, m)
<1>1. q \in Seq(Ahead(c)) /\ Len(q) \in Nat /\ \A i \in 1..Len(q) : q[i] \in Ahead(c)
  BY QueriedRows, LenProperties, ElementOfSeq
<1>2. m \in Nat /\ m <= Len(q) /\ m <= k + PageSize /\ k \in Nat
  BY <1>1, PaginationAssumption DEF EndOf
<1>3. Slice(q, k) = w
  BY DEF Slice, EndOf
<1>. HIDE DEF q, k, m
<1>4. \A i \in (k + 1)..m : q[i] \in Ahead(c)
  BY <1>1, <1>2
<1>5. /\ w \in Seq(Ahead(c))
      /\ Len(w) = IF k + 1 <= m THEN m - (k + 1) + 1 ELSE 0
      /\ \A i \in 1..(m - (k + 1) + 1) : w[i] = q[(k + 1) + i - 1]
  BY <1>2, <1>4, SubSeqProperties
<1>6. Len(w) = IF k < m THEN m - k ELSE 0
  BY <1>2, <1>5
<1>7. \A i \in 1..Len(w) : w[i] = q[k + i]
  <2>. SUFFICES ASSUME NEW i \in 1..Len(w)
                PROVE  w[i] = q[k + i]
    OBVIOUS
  <2>1. i \in 1..(m - (k + 1) + 1) /\ (k + 1) + i - 1 = k + i
    BY <1>2, <1>6
  <2>. QED
    BY <1>5, <2>1
<1>. QED
  BY <1>2, <1>3, <1>5, <1>6, <1>7 DEF q, k, m

(***************************************************************************)
(* The page that is fetched.  Onward is the direction of its cursor.        *)
(***************************************************************************)
Onward(p) == IF p.cursor.reverse THEN p.hasPrevious ELSE p.hasNext
Backward(p) == IF p.cursor.reverse THEN p.hasNext ELSE p.hasPrevious
OnwardPosition(p) == IF p.cursor.reverse THEN p.previousPosition ELSE p.nextPosition
BackwardPosition(p) == IF p.cursor.reverse THEN p.nextPosition ELSE p.previousPosition

LEMMA FetchedPage ==
    ASSUME Numbered, rows \subseteq Rows, NEW o \in Nat, NEW reverse \in BOOLEAN, NEW pos,
           NEW c, c = Cursor(o, reverse, pos)
    PROVE  LET p == Fetch(c)
               w == Slice(Query(c), Offset(c))
               following == Len(Query(c)) > Offset(c) + PageSize
           IN  /\ p.cursor = Cursor(Offset(c), reverse, pos)
               /\ Offset(c) \in 0..OffsetCutoff
               /\ p.items \in Seq(Ahead(c)) /\ Len(p.items) = Len(w) /\ Range(p.items) = Range(w)
               /\ Walked(p) = w
               /\ p.items = IF reverse THEN Reverse(w) ELSE w
               /\ Onward(p) = following
               /\ Backward(p) = (pos # None \/ Offset(c) > 0)
               /\ OnwardPosition(p) = IF following
                                      THEN position[Query(c)[Offset(c) + PageSize + 1]] ELSE None
               /\ BackwardPosition(p) = pos
<1>. DEFINE p == Fetch(c)
            w == Slice(Query(c), Offset(c))
            k == Offset(c)
            following == Len(Query(c)) > k + PageSize
<1>1. c.offset = o /\ c.reverse = reverse /\ c.position = pos
  BY DEF Cursor
<1>2. k \in 0..OffsetCutoff
  BY <1>1, PaginationAssumption DEF Offset
<1>3. p.cursor = Cursor(k, reverse, pos)
  BY DEF Fetch, Cursor
<1>4. p.cursor.reverse = reverse
  BY <1>3 DEF Cursor
<1>5. p.items = IF reverse THEN Reverse(w) ELSE w
  BY <1>1 DEF Fetch, Query
<1>6. w \in Seq(Ahead(c))
  BY <1>1, <1>2, SlicedRows
<1>7. p.items \in Seq(Ahead(c)) /\ Len(p.items) = Len(w) /\ Range(p.items) = Range(w)
  BY <1>5, <1>6, ReversedRows
<1>8. Walked(p) = w
  <2>1. CASE ~reverse
    BY <1>4, <1>5, <2>1 DEF Walked
  <2>2. CASE reverse
    <3>. DEFINE v == Reverse(w)
    <3>1. /\ v \in Seq(Ahead(c)) /\ Len(v) = Len(w) /\ Len(w) \in Nat
          /\ \A i \in 1..Len(w) : v[i] = w[Len(w) - i + 1]
      BY <1>6, ReversedRows, LenProperties
    <3>2. /\ Reverse(v) \in Seq(Ahead(c)) /\ Len(Reverse(v)) = Len(w)
          /\ \A i \in 1..Len(w) : Reverse(v)[i] = v[Len(w) - i + 1]
      <4>. HIDE DEF v
      <4>. QED
        BY <3>1, ReversedRows
    <3>3. \A i \in 1..Len(w) : Reverse(v)[i] = w[i]
      <4>. HIDE DEF v, w
      <4>. SUFFICES ASSUME NEW i \in 1..Len(w)
                    PROVE  Reverse(v)[i] = w[i]
        OBVIOUS
      <4>1. Len(w) - i + 1 \in 1..Len(w) /\ Len(w) - (Len(w) - i + 1) + 1 = i
        BY <3>1
      <4>. QED
        BY <3>1, <3>2, <4>1
    <3>4. Reverse(v) = w
      <4>. HIDE DEF v, w
      <4>. QED
        BY <1>6, <3>2, <3>3, SeqEqual
    <3>. QED
      BY <1>4, <1>5, <2>2, <3>4 DEF Walked
  <2>. QED
    BY <2>1, <2>2
<1>9. Onward(p) = following /\ Backward(p) = (pos # None \/ k > 0)
  BY <1>1, <1>4 DEF Onward, Backward, Fetch, Query
<1>10. /\ OnwardPosition(p) = IF following THEN position[Query(c)[k + PageSize + 1]] ELSE None
       /\ BackwardPosition(p) = pos
  BY <1>1, <1>4 DEF OnwardPosition, BackwardPosition, Fetch, Query
<1>. QED
  BY <1>2, <1>3, <1>5, <1>7, <1>8, <1>9, <1>10

\* Whether the rows of the page are in the order of the query.
Sorted(items) == \A i, j \in 1..Len(items) : i < j => Before(items[i], items[j])

\* Without an offset a page has the first rows that its cursor leads to.
LEMMA FirstRows ==
    ASSUME Numbered, rows \subseteq Rows, NEW reverse \in BOOLEAN, NEW pos,
           NEW c, c = Cursor(0, reverse, pos), NEW p, p = Fetch(c)
    PROVE  /\ p.cursor = c
           /\ p.items \in Seq(Rows) /\ Sorted(p.items)
           /\ Range(p.items) \subseteq Ahead(c)
           /\ Onward(p) => /\ Len(p.items) = PageSize
                           /\ \A r \in Ahead(c) \ Range(p.items), s \in Range(p.items) :
                                Beyond(reverse, s, r)
                           /\ \E r \in Ahead(c) \ Range(p.items) : OnwardPosition(p) = position[r]
           /\ ~Onward(p) => Range(p.items) = Ahead(c) /\ OnwardPosition(p) = None
           /\ Backward(p) = (pos # None) /\ BackwardPosition(p) = pos
<1>. DEFINE q == Query(c)
            w == Slice(q, Offset(c))
            n == Len(q)
            m == EndOf(c)
            items == p.items
<1>1. c.offset = 0 /\ c.reverse = reverse /\ c.position = pos /\ Offset(c) = 0
  BY PaginationAssumption DEF Cursor, Offset
<1>2. /\ p.cursor = c
      /\ items \in Seq(Ahead(c)) /\ Len(items) = Len(w) /\ Range(items) = Range(w)
      /\ items = IF reverse THEN Reverse(w) ELSE w
      /\ Onward(p) = (n > PageSize)
      /\ Backward(p) = (pos # None)
      /\ OnwardPosition(p) = IF n > PageSize THEN position[q[PageSize + 1]] ELSE None
      /\ BackwardPosition(p) = pos
  <2>. DEFINE k == Offset(c)
              following == n > k + PageSize
  <2>1. /\ p.cursor = Cursor(k, reverse, pos)
        /\ items \in Seq(Ahead(c)) /\ Len(items) = Len(w) /\ Range(items) = Range(w)
        /\ items = IF reverse THEN Reverse(w) ELSE w
        /\ Onward(p) = following
        /\ Backward(p) = (pos # None \/ k > 0)
        /\ OnwardPosition(p) = IF following THEN position[q[k + PageSize + 1]] ELSE None
        /\ BackwardPosition(p) = pos
    <3>1. 0 \in Nat
      OBVIOUS
    <3>. QED
      BY <3>1, FetchedPage
  <2>2. k = 0 /\ 0 + PageSize = PageSize /\ ~(k > 0)
    BY <1>1, PaginationAssumption
  <2>. HIDE DEF q, w, n, items
  <2>. QED
    BY <2>1, <2>2
<1>3. /\ q \in Seq(Ahead(c)) /\ Ahead(c) \in SUBSET rows
      /\ \A i, j \in 1..n : i < j => Beyond(reverse, q[i], q[j])
      /\ \A r \in Ahead(c) : \E i \in 1..n : q[i] = r
  <2>1. c.reverse \in BOOLEAN /\ c.reverse = reverse
    BY <1>1
  <2>2. /\ q \in Seq(Ahead(c)) /\ Ahead(c) \in SUBSET rows
        /\ \A i, j \in 1..n : i < j => Beyond(c.reverse, q[i], q[j])
        /\ \A r \in Ahead(c) : \E i \in 1..n : q[i] = r
    <3>1. q \in Seq(Ahead(c)) /\ Ahead(c) \in SUBSET rows
      BY <2>1, QueriedRows
    <3>2. \A i, j \in 1..n : i < j => Beyond(c.reverse, q[i], q[j])
      BY <2>1, QueriedRows
    <3>3. \A r \in Ahead(c) : \E i \in 1..n : q[i] = r
      BY <2>1, QueriedRows, SMTT(30)
    <3>. QED
      BY <3>1, <3>2, <3>3
  <2>. QED
    BY <2>1, <2>2
<1>4. n \in Nat /\ \A i \in 1..n : q[i] \in Ahead(c)
  BY <1>3, LenProperties, ElementOfSeq
<1>5. /\ w \in Seq(Ahead(c)) /\ m \in Nat /\ m <= n /\ m <= PageSize
      /\ Len(w) = m /\ \A i \in 1..m : w[i] = q[i]
  <2>1. LET v == Slice(Query(c), 0)
        IN  /\ v \in Seq(Ahead(c))
            /\ Len(v) = IF 0 < EndOf(c) THEN EndOf(c) - 0 ELSE 0
            /\ \A i \in 1..Len(v) : v[i] = Query(c)[0 + i]
            /\ EndOf(c) \in Nat /\ EndOf(c) <= Len(Query(c)) /\ EndOf(c) <= 0 + PageSize
    BY <1>1, SlicedRows
  <2>2. m \in Nat /\ PageSize \in Nat
    BY <2>1, PaginationAssumption
  <2>. QED
    BY <1>1, <2>1, <2>2
<1>6. m = IF n < PageSize THEN n ELSE PageSize
  BY <1>1, PaginationAssumption DEF EndOf
<1>. HIDE DEF q, w, n, m
<1>7. Range(w) = {q[i] : i \in 1..m}
  <2>1. DOMAIN w = 1..m
    BY <1>5, LenProperties
  <2>. QED
    BY <1>5, <2>1 DEF Range
<1>8. PageSize \in Nat \ {0}
  BY PaginationAssumption
<1>9. Sorted(items)
  <2>1. CASE ~reverse
    <3>1. items = w /\ Len(items) = m
      BY <1>2, <1>5, <2>1
    <3>2. ASSUME NEW i \in 1..m, NEW j \in 1..m, i < j
          PROVE  Before(items[i], items[j])
      <4>1. i \in 1..n /\ j \in 1..n
        BY <1>4, <1>5
      <4>. QED
        BY <1>3, <1>5, <2>1, <3>1, <3>2, <4>1 DEF Beyond
    <3>. QED
      BY <3>1, <3>2 DEF Sorted
  <2>2. CASE reverse
    <3>1. Len(items) = m /\ \A i \in 1..m : items[i] = w[m - i + 1]
      <4>1. /\ Len(Reverse(w)) = Len(w)
            /\ \A i \in 1..Len(w) : Reverse(w)[i] = w[Len(w) - i + 1]
        BY <1>5, ReversedRows
      <4>. QED
        BY <1>2, <1>5, <2>2, <4>1
    <3>2. ASSUME NEW i \in 1..m, NEW j \in 1..m, i < j
          PROVE  Before(items[i], items[j])
      <4>1. /\ m - i + 1 \in 1..m /\ m - j + 1 \in 1..m /\ m - j + 1 < m - i + 1
            /\ m - i + 1 \in 1..n /\ m - j + 1 \in 1..n
        BY <1>4, <1>5, <3>2
      <4>2. Beyond(reverse, q[m - j + 1], q[m - i + 1])
        BY <1>3, <4>1
      <4>. QED
        BY <1>5, <2>2, <3>1, <4>1, <4>2 DEF Beyond
    <3>. QED
      BY <3>1, <3>2 DEF Sorted
  <2>. QED
    BY <2>1, <2>2
<1>10. ASSUME NEW r \in Ahead(c) \ Range(items)
       PROVE  \E i \in (m + 1)..n : q[i] = r
  <2>1. PICK i \in 1..n : q[i] = r
    BY <1>3
  <2>2. i \notin 1..m
    BY <1>2, <1>7, <1>10, <2>1
  <2>. QED
    BY <1>4, <1>5, <2>1, <2>2
<1>11. ASSUME NEW r \in Ahead(c) \ Range(items), NEW s \in Range(items)
       PROVE  Beyond(reverse, s, r)
  <2>1. PICK i \in (m + 1)..n : q[i] = r
    BY <1>10
  <2>2. PICK j \in 1..m : q[j] = s
    BY <1>2, <1>7
  <2>3. i \in 1..n /\ j \in 1..n /\ j < i
    BY <1>4, <1>5
  <2>. QED
    BY <1>3, <2>1, <2>2, <2>3
<1>12. ASSUME n > PageSize
       PROVE  Len(items) = PageSize /\ q[PageSize + 1] \in Ahead(c) \ Range(items)
  <2>1. m = PageSize /\ PageSize + 1 \in 1..n
    BY <1>4, <1>6, <1>8, <1>12
  <2>2. ASSUME NEW i \in 1..m
        PROVE  q[i] # q[PageSize + 1]
    <3>1. i \in 1..n /\ i < PageSize + 1
      BY <1>4, <1>5, <1>8, <2>1
    <3>2. Beyond(reverse, q[i], q[PageSize + 1]) /\ q[i] \in Rows
      BY <1>3, <1>4, <2>1, <3>1
    <3>. QED
      BY <3>2, BeforeIsAnOrder DEF Beyond
  <2>. QED
    BY <1>2, <1>4, <1>5, <1>7, <2>1, <2>2, ZenonT(30)
<1>13. ASSUME ~(n > PageSize)
       PROVE  Range(items) = Ahead(c)
  <2>1. m = n
    BY <1>4, <1>6, <1>8, <1>13
  <2>. QED
    BY <1>2, <1>3, <1>4, <1>7, <2>1, ZenonT(30)
<1>14. items \in Seq(Rows) /\ Range(items) \subseteq Ahead(c)
  <2>1. Ahead(c) \subseteq Rows
    BY <1>3
  <2>2. items \in Seq(Rows)
    BY <1>2, <2>1, SeqMonotonic
  <2>. QED
    BY <1>2, <2>2, RangeOfSeq
<1>. QED
  BY <1>2, <1>9, <1>11, <1>12, <1>13, <1>14

(***************************************************************************)
(* The walk, when no two rows share a position.  Behind the end of the page *)
(* are exactly the rows that are still to come: the client got none of them *)
(* and all others it is due.                                                *)
(***************************************************************************)
PositionsDiffer == \A r, s \in Rows : position[r] = position[s] => r = s

EndRow(p) == IF p.cursor.reverse THEN Head(p.items) ELSE Last(p.items)

\* The rows got so far, and those that are wanted, seen from the end of page p.
Progress(p, got, wanted) ==
    /\ Range(p.items) \subseteq got /\ got \subseteq Rows
    /\ Onward(p) => /\ p.items # <<>>
                    /\ \A r \in got : r = EndRow(p) \/ Beyond(p.cursor.reverse, r, EndRow(p))
                    /\ \A r \in wanted : r \in got \/ Beyond(p.cursor.reverse, EndRow(p), r)
    /\ ~Onward(p) => wanted \subseteq got

\* A page whose rows can all be markers.
PageOfMarkers(p, reverse) ==
    /\ p.cursor = Cursor(0, reverse, p.cursor.position)
    /\ {p.cursor.position, p.nextPosition, p.previousPosition} \subseteq Nat \cup {None}
    /\ p.items \in Seq(Rows) /\ Sorted(p.items)
    /\ \A r \in Range(p.items) : position[r] # p.nextPosition /\ position[r] # p.previousPosition

WalkInv ==
    /\ Numbered /\ PositionsDiffer
    /\ rows \subseteq Rows /\ unborn \subseteq Rows /\ due \subseteq rows
    /\ forward \in BOOLEAN /\ ~repeated
    /\ PageOfMarkers(page, ~forward)
    /\ Progress(page, seen, due)

\* The link from row e leads to the rows beyond it.
LEMMA AheadOfRow ==
    ASSUME Numbered, PositionsDiffer, rows \subseteq Rows, NEW reverse \in BOOLEAN, NEW e \in Rows
    PROVE  Ahead(Cursor(0, reverse, position[e])) = {r \in rows : Beyond(reverse, e, r)}
<1>1. position[e] # None /\ \A r \in Rows : position[r] \in Nat
  BY PaginationAssumption DEF Numbered
<1>2. ASSUME NEW r \in rows
      PROVE  /\ Precedes(position[e], position[r]) <=> Before(e, r)
             /\ Precedes(position[r], position[e]) <=> Before(r, e)
  BY <1>1, RowsAreNumbers DEF Before, Precedes, PositionsDiffer
<1>. QED
  BY <1>1, <1>2 DEF Ahead, Cursor, Beyond

LEMMA EndOfPage ==
    ASSUME NEW p, p.items \in Seq(Rows), p.items # <<>>
    PROVE  /\ Len(p.items) \in Nat \ {0}
           /\ Head(p.items) = p.items[1] /\ Last(p.items) = p.items[Len(p.items)]
           /\ Head(p.items) \in Range(p.items) /\ Last(p.items) \in Range(p.items)
           /\ EndRow(p) \in Range(p.items) /\ EndRow(p) \in Rows
           /\ Range(p.items) \subseteq Rows
<1>1. Len(p.items) \in Nat \ {0} /\ DOMAIN p.items = 1..Len(p.items)
  BY LenProperties, EmptySeq
<1>2. Head(p.items) = p.items[1] /\ Last(p.items) = p.items[Len(p.items)]
  BY HeadTailProperties DEF Last
<1>3. 1 \in DOMAIN p.items /\ Len(p.items) \in DOMAIN p.items
  BY <1>1
<1>4. Range(p.items) \subseteq Rows
  BY RangeOfSeq
<1>5. Head(p.items) \in Range(p.items) /\ Last(p.items) \in Range(p.items)
  BY <1>2, <1>3 DEF Range
<1>. QED
  BY <1>1, <1>2, <1>4, <1>5 DEF EndRow

\* A row of a sorted page is its end or is followed by it.
LEMMA SortedPage ==
    ASSUME NEW items \in Seq(Rows), Sorted(items), items # <<>>, NEW r \in Range(items)
    PROVE  /\ r = Head(items) \/ Before(Head(items), r)
           /\ r = Last(items) \/ Before(r, Last(items))
<1>. DEFINE n == Len(items)
<1>1. n \in Nat \ {0} /\ DOMAIN items = 1..n
  BY LenProperties, EmptySeq
<1>2. Head(items) = items[1] /\ Last(items) = items[n]
  BY HeadTailProperties DEF Last
<1>3. \A i, j \in 1..n : i < j => Before(items[i], items[j])
  BY DEF Sorted
<1>. HIDE DEF n
<1>4. PICK i \in 1..n : items[i] = r
  BY <1>1 DEF Range
<1>5. i = 1 \/ (1 \in 1..n /\ 1 < i)
  BY <1>1, <1>4
<1>6. i = n \/ (n \in 1..n /\ i < n)
  BY <1>1, <1>4
<1>. QED
  BY <1>2, <1>3, <1>4, <1>5, <1>6

\* A client that got the rows old arrives at the first page of the rows ahead of it.
LEMMA ArrivedPage ==
    ASSUME Numbered, PositionsDiffer, rows \subseteq Rows,
           NEW reverse \in BOOLEAN, NEW pos \in Nat \cup {None},
           NEW c, c = Cursor(0, reverse, pos), NEW p, p = Fetch(c),
           NEW old \in SUBSET Rows, NEW wanted \in SUBSET rows,
           \A r \in old, s \in Ahead(c) : Beyond(reverse, r, s),
           \A r \in wanted : r \in old \/ r \in Ahead(c)
    PROVE  /\ PageOfMarkers(p, reverse)
           /\ Progress(p, old \cup Range(p.items), wanted)
           /\ Range(p.items) \cap old = {}
<1>. DEFINE items == p.items
            got == old \cup Range(items)
<1>1. /\ p.cursor = c
      /\ items \in Seq(Rows) /\ Sorted(items)
      /\ Range(items) \subseteq Ahead(c)
      /\ Onward(p) => /\ Len(items) = PageSize
                      /\ \A r \in Ahead(c) \ Range(items), s \in Range(items) :
                           Beyond(reverse, s, r)
                      /\ \E r \in Ahead(c) \ Range(items) : OnwardPosition(p) = position[r]
      /\ ~Onward(p) => Range(items) = Ahead(c) /\ OnwardPosition(p) = None
      /\ BackwardPosition(p) = pos
  BY FirstRows
<1>2. p.cursor = Cursor(0, reverse, p.cursor.position) /\ p.cursor.reverse = reverse
      /\ c.position = pos /\ c.reverse = reverse
  BY <1>1 DEF Cursor
<1>3. Ahead(c) \subseteq rows /\ Ahead(c) \subseteq Rows /\ Range(items) \subseteq Rows
  BY <1>1 DEF Ahead
<1>. HIDE DEF items
<1>4. \A r \in Rows : position[r] \in Nat /\ position[r] # None
  BY PaginationAssumption DEF Numbered
<1>5. ASSUME NEW r \in Range(items)
      PROVE  position[r] # OnwardPosition(p) /\ position[r] # BackwardPosition(p)
  <2>1. position[r] # pos
    BY <1>1, <1>2, <1>4, <1>3, <1>5 DEF Ahead, Precedes
  <2>2. CASE Onward(p)
    BY <1>1, <1>3, <1>5, <2>1, <2>2 DEF PositionsDiffer
  <2>3. CASE ~Onward(p)
    BY <1>1, <1>3, <1>4, <1>5, <2>1, <2>3
  <2>. QED
    BY <2>2, <2>3
<1>6. PageOfMarkers(p, reverse)
  <2>1. OnwardPosition(p) \in Nat \cup {None} /\ BackwardPosition(p) \in Nat \cup {None}
    BY <1>1, <1>3, <1>4
  <2>2. p.nextPosition \in Nat \cup {None} /\ p.previousPosition \in Nat \cup {None}
    BY <2>1 DEF OnwardPosition, BackwardPosition
  <2>3. {p.cursor.position, p.nextPosition, p.previousPosition} \subseteq Nat \cup {None}
    BY <1>1, <1>2, <2>2
  <2>. QED
    BY <1>1, <1>2, <1>5, <2>3 DEF PageOfMarkers, OnwardPosition, BackwardPosition, items
<1>7. Range(items) \cap old = {}
  <2>1. ASSUME NEW r \in Range(items), r \in old
        PROVE  FALSE
    <3>1. Beyond(reverse, r, r) /\ r \in Rows
      BY <1>1, <1>3, <2>1
    <3>. QED
      BY <3>1, BeforeIsAnOrder DEF Beyond
  <2>. QED
    BY <2>1
<1>8. ASSUME Onward(p)
      PROVE  /\ items # <<>>
             /\ \A r \in got : r = EndRow(p) \/ Beyond(reverse, r, EndRow(p))
             /\ \A r \in wanted : r \in got \/ Beyond(reverse, EndRow(p), r)
  <2>1. items # <<>>
    <3>1. Len(items) # 0
      BY <1>1, <1>8, PaginationAssumption
    <3>. QED
      BY <3>1, EmptySeq
  <2>2. EndRow(p) \in Range(items)
    BY <1>1, <2>1, EndOfPage DEF items
  <2>3. \A r \in Range(items) : r = EndRow(p) \/ Beyond(reverse, r, EndRow(p))
    BY <1>1, <1>2, <2>1, SortedPage DEF EndRow, Beyond, items
  <2>. QED
    BY <1>1, <1>8, <2>1, <2>2, <2>3
<1>9. ~Onward(p) => wanted \subseteq got
  BY <1>1
<1>10. Progress(p, got, wanted)
  BY <1>2, <1>3, <1>8, <1>9 DEF Progress, items
<1>. QED
  BY <1>6, <1>7, <1>10 DEF items

LEMMA Extremes ==
    ASSUME NEW S \in SUBSET Int, NEW i \in S
    PROVE  /\ (\A j \in S : j <= i) => Largest(S) = i
           /\ (\A j \in S : i <= j) => Smallest(S) = i
<1>1. ASSUME \A j \in S : j <= i
      PROVE  Largest(S) = i
  <2>1. Largest(S) \in S /\ \A j \in S : j <= Largest(S)
    BY <1>1 DEF Largest
  <2>2. i \in Int /\ Largest(S) \in Int /\ i <= Largest(S) /\ Largest(S) <= i
    BY <1>1, <2>1
  <2>. QED
    BY <2>2
<1>2. ASSUME \A j \in S : i <= j
      PROVE  Smallest(S) = i
  <2>1. Smallest(S) \in S /\ \A j \in S : Smallest(S) <= j
    BY <1>2 DEF Smallest
  <2>2. i \in Int /\ Smallest(S) \in Int /\ i <= Smallest(S) /\ Smallest(S) <= i
    BY <1>2, <2>1
  <2>. QED
    BY <2>2
<1>. QED
  BY <1>1, <1>2

\* The links of a page whose rows can all be markers start from its ends.
LEMMA LinksOfMarkers ==
    ASSUME Numbered, NEW p, NEW reverse \in BOOLEAN, PageOfMarkers(p, reverse)
    PROVE  /\ p.items = <<>> => /\ NextCursor(p) = Cursor(0, FALSE, p.nextPosition)
                                /\ PreviousCursor(p) = Cursor(0, TRUE, p.previousPosition)
           /\ p.items # <<>> =>
                /\ NextCursor(p) = Cursor(0, FALSE, position[Last(p.items)])
                /\ PreviousCursor(p) = Cursor(0, TRUE, position[Head(p.items)])
<1>1. p.cursor.offset = 0 /\ p.items \in Seq(Rows)
  BY DEF PageOfMarkers, Cursor
<1>2. CASE p.items = <<>>
  BY <1>1, <1>2 DEF NextCursor, PreviousCursor
<1>3. CASE p.items # <<>>
  <2>. DEFINE n == Len(p.items)
  <2>1. /\ n \in Nat \ {0} /\ DOMAIN p.items = 1..n
        /\ Head(p.items) = p.items[1] /\ Last(p.items) = p.items[n]
    BY <1>1, <1>3, EndOfPage, LenProperties
  <2>2. \A i \in 1..n : p.items[i] \in Range(p.items)
    BY <2>1 DEF Range
  <2>3. Markers(p, p.nextPosition) = 1..n /\ Markers(p, p.previousPosition) = 1..n
    BY <2>1, <2>2 DEF Markers, PageOfMarkers
  <2>. HIDE DEF n
  <2>4. Largest(1..n) = n /\ Smallest(1..n) = 1 /\ 1..n # {} /\ n - n = 0 /\ 1 - 1 = 0
    <3>1. 1..n \in SUBSET Int /\ n \in 1..n /\ 1 \in 1..n
      BY <2>1
    <3>2. (\A j \in 1..n : j <= n) /\ \A j \in 1..n : 1 <= j
      BY <2>1
    <3>3. Largest(1..n) = n
      BY <3>1, <3>2, Extremes
    <3>4. Smallest(1..n) = 1
      BY <3>1, <3>2, Extremes
    <3>. QED
      BY <2>1, <3>1, <3>3, <3>4
  <2>5. NextCursor(p) = Cursor(0, FALSE, position[p.items[n]])
    BY <1>1, <1>3, <2>3, <2>4 DEF NextCursor, n
  <2>6. PreviousCursor(p) = Cursor(0, TRUE, position[p.items[1]])
    BY <1>1, <1>3, <2>3, <2>4 DEF PreviousCursor, n
  <2>. QED
    BY <1>3, <2>1, <2>5, <2>6
<1>. QED
  BY <1>2, <1>3


LEMMA WalkStarts == Init /\ PositionsDiffer => WalkInv
<1>. SUFFICES ASSUME Init, PositionsDiffer
              PROVE  WalkInv
  OBVIOUS
<1>1. /\ Numbered /\ rows \subseteq Rows /\ unborn \subseteq Rows /\ due = rows
      /\ forward = TRUE /\ repeated = FALSE /\ seen = Range(page.items)
  BY PaginationAssumption DEF Init, Numbered
<1>2. page = Fetch(Cursor(0, FALSE, None))
  BY DEF Init, FirstPage
<1>3. Ahead(Cursor(0, FALSE, None)) = rows
  BY DEF Ahead, Cursor
<1>4. /\ PageOfMarkers(page, FALSE)
      /\ Progress(page, {} \cup Range(page.items), rows)
  BY <1>1, <1>2, <1>3, ArrivedPage
<1>. QED
  BY <1>1, <1>4 DEF WalkInv

\* The link in the direction of the walk leads past every row the client got.
LEMMA OnwardLink ==
    ASSUME WalkInv, HasLink(forward)
    PROVE  LET e == EndRow(page)
           IN  /\ e \in Rows
               /\ Link(forward) = Cursor(0, ~forward, position[e])
               /\ Ahead(Link(forward)) = {r \in rows : Beyond(~forward, e, r)}
               /\ \A r \in seen, s \in Ahead(Link(forward)) : Beyond(~forward, r, s)
               /\ \A r \in due : r \in seen \/ r \in Ahead(Link(forward))
<1>. DEFINE e == EndRow(page)
<1>1. /\ Numbered /\ PositionsDiffer /\ rows \subseteq Rows /\ due \subseteq rows
      /\ forward \in BOOLEAN /\ PageOfMarkers(page, ~forward) /\ Progress(page, seen, due)
  BY DEF WalkInv
<1>2. page.cursor.reverse = ~forward /\ page.items \in Seq(Rows)
  BY <1>1 DEF PageOfMarkers, Cursor
<1>3. Onward(page)
  BY <1>1, <1>2 DEF HasLink, Onward
<1>4. /\ page.items # <<>> /\ seen \subseteq Rows
      /\ \A r \in seen : r = e \/ Beyond(~forward, r, e)
      /\ \A r \in due : r \in seen \/ Beyond(~forward, e, r)
  BY <1>1, <1>2, <1>3 DEF Progress
<1>5. e \in Rows
  BY <1>2, <1>4, EndOfPage
<1>6. Link(forward) = Cursor(0, ~forward, position[e])
  BY <1>1, <1>2, <1>4, LinksOfMarkers DEF Link, EndRow
<1>7. Ahead(Link(forward)) = {r \in rows : Beyond(~forward, e, r)}
  BY <1>1, <1>5, <1>6, AheadOfRow
<1>. HIDE DEF e
<1>8. ASSUME NEW r \in seen, NEW s \in Ahead(Link(forward))
      PROVE  Beyond(~forward, r, s)
  <2>1. r \in Rows /\ s \in Rows /\ (r = e \/ Beyond(~forward, r, e)) /\ Beyond(~forward, e, s)
    BY <1>1, <1>4, <1>7
  <2>. QED
    BY <1>1, <1>5, <2>1, BeforeIsAnOrder DEF Beyond
<1>. QED
  BY <1>1, <1>4, <1>5, <1>6, <1>7, <1>8 DEF e


\* What the invariant says of a page does not change as long as the positions do not.
LEMMA PageStays ==
    ASSUME UNCHANGED position, NEW p, NEW reverse \in BOOLEAN, NEW got, NEW wanted,
           PageOfMarkers(p, reverse), Progress(p, got, wanted)
    PROVE  /\ page' = p /\ forward' = ~reverse => PageOfMarkers(page, ~forward)'
           /\ page' = p /\ seen' = got /\ due' \subseteq wanted => Progress(page, seen, due)'
<1>1. ASSUME page' = p, forward' = ~reverse
      PROVE  PageOfMarkers(page, ~forward)'
  <2>1. (~forward)' = reverse
    BY <1>1
  <2>2. PageOfMarkers(page, reverse)'
    BY <1>1 DEF PageOfMarkers, Sorted, Before, Precedes
  <2>. QED
    BY <2>1, <2>2 DEF PageOfMarkers
<1>2. ASSUME page' = p, seen' = got, due' \subseteq wanted
      PROVE  Progress(page, seen, due)'
  BY <1>2 DEF Progress, Onward, EndRow, Beyond, Before, Precedes
<1>. QED
  BY <1>1, <1>2

LEMMA WalkFollows ==
    ASSUME WalkInv, Follow
    PROVE  WalkInv'
<1>. DEFINE c == Link(forward)
            p == Fetch(c)
<1>1. /\ Numbered /\ PositionsDiffer /\ rows \subseteq Rows /\ unborn \subseteq Rows
      /\ due \subseteq rows /\ forward \in BOOLEAN /\ ~repeated
      /\ Progress(page, seen, due)
  BY DEF WalkInv
<1>2. /\ HasLink(forward) /\ page' = p
      /\ UNCHANGED <<position, rows, unborn, forward, due>>
      /\ repeated' = (repeated \/ Range(p.items) \cap seen # {})
      /\ seen' = seen \cup Range(p.items)
  BY DEF Follow
<1>3. /\ c = Cursor(0, ~forward, position[EndRow(page)])
      /\ \A r \in seen, s \in Ahead(c) : Beyond(~forward, r, s)
      /\ \A r \in due : r \in seen \/ r \in Ahead(c)
  BY <1>2, OnwardLink
<1>4. seen \in SUBSET Rows /\ due \in SUBSET rows
  BY <1>1 DEF Progress
<1>. HIDE DEF c
<1>5. /\ PageOfMarkers(p, ~forward)
      /\ Progress(p, seen \cup Range(p.items), due)
      /\ Range(p.items) \cap seen = {}
  <2>. DEFINE reverse == ~forward
              pos == position[EndRow(page)]
  <2>1. reverse \in BOOLEAN /\ pos \in Nat \cup {None}
    BY <1>1, <1>2, OnwardLink DEF Numbered
  <2>2. /\ c = Cursor(0, reverse, pos)
        /\ \A r \in seen, s \in Ahead(c) : Beyond(reverse, r, s)
        /\ \A r \in due : r \in seen \/ r \in Ahead(c)
    BY <1>3
  <2>. HIDE DEF reverse, pos
  <2>3. PageOfMarkers(p, reverse)
    BY <1>1, <1>4, <2>1, <2>2, ArrivedPage, ZenonT(30)
  <2>4. Progress(p, seen \cup Range(p.items), due)
    BY <1>1, <1>4, <2>1, <2>2, ArrivedPage, SMTT(30)
  <2>5. Range(p.items) \cap seen = {}
    BY <1>1, <1>4, <2>1, <2>2, ArrivedPage, ZenonT(30)
  <2>. QED
    BY <2>3, <2>4, <2>5 DEF reverse
<1>. HIDE DEF p
<1>6. PageOfMarkers(page, ~forward)' /\ Progress(page, seen, due)'
  <2>1. forward' = ~(~forward) /\ due' \subseteq due
    BY <1>1, <1>2
  <2>. QED
    BY <1>2, <1>5, <2>1, PageStays
<1>7. Numbered' /\ PositionsDiffer'
  BY <1>1, <1>2 DEF Numbered, PositionsDiffer
<1>. QED
  BY <1>1, <1>2, <1>5, <1>6, <1>7 DEF WalkInv


LEMMA WalkTurns ==
    ASSUME WalkInv, Turn
    PROVE  WalkInv'
<1>. DEFINE here == Range(page.items)
            c == Link(~forward)
            p == Fetch(c)
            first == IF forward THEN Head(page.items) ELSE Last(page.items)
            wanted == {r \in rows : \/ r \in here
                                    \/ /\ here # {}
                                       /\ \A s \in here : IF forward THEN Before(r, s) ELSE Before(s, r)}
<1>1. /\ Numbered /\ PositionsDiffer /\ rows \subseteq Rows /\ unborn \subseteq Rows
      /\ forward \in BOOLEAN /\ PageOfMarkers(page, ~forward)
  BY DEF WalkInv
<1>2. /\ page' = p /\ forward' = ~forward
      /\ UNCHANGED <<position, rows, unborn>>
      /\ repeated' = (Range(p.items) \cap here # {})
      /\ seen' = here \cup Range(p.items)
      /\ due' = wanted
  BY DEF Turn
<1>3. page.items \in Seq(Rows) /\ Sorted(page.items) /\ here \in SUBSET Rows
  BY <1>1, RangeOfSeq DEF PageOfMarkers
<1>4. /\ \E pos \in Nat \cup {None} : c = Cursor(0, forward, pos)
      /\ \A r \in here, s \in Ahead(c) : Beyond(forward, r, s)
      /\ \A r \in wanted : r \in here \/ r \in Ahead(c)
  <2>1. CASE page.items = <<>>
    <3>1. here = {}
      BY <2>1 DEF Range
    <3>2. c = Cursor(0, forward, IF forward THEN page.previousPosition ELSE page.nextPosition)
      BY <1>1, <2>1, LinksOfMarkers DEF Link
    <3>3. page.previousPosition \in Nat \cup {None} /\ page.nextPosition \in Nat \cup {None}
      BY <1>1 DEF PageOfMarkers
    <3>. QED
      BY <3>1, <3>2, <3>3
  <2>2. CASE page.items # <<>>
    <3>1. first \in here /\ first \in Rows
      BY <1>3, <2>2, EndOfPage
    <3>2. c = Cursor(0, forward, position[first])
      BY <1>1, <2>2, LinksOfMarkers DEF Link
    <3>3. Ahead(c) = {r \in rows : Beyond(forward, first, r)}
      BY <1>1, <3>1, <3>2, AheadOfRow
    <3>4. \A r \in here : r = first \/ Beyond(forward, r, first)
      BY <1>1, <1>3, <2>2, SortedPage DEF Beyond
    <3>. HIDE DEF first
    <3>5. ASSUME NEW r \in here, NEW s \in Ahead(c)
          PROVE  Beyond(forward, r, s)
      <4>1. r \in Rows /\ s \in Rows /\ (r = first \/ Beyond(forward, r, first)) /\ Beyond(forward, first, s)
        BY <1>1, <1>3, <3>3, <3>4
      <4>. QED
        BY <1>1, <3>1, <4>1, BeforeIsAnOrder DEF Beyond
    <3>6. ASSUME NEW r \in wanted, r \notin here
          PROVE  r \in Ahead(c)
      <4>1. r \in rows /\ IF forward THEN Before(r, first) ELSE Before(first, r)
        BY <3>1, <3>6
      <4>. QED
        BY <1>1, <3>3, <4>1 DEF Beyond
    <3>7. position[first] \in Nat
      BY <1>1, <3>1 DEF Numbered
    <3>. QED
      BY <3>2, <3>5, <3>6, <3>7
  <2>. QED
    BY <2>1, <2>2
<1>5. wanted \in SUBSET rows
  OBVIOUS
<1>6. PICK pos \in Nat \cup {None} : c = Cursor(0, forward, pos)
  BY <1>4
<1>. HIDE DEF c, here, wanted
<1>7. PageOfMarkers(p, forward)
  BY <1>1, <1>3, <1>4, <1>5, <1>6, ArrivedPage, ZenonT(30)
<1>8. Progress(p, here \cup Range(p.items), wanted)
  BY <1>1, <1>3, <1>4, <1>5, <1>6, ArrivedPage, SMTT(30)
<1>9. Range(p.items) \cap here = {}
  BY <1>1, <1>3, <1>4, <1>5, <1>6, ArrivedPage, ZenonT(30)
<1>. HIDE DEF p
<1>10. PageOfMarkers(page, ~forward)'
  BY <1>1, <1>2, <1>7, <1>8, PageStays
<1>11. Progress(page, seen, due)'
  BY <1>1, <1>2, <1>7, <1>8, PageStays
<1>12. Numbered' /\ PositionsDiffer'
  BY <1>1, <1>2 DEF Numbered, PositionsDiffer
<1>. QED
  BY <1>1, <1>2, <1>5, <1>9, <1>10, <1>11, <1>12 DEF WalkInv

\* Rows that come or go change nothing on the page, and none becomes due.
LEMMA WalkLetsRowsChange ==
    ASSUME WalkInv, UNCHANGED <<position, page, forward, seen, repeated>>,
           rows' \subseteq Rows, unborn' \subseteq Rows, due' \subseteq rows', due' \subseteq due
    PROVE  WalkInv'
<1>1. /\ Numbered /\ PositionsDiffer /\ forward \in BOOLEAN /\ ~repeated
      /\ PageOfMarkers(page, ~forward) /\ Progress(page, seen, due)
  BY DEF WalkInv
<1>2. PageOfMarkers(page, ~forward)'
  BY <1>1, PageStays
<1>3. Progress(page, seen, due)'
  BY <1>1, PageStays
<1>4. Numbered' /\ PositionsDiffer'
  BY <1>1 DEF Numbered, PositionsDiffer
<1>. QED
  BY <1>1, <1>2, <1>3, <1>4 DEF WalkInv

LEMMA WalkSteps == WalkInv /\ [Next]_vars => WalkInv'
<1>. SUFFICES ASSUME WalkInv, [Next]_vars
              PROVE  WalkInv'
  OBVIOUS
<1>1. rows \subseteq Rows /\ unborn \subseteq Rows /\ due \subseteq rows
  BY DEF WalkInv
<1>2. CASE Follow
  BY <1>2, WalkFollows
<1>3. CASE Turn
  BY <1>3, WalkTurns
<1>4. CASE Insert
  <2>1. UNCHANGED <<position, page, forward, seen, repeated, due>>
    BY <1>4 DEF Insert
  <2>2. rows' \subseteq Rows /\ unborn' \subseteq Rows /\ due' \subseteq rows'
    BY <1>1, <1>4 DEF Insert
  <2>. QED
    BY <2>1, <2>2, WalkLetsRowsChange
<1>5. CASE Delete
  <2>1. UNCHANGED <<position, unborn, page, forward, seen, repeated>>
    BY <1>5 DEF Delete
  <2>2. rows' \subseteq Rows /\ due' \subseteq rows' /\ due' \subseteq due
    BY <1>1, <1>5 DEF Delete
  <2>. QED
    BY <1>1, <2>1, <2>2, WalkLetsRowsChange
<1>6. CASE UNCHANGED vars
  BY <1>1, <1>6, WalkLetsRowsChange DEF vars
<1>. QED
  BY <1>2, <1>3, <1>4, <1>5, <1>6 DEF Next


(***************************************************************************)
(* Stretches of the query.                                                  *)
(***************************************************************************)
LEMMA CountOfPrefix ==
    ASSUME NEW u, NEW m \in Nat, \A i, j \in 1..m : u[i] = u[j] => i = j
    PROVE  Cardinality({u[j] : j \in 1..m}) = m
<1>. DEFINE T == {u[j] : j \in 1..m}
            f == [j \in 1..m |-> u[j]]
<1>1. f \in Bijection(1..m, T)
  BY DEF Bijection, Injection, Surjection, IsInjective
<1>. QED
  BY <1>1, FS_CountingElements DEF ExistsBijection

\* The rows of S can be put in order in one way only.
LEMMA OrderIsUnique ==
    ASSUME Numbered, NEW S \in SUBSET Rows, NEW u \in Seq(S),
           \A i, j \in 1..Len(u) : i < j => Before(u[i], u[j]),
           \A r \in S : \E i \in 1..Len(u) : u[i] = r
    PROVE  Ordered(S) = u
<1>. DEFINE n == Len(u)
            o == Ordered(S)
<1>1. n \in Nat /\ \A i \in 1..n : u[i] \in S
  BY LenProperties, ElementOfSeq
<1>2. /\ \A i, j \in 1..n : i < j => Before(u[i], u[j])
      /\ \A r \in S : \E i \in 1..n : u[i] = r
  OBVIOUS
<1>. HIDE DEF n
<1>3. ASSUME NEW i \in 1..n, NEW j \in 1..n
      PROVE  /\ u[i] = u[j] => i = j
             /\ Before(u[i], u[j]) => i < j
  <2>1. u[i] \in Rows /\ u[j] \in Rows
    BY <1>1
  <2>2. i = j \/ i < j \/ j < i
    BY <1>1
  <2>. QED
    BY <1>2, <2>1, <2>2, BeforeIsAnOrder
<1>4. Cardinality(S) = n
  <2>1. S = {u[j] : j \in 1..n}
    BY <1>1, <1>2
  <2>. QED
    BY <1>1, <1>3, <2>1, CountOfPrefix, SMTT(30)
<1>5. ASSUME NEW i \in 1..n
      PROVE  Rank(S, u[i]) = i - 1
  <2>. DEFINE m == i - 1
  <2>1. m \in Nat /\ \A j \in 1..m : j \in 1..n /\ j < i
    BY <1>1
  <2>2. \A j \in 1..n : j < i => j \in 1..m
    BY <1>1
  <2>. HIDE DEF m
  <2>3. {s \in S : Before(s, u[i])} = {u[j] : j \in 1..m}
    <3>1. ASSUME NEW s \in S, Before(s, u[i])
          PROVE  \E j \in 1..m : u[j] = s
      <4>1. PICK j \in 1..n : u[j] = s
        BY <1>2
      <4>2. j < i
        BY <1>3, <3>1, <4>1
      <4>. QED
        BY <2>2, <4>1, <4>2
    <3>2. ASSUME NEW j \in 1..m
          PROVE  u[j] \in S /\ Before(u[j], u[i])
      BY <1>1, <1>2, <2>1
    <3>. QED
      BY <3>1, <3>2
  <2>4. Cardinality({u[j] : j \in 1..m}) = m
    <3>1. \A j, k \in 1..m : u[j] = u[k] => j = k
      BY <1>3, <2>1
    <3>. QED
      BY <2>1, <3>1, CountOfPrefix, ZenonT(30)
  <2>. QED
    BY <2>3, <2>4 DEF Rank, m
<1>6. /\ o \in Seq(S) /\ Len(o) = n
      /\ \A i \in 1..n : o[i] \in S /\ Rank(S, o[i]) = i - 1
  <2>1. o \in Seq(S) /\ Len(o) = n /\ \A i \in 1..Len(o) : Rank(S, o[i]) = i - 1
    BY <1>4, OrderedRows
  <2>. QED
    BY <2>1, ElementOfSeq
<1>. HIDE DEF o
<1>7. ASSUME NEW i \in 1..n
      PROVE  o[i] = u[i]
  <2>1. PICK j \in 1..n : u[j] = o[i]
    BY <1>2, <1>6
  <2>2. j - 1 = i - 1
    BY <1>5, <1>6, <2>1
  <2>. QED
    BY <1>1, <2>1, <2>2
<1>8. n = Len(u) /\ u \in Seq(S)
  BY DEF n
<1>9. o = u
  BY <1>6, <1>7, <1>8, SeqEqual
<1>. QED
  BY <1>9 DEF o

\* The rows of T are those numbered from a + 1 to b in the query of all rows.
Stretch(T, a, b) ==
    \A j \in 1..Len(Ordered(rows)) : Ordered(rows)[j] \in T <=> (a < j /\ j <= b)

LEMMA OrderOfStretch ==
    ASSUME Numbered, rows \subseteq Rows, NEW T \in SUBSET rows,
           NEW a \in Nat, NEW b \in Nat, a <= b, b <= Len(Ordered(rows)), Stretch(T, a, b)
    PROVE  /\ Ordered(T) = SubSeq(Ordered(rows), a + 1, b)
           /\ Len(Ordered(T)) = b - a
           /\ \A i \in 1..(b - a) : Ordered(T)[i] = Ordered(rows)[a + i]
<1>. DEFINE o == Ordered(rows)
            n == Len(o)
            u == SubSeq(o, a + 1, b)
<1>1. /\ o \in Seq(rows)
      /\ \A i, j \in 1..n : i < j => Before(o[i], o[j])
      /\ \A r \in rows : \E i \in 1..n : o[i] = r
  BY OrderedRows
<1>2. n \in Nat /\ b <= n /\ \A j \in 1..n : o[j] \in T <=> (a < j /\ j <= b)
  BY <1>1, LenProperties DEF Stretch
<1>. HIDE DEF o, n
<1>3. \A j \in (a + 1)..b : o[j] \in T
  BY <1>2
<1>4. /\ u \in Seq(T) /\ Len(u) = IF a + 1 <= b THEN b - (a + 1) + 1 ELSE 0
      /\ \A i \in 1..(b - (a + 1) + 1) : u[i] = o[(a + 1) + i - 1]
  BY <1>3, SubSeqProperties
<1>. HIDE DEF u
<1>5. Len(u) = b - a /\ b - a \in Nat
  BY <1>4
<1>6. ASSUME NEW i \in 1..(b - a)
      PROVE  u[i] = o[a + i]
  <2>1. i \in 1..(b - (a + 1) + 1) /\ (a + 1) + i - 1 = a + i
    OBVIOUS
  <2>. QED
    BY <1>4, <2>1
<1>7. ASSUME NEW i \in 1..(b - a), NEW j \in 1..(b - a), i < j
      PROVE  Before(u[i], u[j])
  <2>1. a + i \in 1..n /\ a + j \in 1..n /\ a + i < a + j
    BY <1>2, <1>7
  <2>. QED
    BY <1>1, <1>6, <2>1
<1>8. ASSUME NEW r \in T
      PROVE  \E i \in 1..(b - a) : u[i] = r
  <2>1. PICK j \in 1..n : o[j] = r
    BY <1>1
  <2>2. a < j /\ j <= b
    BY <1>2, <2>1
  <2>3. j - a \in 1..(b - a) /\ a + (j - a) = j
    BY <1>2, <2>2
  <2>. QED
    BY <1>6, <2>1, <2>3
<1>9. Ordered(T) = u
  <2>1. T \in SUBSET Rows
    OBVIOUS
  <2>. QED
    BY <1>4, <1>5, <1>7, <1>8, <2>1, OrderIsUnique, SMTT(30)
<1>. QED
  BY <1>5, <1>6, <1>9 DEF u, o


\* The page shows the rows of the query from number a + 1 to number b.
Shows(p, a, b) ==
    /\ p.items \in Seq(Rows) /\ Len(p.items) = b - a
    /\ \A i \in 1..(b - a) : p.items[i] = Ordered(rows)[a + i]

Least(i, j) == IF i < j THEN i ELSE j

\* The rows behind number a are those a cursor leads to.
LeadsPast(c, a) == Stretch(Ahead(c), a, Len(Ordered(rows)))

LEMMA ForwardPage ==
    ASSUME Numbered, rows \subseteq Rows, NEW off \in Nat, off <= OffsetCutoff, NEW pos,
           NEW reverse \in BOOLEAN, ~reverse, NEW c, c = Cursor(off, reverse, pos), NEW p, p = Fetch(c),
           NEW a \in Nat, NEW k \in Nat, k = a + off, k <= Len(Ordered(rows)), LeadsPast(c, a)
    PROVE  LET o == Ordered(rows)
               following == Len(o) > k + PageSize
           IN  /\ p.cursor = c
               /\ Shows(p, k, Least(Len(o), k + PageSize))
               /\ p.hasNext = following
               /\ p.nextPosition = IF following THEN position[o[k + PageSize + 1]] ELSE None
               /\ p.hasPrevious = (pos # None \/ off > 0)
               /\ p.previousPosition = pos
<1>. DEFINE o == Ordered(rows)
            n == Len(o)
            q == Query(c)
            w == Slice(q, Offset(c))
<1>1. c.offset = off /\ c.reverse = reverse /\ c.position = pos /\ Offset(c) = off
  BY PaginationAssumption DEF Cursor, Offset
<1>2. n \in Nat /\ PageSize \in Nat \ {0}
  <2>1. o \in Seq(rows)
    BY OrderedRows
  <2>. QED
    BY <2>1, LenProperties, PaginationAssumption
<1>3. q = Ordered(Ahead(c)) /\ Ahead(c) \in SUBSET rows
  BY <1>1 DEF Query, Ahead
<1>4. /\ Len(q) = n - a /\ \A i \in 1..(n - a) : q[i] = o[a + i]
  <2>1. n \in Nat /\ a <= n /\ n <= Len(o)
    BY <1>2
  <2>2. Stretch(Ahead(c), a, n)
    BY DEF LeadsPast
  <2>3. Len(Ordered(Ahead(c))) = n - a
    BY <1>3, <2>1, <2>2, OrderOfStretch
  <2>4. \A i \in 1..(n - a) : Ordered(Ahead(c))[i] = o[a + i]
    BY <1>3, <2>1, <2>2, OrderOfStretch
  <2>. QED
    BY <1>3, <2>3, <2>4
<1>5. /\ p.cursor = Cursor(Offset(c), reverse, pos)
      /\ p.items \in Seq(Ahead(c))
      /\ Walked(p) = w
      /\ Onward(p) = (Len(q) > Offset(c) + PageSize)
      /\ Backward(p) = (pos # None \/ Offset(c) > 0)
      /\ OnwardPosition(p) = IF Len(q) > Offset(c) + PageSize
                             THEN position[q[Offset(c) + PageSize + 1]] ELSE None
      /\ BackwardPosition(p) = pos
  <2>2. p.cursor = Cursor(Offset(c), reverse, pos) /\ p.items \in Seq(Ahead(c)) /\ Walked(p) = w
    BY FetchedPage
  <2>3. /\ Onward(p) = (Len(q) > Offset(c) + PageSize)
        /\ Backward(p) = (pos # None \/ Offset(c) > 0)
    BY FetchedPage
  <2>4. /\ OnwardPosition(p) = IF Len(q) > Offset(c) + PageSize
                               THEN position[q[Offset(c) + PageSize + 1]] ELSE None
        /\ BackwardPosition(p) = pos
    BY FetchedPage
  <2>. HIDE DEF o, n, q, w
  <2>. QED
    BY <2>2, <2>3, <2>4
<1>6. p.cursor.reverse = reverse /\ p.cursor = c
  BY <1>1, <1>5 DEF Cursor
<1>7. /\ w \in Seq(Ahead(c))
      /\ Len(w) = IF off < EndOf(c) THEN EndOf(c) - off ELSE 0
      /\ \A i \in 1..Len(w) : w[i] = q[off + i]
  <2>1. c.reverse \in BOOLEAN /\ Offset(c) \in Nat
    BY <1>1
  <2>2. w \in Seq(Ahead(c))
    BY <2>1, SlicedRows
  <2>3. Len(w) = IF Offset(c) < EndOf(c) THEN EndOf(c) - Offset(c) ELSE 0
    BY <2>1, SlicedRows
  <2>4. \A i \in 1..Len(w) : w[i] = q[Offset(c) + i]
    BY <2>1, SlicedRows
  <2>. HIDE DEF q, w
  <2>. QED
    BY <1>1, <2>2, <2>3, <2>4
<1>. HIDE DEF o, n, q, w
<1>8. EndOf(c) = IF n - a < off + PageSize THEN n - a ELSE off + PageSize
  BY <1>1, <1>4 DEF EndOf, q
<1>. DEFINE l == Least(n, k + PageSize) - k
<1>9. l \in Nat /\ Len(w) = l /\ k <= n
  BY <1>1, <1>2, <1>7, <1>8 DEF Least, n, o
<1>10. ASSUME NEW i \in 1..l
       PROVE  w[i] = o[k + i]
  <2>1. off + i \in 1..(n - a) /\ a + (off + i) = k + i
    BY <1>2, <1>9 DEF Least
  <2>. QED
    BY <1>1, <1>4, <1>7, <1>9, <2>1
<1>11. p.items = w /\ p.items \in Seq(Rows)
  <2>1. Ahead(c) \subseteq Rows
    BY <1>3
  <2>. QED
    BY <1>5, <1>6, <2>1, SeqMonotonic DEF Walked
<1>12. Shows(p, k, Least(n, k + PageSize))
  BY <1>9, <1>10, <1>11 DEF Shows, o
<1>13. (Len(q) > off + PageSize) = (n > k + PageSize)
  BY <1>2, <1>4
<1>14. n > k + PageSize => q[off + PageSize + 1] = o[k + PageSize + 1]
  <2>1. n > k + PageSize => /\ off + PageSize + 1 \in 1..(n - a)
                            /\ a + (off + PageSize + 1) = k + PageSize + 1
    BY <1>2
  <2>. QED
    BY <1>4, <2>1
<1>. QED
  BY <1>1, <1>5, <1>6, <1>12, <1>13, <1>14
     DEF Onward, Backward, OnwardPosition, BackwardPosition, n, o

LEMMA BackwardPage ==
    ASSUME Numbered, rows \subseteq Rows, NEW pos,
           NEW reverse \in BOOLEAN, NEW c, c = Cursor(0, reverse, pos),
           NEW p, p = Fetch(c), NEW b \in Nat, b <= Len(Ordered(rows)), Stretch(Ahead(c), 0, b)
    PROVE  reverse => Shows(p, b - Least(b, PageSize), b)
<1>. DEFINE o == Ordered(rows)
            q == Query(c)
            w == Slice(q, Offset(c))
            v == Ordered(Ahead(c))
            l == Least(b, PageSize)
<1>0. 0 \in Nat
  OBVIOUS
<1>1. c.offset = 0 /\ c.reverse = reverse /\ c.position = pos /\ Offset(c) = 0
  BY <1>0, PaginationAssumption DEF Cursor, Offset
<1>2. Ahead(c) \in SUBSET rows /\ Ahead(c) \in SUBSET Rows
  BY DEF Ahead
<1>3. v \in Seq(Ahead(c)) /\ Len(v) = b /\ \A i \in 1..b : v[i] = o[i]
  <2>1. 0 \in Nat /\ 0 <= b
    OBVIOUS
  <2>2. Len(v) = b - 0
    BY <1>2, <2>1, OrderOfStretch
  <2>3. \A i \in 1..(b - 0) : v[i] = o[0 + i]
    BY <1>2, <2>1, OrderOfStretch
  <2>4. v \in Seq(Ahead(c))
    BY <1>2, OrderedRows
  <2>. HIDE DEF v, o
  <2>. QED
    BY <2>2, <2>3, <2>4
<1>4. /\ w \in Seq(Ahead(c))
      /\ Len(w) = IF 0 < EndOf(c) THEN EndOf(c) - 0 ELSE 0
      /\ \A i \in 1..Len(w) : w[i] = q[0 + i]
  <2>1. c.reverse \in BOOLEAN /\ Offset(c) \in Nat
    BY <1>0, <1>1
  <2>2. w \in Seq(Ahead(c))
    BY <2>1, SlicedRows
  <2>3. Len(w) = IF Offset(c) < EndOf(c) THEN EndOf(c) - Offset(c) ELSE 0
    BY <2>1, SlicedRows
  <2>4. \A i \in 1..Len(w) : w[i] = q[Offset(c) + i]
    BY <2>1, SlicedRows
  <2>. HIDE DEF q, w
  <2>. QED
    BY <1>1, <2>2, <2>3, <2>4
<1>5. p.items \in Seq(Ahead(c)) /\ p.items = IF reverse THEN Reverse(w) ELSE w
  BY <1>0, FetchedPage
<1>6. SUFFICES ASSUME reverse
               PROVE  Shows(p, b - l, b)
  OBVIOUS
<1>7. q = Reverse(v)
  BY <1>1, <1>6 DEF Query
<1>8. Len(q) = b /\ \A i \in 1..b : q[i] = v[b - i + 1]
  <2>1. Len(Reverse(v)) = Len(v) /\ \A i \in 1..Len(v) : Reverse(v)[i] = v[Len(v) - i + 1]
    BY <1>3, ReversedRows
  <2>. HIDE DEF q, v
  <2>. QED
    BY <1>3, <1>7, <2>1
<1>9. p.items \in Seq(Ahead(c)) /\ p.items = Reverse(w)
  BY <1>5, <1>6
<1>. HIDE DEF o, v, q, w
<1>10. EndOf(c) = IF b < 0 + PageSize THEN b ELSE 0 + PageSize
  BY <1>1, <1>8 DEF EndOf, q
<1>11. PageSize \in Nat
  BY PaginationAssumption
<1>12. l \in Nat /\ l <= b /\ Len(w) = l
  <2>1. EndOf(c) = l /\ l \in Nat /\ l <= b
    BY <1>10, <1>11 DEF Least
  <2>. HIDE DEF l
  <2>. QED
    BY <1>4, <2>1
<1>13. Len(p.items) = l /\ \A i \in 1..l : p.items[i] = w[l - i + 1]
  <2>1. Len(Reverse(w)) = Len(w) /\ \A i \in 1..Len(w) : Reverse(w)[i] = w[Len(w) - i + 1]
    BY <1>4, ReversedRows
  <2>. HIDE DEF l
  <2>. QED
    BY <1>9, <1>12, <2>1
<1>. HIDE DEF l
<1>14. ASSUME NEW i \in 1..l
       PROVE  p.items[i] = o[(b - l) + i]
  <2>1. l - i + 1 \in 1..l /\ 0 + (l - i + 1) = l - i + 1
    BY <1>12
  <2>2. l - i + 1 \in 1..b /\ b - (l - i + 1) + 1 = (b - l) + i /\ (b - l) + i \in 1..b
    BY <1>12
  <2>3. w[l - i + 1] = q[l - i + 1]
    BY <1>1, <1>4, <1>12, <2>1
  <2>4. q[l - i + 1] = v[b - (l - i + 1) + 1]
    BY <1>8, <2>2
  <2>. QED
    BY <1>3, <1>13, <2>2, <2>3, <2>4
<1>15. p.items \in Seq(Rows)
  BY <1>2, <1>9, SeqMonotonic
<1>16. b - (b - l) = l
  BY <1>12
<1>. QED
  BY <1>13, <1>14, <1>15, <1>16 DEF Shows, l, o

LEMMA OrderOfIndices ==
    ASSUME Numbered, rows \subseteq Rows
    PROVE  LET o == Ordered(rows)
           IN  /\ o \in Seq(rows) /\ Len(o) \in Nat
               /\ \A i \in 1..Len(o) : o[i] \in rows
               /\ \A i, j \in 1..Len(o) : Before(o[i], o[j]) <=> i < j
               /\ \A i, j \in 1..Len(o) : o[i] = o[j] => i = j
               /\ \A r \in rows : \E i \in 1..Len(o) : o[i] = r
<1>. DEFINE o == Ordered(rows)
            n == Len(o)
<1>1. /\ o \in Seq(rows)
      /\ \A i, j \in 1..n : i < j => Before(o[i], o[j])
      /\ \A r \in rows : \E i \in 1..n : o[i] = r
  BY OrderedRows
<1>2. n \in Nat /\ \A i \in 1..n : o[i] \in rows
  BY <1>1, LenProperties, ElementOfSeq
<1>. HIDE DEF o, n
<1>3. ASSUME NEW i \in 1..n, NEW j \in 1..n
      PROVE  /\ Before(o[i], o[j]) <=> i < j
             /\ o[i] = o[j] => i = j
  <2>1. o[i] \in Rows /\ o[j] \in Rows
    BY <1>2
  <2>2. i = j \/ i < j \/ j < i
    BY <1>2
  <2>3. i < j => Before(o[i], o[j])
    BY <1>1
  <2>4. j < i => Before(o[j], o[i])
    BY <1>1
  <2>5. ~(i < j /\ j < i) /\ ~(i < i)
    BY <1>2
  <2>. QED
    BY <2>1, <2>2, <2>3, <2>4, <2>5, BeforeIsAnOrder
<1>. QED
  BY <1>1, <1>2, <1>3 DEF n, o

\* The rows a cursor without an offset leads to begin with the first of its page.
LEMMA ReachOfPage ==
    ASSUME Numbered, rows \subseteq Rows, NEW reverse \in BOOLEAN, NEW pos, pos \in Nat \cup {None},
           NEW c, c = Cursor(0, reverse, pos), NEW p, p = Fetch(c), p.items # <<>>
    PROVE  LET first == IF reverse THEN Last(p.items) ELSE Head(p.items)
           IN  /\ first \in rows /\ Last(p.items) \in rows
               /\ \A r \in rows : r \in Ahead(c) <=> (r = first \/ Beyond(reverse, first, r))
<1>. DEFINE items == p.items
            first == IF reverse THEN Last(items) ELSE Head(items)
<1>1. /\ items \in Seq(Rows) /\ Sorted(items)
      /\ Range(items) \subseteq Ahead(c)
  BY FirstRows
<1>2. /\ Onward(p) => \A r \in Ahead(c) \ Range(items), s \in Range(items) : Beyond(reverse, s, r)
      /\ ~Onward(p) => Range(items) = Ahead(c)
  BY FirstRows
<1>3. Last(items) \in Range(items) /\ first \in Range(items)
  BY <1>1, EndOfPage
<1>4. \A r \in Range(items) : r = first \/ Beyond(reverse, first, r)
  BY <1>1, SortedPage DEF Beyond
<1>5. Ahead(c) \subseteq rows
  BY DEF Ahead
<1>. HIDE DEF items, first
<1>6. \A r \in Ahead(c) : r = first \/ Beyond(reverse, first, r)
  BY <1>2, <1>3, <1>4
<1>7. ASSUME NEW r \in rows, Beyond(reverse, first, r)
      PROVE  r \in Ahead(c)
  <2>1. c.position = pos /\ c.reverse = reverse
    BY DEF Cursor
  <2>2. /\ first \in Ahead(c) /\ first \in Rows /\ r \in Rows
        /\ position[first] \in Nat /\ position[r] \in Nat
    BY <1>1, <1>3, <1>5 DEF Numbered
  <2>3. CASE pos = None
    BY <2>1, <2>3 DEF Ahead
  <2>4. CASE pos # None
    <3>1. pos \in Nat
      BY <2>4
    <3>2. IF reverse THEN Precedes(position[first], pos) ELSE Precedes(pos, position[first])
      BY <2>1, <2>2, <2>4 DEF Ahead
    <3>3. \/ position[r] = position[first]
          \/ IF reverse THEN Precedes(position[r], position[first]) ELSE Precedes(position[first], position[r])
      BY <1>7 DEF Beyond, Before
    <3>4. IF reverse THEN Precedes(position[r], pos) ELSE Precedes(pos, position[r])
      BY <2>2, <3>1, <3>2, <3>3 DEF Precedes
    <3>. QED
      BY <2>1, <3>4 DEF Ahead
  <2>. QED
    BY <2>3, <2>4
<1>8. first \in Ahead(c) /\ Last(items) \in Ahead(c)
  BY <1>1, <1>3
<1>. QED
  BY <1>5, <1>6, <1>7, <1>8 DEF items, first

\* A page fetched without an offset shows the rows of the query up to its last one.
LEMMA PageEndsAt ==
    ASSUME Numbered, rows \subseteq Rows, NEW reverse \in BOOLEAN, NEW pos, pos \in Nat \cup {None},
           NEW c, c = Cursor(0, reverse, pos), NEW p, p = Fetch(c), p.items # <<>>,
           ~reverse => p.hasNext,
           NEW j \in 1..Len(Ordered(rows)), Ordered(rows)[j] = Last(p.items)
    PROVE  Shows(p, j - Least(j, PageSize), j)
<1>. DEFINE o == Ordered(rows)
            n == Len(o)
            first == IF reverse THEN Last(p.items) ELSE Head(p.items)
<1>1. /\ n \in Nat
      /\ \A i \in 1..n : o[i] \in rows
      /\ \A i, k \in 1..n : Before(o[i], o[k]) <=> i < k
      /\ \A i, k \in 1..n : o[i] = o[k] => i = k
      /\ \A r \in rows : \E i \in 1..n : o[i] = r
  BY OrderOfIndices
<1>2. /\ first \in rows
      /\ \A r \in rows : r \in Ahead(c) <=> (r = first \/ Beyond(reverse, first, r))
  BY ReachOfPage
<1>3. PageSize \in Nat \ {0} /\ OffsetCutoff \in Nat /\ 0 \in Nat /\ 0 <= OffsetCutoff
  BY PaginationAssumption
<1>4. CASE reverse
  <2>1. \A i \in 1..n : o[i] \in Ahead(c) <=> (0 < i /\ i <= j)
    <3>. HIDE DEF o, n
    <3>1. first = o[j]
      BY <1>4 DEF o
    <3>2. \A i \in 1..n : o[i] \in Ahead(c) <=> (o[i] = o[j] \/ Before(o[i], o[j]))
      BY <1>1, <1>2, <1>4, <3>1 DEF Beyond
    <3>3. \A i \in 1..n : (0 < i /\ i <= j) <=> (i = j \/ i < j)
      BY <1>1
    <3>. QED
      BY <1>1, <3>2, <3>3 DEF n, o
  <2>2. Stretch(Ahead(c), 0, j) /\ j \in Nat /\ j <= n
    BY <1>1, <2>1 DEF Stretch
  <2>3. reverse => Shows(p, j - Least(j, PageSize), j)
    BY <2>2, BackwardPage
  <2>. QED
    BY <1>4, <2>3
<1>5. CASE ~reverse
  <2>1. PICK i \in 1..n : o[i] = first
    BY <1>1, <1>2
  <2>. DEFINE k == i - 1
  <2>2. \A m \in 1..n : o[m] \in Ahead(c) <=> (k < m /\ m <= n)
    <3>. HIDE DEF o, n, first
    <3>1. \A m \in 1..n : o[m] \in Ahead(c) <=> (o[m] = o[i] \/ Before(o[i], o[m]))
      BY <1>1, <1>2, <1>5, <2>1 DEF Beyond
    <3>2. \A m \in 1..n : (k < m /\ m <= n) <=> (m = i \/ i < m)
      BY <1>1, <2>1
    <3>. QED
      BY <1>1, <2>1, <3>1, <3>2
  <2>3. LeadsPast(c, k) /\ k \in Nat /\ k = k + 0 /\ k <= n
    BY <1>1, <2>1, <2>2 DEF Stretch, LeadsPast
  <2>. HIDE DEF k
  <2>4. Shows(p, k, Least(n, k + PageSize))
    BY <1>3, <1>5, <2>3, ForwardPage
  <2>5. p.hasNext = (n > k + PageSize)
    BY <1>3, <1>5, <2>3, ForwardPage
  <2>6. n > k + PageSize /\ Least(n, k + PageSize) = k + PageSize
    BY <1>1, <1>3, <1>5, <2>3, <2>5 DEF Least
  <2>7. Shows(p, k, k + PageSize)
    BY <2>4, <2>6
  <2>8. Last(p.items) = o[k + PageSize]
    <3>1. /\ Len(p.items) = (k + PageSize) - k
          /\ \A m \in 1..((k + PageSize) - k) : p.items[m] = o[k + m]
      BY <2>7 DEF Shows
    <3>2. (k + PageSize) - k = PageSize /\ PageSize \in 1..PageSize
      BY <1>3, <2>3
    <3>. HIDE DEF o
    <3>. QED
      BY <3>1, <3>2 DEF Last
  <2>9. j = k + PageSize
    <3>1. k + PageSize \in 1..n
      BY <1>1, <1>3, <2>3, <2>6
    <3>2. o[j] = o[k + PageSize] /\ j \in 1..n
      BY <2>8
    <3>. HIDE DEF o, n
    <3>. QED
      BY <1>1, <3>1, <3>2
  <2>10. j - Least(j, PageSize) = k
    BY <1>3, <2>3, <2>9 DEF Least
  <2>. QED
    BY <2>7, <2>9, <2>10
<1>. QED
  BY <1>4, <1>5

\* From the last row of a page to the next page, and back from its first row.
LEMMA ThereAndBack ==
    ASSUME Numbered, PositionsDiffer, rows \subseteq Rows,
           NEW onward \in BOOLEAN, ~onward, NEW back \in BOOLEAN, NEW e \in rows,
           NEW p, p = Fetch(Cursor(0, onward, position[e])), p.items # <<>>,
           NEW j \in 1..Len(Ordered(rows)), Ordered(rows)[j] = e
    PROVE  /\ p.hasPrevious /\ PageOfMarkers(p, onward)
           /\ back => Shows(Fetch(Cursor(0, back, position[Head(p.items)])), j - Least(j, PageSize), j)
<1>. DEFINE o == Ordered(rows)
            n == Len(o)
            c == Cursor(0, onward, position[e])
            d == Cursor(0, back, position[Head(p.items)])
<1>1. /\ n \in Nat
      /\ \A i \in 1..n : o[i] \in rows
      /\ \A i, k \in 1..n : Before(o[i], o[k]) <=> i < k
  BY OrderOfIndices
<1>2. PageSize \in Nat \ {0} /\ OffsetCutoff \in Nat /\ 0 \in Nat /\ 0 <= OffsetCutoff
  BY PaginationAssumption
<1>3. e \in Rows /\ position[e] \in Nat /\ position[e] # None
  BY PaginationAssumption DEF Numbered
<1>4. \A r \in rows : r \in Ahead(c) <=> Before(e, r)
  BY <1>3, AheadOfRow DEF Beyond
<1>5. \A i \in 1..n : o[i] \in Ahead(c) <=> (j < i /\ i <= n)
  <2>. HIDE DEF o, n
  <2>1. o[j] = e /\ j \in 1..n
    BY DEF o, n
  <2>. QED
    BY <1>1, <1>4, <2>1
<1>6. LeadsPast(c, j) /\ j \in Nat /\ j = j + 0 /\ j <= n
  BY <1>1, <1>5 DEF LeadsPast, Stretch
<1>. DEFINE pos == position[e]
<1>. HIDE DEF c, pos
<1>7. c = Cursor(0, onward, pos) /\ p = Fetch(c)
  BY DEF c, pos
<1>8. Shows(p, j, Least(n, j + PageSize))
  BY <1>2, <1>6, <1>7, ForwardPage
<1>9. p.hasPrevious = (pos # None \/ 0 > 0)
  BY <1>2, <1>6, <1>7, ForwardPage
<1>10. PageOfMarkers(p, onward)
  <2>. DEFINE old == {}
              wanted == {}
  <2>1. /\ old \in SUBSET Rows /\ wanted \in SUBSET rows /\ pos \in Nat \cup {None}
        /\ \A r \in old, s \in Ahead(c) : Beyond(onward, r, s)
        /\ \A r \in wanted : r \in old \/ r \in Ahead(c)
    BY <1>3 DEF pos
  <2>. HIDE DEF old, wanted
  <2>. QED
    BY <1>7, <2>1, ArrivedPage, ZenonT(30)
<1>11. /\ Len(p.items) = Least(n, j + PageSize) - j
       /\ \A i \in 1..(Least(n, j + PageSize) - j) : p.items[i] = o[j + i]
       /\ p.items \in Seq(Rows)
  BY <1>8 DEF Shows
<1>12. j + 1 \in 1..n /\ Head(p.items) = o[j + 1]
  <2>1. Len(p.items) \in Nat \ {0} /\ Head(p.items) = p.items[1]
    BY <1>11, EndOfPage
  <2>. HIDE DEF o, n
  <2>2. j < Least(n, j + PageSize) /\ 1 \in 1..(Least(n, j + PageSize) - j)
    BY <1>1, <1>2, <1>6, <1>11, <2>1 DEF Least
  <2>. QED
    BY <1>1, <1>2, <1>6, <1>11, <2>1, <2>2 DEF Least
<1>13. \A r \in rows : r \in Ahead(d) <=> Beyond(back, o[j + 1], r)
  <2>1. o[j + 1] \in Rows
    BY <1>1, <1>12
  <2>. HIDE DEF o
  <2>. QED
    BY <1>12, <2>1, AheadOfRow
<1>14. SUFFICES ASSUME back
                PROVE  Shows(Fetch(d), j - Least(j, PageSize), j)
  BY <1>3, <1>9, <1>10 DEF pos
<1>15. \A i \in 1..n : o[i] \in Ahead(d) <=> (0 < i /\ i <= j)
  <2>. HIDE DEF o, n, d
  <2>1. \A i \in 1..n : o[i] \in Ahead(d) <=> Before(o[i], o[j + 1])
    BY <1>1, <1>13, <1>14 DEF Beyond
  <2>2. \A i \in 1..n : (0 < i /\ i <= j) <=> i < j + 1
    BY <1>1, <1>6
  <2>. QED
    BY <1>1, <1>12, <2>1, <2>2
<1>16. Stretch(Ahead(d), 0, j)
  BY <1>15 DEF Stretch
<1>. DEFINE q == position[Head(p.items)]
<1>17. d = Cursor(0, back, q)
  OBVIOUS
<1>. HIDE DEF d, q
<1>18. back => Shows(Fetch(d), j - Least(j, PageSize), j)
  BY <1>6, <1>16, <1>17, BackwardPage
<1>. QED
  BY <1>14, <1>18

LEMMA RoundTripWhenPositionsDiffer == WalkInv => RoundTrip
<1>. DEFINE next == Fetch(NextCursor(page))
            e == Last(page.items)
            reverse == ~forward
            pos == page.cursor.position
<1>. SUFFICES ASSUME WalkInv, page = Fetch(page.cursor), page.hasNext, page.items # <<>>,
                     next.items # <<>>
              PROVE  next.hasPrevious /\ Fetch(PreviousCursor(next)).items = page.items
  BY DEF RoundTrip
<1>1. /\ Numbered /\ PositionsDiffer /\ rows \subseteq Rows
      /\ forward \in BOOLEAN /\ PageOfMarkers(page, reverse)
  BY DEF WalkInv
<1>2. reverse \in BOOLEAN /\ page.cursor = Cursor(0, reverse, pos) /\ page = Fetch(Cursor(0, reverse, pos))
  BY <1>1 DEF PageOfMarkers
<1>3. pos \in Nat \cup {None}
  BY <1>1 DEF PageOfMarkers
<1>4. e \in rows
  <2>. HIDE DEF reverse, pos
  <2>. QED
    BY <1>1, <1>2, <1>3, ReachOfPage
<1>5. PICK j \in 1..Len(Ordered(rows)) : Ordered(rows)[j] = e
  BY <1>1, <1>4, OrderOfIndices
<1>6. Shows(page, j - Least(j, PageSize), j)
  <2>. HIDE DEF reverse, pos
  <2>. QED
    BY <1>1, <1>2, <1>3, <1>5, PageEndsAt
<1>. DEFINE onward == FALSE
            back == TRUE
<1>7. onward \in BOOLEAN /\ ~onward /\ back \in BOOLEAN
  OBVIOUS
<1>8. NextCursor(page) = Cursor(0, onward, position[e])
  BY <1>1, LinksOfMarkers
<1>. HIDE DEF next, onward, back
<1>9. /\ next.hasPrevious /\ PageOfMarkers(next, onward)
      /\ back => Shows(Fetch(Cursor(0, back, position[Head(next.items)])), j - Least(j, PageSize), j)
  <2>1. next = Fetch(Cursor(0, onward, position[e]))
    BY <1>8 DEF next
  <2>. HIDE DEF e
  <2>. QED
    BY <1>1, <1>4, <1>5, <1>7, <2>1, ThereAndBack
<1>10. PreviousCursor(next) = Cursor(0, back, position[Head(next.items)])
  BY <1>1, <1>7, <1>9, LinksOfMarkers DEF back
<1>11. Shows(Fetch(PreviousCursor(next)), j - Least(j, PageSize), j)
  BY <1>9, <1>10 DEF back
<1>12. Fetch(PreviousCursor(next)).items = page.items
  <2>. DEFINE p == Fetch(PreviousCursor(next))
              l == j - (j - Least(j, PageSize))
  <2>1. /\ p.items \in Seq(Rows) /\ Len(p.items) = l
        /\ \A i \in 1..l : p.items[i] = Ordered(rows)[j - Least(j, PageSize) + i]
    BY <1>11 DEF Shows
  <2>2. /\ page.items \in Seq(Rows) /\ Len(page.items) = l
        /\ \A i \in 1..l : page.items[i] = Ordered(rows)[j - Least(j, PageSize) + i]
    BY <1>6 DEF Shows
  <2>. HIDE DEF p, l
  <2>3. Len(p.items) = Len(page.items) /\ \A i \in 1..Len(p.items) : p.items[i] = page.items[i]
    BY <2>1, <2>2
  <2>4. p.items = page.items
    BY <2>1, <2>2, <2>3, SeqEqual
  <2>. QED
    BY <2>4 DEF p
<1>. QED
  BY <1>9, <1>12

(***************************************************************************)
(* The walk, when positions are shared but nothing changes.  The client has *)
(* got the first rows of the query; the marker of its cursor is before the  *)
(* page, and the rows the offset skips share the position of the one that   *)
(* follows them.                                                            *)
(***************************************************************************)
\* No more rows share a position than an offset can count.
TiesFit == \A v \in Nat : Cardinality({r \in Rows : position[r] = v}) <= OffsetCutoff + 1

Steady == MaxChanges[position] = 0 /\ MaxTurns[position] = 0 /\ TiesFit

\* Cursor c leads to what comes behind the first k rows: its marker is the a-th.
StartsBehind(c, a, k) ==
    /\ a \in Nat /\ k \in Nat /\ a <= k /\ k - a <= OffsetCutoff
    /\ c = Cursor(k - a, FALSE, c.position)
    /\ LeadsPast(c, a)
    /\ \A i \in (a + 1)..k : position[Ordered(rows)[i]] = position[Ordered(rows)[k + 1]]

\* Page p is the one behind the first k rows, and the client got all up to its end.
PageBehind(p, got, k) ==
    LET o == Ordered(rows)
        following == Len(o) > k + PageSize
    IN  /\ k <= Len(o)
        /\ \E a \in Nat : StartsBehind(p.cursor, a, k)
        /\ Shows(p, k, Least(Len(o), k + PageSize))
        /\ p.hasNext = following
        /\ p.nextPosition = IF following THEN position[o[k + PageSize + 1]] ELSE None
        /\ p.hasPrevious = (p.cursor.position # None \/ p.cursor.offset > 0)
        /\ p.previousPosition = p.cursor.position
        /\ got = {o[i] : i \in 1..Least(Len(o), k + PageSize)}

SteadyInv ==
    /\ Numbered /\ Steady
    /\ changes \in Nat /\ turns \in Nat
    /\ rows \subseteq Rows /\ due = rows /\ forward = TRUE /\ ~repeated
    /\ \E k \in Nat : PageBehind(page, seen, k)

LEMMA LargestIsThere ==
    ASSUME NEW n \in Nat, NEW S \in SUBSET (1..n), S # {}
    PROVE  Largest(S) \in S /\ \A j \in S : j <= Largest(S)
<1>. DEFINE T == {n - j : j \in S}
            R == {ss \in Nat \X Nat : ss[1] < ss[2]}
<1>1. \A j \in S : j \in Int /\ n - j \in Nat
  OBVIOUS
<1>2. T \subseteq Nat /\ T # {}
  BY <1>1
<1>3. IsWellFoundedOn(R, Nat)
  BY NatLessThanWellFounded DEF OpToRel
<1>4. \A x, y \in Nat : y < x => <<y, x>> \in R
  OBVIOUS
<1>. HIDE DEF R, T
<1>5. PICK x \in T : \A y \in T : ~(<<y, x>> \in R)
  BY <1>2, <1>3, WFMin
<1>6. PICK i \in S : x = n - i
  BY <1>5 DEF T
<1>7. \A j \in S : j <= i
  <2>. SUFFICES ASSUME NEW j \in S
                PROVE  j <= i
    OBVIOUS
  <2>1. n - j \in T /\ n - j \in Nat /\ x \in Nat /\ i \in Int /\ j \in Int
    BY <1>1, <1>2, <1>5, <1>6 DEF T
  <2>2. ~(n - j < x)
    BY <1>4, <1>5, <2>1
  <2>. QED
    BY <1>6, <2>1, <2>2
<1>. QED
  BY <1>6, <1>7 DEF Largest

\* A row whose position differs from that of the next row can be the marker.
LEMMA MarkerLeadsPast ==
    ASSUME Numbered, rows \subseteq Rows, NEW i \in Nat,
           i \in 1..Len(Ordered(rows)), i + 1 \in 1..Len(Ordered(rows)),
           position[Ordered(rows)[i]] # position[Ordered(rows)[i + 1]],
           NEW c, c.position = position[Ordered(rows)[i]], c.reverse = FALSE
    PROVE  LeadsPast(c, i)
<1>. DEFINE o == Ordered(rows)
            n == Len(o)
<1>1. /\ n \in Nat
      /\ \A j \in 1..n : o[j] \in rows
      /\ \A j, k \in 1..n : Before(o[j], o[k]) <=> j < k
  BY OrderOfIndices
<1>2. \A j \in 1..n : o[j] \in Rows /\ position[o[j]] \in Nat
  BY <1>1 DEF Numbered
<1>3. i \in 1..n /\ i + 1 \in 1..n /\ position[o[i]] # position[o[i + 1]]
  OBVIOUS
<1>4. c.position = position[o[i]] /\ c.position # None /\ ~c.reverse
  BY <1>2, PaginationAssumption
<1>. HIDE DEF o, n
<1>5. Precedes(position[o[i]], position[o[i + 1]])
  BY <1>1, <1>3 DEF Before
<1>6. ASSUME NEW j \in 1..n
      PROVE  o[j] \in Ahead(c) <=> (i < j /\ j <= n)
  <2>1. o[j] \in Ahead(c) <=> Precedes(position[o[i]], position[o[j]])
    BY <1>1, <1>4 DEF Ahead
  <2>2. CASE j <= i
    <3>1. j = i \/ Before(o[j], o[i])
      BY <1>1, <1>3, <2>2
    <3>2. ~Precedes(position[o[i]], position[o[j]])
      BY <1>2, <1>3, <3>1 DEF Before, Precedes
    <3>. QED
      BY <1>1, <1>3, <2>1, <2>2, <3>2
  <2>3. CASE i < j
    <3>1. j = i + 1 \/ Before(o[i + 1], o[j])
      BY <1>1, <1>3, <2>3
    <3>2. Precedes(position[o[i]], position[o[j]])
      BY <1>2, <1>3, <1>5, <3>1 DEF Before, Precedes
    <3>. QED
      BY <1>1, <2>1, <2>3, <3>2
  <2>. QED
    BY <1>1, <1>3, <2>2, <2>3
<1>. QED
  BY <1>6 DEF LeadsPast, Stretch, o, n

\* Rows that share a position are few enough for an offset.
LEMMA TieIsCounted ==
    ASSUME Numbered, TiesFit, rows \subseteq Rows, NEW a \in Nat, NEW k \in Nat, a <= k,
           k + 1 <= Len(Ordered(rows)),
           \A i \in (a + 1)..k : position[Ordered(rows)[i]] = position[Ordered(rows)[k + 1]]
    PROVE  k - a <= OffsetCutoff
<1>. DEFINE o == Ordered(rows)
            n == Len(o)
            v == position[o[k + 1]]
            m == (k - a) + 1
            u == [j \in 1..m |-> o[a + j]]
            T == {u[j] : j \in 1..m}
            U == {r \in Rows : position[r] = v}
<1>1. /\ n \in Nat
      /\ \A j \in 1..n : o[j] \in rows
      /\ \A i, j \in 1..n : o[i] = o[j] => i = j
  BY OrderOfIndices
<1>2. k + 1 \in 1..n /\ \A i \in (a + 1)..k : position[o[i]] = position[o[k + 1]]
  BY <1>1
<1>. HIDE DEF o, n
<1>3. v \in Nat /\ Cardinality(U) <= OffsetCutoff + 1
  BY <1>1, <1>2 DEF Numbered, TiesFit
<1>4. m \in Nat /\ \A j \in 1..m : a + j \in 1..n /\ (a + j \in (a + 1)..k \/ a + j = k + 1)
  BY <1>1, <1>2
<1>. HIDE DEF m
<1>5. \A i, j \in 1..m : u[i] = u[j] => i = j
  BY <1>1, <1>4
<1>6. Cardinality(T) = m
  <2>. HIDE DEF u
  <2>. QED
    BY <1>4, <1>5, CountOfPrefix
<1>7. T \subseteq U
  BY <1>1, <1>2, <1>4
<1>8. IsFiniteSet(U) /\ Cardinality(U) \in Nat /\ Cardinality(T) <= Cardinality(U)
  <2>1. IsFiniteSet(U)
    BY RowsAreNumbers, FS_Subset
  <2>. HIDE DEF T, U
  <2>. QED
    BY <1>7, <2>1, FS_Subset, FS_CardinalityType
<1>. HIDE DEF T, U
<1>. QED
  BY <1>3, <1>4, <1>6, <1>8, PaginationAssumption DEF m

\* The next link of a page leads to what comes behind it.
LEMMA NextStartsBehind ==
    ASSUME Numbered, TiesFit, rows \subseteq Rows, NEW p, NEW got, NEW k \in Nat,
           PageBehind(p, got, k), p.hasNext
    PROVE  \E a \in Nat : StartsBehind(NextCursor(p), a, k + PageSize)
<1>. DEFINE o == Ordered(rows)
            n == Len(o)
            l == k + PageSize
            compare == position[o[l + 1]]
            markers == Markers(p, compare)
<1>1. /\ n \in Nat
      /\ \A j \in 1..n : o[j] \in rows
  BY OrderOfIndices
<1>2. PageSize \in Nat \ {0}
  BY PaginationAssumption
<1>3. /\ l \in Nat /\ l < n /\ Least(n, l) = l
      /\ \E b \in Nat : StartsBehind(p.cursor, b, k)
      /\ Shows(p, k, l)
      /\ p.nextPosition = compare
      /\ p.hasPrevious = (p.cursor.position # None \/ p.cursor.offset > 0)
      /\ p.previousPosition = p.cursor.position
  <2>1. /\ \E b \in Nat : StartsBehind(p.cursor, b, k)
        /\ Shows(p, k, Least(n, l))
        /\ n > l
        /\ p.nextPosition = IF n > l THEN compare ELSE None
        /\ p.hasPrevious = (p.cursor.position # None \/ p.cursor.offset > 0)
        /\ p.previousPosition = p.cursor.position
    BY DEF PageBehind
  <2>. HIDE DEF n, compare
  <2>2. l \in Nat /\ l < n /\ Least(n, l) = l
    BY <1>1, <1>2, <2>1 DEF Least
  <2>. HIDE DEF l
  <2>. QED
    BY <2>1, <2>2
<1>4. PICK b \in Nat : StartsBehind(p.cursor, b, k)
  BY <1>3
<1>5. /\ b <= k
      /\ p.cursor.offset = k - b /\ p.cursor.reverse = FALSE
      /\ LeadsPast(p.cursor, b)
      /\ \A i \in (b + 1)..k : position[o[i]] = position[o[k + 1]]
  BY <1>4 DEF StartsBehind, Cursor
<1>6. /\ p.items \in Seq(Rows) /\ Len(p.items) = PageSize /\ p.items # <<>>
      /\ DOMAIN p.items = 1..PageSize
      /\ \A i \in 1..PageSize : p.items[i] = o[k + i]
  <2>1. l - k = PageSize
    BY <1>2
  <2>2. /\ p.items \in Seq(Rows) /\ Len(p.items) = PageSize
        /\ \A i \in 1..PageSize : p.items[i] = o[k + i]
    BY <1>3, <2>1 DEF Shows
  <2>. QED
    BY <1>2, <2>2, EmptySeq, LenProperties
<1>. HIDE DEF o, n, compare
<1>7. markers \in SUBSET (1..PageSize)
      /\ \A i \in 1..PageSize : i \in markers <=> position[o[k + i]] # compare
  BY <1>6 DEF Markers
<1>8. NextCursor(p) = IF markers # {}
                      THEN Cursor(PageSize - Largest(markers), FALSE, position[o[k + Largest(markers)]])
                      ELSE IF ~p.hasPrevious THEN Cursor(PageSize, FALSE, None)
                      ELSE Cursor((k - b) + PageSize, FALSE, p.cursor.position)
  <2>1. /\ p.cursor.reverse = FALSE /\ p.items # <<>> /\ Len(p.items) = PageSize
        /\ p.nextPosition = compare /\ p.cursor.offset = k - b
        /\ p.previousPosition = p.cursor.position
    BY <1>3, <1>5, <1>6
  <2>2. NextCursor(p) = IF markers # {}
                        THEN Cursor(PageSize - Largest(markers), FALSE, position[p.items[Largest(markers)]])
                        ELSE IF ~p.hasPrevious THEN Cursor(PageSize, FALSE, None)
                        ELSE Cursor((k - b) + PageSize, FALSE, p.cursor.position)
    BY <2>1 DEF NextCursor
  <2>3. CASE markers # {}
    <3>1. Largest(markers) \in 1..PageSize
      BY <1>2, <1>7, <2>3, LargestIsThere
    <3>. HIDE DEF markers
    <3>. QED
      BY <1>6, <2>2, <2>3, <3>1
  <2>4. CASE markers = {}
    <3>. HIDE DEF markers
    <3>. QED
      BY <2>2, <2>4
  <2>. QED
    BY <2>3, <2>4
<1>9. CASE markers # {}
  <2>. DEFINE i == Largest(markers)
              a == k + i
              c == NextCursor(p)
  <2>1. i \in markers /\ \A j \in markers : j <= i
    BY <1>2, <1>7, <1>9, LargestIsThere
  <2>2. i \in 1..PageSize /\ position[o[k + i]] # compare
    BY <1>7, <2>1
  <2>3. \A j \in (i + 1)..PageSize : position[o[k + j]] = compare
    BY <1>7, <2>1, <2>2
  <2>4. c = Cursor(PageSize - i, FALSE, position[o[a]])
    BY <1>8, <1>9
  <2>. HIDE DEF i, c, markers
  <2>5. \A j \in (a + 1)..l : position[o[j]] = compare
    <3>. SUFFICES ASSUME NEW j \in (a + 1)..l
                  PROVE  position[o[j]] = compare
      OBVIOUS
    <3>1. j - k \in (i + 1)..PageSize /\ k + (j - k) = j
      BY <1>2, <2>2
    <3>. QED
      BY <2>3, <3>1
  <2>6. a \in Nat /\ a \in 1..n /\ a + 1 \in 1..n /\ a <= l /\ l - a = PageSize - i
    BY <1>1, <1>2, <1>3, <2>2
  <2>7. position[o[a]] # position[o[a + 1]]
    <3>1. a + 1 \in (a + 1)..l \/ a + 1 = l + 1
      BY <1>2, <2>2, <2>6
    <3>. QED
      BY <2>2, <2>5, <3>1 DEF compare
  <2>8. c.position = position[o[a]] /\ c.reverse = FALSE /\ c = Cursor(l - a, FALSE, c.position)
    BY <2>4, <2>6 DEF Cursor
  <2>9. LeadsPast(c, a)
    BY <2>6, <2>7, <2>8, MarkerLeadsPast DEF o, n
  <2>10. \A j \in (a + 1)..l : position[Ordered(rows)[j]] = position[Ordered(rows)[l + 1]]
    BY <2>5 DEF compare, o
  <2>11. l + 1 <= Len(Ordered(rows))
    BY <1>1, <1>3 DEF n, o
  <2>. HIDE DEF a, l
  <2>12. l - a <= OffsetCutoff
    BY <1>3, <2>6, <2>10, <2>11, TieIsCounted
  <2>. QED
    BY <1>3, <2>6, <2>8, <2>9, <2>10, <2>12 DEF StartsBehind, c, l
<1>10. CASE markers = {}
  <2>. DEFINE c == NextCursor(p)
  <2>1. c = Cursor(l - b, FALSE, p.cursor.position)
    <3>1. (k - b) + PageSize = l - b
      BY <1>2, <1>5
    <3>2. CASE p.hasPrevious
      BY <1>8, <1>10, <3>1, <3>2
    <3>3. CASE ~p.hasPrevious
      <4>1. p.cursor.position = None /\ ~(k - b > 0)
        BY <1>3, <1>5, <3>3
      <4>2. PageSize = l - b
        BY <1>2, <1>5, <4>1
      <4>. QED
        BY <1>8, <1>10, <3>3, <4>1, <4>2
    <3>. QED
      BY <3>2, <3>3
  <2>. HIDE DEF c, markers
  <2>2. c = Cursor(l - b, FALSE, c.position) /\ c.position = p.cursor.position /\ c.reverse = p.cursor.reverse
    BY <1>5, <2>1 DEF Cursor
  <2>3. LeadsPast(c, b)
    <3>1. Ahead(c) = Ahead(p.cursor)
      BY <2>2 DEF Ahead
    <3>. QED
      BY <1>5, <3>1 DEF LeadsPast
  <2>4. \A j \in 1..PageSize : position[o[k + j]] = compare
    BY <1>7, <1>10
  <2>5. \A j \in (b + 1)..l : position[o[j]] = compare
    <3>. SUFFICES ASSUME NEW j \in (b + 1)..l
                  PROVE  position[o[j]] = compare
      OBVIOUS
    <3>1. CASE j <= k
      <4>1. position[o[j]] = position[o[k + 1]] /\ 1 \in 1..PageSize
        BY <1>2, <1>5, <3>1
      <4>. QED
        BY <2>4, <4>1
    <3>2. CASE k < j
      <4>1. j - k \in 1..PageSize /\ k + (j - k) = j
        BY <1>2, <3>2
      <4>. QED
        BY <2>4, <4>1
    <3>. QED
      BY <3>1, <3>2
  <2>6. \A j \in (b + 1)..l : position[Ordered(rows)[j]] = position[Ordered(rows)[l + 1]]
    BY <2>5 DEF compare, o
  <2>7. l + 1 <= Len(Ordered(rows)) /\ b <= l
    BY <1>1, <1>2, <1>3, <1>5 DEF n, o
  <2>. HIDE DEF l
  <2>8. l - b <= OffsetCutoff
    BY <1>3, <2>6, <2>7, TieIsCounted
  <2>. QED
    BY <1>3, <2>2, <2>3, <2>6, <2>7, <2>8 DEF StartsBehind, c, l
<1>. QED
  BY <1>9, <1>10

\* Whatever cursor starts behind the first k rows, its page is the one there.
LEMMA PageIsBehind ==
    ASSUME Numbered, rows \subseteq Rows, NEW c, NEW a \in Nat, NEW k \in Nat,
           StartsBehind(c, a, k), k <= Len(Ordered(rows)), NEW p, p = Fetch(c), NEW got,
           got = {Ordered(rows)[i] : i \in 1..k} \cup Range(p.items)
    PROVE  /\ PageBehind(p, got, k)
           /\ Range(p.items) \cap {Ordered(rows)[i] : i \in 1..k} = {}
<1>. DEFINE o == Ordered(rows)
            n == Len(o)
            m == Least(n, k + PageSize)
            off == k - a
            pos == c.position
            reverse == FALSE
            following == n > k + PageSize
<1>1. /\ n \in Nat
      /\ \A i, j \in 1..n : o[i] = o[j] => i = j
  BY OrderOfIndices
<1>2. /\ off \in Nat /\ off <= OffsetCutoff /\ k = a + off
      /\ c = Cursor(off, reverse, pos) /\ LeadsPast(c, a)
      /\ reverse \in BOOLEAN /\ ~reverse
  <2>1. a <= k /\ off <= OffsetCutoff
    BY DEF StartsBehind
  <2>2. c = Cursor(off, reverse, pos)
    BY DEF StartsBehind
  <2>3. LeadsPast(c, a)
    BY DEF StartsBehind
  <2>4. off \in Nat /\ k = a + off
    BY <2>1
  <2>. QED
    BY <2>1, <2>2, <2>3, <2>4
<1>3. c.offset = off /\ c.position = pos
  BY <1>2 DEF Cursor
<1>. HIDE DEF off, pos, reverse
<1>4. p.cursor = c /\ Shows(p, k, m)
  BY <1>2, ForwardPage
<1>5. p.hasNext = following
  BY <1>2, ForwardPage
<1>6. p.nextPosition = IF following THEN position[o[k + PageSize + 1]] ELSE None
  BY <1>2, ForwardPage
<1>7. p.hasPrevious = (pos # None \/ off > 0) /\ p.previousPosition = pos
  BY <1>2, ForwardPage
<1>. HIDE DEF o, n
<1>8. m \in Nat /\ k <= m /\ m <= n
  BY <1>1, PaginationAssumption DEF Least, n, o
<1>. HIDE DEF m
<1>9. Range(p.items) = {o[i] : i \in (k + 1)..m}
  <2>1. /\ p.items \in Seq(Rows) /\ Len(p.items) = m - k
        /\ \A i \in 1..(m - k) : p.items[i] = o[k + i]
    BY <1>4 DEF Shows, o
  <2>2. DOMAIN p.items = 1..(m - k)
    BY <2>1, LenProperties
  <2>3. ASSUME NEW i \in (k + 1)..m
        PROVE  \E j \in DOMAIN p.items : p.items[j] = o[i]
    <3>1. i - k \in 1..(m - k) /\ k + (i - k) = i
      BY <1>8
    <3>. QED
      BY <2>1, <2>2, <3>1
  <2>4. ASSUME NEW j \in DOMAIN p.items
        PROVE  \E i \in (k + 1)..m : p.items[j] = o[i]
    <3>1. j \in 1..(m - k) /\ k + j \in (k + 1)..m
      BY <1>8, <2>2
    <3>. QED
      BY <2>1, <3>1
  <2>. QED
    BY <2>3, <2>4 DEF Range
<1>10. got = {o[i] : i \in 1..m}
  <2>1. 1..m = (1..k) \cup ((k + 1)..m)
    BY <1>8
  <2>2. got = {o[i] : i \in 1..k} \cup Range(p.items)
    BY DEF o
  <2>. QED
    BY <1>9, <2>1, <2>2
<1>11. Range(p.items) \cap {o[i] : i \in 1..k} = {}
  <2>1. ASSUME NEW i \in (k + 1)..m, NEW j \in 1..k
        PROVE  o[i] # o[j]
    <3>1. i \in 1..n /\ j \in 1..n /\ i # j
      BY <1>1, <1>8
    <3>. QED
      BY <1>1, <3>1
  <2>. QED
    BY <1>9, <2>1
<1>12. PageBehind(p, got, k)
  <2>1. \E b \in Nat : StartsBehind(p.cursor, b, k)
    BY <1>4
  <2>2. k <= n
    BY DEF n, o
  <2>3. p.cursor.position = pos /\ p.cursor.offset = off
    BY <1>3, <1>4
  <2>. QED
    BY <1>4, <1>5, <1>6, <1>7, <1>10, <2>1, <2>2, <2>3 DEF PageBehind, m, n, o
<1>. QED
  BY <1>11, <1>12 DEF o

LEMMA SteadyStarts == Init /\ Steady => SteadyInv
<1>. SUFFICES ASSUME Init, Steady
              PROVE  SteadyInv
  OBVIOUS
<1>. DEFINE c == Cursor(0, FALSE, None)
            a == 0
<1>1. /\ Numbered /\ rows \subseteq Rows /\ due = rows /\ changes = 0 /\ turns = 0
      /\ forward = TRUE /\ repeated = FALSE /\ seen = Range(page.items)
      /\ page = Fetch(c)
  BY PaginationAssumption DEF Init, Numbered, FirstPage
<1>2. Len(Ordered(rows)) \in Nat /\ \A i \in 1..Len(Ordered(rows)) : Ordered(rows)[i] \in rows
  BY <1>1, OrderOfIndices
<1>3. Ahead(c) = rows
  BY DEF Ahead, Cursor
<1>4. LeadsPast(c, a)
  <2>. HIDE DEF c
  <2>. QED
    BY <1>2, <1>3 DEF LeadsPast, Stretch
<1>5. StartsBehind(c, a, a)
  <2>1. c = Cursor(a - a, FALSE, c.position)
    BY DEF Cursor
  <2>2. a \in Nat /\ a <= a /\ a - a <= OffsetCutoff /\ (a + 1)..a = {}
    BY PaginationAssumption
  <2>. HIDE DEF a, c
  <2>. QED
    BY <1>4, <2>1, <2>2 DEF StartsBehind
<1>6. seen = {Ordered(rows)[i] : i \in 1..a} \cup Range(page.items)
  BY <1>1
<1>7. a \in Nat /\ a <= Len(Ordered(rows))
  BY <1>2
<1>. HIDE DEF a, c
<1>8. PageBehind(page, seen, a)
  BY <1>1, <1>5, <1>6, <1>7, PageIsBehind
<1>. QED
  BY <1>1, <1>7, <1>8 DEF SteadyInv

\* As long as the rows and their positions stay, so does what is said of a page.
LEMMA PageBehindStays ==
    ASSUME UNCHANGED <<position, rows>>, NEW p, NEW got, NEW k, PageBehind(p, got, k),
           page' = p, seen' = got
    PROVE  PageBehind(page, seen, k)'
<1>1. Ordered(rows)' = Ordered(rows)
  BY DEF Ordered, Before, Precedes
<1>2. \A a : LeadsPast(p.cursor, a) => LeadsPast(page.cursor, a)'
  BY <1>1 DEF LeadsPast, Stretch, Ahead, Precedes
<1>3. \A a : StartsBehind(p.cursor, a, k) => StartsBehind(page.cursor, a, k)'
  BY <1>1, <1>2 DEF StartsBehind, Cursor
<1>4. \A b : Shows(p, k, b) => Shows(page, k, b)'
  BY <1>1 DEF Shows
<1>. QED
  BY <1>1, <1>3, <1>4 DEF PageBehind, Least

LEMMA SteadySteps == SteadyInv /\ [Next]_vars => SteadyInv'
<1>. SUFFICES ASSUME SteadyInv, [Next]_vars
              PROVE  SteadyInv'
  OBVIOUS
<1>1. /\ Numbered /\ Steady /\ TiesFit
      /\ changes \in Nat /\ turns \in Nat
      /\ rows \subseteq Rows /\ due = rows /\ forward = TRUE /\ ~repeated
  BY DEF SteadyInv, Steady
<1>2. PICK k \in Nat : PageBehind(page, seen, k)
  BY DEF SteadyInv
<1>3. ASSUME UNCHANGED position
      PROVE  Numbered' /\ Steady'
  BY <1>1, <1>3 DEF Numbered, Steady, TiesFit
<1>4. ~(changes < MaxChanges[position]) /\ ~(turns < MaxTurns[position])
  BY <1>1 DEF Steady
<1>5. CASE Follow
  <2>. DEFINE c == NextCursor(page)
              p == Fetch(c)
              l == k + PageSize
              o == Ordered(rows)
  <2>1. /\ page.hasNext /\ page' = p
        /\ repeated' = (repeated \/ Range(p.items) \cap seen # {})
        /\ seen' = seen \cup Range(p.items)
        /\ UNCHANGED <<position, rows, forward, due, changes, turns>>
    BY <1>1, <1>5 DEF Follow, HasLink, Link
  <2>2. PICK a \in Nat : StartsBehind(c, a, l)
    BY <1>1, <1>2, <2>1, NextStartsBehind
  <2>3. l \in Nat /\ l <= Len(o) /\ seen = {o[i] : i \in 1..l}
    <3>1. Len(o) \in Nat /\ PageSize \in Nat
      BY <1>1, OrderOfIndices, PaginationAssumption
    <3>2. Len(o) > l /\ seen = {o[i] : i \in 1..Least(Len(o), l)}
      BY <1>2, <2>1 DEF PageBehind
    <3>3. Least(Len(o), l) = l
      BY <3>1, <3>2 DEF Least
    <3>. QED
      BY <3>1, <3>2, <3>3
  <2>. HIDE DEF c, l
  <2>4. /\ PageBehind(p, seen', l)
        /\ Range(p.items) \cap seen = {}
    <3>. DEFINE got == {o[i] : i \in 1..l} \cup Range(p.items)
    <3>1. seen' = got
      BY <2>1, <2>3
    <3>. HIDE DEF got
    <3>2. got = {Ordered(rows)[i] : i \in 1..l} \cup Range(p.items)
      BY DEF got
    <3>3. PageBehind(p, got, l) /\ Range(p.items) \cap {Ordered(rows)[i] : i \in 1..l} = {}
      BY <1>1, <2>2, <2>3, <3>2, PageIsBehind
    <3>. QED
      BY <2>3, <3>1, <3>3
  <2>. HIDE DEF p
  <2>5. PageBehind(page, seen, l)'
    BY <2>1, <2>4, PageBehindStays
  <2>. QED
    BY <1>1, <1>3, <2>1, <2>3, <2>4, <2>5 DEF SteadyInv
<1>6. CASE UNCHANGED vars
  <2>1. PageBehind(page, seen, k)'
    BY <1>2, <1>6, PageBehindStays DEF vars
  <2>. QED
    BY <1>1, <1>3, <1>6, <2>1 DEF SteadyInv, vars
<1>7. ~Turn /\ ~Insert /\ ~Delete
  BY <1>4 DEF Turn, Insert, Delete
<1>. QED
  BY <1>5, <1>6, <1>7 DEF Next

(***************************************************************************)
(* Theorems.                                                                *)
(***************************************************************************)
THEOREM WalkInvariant == Spec /\ PositionsDiffer => []WalkInv
<1>1. Init /\ PositionsDiffer => WalkInv
  BY WalkStarts
<1>2. WalkInv /\ [Next]_vars => WalkInv'
  BY WalkSteps
<1>. QED
  BY <1>1, <1>2, PTL DEF Spec

THEOREM SteadyInvariant == Spec /\ Steady => []SteadyInv
<1>1. Init /\ Steady => SteadyInv
  BY SteadyStarts
<1>2. SteadyInv /\ [Next]_vars => SteadyInv'
  BY SteadySteps
<1>. QED
  BY <1>1, <1>2, PTL DEF Spec

\* A walk in one direction gives no row twice: rows come and go and the client turns round, if no
\* two rows share a position; or nothing changes, and no more rows share one than an offset counts.
THEOREM CursorSeenOnce == Spec /\ (PositionsDiffer \/ Steady) => []SeenOnce
<1>1. WalkInv => SeenOnce
  BY DEF WalkInv, SeenOnce
<1>2. SteadyInv => SeenOnce
  BY DEF SteadyInv, SeenOnce
<1>. QED
  BY <1>1, <1>2, WalkInvariant, SteadyInvariant, PTL

\* On the same conditions a walk that has come to its end has skipped no row.
THEOREM CursorNothingSkipped == Spec /\ (PositionsDiffer \/ Steady) => []NothingSkipped
<1>1. WalkInv => NothingSkipped
  <2>. SUFFICES ASSUME WalkInv, ~HasLink(forward)
                PROVE  due \subseteq seen
    BY DEF NothingSkipped
  <2>1. forward \in BOOLEAN /\ page.cursor.reverse = ~forward /\ Progress(page, seen, due)
    BY DEF WalkInv, PageOfMarkers, Cursor
  <2>2. ~Onward(page)
    BY <2>1 DEF HasLink, Onward
  <2>. QED
    BY <2>1, <2>2 DEF Progress
<1>2. SteadyInv => NothingSkipped
  <2>. SUFFICES ASSUME SteadyInv, ~HasLink(forward)
                PROVE  due \subseteq seen
    BY DEF NothingSkipped
  <2>. DEFINE o == Ordered(rows)
              n == Len(o)
  <2>1. /\ Numbered /\ rows \subseteq Rows /\ due = rows /\ ~page.hasNext
    BY DEF SteadyInv, HasLink
  <2>2. PICK k \in Nat : PageBehind(page, seen, k)
    BY DEF SteadyInv
  <2>3. n \in Nat /\ \A r \in rows : \E i \in 1..n : o[i] = r
    BY <2>1, OrderOfIndices
  <2>4. ~(n > k + PageSize) /\ seen = {o[i] : i \in 1..Least(n, k + PageSize)}
    BY <2>1, <2>2 DEF PageBehind
  <2>. HIDE DEF o, n
  <2>5. Least(n, k + PageSize) = n
    BY <2>3, <2>4, PaginationAssumption DEF Least
  <2>. QED
    BY <2>1, <2>3, <2>4, <2>5
<1>. QED
  BY <1>1, <1>2, WalkInvariant, SteadyInvariant, PTL

\* If no two rows share a position, the previous link of the next page leads back.
THEOREM CursorRoundTrip == Spec => []RoundTrip
<1>1. WalkInv => RoundTrip
  BY RoundTripWhenPositionsDiffer
<1>2. ~PositionsDiffer => RoundTrip
  BY DEF RoundTrip, PositionsDiffer
<1>3. ~PositionsDiffer /\ [Next]_vars => ~PositionsDiffer'
  <2>1. [Next]_vars => UNCHANGED position
    BY DEF Next, Follow, Turn, Insert, Delete, vars
  <2>2. UNCHANGED position => (PositionsDiffer' <=> PositionsDiffer)
    BY DEF PositionsDiffer
  <2>. QED
    BY <2>1, <2>2
<1>4. Spec /\ ~PositionsDiffer => []~PositionsDiffer
  BY <1>3, PTL DEF Spec
<1>. QED
  BY <1>1, <1>2, <1>4, WalkInvariant, PTL

(***************************************************************************)
(* The type invariant.                                                      *)
(***************************************************************************)
Positions == Range(position) \cup {None}

PageTyped(p) ==
    /\ p.items \in Seq(Rows) /\ Len(p.items) <= PageSize
    /\ p.cursor \in [offset : 0..OffsetCutoff, reverse : BOOLEAN, position : Positions]
    /\ p.nextPosition \in Positions /\ p.previousPosition \in Positions

Typed == TypeOK /\ PageTyped(page)

LEMMA SmallestIsThere ==
    ASSUME NEW S \in SUBSET Nat, S # {}
    PROVE  Smallest(S) \in S
<1>. DEFINE R == {ss \in Nat \X Nat : ss[1] < ss[2]}
<1>1. IsWellFoundedOn(R, Nat)
  BY NatLessThanWellFounded DEF OpToRel
<1>2. \A x, y \in Nat : y < x => <<y, x>> \in R
  OBVIOUS
<1>. HIDE DEF R
<1>3. PICK i \in S : \A j \in S : ~(<<j, i>> \in R)
  BY <1>1, WFMin
<1>4. \A j \in S : i <= j
  <2>. SUFFICES ASSUME NEW j \in S
                PROVE  i <= j
    OBVIOUS
  <2>1. i \in Nat /\ j \in Nat /\ ~(j < i)
    BY <1>2, <1>3
  <2>. QED
    BY <2>1
<1>. QED
  BY <1>4 DEF Smallest

LEMMA PositionOfRow == ASSUME Numbered, NEW r \in Rows PROVE position[r] \in Positions
BY DEF Numbered, Positions, Range

LEMMA FetchTyped ==
    ASSUME Numbered, rows \subseteq Rows, NEW o \in Nat, NEW reverse \in BOOLEAN, NEW pos \in Positions
    PROVE  PageTyped(Fetch(Cursor(o, reverse, pos)))
<1>. DEFINE c == Cursor(o, reverse, pos)
            p == Fetch(c)
            w == Slice(Query(c), Offset(c))
            k == Offset(c)
            q == Query(c)
<1>1. c.reverse = reverse /\ c.reverse \in BOOLEAN
  BY DEF Cursor
<1>2. /\ p.cursor = Cursor(k, reverse, pos) /\ k \in 0..OffsetCutoff
      /\ p.items \in Seq(Ahead(c)) /\ Len(p.items) = Len(w)
      /\ OnwardPosition(p) = IF Len(q) > k + PageSize THEN position[q[k + PageSize + 1]] ELSE None
      /\ BackwardPosition(p) = pos
  BY FetchedPage
<1>3. k \in Nat
  BY <1>2, PaginationAssumption
<1>4. /\ Len(w) = IF k < EndOf(c) THEN EndOf(c) - k ELSE 0
      /\ EndOf(c) \in Nat /\ EndOf(c) <= k + PageSize
  BY <1>1, <1>3, SlicedRows
<1>5. q \in Seq(Ahead(c)) /\ Ahead(c) \in SUBSET rows
  BY <1>1, QueriedRows
<1>6. \A i \in 1..Len(q) : q[i] \in Ahead(c)
  BY <1>5, LenProperties, ElementOfSeq
<1>7. Len(q) \in Nat
  BY <1>5, LenProperties
<1>. HIDE DEF c, p, w, k, q
<1>8. Len(p.items) <= PageSize
  BY <1>2, <1>3, <1>4, PaginationAssumption
<1>9. p.items \in Seq(Rows)
  <2>1. Ahead(c) \subseteq Rows
    BY <1>5
  <2>. QED
    BY <1>2, <2>1, SeqMonotonic
<1>10. p.cursor \in [offset : 0..OffsetCutoff, reverse : BOOLEAN, position : Positions]
  BY <1>2 DEF Cursor
<1>11. OnwardPosition(p) \in Positions
  <2>1. CASE Len(q) > k + PageSize
    <3>1. k + PageSize + 1 \in 1..Len(q)
      BY <1>3, <1>7, <2>1, PaginationAssumption
    <3>2. q[k + PageSize + 1] \in Rows
      BY <1>5, <1>6, <3>1
    <3>. QED
      BY <1>2, <2>1, <3>2, PositionOfRow
  <2>2. CASE ~(Len(q) > k + PageSize)
    BY <1>2, <2>2 DEF Positions
  <2>. QED
    BY <2>1, <2>2
<1>12. p.nextPosition \in Positions /\ p.previousPosition \in Positions
  BY <1>2, <1>11 DEF OnwardPosition, BackwardPosition
<1>. QED
  BY <1>8, <1>9, <1>10, <1>12 DEF PageTyped, p, c

LEMMA LinksTyped ==
    ASSUME Numbered, NEW p, PageTyped(p)
    PROVE  /\ \E o \in Nat, pos \in Positions : NextCursor(p) = Cursor(o, FALSE, pos)
           /\ \E o \in Nat, pos \in Positions : PreviousCursor(p) = Cursor(o, TRUE, pos)
<1>. DEFINE n == Len(p.items)
<1>1. /\ n \in Nat /\ DOMAIN p.items = 1..n /\ \A i \in 1..n : p.items[i] \in Rows
      /\ p.cursor.offset \in Nat /\ PageSize \in Nat
      /\ p.nextPosition \in Positions /\ p.previousPosition \in Positions /\ None \in Positions
  <2>1. p.items \in Seq(Rows)
    BY DEF PageTyped
  <2>2. n \in Nat /\ DOMAIN p.items = 1..n /\ \A i \in 1..n : p.items[i] \in Rows
    BY <2>1, LenProperties, ElementOfSeq
  <2>. HIDE DEF n
  <2>3. p.cursor.offset \in Nat
    BY PaginationAssumption DEF PageTyped
  <2>. QED
    BY <2>2, <2>3, PaginationAssumption DEF PageTyped, Positions
<1>. HIDE DEF n
<1>2. ASSUME NEW compare, Markers(p, compare) # {}
      PROVE  /\ n - Largest(Markers(p, compare)) \in Nat
             /\ position[p.items[Largest(Markers(p, compare))]] \in Positions
             /\ Smallest(Markers(p, compare)) - 1 \in Nat
             /\ position[p.items[Smallest(Markers(p, compare))]] \in Positions
  <2>. DEFINE S == Markers(p, compare)
  <2>1. S \in SUBSET (1..n) /\ S \in SUBSET Nat /\ S # {}
    BY <1>1, <1>2 DEF Markers
  <2>. HIDE DEF S
  <2>2. Largest(S) \in S /\ Smallest(S) \in S
    BY <1>1, <2>1, LargestIsThere, SmallestIsThere
  <2>3. Largest(S) \in 1..n /\ Smallest(S) \in 1..n
    BY <2>1, <2>2
  <2>4. n - Largest(S) \in Nat /\ Smallest(S) - 1 \in Nat
    BY <1>1, <2>3
  <2>5. p.items[Largest(S)] \in Rows /\ p.items[Smallest(S)] \in Rows
    BY <1>1, <2>3
  <2>. QED
    BY <2>4, <2>5, PositionOfRow DEF S
<1>3. p.cursor.offset + PageSize \in Nat /\ 0 \in Nat
  BY <1>1
<1>4. \E o \in Nat, pos \in Positions : NextCursor(p) = Cursor(o, FALSE, pos)
  <2>. DEFINE compare == IF p.items # <<>> /\ p.cursor.reverse /\ p.cursor.offset # 0
                         THEN position[Last(p.items)] ELSE p.nextPosition
              S == Markers(p, compare)
  <2>1. NextCursor(p) =
            IF p.items = <<>> THEN Cursor(0, FALSE, p.nextPosition)
            ELSE IF S # {} THEN Cursor(n - Largest(S), FALSE, position[p.items[Largest(S)]])
            ELSE IF ~p.hasPrevious THEN Cursor(PageSize, FALSE, None)
            ELSE Cursor(IF p.cursor.reverse THEN 0 ELSE p.cursor.offset + PageSize, FALSE,
                        p.previousPosition)
    BY Zenon DEF NextCursor, n
  <2>2. S # {} => n - Largest(S) \in Nat /\ position[p.items[Largest(S)]] \in Positions
    BY <1>2
  <2>. HIDE DEF S
  <2>. QED
    BY <1>1, <1>3, <2>1, <2>2, Zenon
<1>5. \E o \in Nat, pos \in Positions : PreviousCursor(p) = Cursor(o, TRUE, pos)
  <2>. DEFINE compare == IF p.items # <<>> /\ ~p.cursor.reverse /\ p.cursor.offset # 0
                         THEN position[Head(p.items)] ELSE p.previousPosition
              S == Markers(p, compare)
  <2>1. PreviousCursor(p) =
            IF p.items = <<>> THEN Cursor(0, TRUE, p.previousPosition)
            ELSE IF S # {} THEN Cursor(Smallest(S) - 1, TRUE, position[p.items[Smallest(S)]])
            ELSE IF ~p.hasNext THEN Cursor(PageSize, TRUE, None)
            ELSE Cursor(IF p.cursor.reverse THEN p.cursor.offset + PageSize ELSE 0, TRUE,
                        p.nextPosition)
    BY Zenon DEF PreviousCursor
  <2>2. S # {} => Smallest(S) - 1 \in Nat /\ position[p.items[Smallest(S)]] \in Positions
    BY <1>2
  <2>. HIDE DEF S
  <2>. QED
    BY <1>1, <1>3, <2>1, <2>2, Zenon
<1>. QED
  BY <1>4, <1>5

LEMMA TypedFromPage ==
    ASSUME Numbered, PageTyped(page), position \in Assignments,
           rows \subseteq Rows, unborn \subseteq Rows \ rows, seen \subseteq Rows,
           due \subseteq rows, forward \in BOOLEAN, repeated \in BOOLEAN
    PROVE  Typed
<1>1. Range(page.items) \subseteq Rows
  <2>1. page.items \in Seq(Rows)
    BY DEF PageTyped
  <2>. QED
    BY <2>1, LenProperties, ElementOfSeq DEF Range
<1>. QED
  BY <1>1 DEF Typed, TypeOK, PageTyped, Positions

LEMMA TypedStarts == Init => Typed
<1>. SUFFICES ASSUME Init PROVE Typed
  OBVIOUS
<1>1. Numbered /\ position \in Assignments /\ rows \subseteq Rows
  BY PaginationAssumption DEF Init, Numbered
<1>2. page = Fetch(Cursor(0, FALSE, None)) /\ None \in Positions
  BY DEF Init, FirstPage, Positions
<1>3. PageTyped(page)
  BY <1>1, <1>2, FetchTyped
<1>4. Range(page.items) \subseteq Rows
  <2>1. page.items \in Seq(Rows)
    BY <1>3 DEF PageTyped
  <2>. QED
    BY <2>1, LenProperties, ElementOfSeq DEF Range
<1>. QED
  BY <1>1, <1>3, <1>4, TypedFromPage DEF Init

LEMMA TypedSteps == Typed /\ [Next]_vars => Typed'
<1>. SUFFICES ASSUME Typed, [Next]_vars PROVE Typed'
  OBVIOUS
<1>1. /\ Numbered /\ PageTyped(page) /\ position \in Assignments
      /\ rows \subseteq Rows /\ unborn \subseteq Rows \ rows
      /\ seen \subseteq Rows /\ due \subseteq rows /\ Range(page.items) \subseteq Rows
      /\ forward \in BOOLEAN /\ repeated \in BOOLEAN
  BY PaginationAssumption DEF Typed, TypeOK, Numbered
<1>2. position' = position
  BY DEF Next, Follow, Turn, Insert, Delete, vars
<1>3. ASSUME NEW next \in BOOLEAN
      PROVE  PageTyped(Fetch(Link(next)))
  BY <1>1, LinksTyped, FetchTyped DEF Link
<1>4. \A p : PageTyped(p) => Range(p.items) \subseteq Rows
  <2>. SUFFICES ASSUME NEW p, PageTyped(p)
                PROVE  Range(p.items) \subseteq Rows
    OBVIOUS
  <2>1. p.items \in Seq(Rows)
    BY DEF PageTyped
  <2>. QED
    BY <2>1, LenProperties, ElementOfSeq DEF Range
<1>5. PageTyped(page)' <=> PageTyped(page')
  BY <1>2 DEF PageTyped, Positions
<1>6. ASSUME PageTyped(page'), rows' \subseteq Rows, unborn' \subseteq Rows \ rows',
             seen' \subseteq Rows, due' \subseteq rows', forward' \in BOOLEAN, repeated' \in BOOLEAN
      PROVE  Typed'
  <2>1. Range(page'.items) \subseteq Rows
    BY <1>4, <1>6
  <2>2. /\ Len(page'.items) <= PageSize
        /\ page'.cursor \in [offset : 0..OffsetCutoff, reverse : BOOLEAN,
                              position : Range(position') \cup {None}]
    BY <1>2, <1>6 DEF PageTyped, Positions
  <2>. QED
    BY <1>1, <1>2, <1>5, <1>6, <2>1, <2>2 DEF Typed, TypeOK
<1>7. CASE Follow
  <2>1. PageTyped(page')
    BY <1>1, <1>3, <1>7 DEF Follow
  <2>2. Range(page'.items) \subseteq Rows
    BY <1>4, <2>1
  <2>3. seen' \subseteq Rows /\ repeated' \in BOOLEAN
    BY <1>1, <1>7, <2>2 DEF Follow
  <2>4. UNCHANGED <<rows, unborn, forward, due>>
    BY <1>7 DEF Follow
  <2>. QED
    BY <1>1, <1>6, <2>1, <2>3, <2>4
<1>8. CASE Turn
  <2>1. forward' \in BOOLEAN /\ PageTyped(page')
    BY <1>1, <1>3, <1>8 DEF Turn
  <2>2. Range(page'.items) \subseteq Rows
    BY <1>4, <2>1
  <2>3. seen' \subseteq Rows /\ repeated' \in BOOLEAN
    BY <1>1, <1>8, <2>2 DEF Turn
  <2>4. due' \subseteq rows /\ UNCHANGED <<rows, unborn>>
    BY <1>8 DEF Turn
  <2>. QED
    BY <1>1, <1>6, <2>1, <2>3, <2>4
<1>9. CASE Insert
  BY <1>1, <1>6, <1>9 DEF Insert
<1>10. CASE Delete
  BY <1>1, <1>6, <1>10 DEF Delete
<1>11. CASE UNCHANGED vars
  BY <1>1, <1>6, <1>11 DEF vars
<1>. QED
  BY <1>7, <1>8, <1>9, <1>10, <1>11 DEF Next

\* Whatever others insert and delete, and wherever the client turns, a page holds no more than
\* PageSize rows and its cursor an offset that decode_cursor has capped and the position of a row.
THEOREM CursorTypes == Spec => []TypeOK
<1>1. Typed => TypeOK
  BY DEF Typed
<1>. QED
  BY <1>1, TypedStarts, TypedSteps, PTL DEF Spec
=============================================================================
