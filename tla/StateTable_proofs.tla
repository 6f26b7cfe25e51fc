-------------------------- MODULE StateTable_proofs --------------------------
(***************************************************************************)
(* For every set of keys, every layout and every size: rows stay reachable *)
(* and current, and as long as the keys fit the table is a map.            *)
(***************************************************************************)
EXTENDS StateTable, FiniteSetTheorems, TLAPS

-----------------------------------------------------------------------------
(* Least numbers, and the positions a probe comes to.                      *)

\* A set of numbers has a least one.
LEMMA Least ==
  ASSUME NEW S, S \subseteq Nat, S # {}
  PROVE  \E x \in S : \A y \in S : x <= y
<1>1. PICK x \in S : \A y \in S : <<y, x>> \notin OpToRel(<, Nat)
  BY WFMin, NatLessThanWellFounded
<1>2. \A y \in S : ~(y < x)
  BY <1>1 DEF OpToRel
<1>. QED
  BY <1>2

\* Min of a set of numbers is one of them, and the least.
LEMMA MinIsLeast ==
  ASSUME NEW S, S \subseteq Nat, S # {}
  PROVE  Min(S) \in S /\ \A y \in S : Min(S) <= y
BY Least DEF Min

\* A remainder is less than its divisor.
LEMMA Remainder ==
  ASSUME NEW a \in Nat, NEW n \in Nat \ {0}
  PROVE  a % n \in 0 .. n - 1
OBVIOUS

\* Adding a distance below n wraps at most once.
LEMMA Wraps ==
  ASSUME NEW n \in Nat \ {0}, NEW a \in 0 .. 2 * n - 1
  PROVE  a % n = IF a < n THEN a ELSE a - n
OBVIOUS

\* The bucket at a distance from where the probe for a key begins.
At(T, k, d) == (bucket_idx(T, k) + d) % T.size

\* A probe from a position of the table passes its end at most once.
LEMMA WrapsOnce ==
  ASSUME NEW n \in Nat \ {0}, NEW h \in 0 .. n - 1, NEW d \in 0 .. n - 1
  PROVE  (h + d) % n = IF h + d < n THEN h + d ELSE h + d - n
<1> DEFINE a == h + d
<1>1. a \in 0 .. 2 * n - 1
  OBVIOUS
<1> HIDE DEF a
<1>2. a % n = IF a < n THEN a ELSE a - n
  BY <1>1, Wraps
<1>. QED
  BY <1>2 DEF a

\* Where the d-th step of a probe comes to, without a remainder.
LEMMA AtWraps ==
  ASSUME NEW T, T.size \in Nat \ {0}, NEW k \in Nat, NEW d \in Positions(T)
  PROVE  /\ bucket_idx(T, k) \in 0 .. T.size - 1
         /\ At(T, k, d) = IF bucket_idx(T, k) + d < T.size
                          THEN bucket_idx(T, k) + d
                          ELSE bucket_idx(T, k) + d - T.size
<1>1. bucket_idx(T, k) \in 0 .. T.size - 1
  BY Remainder DEF bucket_idx
<1>2. d \in 0 .. T.size - 1
  BY DEF Positions
<1>3. (bucket_idx(T, k) + d) % T.size =
        IF bucket_idx(T, k) + d < T.size
        THEN bucket_idx(T, k) + d
        ELSE bucket_idx(T, k) + d - T.size
  BY <1>1, <1>2, WrapsOnce
<1>. QED
  BY <1>1, <1>3 DEF At

\* A probe stays in the table.
LEMMA AtPosition ==
  ASSUME NEW T, T.size \in Nat \ {0}, NEW k \in Nat, NEW d \in Positions(T)
  PROVE  At(T, k, d) \in Positions(T)
<1>1. d \in 0 .. T.size - 1
  BY DEF Positions
<1>2. At(T, k, d) \in 0 .. T.size - 1
  BY <1>1, AtWraps
<1>. QED
  BY <1>2 DEF Positions

\* A probe begins at the bucket of the key.
LEMMA AtZero ==
  ASSUME NEW T, T.size \in Nat \ {0}, NEW k \in Nat
  PROVE  0 \in Positions(T) /\ At(T, k, 0) = bucket_idx(T, k)
<1>1. 0 \in Positions(T)
  BY DEF Positions
<1>. QED
  BY <1>1, AtWraps

\* A probe comes to each bucket at most once.
LEMMA AtDistinct ==
  ASSUME NEW T, T.size \in Nat \ {0}, NEW k \in Nat,
         NEW c \in Positions(T), NEW d \in Positions(T), At(T, k, c) = At(T, k, d)
  PROVE  c = d
<1>1. c \in 0 .. T.size - 1 /\ d \in 0 .. T.size - 1
  BY DEF Positions
<1>. QED
  BY <1>1, AtWraps

-----------------------------------------------------------------------------
(* The probe.                                                              *)

\* What the operators on tables are applied to.
IsTable(T) ==
  /\ T = [size |-> T.size, entries |-> T.entries, buckets |-> T.buckets]
  /\ T.size \in Nat \ {0}
  /\ T.entries \in Nat
  /\ T.buckets \in [Positions(T) -> Buckets]

\* A bucket in which the probe for a key goes on, and one where it ends.
Passes(T, k, b) == T.buckets[b] # Free /\ T.buckets[b].k # k

EndsAt(T, k, d) ==
  /\ d \in Positions(T)
  /\ ~Passes(T, k, At(T, k, d))
  /\ \A c \in Positions(T) : c < d => Passes(T, k, At(T, k, c))

\* The steps at which a probe may stop are those that do not pass.
LEMMA StopsAre ==
  ASSUME NEW T, NEW k
  PROVE  Stops(T, k) = {d \in Positions(T) : ~Passes(T, k, At(T, k, d))}
BY DEF Stops, Passes, At, Positions

\* A probe ends at its first such step.
LEMMA ProbeEndsAt ==
  ASSUME NEW T, T.size \in Nat \ {0}, NEW k \in Nat, NEW d, EndsAt(T, k, d)
  PROVE  ProbeEnd(T, k) = At(T, k, d)
<1>1. d \in Stops(T, k) /\ Stops(T, k) \subseteq Nat
  BY StopsAre DEF EndsAt, Positions
<1>2. Min(Stops(T, k)) \in Stops(T, k) /\ Min(Stops(T, k)) <= d
  BY <1>1, MinIsLeast
<1>3. Min(Stops(T, k)) = d
  BY <1>1, <1>2, StopsAre DEF EndsAt
<1>. QED
  BY <1>1, <1>3 DEF ProbeEnd, At

\* The probe ends at the first bucket that does not let it pass, or where it
\* began if all do.
LEMMA ProbeCases ==
  ASSUME NEW T, T.size \in Nat \ {0}, NEW k \in Nat
  PROVE  \/ /\ \A d \in Positions(T) : Passes(T, k, At(T, k, d))
            /\ ProbeEnd(T, k) = bucket_idx(T, k)
         \/ \E d : EndsAt(T, k, d) /\ ProbeEnd(T, k) = At(T, k, d)
<1>1. Stops(T, k) \subseteq Nat
  BY DEF Stops
<1>2. CASE Stops(T, k) = {}
  BY <1>2, StopsAre DEF ProbeEnd
<1>3. CASE Stops(T, k) # {}
  <2> DEFINE d == Min(Stops(T, k))
  <2>1. d \in Stops(T, k) /\ \A c \in Stops(T, k) : d <= c
    BY <1>1, <1>3, MinIsLeast
  <2> HIDE DEF d
  <2>2. d \in Nat /\ \A c \in Positions(T) : c \in Nat
    BY <1>1, <2>1 DEF Positions
  <2>3. \A c \in Positions(T) : c < d => c \notin Stops(T, k)
    BY <2>1, <2>2
  <2>4. EndsAt(T, k, d)
    BY <2>1, <2>3, StopsAre DEF EndsAt
  <2>. QED
    BY <2>4, ProbeEndsAt
<1>. QED
  BY <1>2, <1>3

\* It ends in the table.
LEMMA ProbePosition ==
  ASSUME NEW T, T.size \in Nat \ {0}, NEW k \in Nat
  PROVE  ProbeEnd(T, k) \in Positions(T)
<1>1. bucket_idx(T, k) \in Positions(T)
  BY AtZero, AtWraps DEF Positions
<1>. QED
  BY <1>1, ProbeCases, AtPosition DEF EndsAt

-----------------------------------------------------------------------------
(* A row is placed.                                                        *)

Reachable(T) ==
  \A b \in Positions(T) :
    T.buckets[b] # Free => bucket_for_key(T, T.buckets[b].k) = b

\* A bucket in use has a key and a row.
LEMMA RowTypes ==
  ASSUME NEW T, IsTable(T), NEW b \in Positions(T), T.buckets[b] # Free
  PROVE  /\ T.buckets[b] \in [k : Keys, v : Rows]
         /\ T.buckets[b].k \in Keys /\ T.buckets[b].v \in Rows
         /\ T.buckets[b].k \in Nat
BY KeysAssumption DEF IsTable, Buckets

\* A bucket with a row is not free.
LEMMA FreeIsNoRow ==
  ASSUME NEW k \in Keys, NEW v \in Rows
  PROVE  [k |-> k, v |-> v] # Free
BY FreeAssumption

\* A row is reachable if the probe for its key comes to it before it ends.
LEMMA ReachedIfProbed ==
  ASSUME NEW T, IsTable(T), NEW b \in Positions(T), T.buckets[b] # Free,
         NEW k \in Nat, k = T.buckets[b].k
  PROVE  bucket_for_key(T, k) = b <=> \E d : EndsAt(T, k, d) /\ At(T, k, d) = b
<1>1. T.size \in Nat \ {0}
  BY DEF IsTable
<1>2. ASSUME NEW d, EndsAt(T, k, d), At(T, k, d) = b
      PROVE  bucket_for_key(T, k) = b
  <2>1. ProbeEnd(T, k) = b
    BY <1>1, <1>2, ProbeEndsAt
  <2>. QED
    BY <2>1 DEF bucket_for_key, Holds
<1>3. ASSUME bucket_for_key(T, k) = b
      PROVE  \E d : EndsAt(T, k, d) /\ At(T, k, d) = b
  <2>1. b # -1
    BY DEF Positions
  <2>2. ProbeEnd(T, k) = b
    BY <1>3, <2>1 DEF bucket_for_key
  <2>3. ~Passes(T, k, b)
    BY DEF Passes
  <2>4. ~(\A d \in Positions(T) : Passes(T, k, At(T, k, d))) \/ b # bucket_idx(T, k)
    BY <1>1, <2>3, AtZero
  <2>. QED
    BY <1>1, <2>2, <2>4, ProbeCases
<1>. QED
  BY <1>2, <1>3

\* A row whose probe ends at it is found.
LEMMA ProbedIsReached ==
  ASSUME NEW T, IsTable(T), NEW b \in Positions(T), T.buckets[b] # Free,
         NEW d, EndsAt(T, T.buckets[b].k, d), At(T, T.buckets[b].k, d) = b
  PROVE  bucket_for_key(T, T.buckets[b].k) = b
<1>1. T.buckets[b].k \in Nat
  BY RowTypes
<1>. QED
  BY <1>1, ReachedIfProbed

\* A key has one row at most.
LEMMA KeysUnique ==
  ASSUME NEW T, Reachable(T), NEW b \in Positions(T), NEW c \in Positions(T),
         T.buckets[b] # Free, T.buckets[c] # Free, T.buckets[b].k = T.buckets[c].k
  PROVE  b = c
BY DEF Reachable

\* Place writes one bucket, where the probe of the key ends.
LEMMA PlaceIs ==
  ASSUME NEW T, IsTable(T), NEW k \in Keys, NEW v \in Rows
  PROVE  LET W == Place(T, k, v)
             e == ProbeEnd(T, k)
         IN  /\ IsTable(W) /\ W.size = T.size
             /\ W.buckets = [T.buckets EXCEPT ![e] = [k |-> k, v |-> v]]
             /\ W.entries = IF Holds(T, e, k) THEN T.entries ELSE T.entries + 1
             /\ e \in Positions(T) /\ Positions(W) = Positions(T)
<1> DEFINE e == ProbeEnd(T, k)
           B == [T.buckets EXCEPT ![e] = [k |-> k, v |-> v]]
<1>1. e \in Positions(T)
  BY KeysAssumption, ProbePosition DEF IsTable
<1>2. B \in [Positions(T) -> Buckets]
  BY <1>1 DEF IsTable, Buckets
<1> HIDE DEF e
<1>3. Write(T, e, k, v) = [size |-> T.size, entries |-> T.entries, buckets |-> B]
  BY DEF Write, IsTable
<1> HIDE DEF B
<1>4. Place(T, k, v) = [size |-> T.size,
                        entries |-> IF Holds(T, e, k) THEN T.entries ELSE T.entries + 1,
                        buckets |-> B]
  BY <1>3 DEF Place, e
<1>5. T.entries + 1 \in Nat /\ T.entries \in Nat /\ T.size \in Nat \ {0}
  BY DEF IsTable
<1>. QED
  BY <1>1, <1>2, <1>4, <1>5 DEF IsTable, Positions, e, B

\* The heart: a row that is placed where its probe ends is reachable, and
\* stops no probe for another key, whether its bucket was free, held the key
\* before, or lost the row of another key.
LEMMA PlaceReachable ==
  ASSUME NEW T, IsTable(T), Reachable(T), NEW k \in Keys, NEW v \in Rows
  PROVE  Reachable(Place(T, k, v))
<1> DEFINE W == Place(T, k, v)
           e == ProbeEnd(T, k)
<1>1. /\ IsTable(W) /\ W.size = T.size
      /\ W.buckets = [T.buckets EXCEPT ![e] = [k |-> k, v |-> v]]
      /\ e \in Positions(T) /\ Positions(W) = Positions(T)
  BY PlaceIs
<1>2. T.size \in Nat \ {0} /\ W.size \in Nat \ {0} /\ k \in Nat
  BY <1>1, KeysAssumption DEF IsTable
<1>3. /\ W.buckets[e] = [k |-> k, v |-> v] /\ W.buckets[e] # Free
      /\ \A b \in Positions(T) : b # e => W.buckets[b] = T.buckets[b]
  BY <1>1, FreeIsNoRow DEF IsTable
<1>4. \A j, d : At(W, j, d) = At(T, j, d) /\ bucket_idx(W, j) = bucket_idx(T, j)
  BY <1>1 DEF At, bucket_idx
<1> HIDE DEF W
<1>5. \E d : EndsAt(W, k, d) /\ At(W, k, d) = e
  <2>1. ~Passes(W, k, e)
    BY <1>3 DEF Passes
  <2>2. CASE e = bucket_idx(T, k)
    <3>1. At(W, k, 0) = e /\ 0 \in Positions(W)
      BY <1>1, <1>2, <1>4, <2>2, AtZero
    <3>2. \A c \in Positions(W) : ~(c < 0)
      BY DEF Positions
    <3>. QED
      BY <2>1, <3>1, <3>2 DEF EndsAt
  <2>3. ASSUME NEW d, EndsAt(T, k, d), e = At(T, k, d)
        PROVE  EndsAt(W, k, d) /\ At(W, k, d) = e
    <3>1. d \in Positions(T)
      BY <2>3 DEF EndsAt
    <3>2. ASSUME NEW c \in Positions(T), c < d PROVE Passes(W, k, At(W, k, c))
      <4>1. c # d
        BY <3>2 DEF Positions
      <4>2. At(T, k, c) # e /\ At(T, k, c) \in Positions(T)
        BY <1>2, <2>3, <3>1, <4>1, AtDistinct, AtPosition
      <4>3. Passes(T, k, At(T, k, c))
        BY <2>3, <3>2 DEF EndsAt
      <4>. QED
        BY <1>3, <1>4, <4>2, <4>3 DEF Passes
    <3>. QED
      BY <1>1, <1>4, <2>1, <2>3, <3>1, <3>2 DEF EndsAt
  <2>4. \/ e = bucket_idx(T, k)
        \/ \E d : EndsAt(T, k, d) /\ e = At(T, k, d)
    BY <1>2, ProbeCases
  <2> HIDE DEF e
  <2>. QED
    BY <2>2, <2>3, <2>4
<1>6. ASSUME NEW b \in Positions(W), W.buckets[b] # Free
      PROVE  bucket_for_key(W, W.buckets[b].k) = b
  <2>1. CASE b = e
    <3>1. W.buckets[b].k = k
      BY <1>3, <2>1
    <3>2. PICK d : EndsAt(W, k, d) /\ At(W, k, d) = e
      BY <1>5
    <3>3. EndsAt(W, W.buckets[b].k, d) /\ At(W, W.buckets[b].k, d) = b
      BY <2>1, <3>1, <3>2
    <3>4. IsTable(W)
      BY <1>1
    <3>. QED
      BY <1>6, <3>3, <3>4, ProbedIsReached
  <2>2. CASE b # e
    <3> DEFINE j == T.buckets[b].k
    <3>1. b \in Positions(T) /\ W.buckets[b] = T.buckets[b] /\ T.buckets[b] # Free
      BY <1>1, <1>3, <1>6, <2>2
    <3>2. j \in Nat
      BY <3>1, RowTypes
    <3>3. bucket_for_key(T, j) = b
      BY <3>1 DEF Reachable
    <3>4. PICK d : EndsAt(T, j, d) /\ At(T, j, d) = b
      BY <3>1, <3>2, <3>3, ReachedIfProbed
    <3>5. j # k
      BY <1>2, <2>2, <3>4, ProbeEndsAt
    <3> HIDE DEF j
    <3>6. ~Passes(W, j, b)
      BY <3>1 DEF Passes, j
    <3>7. ASSUME NEW c \in Positions(T), c < d PROVE Passes(W, j, At(W, j, c))
      <4>1. Passes(T, j, At(T, j, c))
        BY <3>4, <3>7 DEF EndsAt
      <4>2. At(T, j, c) \in Positions(T)
        BY <1>2, <3>2, AtPosition
      <4>3. Passes(W, j, At(T, j, c))
        <5>1. CASE At(T, j, c) = e
          <6>1. W.buckets[e].k = k
            BY <1>3
          <6>. QED
            BY <1>3, <3>5, <5>1, <6>1 DEF Passes
        <5>2. CASE At(T, j, c) # e
          BY <1>3, <4>1, <4>2, <5>2 DEF Passes
        <5>. QED
          BY <5>1, <5>2
      <4>. QED
        BY <1>4, <4>3
    <3>8. EndsAt(W, j, d) /\ At(W, j, d) = b
      BY <1>1, <1>4, <3>4, <3>6, <3>7 DEF EndsAt
    <3>9. j = W.buckets[b].k
      BY <3>1 DEF j
    <3>10. EndsAt(W, W.buckets[b].k, d) /\ At(W, W.buckets[b].k, d) = b
      BY <3>8, <3>9
    <3>11. IsTable(W)
      BY <1>1
    <3>. QED
      BY <1>6, <3>10, <3>11, ProbedIsReached
  <2>. QED
    BY <2>1, <2>2
<1>. QED
  BY <1>6 DEF Reachable, W

-----------------------------------------------------------------------------
(* Counting rows.                                                          *)

UsedIn(T) == {b \in Positions(T) : T.buckets[b] # Free}

Counted(T) == Cardinality(UsedIn(T)) <= T.entries

\* Finitely many buckets are in use.
LEMMA UsedFinite ==
  ASSUME NEW T, T.size \in Nat \ {0}
  PROVE  IsFiniteSet(UsedIn(T)) /\ Cardinality(UsedIn(T)) \in Nat
<1>1. IsFiniteSet(Positions(T))
  BY FS_Interval DEF Positions
<1>2. UsedIn(T) \in SUBSET Positions(T)
  BY DEF UsedIn
<1>. QED
  BY <1>1, <1>2, FS_Subset, FS_CardinalityType

\* Place uses one bucket more, or none.
LEMMA PlaceUses ==
  ASSUME NEW T, IsTable(T), NEW k \in Keys, NEW v \in Rows
  PROVE  UsedIn(Place(T, k, v)) = UsedIn(T) \cup {ProbeEnd(T, k)}
<1> DEFINE W == Place(T, k, v)
           e == ProbeEnd(T, k)
<1>1. /\ W.buckets = [T.buckets EXCEPT ![e] = [k |-> k, v |-> v]]
      /\ e \in Positions(T) /\ Positions(W) = Positions(T)
  BY PlaceIs
<1>2. [k |-> k, v |-> v] # Free /\ DOMAIN T.buckets = Positions(T)
  BY FreeIsNoRow DEF IsTable
<1> HIDE DEF W, e
<1>3. /\ W.buckets[e] # Free
      /\ \A b \in Positions(T) : b # e => W.buckets[b] = T.buckets[b]
  BY <1>1, <1>2
<1>4. UsedIn(W) = UsedIn(T) \cup {e}
  BY <1>1, <1>3 DEF UsedIn
<1>. QED
  BY <1>4 DEF W, e

\* Place counts the bucket it uses.
LEMMA PlaceCounted ==
  ASSUME NEW T, IsTable(T), Counted(T), NEW k \in Keys, NEW v \in Rows
  PROVE  Counted(Place(T, k, v))
<1> DEFINE W == Place(T, k, v)
           e == ProbeEnd(T, k)
<1>1. UsedIn(W) = UsedIn(T) \cup {e}
  BY PlaceUses
<1>2. /\ W.entries = IF Holds(T, e, k) THEN T.entries ELSE T.entries + 1
      /\ e \in Positions(T)
  BY PlaceIs
<1>3. T.entries \in Nat
  BY DEF IsTable
<1>4. IsFiniteSet(UsedIn(T)) /\ Cardinality(UsedIn(T)) \in Nat
  BY UsedFinite DEF IsTable
<1>5. Holds(T, e, k) => e \in UsedIn(T)
  BY <1>2 DEF Holds, UsedIn
<1> HIDE DEF W, e
<1>6. Cardinality(UsedIn(W)) =
        IF e \in UsedIn(T) THEN Cardinality(UsedIn(T)) ELSE Cardinality(UsedIn(T)) + 1
  BY <1>1, <1>4, FS_AddElement
<1>. QED
  BY <1>2, <1>3, <1>4, <1>5, <1>6 DEF Counted, W

GoodTable(T) == IsTable(T) /\ Reachable(T) /\ Counted(T)

\* An empty table is a good one.
LEMMA ClearedGood ==
  ASSUME NEW n \in Nat \ {0}
  PROVE  GoodTable(Cleared(n)) /\ Cleared(n).size = n /\ UsedIn(Cleared(n)) = {}
<1>1. IsTable(Cleared(n)) /\ Cleared(n).size = n /\ Cleared(n).entries = 0
  BY DEF IsTable, Cleared, Positions, Buckets
<1>2. \A b \in Positions(Cleared(n)) : Cleared(n).buckets[b] = Free
  BY DEF Positions, Cleared
<1>3. UsedIn(Cleared(n)) = {}
  BY <1>2 DEF UsedIn
<1>. QED
  BY <1>1, <1>2, <1>3, FS_EmptySet DEF GoodTable, Reachable, Counted

\* Place leaves a good table good, and its size alone.
LEMMA PlaceGood ==
  ASSUME NEW T, GoodTable(T), NEW k \in Keys, NEW v \in Rows
  PROVE  GoodTable(Place(T, k, v)) /\ Place(T, k, v).size = T.size
BY PlaceIs, PlaceReachable, PlaceCounted DEF GoodTable

-----------------------------------------------------------------------------
(* A table is resized.                                                     *)

\* The i-th turn of the loop of resize.
PutBack(T, W, i) ==
  IF T.buckets[i - 1] = Free THEN W
  ELSE Place(W, T.buckets[i - 1].k, T.buckets[i - 1].v)

Fills(T, n, m, f) ==
  f = [i \in 0 .. m |-> IF i = 0 THEN Cleared(n) ELSE PutBack(T, f[i - 1], i)]

\* The recursive function of resize exists, by the least length without one.
LEMMA FillExists ==
  ASSUME NEW T, NEW n, NEW m \in Nat
  PROVE  \E f : Fills(T, n, m, f)
<1> DEFINE Bad == {l \in Nat : ~ \E f : Fills(T, n, l, f)}
<1> SUFFICES ASSUME Bad # {} PROVE FALSE
  OBVIOUS
<1>1. PICK l \in Bad : \A y \in Bad : l <= y
  BY Least
<1>2. l # 0
  <2>1. Fills(T, n, 0, [i \in 0 .. 0 |-> Cleared(n)])
    BY DEF Fills
  <2>. QED
    BY <1>1, <2>1
<1>3. l \in Nat /\ l - 1 \in Nat /\ ~(l <= l - 1)
  BY <1>1, <1>2
<1>4. l - 1 \notin Bad
  BY <1>1, <1>3
<1>5. PICK f : Fills(T, n, l - 1, f)
  BY <1>3, <1>4
<1> DEFINE g == [i \in 0 .. l |-> IF i < l THEN f[i] ELSE PutBack(T, f[l - 1], l)]
<1>6. ASSUME NEW i \in 0 .. l
      PROVE  g[i] = IF i = 0 THEN Cleared(n) ELSE PutBack(T, g[i - 1], i)
  <2>1. CASE i = 0
    BY <1>3, <1>5, <2>1 DEF Fills
  <2>2. CASE i # 0 /\ i < l
    <3>1. i \in 0 .. l - 1 /\ i - 1 \in 0 .. l /\ i - 1 < l
      BY <1>3, <2>2
    <3>2. f[i] = PutBack(T, f[i - 1], i)
      BY <1>5, <2>2, <3>1 DEF Fills
    <3>. QED
      BY <2>2, <3>1, <3>2
  <2>3. CASE i = l
    <3>1. l - 1 \in 0 .. l /\ l - 1 < l
      BY <1>3
    <3>. QED
      BY <1>2, <2>3, <3>1
  <2>. QED
    BY <1>3, <2>1, <2>2, <2>3
<1>7. g = [i \in 0 .. l |-> g[i]]
  OBVIOUS
<1> HIDE DEF g
<1>8. Fills(T, n, l, g)
  BY <1>6, <1>7 DEF Fills
<1>. QED
  BY <1>1, <1>8

\* resize puts the rows of all buckets, one bucket after the other.
LEMMA ResizedIs ==
  ASSUME NEW T, T.size \in Nat, NEW n, T.size # n
  PROVE  \E f : Fills(T, n, T.size, f) /\ Resized(T, n) = f[T.size]
<1> DEFINE filled[i \in 0 .. T.size] ==
             IF i = 0 THEN Cleared(n)
             ELSE LET b == T.buckets[i - 1]
                  IN  IF b = Free THEN filled[i - 1]
                      ELSE Place(filled[i - 1], b.k, b.v)
<1>1. \E f : f = [i \in 0 .. T.size |->
                  IF i = 0 THEN Cleared(n)
                  ELSE LET b == T.buckets[i - 1]
                       IN  IF b = Free THEN f[i - 1] ELSE Place(f[i - 1], b.k, b.v)]
  <2>1. PICK f : Fills(T, n, T.size, f)
    BY FillExists
  <2>2. f = [i \in 0 .. T.size |->
               IF i = 0 THEN Cleared(n)
               ELSE LET b == T.buckets[i - 1]
                    IN  IF b = Free THEN f[i - 1] ELSE Place(f[i - 1], b.k, b.v)]
    BY <2>1 DEF Fills, PutBack
  <2>. QED
    BY <2>2
<1>2. filled = [i \in 0 .. T.size |->
                  IF i = 0 THEN Cleared(n)
                  ELSE LET b == T.buckets[i - 1]
                       IN  IF b = Free THEN filled[i - 1]
                           ELSE Place(filled[i - 1], b.k, b.v)]
  BY <1>1
<1>3. Resized(T, n) = filled[T.size]
  BY DEF Resized
<1> HIDE DEF filled
<1>4. Fills(T, n, T.size, filled)
  BY <1>2 DEF Fills, PutBack
<1>. QED
  BY <1>3, <1>4

\* Every row of W but the one in bucket e is a row of T.
RowsFrom(T, W, e) ==
  \A b \in UsedIn(W) \ {e} : \E c \in UsedIn(T) : W.buckets[b] = T.buckets[c]

\* After Place every other row is an old one.
LEMMA PlaceRowsFrom ==
  ASSUME NEW T, IsTable(T), NEW k \in Keys, NEW v \in Rows
  PROVE  /\ RowsFrom(T, Place(T, k, v), ProbeEnd(T, k))
         /\ Place(T, k, v).buckets[ProbeEnd(T, k)] = [k |-> k, v |-> v]
<1> DEFINE W == Place(T, k, v)
           e == ProbeEnd(T, k)
<1>1. /\ W.buckets = [T.buckets EXCEPT ![e] = [k |-> k, v |-> v]]
      /\ e \in Positions(T) /\ Positions(W) = Positions(T)
  BY PlaceIs
<1>2. DOMAIN T.buckets = Positions(T)
  BY DEF IsTable
<1> HIDE DEF W, e
<1>3. /\ W.buckets[e] = [k |-> k, v |-> v]
      /\ \A b \in Positions(W) : b # e => W.buckets[b] = T.buckets[b]
  BY <1>1, <1>2
<1>4. RowsFrom(T, W, e)
  BY <1>1, <1>3 DEF RowsFrom, UsedIn
<1>. QED
  BY <1>3, <1>4 DEF W, e

\* resize keeps a table good and brings in no row that was not there.
LEMMA ResizedGood ==
  ASSUME NEW T, GoodTable(T), NEW n \in Nat \ {0}
  PROVE  /\ GoodTable(Resized(T, n)) /\ Resized(T, n).size = n
         /\ RowsFrom(T, Resized(T, n), -1)
<1>1. T.size \in Nat \ {0}
  BY DEF GoodTable, IsTable
<1>2. CASE T.size = n
  <2>1. Resized(T, n) = T
    BY <1>2 DEF Resized
  <2>. QED
    BY <1>2, <2>1 DEF RowsFrom
<1>3. CASE T.size # n
  <2>1. PICK f : Fills(T, n, T.size, f) /\ Resized(T, n) = f[T.size]
    BY <1>1, <1>3, ResizedIs
  <2> DEFINE Fine(W) == GoodTable(W) /\ W.size = n /\ RowsFrom(T, W, -1)
             Bad == {i \in 0 .. T.size : ~Fine(f[i])}
  <2>2. Bad = {}
    <3> SUFFICES ASSUME Bad # {} PROVE FALSE
      OBVIOUS
    <3>1. Bad \subseteq Nat
      BY <1>1
    <3>2. PICK i \in Bad : \A y \in Bad : i <= y
      BY <3>1, Least
    <3>3. i # 0
      <4>1. f[0] = Cleared(n)
        BY <1>1, <2>1 DEF Fills
      <4>. QED
        BY <3>2, <4>1, ClearedGood DEF RowsFrom
    <3>4. i \in 0 .. T.size /\ i - 1 \in 0 .. T.size /\ ~(i <= i - 1)
      BY <1>1, <3>2, <3>3
    <3>5. i - 1 \in Positions(T)
      BY <1>1, <3>3, <3>4 DEF Positions
    <3>6. Fine(f[i - 1])
      BY <3>2, <3>4
    <3>7. f[i] = PutBack(T, f[i - 1], i)
      BY <2>1, <3>3, <3>4 DEF Fills
    <3> DEFINE W == f[i - 1]
               row == T.buckets[i - 1]
    <3>8. CASE row = Free
      BY <3>2, <3>6, <3>7, <3>8 DEF PutBack
    <3>9. CASE row # Free
      <4>1. row = [k |-> row.k, v |-> row.v] /\ row.k \in Keys /\ row.v \in Rows
        BY <3>5, <3>9, RowTypes DEF GoodTable
      <4>2. f[i] = Place(W, row.k, row.v)
        BY <3>7, <3>9 DEF PutBack
      <4>3. GoodTable(W) /\ IsTable(W)
        BY <3>6 DEF GoodTable
      <4>4. i - 1 \in UsedIn(T)
        BY <3>5, <3>9 DEF UsedIn
      <4>5. W.size = n /\ RowsFrom(T, W, -1)
        BY <3>6
      <4> HIDE DEF W, row, Fine, Bad
      <4>6. GoodTable(f[i]) /\ f[i].size = n
        BY <4>1, <4>2, <4>3, <4>5, PlaceGood
      <4>7. /\ RowsFrom(W, f[i], ProbeEnd(W, row.k))
            /\ f[i].buckets[ProbeEnd(W, row.k)] = row
        BY <4>1, <4>2, <4>3, PlaceRowsFrom
      <4>8. ASSUME NEW b \in UsedIn(f[i])
            PROVE  \E c \in UsedIn(T) : f[i].buckets[b] = T.buckets[c]
        <5>1. CASE b = ProbeEnd(W, row.k)
          BY <4>4, <4>7, <5>1 DEF row
        <5>2. CASE b # ProbeEnd(W, row.k)
          <6>1. PICK c \in UsedIn(W) : f[i].buckets[b] = W.buckets[c]
            BY <4>7, <4>8, <5>2 DEF RowsFrom
          <6>2. c # -1
            BY DEF UsedIn, Positions
          <6>. QED
            BY <4>5, <6>1, <6>2 DEF RowsFrom
        <5>. QED
          BY <5>1, <5>2
      <4>9. Fine(f[i])
        BY <4>6, <4>8 DEF Fine, RowsFrom
      <4>. QED
        BY <3>2, <4>9 DEF Bad
    <3>. QED
      BY <3>8, <3>9
  <2>3. Fine(f[T.size])
    BY <1>1, <2>2
  <2>. QED
    BY <2>1, <2>3
<1>. QED
  BY <1>2, <1>3

\* An empty table stays empty.
LEMMA ResizedEmpty ==
  ASSUME NEW n \in Nat \ {0}
  PROVE  Resized(Cleared(1), n) = Cleared(n)
<1>1. Cleared(1).size = 1
  BY DEF Cleared
<1>2. CASE n = 1
  BY <1>1, <1>2 DEF Resized
<1>3. CASE n # 1
  <2>1. PICK f : Fills(Cleared(1), n, 1, f) /\ Resized(Cleared(1), n) = f[1]
    BY <1>1, <1>3, ResizedIs
  <2>2. f[0] = Cleared(n) /\ f[1] = PutBack(Cleared(1), f[0], 1)
    BY <2>1 DEF Fills
  <2>3. Cleared(1).buckets[1 - 1] = Free
    BY DEF Cleared
  <2>. QED
    BY <2>1, <2>2, <2>3 DEF PutBack
<1>. QED
  BY <1>2, <1>3

-----------------------------------------------------------------------------
(* Every change of the table.                                              *)

\* W is T with the row of k written, wherever the other rows are now.
Puts(T, W, k, v) ==
  /\ GoodTable(W)
  /\ \E e \in Positions(W) : W.buckets[e] = [k |-> k, v |-> v] /\ RowsFrom(T, W, e)

\* Place puts the row and brings no other one.
LEMMA PlacePuts ==
  ASSUME NEW T, GoodTable(T), NEW k \in Keys, NEW v \in Rows
  PROVE  Puts(T, Place(T, k, v), k, v)
<1>1. IsTable(T)
  BY DEF GoodTable
<1>2. /\ ProbeEnd(T, k) \in Positions(T)
      /\ Positions(Place(T, k, v)) = Positions(T)
  BY <1>1, PlaceIs
<1>. QED
  BY <1>1, <1>2, PlaceGood, PlaceRowsFrom DEF Puts

\* A table that counts one entry more is as good.
LEMMA RecountGood ==
  ASSUME NEW T, GoodTable(T)
  PROVE  LET W == [T EXCEPT !.entries = @ + 1]
         IN  /\ GoodTable(W) /\ W.size = T.size /\ W.buckets = T.buckets
             /\ Positions(W) = Positions(T) /\ UsedIn(W) = UsedIn(T)
<1> DEFINE W == [T EXCEPT !.entries = @ + 1]
<1>1. T.size \in Nat \ {0} /\ T.entries \in Nat
  BY DEF GoodTable, IsTable
<1>2. W = [size |-> T.size, entries |-> T.entries + 1, buckets |-> T.buckets]
  BY DEF GoodTable, IsTable
<1> HIDE DEF W
<1>3. W.size = T.size /\ W.buckets = T.buckets /\ W.entries = T.entries + 1
  BY <1>2
<1>4. Positions(W) = Positions(T) /\ UsedIn(W) = UsedIn(T)
  BY <1>3 DEF Positions, UsedIn
<1>5. IsTable(W)
  <2>1. W = [size |-> W.size, entries |-> W.entries, buckets |-> W.buckets]
    BY <1>2, <1>3
  <2>2. W.size \in Nat \ {0} /\ W.entries \in Nat
    BY <1>1, <1>3
  <2>3. W.buckets \in [Positions(W) -> Buckets]
    BY <1>3, <1>4 DEF GoodTable, IsTable
  <2>. QED
    BY <2>1, <2>2, <2>3 DEF IsTable
<1>6. Reachable(W)
  <2>1. \A k : ProbeEnd(W, k) = ProbeEnd(T, k) /\ bucket_for_key(W, k) = bucket_for_key(T, k)
    BY <1>3 DEF ProbeEnd, Stops, bucket_idx, bucket_for_key, Holds
  <2>. QED
    BY <1>3, <1>4, <2>1 DEF Reachable, GoodTable
<1>7. Counted(W)
  <2>1. Cardinality(UsedIn(T)) \in Nat
    BY <1>1, UsedFinite
  <2>. QED
    BY <1>1, <1>3, <1>4, <2>1 DEF Counted, GoodTable
<1>. QED
  BY <1>3, <1>4, <1>5, <1>6, <1>7 DEF GoodTable, W

\* So does a put that expands the table.
LEMMA ExpandedPuts ==
  ASSUME NEW T, GoodTable(T), NEW k \in Keys, NEW v \in Rows
  PROVE  Puts(T, Expanded(T, k, v), k, v)
<1> DEFINE R == Resized(T, 1 + T.size * 2)
           P == Place(R, k, v)
           W == [P EXCEPT !.entries = @ + 1]
<1>1. 1 + T.size * 2 \in Nat \ {0}
  BY DEF GoodTable, IsTable
<1>2. GoodTable(R) /\ RowsFrom(T, R, -1)
  BY <1>1, ResizedGood
<1>3. Expanded(T, k, v) = W
  BY DEF Expanded
<1> HIDE DEF R
<1>4. Puts(R, P, k, v)
  BY <1>2, PlacePuts
<1> HIDE DEF P
<1>5. PICK e \in Positions(P) : P.buckets[e] = [k |-> k, v |-> v] /\ RowsFrom(R, P, e)
  BY <1>4 DEF Puts
<1>6. GoodTable(P)
  BY <1>4 DEF Puts
<1>7. /\ GoodTable(W) /\ W.buckets = P.buckets
      /\ Positions(W) = Positions(P) /\ UsedIn(W) = UsedIn(P)
  BY <1>6, RecountGood
<1> HIDE DEF W
<1>8. ASSUME NEW b \in UsedIn(W) \ {e}
      PROVE  \E c \in UsedIn(T) : W.buckets[b] = T.buckets[c]
  <2>1. PICK d \in UsedIn(R) : W.buckets[b] = R.buckets[d]
    BY <1>5, <1>7 DEF RowsFrom
  <2>2. d # -1
    BY DEF UsedIn, Positions
  <2>. QED
    BY <1>2, <2>1, <2>2 DEF RowsFrom
<1>9. RowsFrom(T, W, e)
  BY <1>8 DEF RowsFrom
<1>. QED
  BY <1>3, <1>5, <1>7, <1>9 DEF Puts

\* A row that is there is changed in its place.
LEMMA ModifyIsPlace ==
  ASSUME NEW T, NEW k, NEW v, contains(T, k)
  PROVE  Write(T, bucket_for_key(T, k), k, v) = Place(T, k, v)
BY DEF contains, bucket_for_key, Place

\* Every row is the one last written under its key.
Current(T, w) == \A b \in UsedIn(T) : T.buckets[b].v = w[T.buckets[b].k]

\* A put leaves the rows current.
LEMMA PutsCurrent ==
  ASSUME NEW T, GoodTable(T), NEW W, NEW k \in Keys, NEW v \in Rows, Puts(T, W, k, v),
         NEW w, w \in [Keys -> Rows \cup {NoRow}], Current(T, w)
  PROVE  Current(W, [w EXCEPT ![k] = v])
<1> DEFINE u == [w EXCEPT ![k] = v]
<1>1. PICK e \in Positions(W) : W.buckets[e] = [k |-> k, v |-> v] /\ RowsFrom(T, W, e)
  BY DEF Puts
<1>2. W.buckets[e] # Free /\ W.buckets[e].k = k /\ W.buckets[e].v = v
  BY <1>1, FreeIsNoRow
<1>3. u[k] = v /\ \A j \in Keys : j # k => u[j] = w[j]
  OBVIOUS
<1> HIDE DEF u
<1>4. ASSUME NEW b \in UsedIn(W) PROVE W.buckets[b].v = u[W.buckets[b].k]
  <2>1. CASE b = e
    BY <1>2, <1>3, <2>1
  <2>2. CASE b # e
    <3>1. PICK c \in UsedIn(T) : W.buckets[b] = T.buckets[c]
      BY <1>1, <2>2 DEF RowsFrom
    <3>2. b \in Positions(W) /\ W.buckets[b] # Free /\ Reachable(W)
      BY DEF UsedIn, Puts, GoodTable
    <3>3. W.buckets[b].k # k
      BY <1>2, <2>2, <3>2, KeysUnique
    <3>4. T.buckets[c].k \in Keys
      BY RowTypes DEF UsedIn, GoodTable
    <3>. QED
      BY <1>3, <3>1, <3>3, <3>4 DEF Current
  <2>. QED
    BY <2>1, <2>2
<1>. QED
  BY <1>4 DEF Current, u

-----------------------------------------------------------------------------
(* The invariant: whatever the input and however often it is expanded, the *)
(* table is one whose rows are reachable, counted and current.             *)

TableInv ==
  /\ GoodTable(table)
  /\ Current(table, written)
  /\ written \in [Keys -> Rows \cup {NoRow}]
  /\ num_nodes \in NodeCounts \cup {0}
  /\ phase \in {"start", "new", "load", "run", "done", "exit", "dead"}

\* A put keeps the invariant.
LEMMA PutKeepsInv ==
  ASSUME TableInv, NEW k \in Keys, NEW v \in Rows, Puts(table, table', k, v),
         Wrote(k, v), UNCHANGED <<num_nodes, phase>>
  PROVE  TableInv'
<1>1. GoodTable(table')
  BY DEF Puts
<1>2. Current(table', written')
  BY PutsCurrent DEF TableInv, Wrote
<1>3. written' \in [Keys -> Rows \cup {NoRow}]
  BY DEF TableInv, Wrote
<1>. QED
  BY <1>1, <1>2, <1>3 DEF TableInv

\* The table of one bucket is good.
LEMMA TableInvInit == Init => TableInv
<1> SUFFICES ASSUME Init PROVE TableInv
  OBVIOUS
<1>1. GoodTable(table) /\ UsedIn(table) = {}
  BY ClearedGood DEF Init, NewTable
<1>. QED
  BY <1>1 DEF Init, NewTable, TableInv, Current

\* Every step of the table keeps the invariant.
LEMMA TableInvNext == TableInv /\ [Next]_vars => TableInv'
<1> SUFFICES ASSUME TableInv, [Next]_vars PROVE TableInv'
  OBVIOUS
<1> USE DEF TableInv
<1>1. ASSUME NEW n \in NodeCounts, Configured(n) PROVE TableInv'
  BY <1>1 DEF Configured
<1>2. CASE InitTable
  <2>1. num_nodes \in Nat \ {0}
    BY <1>2, NodeCountsAssumption DEF InitTable
  <2>2. table' = Resized(table, num_nodes) /\ UNCHANGED <<num_nodes, written>>
        /\ phase' = "load"
    BY <1>2 DEF InitTable
  <2>3. GoodTable(table') /\ RowsFrom(table, table', -1)
    BY <2>1, <2>2, ResizedGood
  <2>4. \A b \in UsedIn(table') : b # -1
    BY DEF UsedIn, Positions
  <2>5. Current(table', written)
    BY <2>3, <2>4 DEF Current, RowsFrom
  <2>. QED
    BY <2>2, <2>3, <2>5
<1>3. CASE InitTableFails
  BY <1>3 DEF InitTableFails
<1>4. CASE Loaded \/ Finished
  BY <1>4 DEF Loaded, Finished
<1>5. CASE Ended("exit") \/ Ended("dead")
  BY <1>5 DEF Ended
<1>6. ASSUME NEW k \in Keys, NEW v \in Rows, Put(k, v) PROVE TableInv'
  <2>1. Puts(table, table', k, v)
    BY <1>6, PlacePuts DEF Put
  <2>. QED
    BY <1>6, <2>1, PutKeepsInv DEF Put
<1>7. ASSUME NEW k \in Keys, NEW v \in Rows, PutExpanding(k, v) PROVE TableInv'
  <2>1. Puts(table, table', k, v)
    BY <1>7, ExpandedPuts DEF PutExpanding
  <2>. QED
    BY <1>7, <2>1, PutKeepsInv DEF PutExpanding
<1>8. ASSUME NEW k \in Keys, NEW v \in Rows, Modify(k, v) PROVE TableInv'
  <2>1. Puts(table, table', k, v)
    BY <1>8, ModifyIsPlace, PlacePuts DEF Modify
  <2>. QED
    BY <1>8, <2>1, PutKeepsInv DEF Modify
<1>9. ASSUME NEW k \in Keys, ModifyMissing(k) PROVE TableInv'
  BY <1>9 DEF ModifyMissing
<1>10. CASE UNCHANGED vars
  BY <1>10 DEF vars
<1>. QED
  BY <1>1, <1>2, <1>3, <1>4, <1>5, <1>6, <1>7, <1>8, <1>9, <1>10 DEF Next

\* TableInv is an invariant.
LEMMA TableInvariance == Spec => []TableInv
BY TableInvInit, TableInvNext, PTL DEF Spec

\* statetable.h, whole: the table's variables keep their types, and every
\* bucket index the code computes lies in the table.
THEOREM TableTypes == Spec => []TypeOK
<1>1. TableInv => TypeOK
  BY DEF TableInv, TypeOK, GoodTable, IsTable
<1>. QED
  BY <1>1, TableInvariance, PTL

\* put, resize, bucket_for_key: the probe for the key of a row ends at that
\* row, for every set of keys, every size and every history of expansions.
THEOREM TableRowsReachable == Spec => []RowsReachable
<1>1. TableInv => RowsReachable
  BY DEF TableInv, RowsReachable, InUse, GoodTable, Reachable
<1>. QED
  BY <1>1, TableInvariance, PTL

\* put, update*, accumulate*, resize: a row that is found is the one written
\* last under its key.
THEOREM TableRowsCurrent == Spec => []RowsCurrent
<1>1. TableInv => RowsCurrent
  BY DEF TableInv, RowsCurrent, InUse, UsedIn, Current
<1>. QED
  BY <1>1, TableInvariance, PTL

-----------------------------------------------------------------------------
(* While the keys fit.                                                     *)

KeysOf(T) == {T.buckets[b].k : b \in UsedIn(T)}

WrittenKeys(w) == {k \in Keys : w[k] # NoRow}

\* Every bucket lies at some distance from where a probe begins.
LEMMA AtReaches ==
  ASSUME NEW T, T.size \in Nat \ {0}, NEW k \in Nat, NEW b \in Positions(T)
  PROVE  \E d \in Positions(T) : At(T, k, d) = b
<1> DEFINE h == bucket_idx(T, k)
           d == IF b >= h THEN b - h ELSE b - h + T.size
<1>1. h \in 0 .. T.size - 1
  BY Remainder DEF bucket_idx
<1> HIDE DEF h
<1>2. b \in 0 .. T.size - 1
  BY DEF Positions
<1>3. d \in 0 .. T.size - 1 /\ (IF h + d < T.size THEN h + d ELSE h + d - T.size) = b
  BY <1>1, <1>2
<1> HIDE DEF d
<1>4. d \in Positions(T)
  BY <1>3 DEF Positions
<1>5. At(T, k, d) = b
  BY <1>3, <1>4, AtWraps DEF h
<1>. QED
  BY <1>4, <1>5

\* As many keys as rows, and no more rows than buckets.
LEMMA KeysCounted ==
  ASSUME NEW T, GoodTable(T)
  PROVE  /\ Cardinality(KeysOf(T)) = Cardinality(UsedIn(T))
         /\ Cardinality(UsedIn(T)) <= T.size
         /\ UsedIn(T) = Positions(T) => Cardinality(UsedIn(T)) = T.size
<1>1. T.size \in Nat \ {0}
  BY DEF GoodTable, IsTable
<1>2. IsFiniteSet(UsedIn(T))
  BY <1>1, UsedFinite
<1> DEFINE f == [b \in UsedIn(T) |-> T.buckets[b].k]
<1>3. f \in Surjection(UsedIn(T), KeysOf(T))
  BY DEF Surjection, KeysOf
<1>4. f \in Injection(UsedIn(T), KeysOf(T))
  <2>1. ASSUME NEW b \in UsedIn(T), NEW c \in UsedIn(T), f[b] = f[c] PROVE b = c
    BY <2>1, KeysUnique DEF UsedIn, GoodTable
  <2>2. f \in [UsedIn(T) -> KeysOf(T)]
    BY DEF KeysOf
  <2> HIDE DEF f
  <2>. QED
    BY <2>1, <2>2 DEF Injection, IsInjective
<1> HIDE DEF f
<1>5. Cardinality(KeysOf(T)) = Cardinality(UsedIn(T))
  BY <1>2, <1>3, <1>4, FS_Surjection
<1>6. IsFiniteSet(Positions(T)) /\ Cardinality(Positions(T)) = T.size
  <2>1. 0 \in Int /\ T.size - 1 \in Int
    BY <1>1
  <2>2. /\ IsFiniteSet(0 .. T.size - 1)
        /\ Cardinality(0 .. T.size - 1) =
             IF 0 > T.size - 1 THEN 0 ELSE (T.size - 1) - 0 + 1
    BY <2>1, FS_Interval
  <2>. QED
    BY <1>1, <2>2 DEF Positions
<1>7. UsedIn(T) \in SUBSET Positions(T)
  BY DEF UsedIn
<1>8. Cardinality(UsedIn(T)) <= T.size
  BY <1>6, <1>7, FS_Subset
<1>. QED
  BY <1>5, <1>6, <1>8

\* A key without a row is placed in a free bucket as long as there are fewer
\* keys than buckets.
LEMMA ProbeFindsFree ==
  ASSUME NEW T, GoodTable(T), NEW k \in Keys, k \notin KeysOf(T),
         Cardinality(KeysOf(T)) < T.size
  PROVE  T.buckets[ProbeEnd(T, k)] = Free
<1>1. T.size \in Nat \ {0} /\ k \in Nat
  BY KeysAssumption DEF GoodTable, IsTable
<1>2. ~ \A d \in Positions(T) : Passes(T, k, At(T, k, d))
  <2> SUFFICES ASSUME \A d \in Positions(T) : Passes(T, k, At(T, k, d)) PROVE FALSE
    OBVIOUS
  <2>1. UsedIn(T) = Positions(T)
    BY <1>1, AtReaches DEF UsedIn, Passes
  <2>2. Cardinality(KeysOf(T)) = T.size
    BY <2>1, KeysCounted
  <2>. QED
    BY <1>1, <2>2
<1>3. PICK d : EndsAt(T, k, d) /\ ProbeEnd(T, k) = At(T, k, d)
  BY <1>1, <1>2, ProbeCases
<1>4. ProbeEnd(T, k) \in Positions(T)
  BY <1>1, ProbePosition
<1>. QED
  BY <1>3, <1>4 DEF EndsAt, Passes, KeysOf, UsedIn

\* The rows are those of the keys written, and entries is their number.
Exact(T, w) ==
  /\ T.entries = Cardinality(UsedIn(T))
  /\ KeysOf(T) = WrittenKeys(w)

\* A row that fits is added to the rows, and no row is lost for it.
LEMMA PlaceExact ==
  ASSUME NEW T, GoodTable(T), NEW k \in Keys, NEW v \in Rows,
         NEW w, w \in [Keys -> Rows \cup {NoRow}], Exact(T, w),
         k \in KeysOf(T) \/ Cardinality(KeysOf(T)) < T.size
  PROVE  Exact(Place(T, k, v), [w EXCEPT ![k] = v])
<1> DEFINE W == Place(T, k, v)
           e == ProbeEnd(T, k)
           u == [w EXCEPT ![k] = v]
<1>1. WrittenKeys(u) = WrittenKeys(w) \cup {k}
  <2>1. v # NoRow
    BY RowsAssumption
  <2>. QED
    BY <2>1 DEF WrittenKeys
<1> HIDE DEF u
<1>2. IsTable(T)
  BY DEF GoodTable
<1>3. /\ W.buckets = [T.buckets EXCEPT ![e] = [k |-> k, v |-> v]]
      /\ W.entries = IF Holds(T, e, k) THEN T.entries ELSE T.entries + 1
      /\ e \in Positions(T) /\ DOMAIN T.buckets = Positions(T)
  BY <1>2, PlaceIs DEF IsTable
<1>4. UsedIn(W) = UsedIn(T) \cup {e}
  BY <1>2, PlaceUses
<1>5. k \in KeysOf(T) => Holds(T, e, k)
  <2> SUFFICES ASSUME k \in KeysOf(T) PROVE Holds(T, e, k)
    OBVIOUS
  <2>1. PICK b \in UsedIn(T) : T.buckets[b].k = k
    BY DEF KeysOf
  <2>2. bucket_for_key(T, k) = b /\ b # -1
    BY <2>1 DEF UsedIn, GoodTable, Reachable, Positions
  <2>. QED
    BY <2>2 DEF bucket_for_key
<1>6. k \notin KeysOf(T) => T.buckets[e] = Free
  BY ProbeFindsFree
<1>7. T.size \in Nat \ {0} /\ IsFiniteSet(UsedIn(T)) /\ Cardinality(UsedIn(T)) \in Nat
  BY <1>2, UsedFinite DEF IsTable
<1> HIDE DEF W, e
<1>8. /\ W.buckets[e].k = k
      /\ \A b \in UsedIn(T) : b # e => W.buckets[b] = T.buckets[b]
  BY <1>3 DEF UsedIn
<1>9. Holds(T, e, k) <=> e \in UsedIn(T)
  BY <1>3, <1>5, <1>6 DEF Holds, UsedIn
<1>10. e \in UsedIn(T) => T.buckets[e].k = k
  BY <1>9 DEF Holds
<1>11. KeysOf(W) = KeysOf(T) \cup {k}
  BY <1>4, <1>8, <1>10 DEF KeysOf
<1>12. Cardinality(UsedIn(W)) =
         IF e \in UsedIn(T) THEN Cardinality(UsedIn(T)) ELSE Cardinality(UsedIn(T)) + 1
  BY <1>4, <1>7, FS_AddElement
<1>13. W.entries = Cardinality(UsedIn(W))
  BY <1>3, <1>9, <1>12 DEF Exact
<1>14. Exact(W, u)
  BY <1>1, <1>11, <1>13 DEF Exact
<1>. QED
  BY <1>14 DEF W, u

\* An exact table whose rows are current is the map of what was written.
LEMMA FoundInTable ==
  ASSUME NEW T, GoodTable(T), NEW w, w \in [Keys -> Rows \cup {NoRow}],
         Current(T, w), Exact(T, w)
  PROVE  [k \in Keys |-> IF contains(T, k) THEN get(T, k) ELSE NoRow] = w
<1>1. T.size \in Nat \ {0}
  BY DEF GoodTable, IsTable
<1>2. ASSUME NEW k \in Keys
      PROVE  (IF contains(T, k) THEN get(T, k) ELSE NoRow) = w[k]
  <2>1. k \in Nat
    BY KeysAssumption
  <2>2. CASE contains(T, k)
    <3> DEFINE b == ProbeEnd(T, k)
    <3>1. bucket_for_key(T, k) = b /\ Holds(T, b, k) /\ b \in Positions(T)
      BY <1>1, <2>1, <2>2, ProbePosition DEF contains, bucket_for_key
    <3>2. b \in UsedIn(T) /\ T.buckets[b].k = k
      BY <3>1 DEF Holds, UsedIn
    <3>. QED
      BY <2>2, <3>1, <3>2 DEF get, Current
  <2>3. CASE ~contains(T, k)
    <3>1. \A b \in UsedIn(T) : bucket_for_key(T, T.buckets[b].k) = b /\ b # -1
      BY DEF GoodTable, Reachable, UsedIn, Positions
    <3>2. k \notin KeysOf(T)
      BY <2>3, <3>1 DEF KeysOf, contains
    <3>. QED
      BY <2>3, <3>2 DEF WrittenKeys, Exact
  <2>. QED
    BY <2>2, <2>3
<1>. QED
  BY <1>2

\* What get finds is what was last written, in this state and in the next.
LEMMA FoundIsWritten ==
  /\ TableInv /\ Exact(table, written) => Found = written
  /\ TableInv' /\ Exact(table', written') => Found' = written'
<1>1. ASSUME TableInv, Exact(table, written) PROVE Found = written
  BY <1>1, FoundInTable DEF TableInv, Found
<1>2. ASSUME TableInv', Exact(table', written') PROVE Found' = written'
  <2>1. /\ GoodTable(table') /\ Current(table', written')
        /\ written' \in [Keys -> Rows \cup {NoRow}]
    BY <1>2 DEF TableInv
  <2>2. [k \in Keys |-> IF contains(table', k) THEN get(table', k) ELSE NoRow] = written'
    BY <1>2, <2>1, FoundInTable
  <2>. QED
    BY <2>2 DEF Found
<1>. QED
  BY <1>1, <1>2

-----------------------------------------------------------------------------
(* The invariant while the keys fit: the table is exact, and as large as   *)
(* NODES says, because it is never expanded.                               *)

Untouched == table = Cleared(1) /\ written = [k \in Keys |-> NoRow]

FitsInv ==
  /\ TableInv
  /\ phase \in {"start", "new"} => Untouched
  /\ Fits => Exact(table, written)
  /\ Fits /\ phase \in {"load", "run"} => table.size = num_nodes

\* An empty table is that of no rows.
LEMMA ClearedExact ==
  ASSUME NEW n \in Nat \ {0}
  PROVE  Exact(Cleared(n), [k \in Keys |-> NoRow])
<1>1. UsedIn(Cleared(n)) = {}
  BY ClearedGood
<1>2. KeysOf(Cleared(n)) = {} /\ WrittenKeys([k \in Keys |-> NoRow]) = {}
  BY <1>1 DEF KeysOf, WrittenKeys
<1>3. Cleared(n).entries = 0
  BY DEF Cleared
<1>. QED
  BY <1>1, <1>2, <1>3, FS_EmptySet DEF Exact

\* If the keys fit after a put, they did before it, and there was room.
LEMMA FitsAfterPut ==
  ASSUME FitsInv, phase \in {"load", "run"}, NEW k \in Keys, NEW v \in Rows,
         Wrote(k, v), UNCHANGED num_nodes, Fits'
  PROVE  /\ Fits /\ table.size = num_nodes
         /\ k \in KeysOf(table) \/ Cardinality(KeysOf(table)) < table.size
         /\ table.entries <= table.size
<1> DEFINE K == WrittenKeys(written)
<1>1. WrittenKeys(written') = K \cup {k}
  <2>1. v # NoRow
    BY RowsAssumption
  <2>. QED
    BY <2>1 DEF WrittenKeys, FitsInv, TableInv, Wrote
<1>2. IsFiniteSet(K) /\ Cardinality(K) \in Nat
  <2>1. K \in SUBSET Keys
    BY DEF WrittenKeys
  <2>2. IsFiniteSet(K)
    BY <2>1, KeysAssumption, FS_Subset
  <2>. QED
    BY <2>2, FS_CardinalityType
<1>3. Fits <=> Cardinality(K) <= num_nodes
  BY DEF Fits, WrittenKeys
<1>4. Fits' <=> Cardinality(WrittenKeys(written')) <= num_nodes
  BY DEF Fits, WrittenKeys
<1>5. num_nodes \in Int
  BY NodeCountsAssumption DEF FitsInv, TableInv
<1> HIDE DEF K
<1>6. Cardinality(K \cup {k}) = IF k \in K THEN Cardinality(K) ELSE Cardinality(K) + 1
  BY <1>2, FS_AddElement
<1>7. Cardinality(K \cup {k}) <= num_nodes
  BY <1>1, <1>4
<1>8. Fits /\ (k \in K \/ Cardinality(K) < num_nodes)
  BY <1>2, <1>3, <1>5, <1>6, <1>7
<1>9. Exact(table, written) /\ table.size = num_nodes
  BY <1>8 DEF FitsInv
<1>10. K = KeysOf(table) /\ table.entries = Cardinality(UsedIn(table))
  BY <1>9 DEF Exact, K
<1>11. Cardinality(UsedIn(table)) <= table.size
  BY KeysCounted DEF FitsInv, TableInv
<1>. QED
  BY <1>8, <1>9, <1>10, <1>11

\* A table whose keys fit is never expanded.
LEMMA NoExpansion ==
  ASSUME FitsInv, NEW k \in Keys, NEW v \in Rows, PutExpanding(k, v), Fits'
  PROVE  FALSE
<1>1. /\ phase = "load" /\ table.entries > table.size
      /\ Wrote(k, v) /\ UNCHANGED <<num_nodes, phase>>
  BY DEF PutExpanding, MustExpand
<1>2. table.entries \in Nat /\ table.size \in Nat
  BY DEF FitsInv, TableInv, GoodTable, IsTable
<1>3. table.entries <= table.size
  BY <1>1, FitsAfterPut
<1>. QED
  BY <1>1, <1>2, <1>3

\* A row that is placed keeps FitsInv.
LEMMA FitsInvPlace ==
  ASSUME FitsInv, phase \in {"load", "run"}, NEW k \in Keys, NEW v \in Rows,
         table' = Place(table, k, v), Wrote(k, v), UNCHANGED <<num_nodes, phase>>
  PROVE  FitsInv'
<1>1. GoodTable(table) /\ written \in [Keys -> Rows \cup {NoRow}]
  BY DEF FitsInv, TableInv
<1>2. TableInv'
  <2>1. TableInv /\ Puts(table, table', k, v)
    BY <1>1, PlacePuts DEF FitsInv
  <2>. QED
    BY <2>1, PutKeepsInv
<1>3. table'.size = table.size
  BY <1>1, PlaceGood
<1>4. ASSUME Fits' PROVE Exact(table', written') /\ table'.size = num_nodes
  <2>1. /\ Fits /\ table.size = num_nodes
        /\ k \in KeysOf(table) \/ Cardinality(KeysOf(table)) < table.size
    BY <1>4, FitsAfterPut
  <2>2. Exact(table, written)
    BY <2>1 DEF FitsInv
  <2>3. Exact(Place(table, k, v), [written EXCEPT ![k] = v])
    BY <1>1, <2>1, <2>2, PlaceExact
  <2>. QED
    BY <1>3, <2>1, <2>3 DEF Wrote
<1>5. phase' \notin {"start", "new"}
  OBVIOUS
<1>. QED
  BY <1>2, <1>4, <1>5 DEF FitsInv

\* FitsInv holds at first.
LEMMA FitsInvInit == Init => FitsInv
<1> SUFFICES ASSUME Init PROVE FitsInv
  OBVIOUS
<1>1. TableInv /\ Exact(table, written)
  BY TableInvInit, ClearedExact DEF Init, NewTable
<1>. QED
  BY <1>1 DEF Init, NewTable, FitsInv, Untouched

\* Every step keeps FitsInv.
LEMMA FitsInvNext == FitsInv /\ [Next]_vars => FitsInv'
<1> SUFFICES ASSUME FitsInv, [Next]_vars PROVE FitsInv'
  OBVIOUS
<1>1. TableInv'
  BY TableInvNext DEF FitsInv
<1>2. ASSUME NEW n \in NodeCounts, Configured(n) PROVE FitsInv'
  <2>1. Untouched /\ phase' = "new" /\ UNCHANGED <<table, written>>
    BY <1>2 DEF FitsInv, Configured
  <2>2. Exact(table, written)
    BY <2>1, ClearedExact DEF Untouched
  <2>3. Untouched' /\ Exact(table', written') /\ phase' \notin {"load", "run"}
    BY <2>1, <2>2 DEF Untouched
  <2>. QED
    BY <1>1, <2>3 DEF FitsInv
<1>3. CASE InitTable
  <2>1. /\ Untouched /\ phase' = "load" /\ UNCHANGED <<num_nodes, written>>
        /\ table' = Resized(table, num_nodes) /\ num_nodes > 0
    BY <1>3 DEF FitsInv, InitTable
  <2>2. num_nodes \in Nat \ {0}
    BY <1>1, <2>1, NodeCountsAssumption DEF TableInv
  <2>3. table' = Cleared(num_nodes)
    BY <2>1, <2>2, ResizedEmpty DEF Untouched
  <2>4. Exact(table', written') /\ table'.size = num_nodes
    BY <2>1, <2>2, <2>3, ClearedExact, ClearedGood DEF Untouched
  <2>. QED
    BY <1>1, <2>1, <2>4 DEF FitsInv
<1>4. ASSUME UNCHANGED <<table, num_nodes, written>>,
             phase' \in {"start", "new"} => phase' = phase,
             phase' \in {"load", "run"} => phase \in {"load", "run"}
      PROVE  FitsInv'
  <2>1. Fits' = Fits
    BY <1>4 DEF Fits
  <2>2. Fits => Exact(table', written')
    BY <1>4 DEF FitsInv
  <2>. QED
    BY <1>1, <1>4, <2>1, <2>2 DEF FitsInv, Untouched
<1>5. CASE InitTableFails
  BY <1>4, <1>5 DEF InitTableFails
<1>6. CASE Loaded \/ Finished
  BY <1>4, <1>6 DEF Loaded, Finished
<1>7. CASE Ended("exit") \/ Ended("dead")
  BY <1>4, <1>7 DEF Ended
<1>8. ASSUME NEW k \in Keys, NEW v \in Rows, Put(k, v) PROVE FitsInv'
  BY <1>8, FitsInvPlace DEF Put
<1>9. ASSUME NEW k \in Keys, NEW v \in Rows, PutExpanding(k, v) PROVE FitsInv'
  <2>1. ~Fits' /\ phase' = "load"
    BY <1>9, NoExpansion DEF PutExpanding
  <2>. QED
    BY <1>1, <2>1 DEF FitsInv
<1>10. ASSUME NEW k \in Keys, NEW v \in Rows, Modify(k, v) PROVE FitsInv'
  <2>1. table' = Place(table, k, v)
    BY <1>10, ModifyIsPlace DEF Modify
  <2>. QED
    BY <1>10, <2>1, FitsInvPlace DEF Modify
<1>11. ASSUME NEW k \in Keys, ModifyMissing(k) PROVE FitsInv'
  BY <1>4, <1>11 DEF ModifyMissing
<1>12. CASE UNCHANGED vars
  BY <1>4, <1>12 DEF vars
<1>. QED
  BY <1>2, <1>3, <1>5, <1>6, <1>7, <1>8, <1>9, <1>10, <1>11, <1>12 DEF Next

\* FitsInv is an invariant.
LEMMA FitsInvariance == Spec => []FitsInv
BY FitsInvInit, FitsInvNext, PTL DEF Spec

-----------------------------------------------------------------------------
(* How far entries_ may drift from the number of rows.                     *)

\* Every row is counted once.
Tallied(T) == T.entries = Cardinality(UsedIn(T))

Drifts(T) == T.entries <= Cardinality(UsedIn(T)) + 1

\* A row without a place of its own replaces one only in a full table.
LEMMA PlaceTakes ==
  ASSUME NEW T, GoodTable(T), NEW k \in Keys, NEW v \in Rows
  PROVE  LET W == Place(T, k, v)
             e == ProbeEnd(T, k)
         IN  /\ W.entries = IF Holds(T, e, k) THEN T.entries ELSE T.entries + 1
             /\ Cardinality(UsedIn(W)) =
                  IF e \in UsedIn(T) THEN Cardinality(UsedIn(T))
                                     ELSE Cardinality(UsedIn(T)) + 1
             /\ Holds(T, e, k) => e \in UsedIn(T)
             /\ ~Holds(T, e, k) /\ e \in UsedIn(T) =>
                  Cardinality(UsedIn(T)) = T.size
<1> DEFINE W == Place(T, k, v)
           e == ProbeEnd(T, k)
<1>1. IsTable(T) /\ T.size \in Nat \ {0}
  BY DEF GoodTable, IsTable
<1>2. /\ W.entries = IF Holds(T, e, k) THEN T.entries ELSE T.entries + 1
      /\ e \in Positions(T)
  BY <1>1, PlaceIs
<1>3. UsedIn(W) = UsedIn(T) \cup {e}
  BY <1>1, PlaceUses
<1>4. IsFiniteSet(UsedIn(T)) /\ Cardinality(UsedIn(T)) \in Nat
  BY <1>1, UsedFinite
<1>5. /\ Cardinality(KeysOf(T)) = Cardinality(UsedIn(T))
      /\ Cardinality(UsedIn(T)) <= T.size
  BY KeysCounted
<1>6. k \in KeysOf(T) => Holds(T, e, k)
  <2> SUFFICES ASSUME k \in KeysOf(T) PROVE Holds(T, e, k)
    OBVIOUS
  <2>1. PICK b \in UsedIn(T) : T.buckets[b].k = k
    BY DEF KeysOf
  <2>2. bucket_for_key(T, k) = b /\ b # -1
    BY <2>1 DEF UsedIn, GoodTable, Reachable, Positions
  <2>. QED
    BY <2>2 DEF bucket_for_key
<1>7. k \notin KeysOf(T) /\ Cardinality(KeysOf(T)) < T.size => T.buckets[e] = Free
  BY ProbeFindsFree
<1> HIDE DEF W, e
<1>8. Holds(T, e, k) => e \in UsedIn(T)
  BY <1>2 DEF Holds, UsedIn
<1>9. ~Holds(T, e, k) /\ e \in UsedIn(T) => Cardinality(UsedIn(T)) = T.size
  <2> SUFFICES ASSUME ~Holds(T, e, k), e \in UsedIn(T),
                      Cardinality(UsedIn(T)) # T.size
               PROVE  FALSE
    OBVIOUS
  <2>1. Cardinality(KeysOf(T)) < T.size
    BY <1>1, <1>4, <1>5
  <2>2. T.buckets[e] = Free
    BY <1>6, <1>7, <2>1
  <2>. QED
    BY <2>2 DEF UsedIn
<1>10. Cardinality(UsedIn(W)) =
         IF e \in UsedIn(T) THEN Cardinality(UsedIn(T)) ELSE Cardinality(UsedIn(T)) + 1
  BY <1>3, <1>4, FS_AddElement
<1>. QED
  BY <1>2, <1>8, <1>9, <1>10 DEF W, e

\* As long as there is a free bucket, Place counts every row once.
LEMMA PlaceTallied ==
  ASSUME NEW T, GoodTable(T), NEW k \in Keys, NEW v \in Rows,
         Tallied(T), Cardinality(UsedIn(T)) < T.size
  PROVE  /\ Tallied(Place(T, k, v))
         /\ Cardinality(UsedIn(Place(T, k, v))) <= Cardinality(UsedIn(T)) + 1
<1>1. T.size \in Nat \ {0} /\ Cardinality(UsedIn(T)) \in Nat
  BY UsedFinite DEF GoodTable, IsTable
<1>. QED
  BY <1>1, PlaceTakes DEF Tallied

\* A put that expands nothing leaves at most one row counted too many.
LEMMA PlaceDrifts ==
  ASSUME NEW T, GoodTable(T), NEW k \in Keys, NEW v \in Rows,
         Drifts(T), ~MustExpand(T, k)
  PROVE  Drifts(Place(T, k, v))
<1>1. /\ T.size \in Nat \ {0} /\ T.entries \in Nat
      /\ Cardinality(UsedIn(T)) \in Nat
  BY UsedFinite DEF GoodTable, IsTable
<1>2. Holds(T, ProbeEnd(T, k), k) \/ T.entries <= T.size
  BY <1>1 DEF MustExpand
<1>. QED
  BY <1>1, <1>2, PlaceTakes DEF Drifts

\* resize counts the rows anew: a larger table has a bucket left for each.
LEMMA ResizedTallied ==
  ASSUME NEW T, GoodTable(T), NEW n \in Nat, T.size < n
  PROVE  /\ Tallied(Resized(T, n))
         /\ Cardinality(UsedIn(Resized(T, n))) < n
<1>1. T.size \in Nat \ {0} /\ T.size # n /\ n \in Nat \ {0}
  BY DEF GoodTable, IsTable
<1>2. PICK f : Fills(T, n, T.size, f) /\ Resized(T, n) = f[T.size]
  BY <1>1, ResizedIs
<1> DEFINE Fine(W, i) ==
             /\ GoodTable(W) /\ W.size = n
             /\ Tallied(W) /\ Cardinality(UsedIn(W)) <= i
           Bad == {i \in 0 .. T.size : ~Fine(f[i], i)}
<1>3. Bad = {}
  <2> SUFFICES ASSUME Bad # {} PROVE FALSE
    OBVIOUS
  <2>1. Bad \subseteq Nat
    BY <1>1
  <2>2. PICK i \in Bad : \A y \in Bad : i <= y
    BY <2>1, Least
  <2>3. i # 0
    <3>1. f[0] = Cleared(n)
      BY <1>1, <1>2 DEF Fills
    <3>2. Cleared(n).entries = 0
      BY DEF Cleared
    <3>3. Fine(Cleared(n), 0)
      BY <1>1, <3>2, ClearedGood, FS_EmptySet DEF Tallied
    <3>. QED
      BY <2>2, <3>1, <3>3
  <2>4. i \in 0 .. T.size /\ i - 1 \in 0 .. T.size /\ ~(i <= i - 1) /\ i - 1 < n
    BY <1>1, <2>2, <2>3
  <2>5. i - 1 \in Positions(T)
    BY <1>1, <2>3, <2>4 DEF Positions
  <2>6. Fine(f[i - 1], i - 1)
    BY <2>2, <2>4
  <2>7. f[i] = PutBack(T, f[i - 1], i)
    BY <1>2, <2>3, <2>4 DEF Fills
  <2> DEFINE W == f[i - 1]
             row == T.buckets[i - 1]
  <2>8. GoodTable(W) /\ W.size = n /\ Tallied(W) /\ Cardinality(UsedIn(W)) <= i - 1
    BY <2>6
  <2>9. Cardinality(UsedIn(W)) \in Nat /\ i \in Nat
    BY <1>1, <2>4, <2>8, UsedFinite
  <2>10. CASE row = Free
    <3>1. f[i] = W
      BY <2>7, <2>10 DEF PutBack
    <3> HIDE DEF W
    <3>2. Cardinality(UsedIn(W)) <= i
      BY <2>8, <2>9
    <3>3. Fine(f[i], i)
      BY <2>8, <3>1, <3>2
    <3>. QED
      BY <2>2, <3>3
  <2>11. CASE row # Free
    <3>1. row.k \in Keys /\ row.v \in Rows
      BY <2>5, <2>11, RowTypes DEF GoodTable
    <3>2. f[i] = Place(W, row.k, row.v)
      BY <2>7, <2>11 DEF PutBack
    <3> HIDE DEF W, row
    <3>3. Cardinality(UsedIn(W)) < W.size
      BY <1>1, <2>4, <2>8, <2>9
    <3>4. GoodTable(f[i]) /\ f[i].size = n
      BY <2>8, <3>1, <3>2, PlaceGood
    <3>5. Tallied(f[i]) /\ Cardinality(UsedIn(f[i])) <= Cardinality(UsedIn(W)) + 1
      BY <2>8, <3>1, <3>2, <3>3, PlaceTallied
    <3>6. Cardinality(UsedIn(f[i])) \in Nat
      BY <1>1, <3>4, UsedFinite
    <3>7. Cardinality(UsedIn(f[i])) <= i
      BY <2>8, <2>9, <3>5, <3>6
    <3>8. Fine(f[i], i)
      BY <3>4, <3>5, <3>7
    <3>. QED
      BY <2>2, <3>8
  <2>. QED
    BY <2>10, <2>11
<1>4. Fine(f[T.size], T.size)
  BY <1>1, <1>3
<1>5. Cardinality(UsedIn(f[T.size])) \in Nat
  BY <1>1, <1>4, UsedFinite
<1>. QED
  BY <1>1, <1>2, <1>4, <1>5

\* After an expansion just the new row is counted twice.
LEMMA ExpandedDrifts ==
  ASSUME NEW T, GoodTable(T), NEW k \in Keys, NEW v \in Rows
  PROVE  Drifts(Expanded(T, k, v))
<1> DEFINE R == Resized(T, 1 + T.size * 2)
           P == Place(R, k, v)
           W == [P EXCEPT !.entries = @ + 1]
<1>1. 1 + T.size * 2 \in Nat \ {0} /\ T.size < 1 + T.size * 2
  BY DEF GoodTable, IsTable
<1>2. GoodTable(R) /\ R.size = 1 + T.size * 2
  BY <1>1, ResizedGood
<1>3. Tallied(R) /\ Cardinality(UsedIn(R)) < R.size
  BY <1>1, <1>2, ResizedTallied
<1>4. Expanded(T, k, v) = W
  BY DEF Expanded
<1> HIDE DEF R
<1>5. GoodTable(P) /\ Tallied(P)
  BY <1>2, <1>3, PlaceGood, PlaceTallied
<1> HIDE DEF P
<1>6. UsedIn(W) = UsedIn(P)
  BY <1>5, RecountGood
<1>7. W.entries = P.entries + 1
  BY <1>5 DEF GoodTable, IsTable
<1>8. Cardinality(UsedIn(P)) \in Nat
  BY <1>5, UsedFinite DEF GoodTable, IsTable
<1> HIDE DEF W
<1>. QED
  BY <1>4, <1>5, <1>6, <1>7, <1>8 DEF Drifts, Tallied

DriftInv == TableInv /\ Drifts(table)

\* At first nothing is counted.
LEMMA DriftInit == Init => DriftInv
<1> SUFFICES ASSUME Init PROVE DriftInv
  OBVIOUS
<1>1. UsedIn(table) = {} /\ table.entries = 0
  <2>1. Cleared(1).entries = 0
    BY DEF Cleared
  <2>. QED
    BY <2>1, ClearedGood DEF Init, NewTable
<1>. QED
  BY <1>1, TableInvInit, FS_EmptySet DEF DriftInv, Drifts

\* Every step keeps the drift small.
LEMMA DriftNext == DriftInv /\ FitsInv /\ [Next]_vars => DriftInv'
<1> SUFFICES ASSUME DriftInv, FitsInv, [Next]_vars PROVE Drifts(table)'
  BY TableInvNext DEF DriftInv
<1>1. GoodTable(table) /\ Drifts(table)
  BY DEF DriftInv, TableInv
<1>2. CASE UNCHANGED table
  BY <1>1, <1>2 DEF Drifts, UsedIn, Positions
<1>3. CASE InitTable
  <2>1. num_nodes \in Nat \ {0} /\ table' = Resized(Cleared(1), num_nodes)
    BY <1>3, NodeCountsAssumption DEF InitTable, FitsInv, Untouched, TableInv
  <2>2. table' = Cleared(num_nodes)
    BY <2>1, ResizedEmpty
  <2>3. UsedIn(table') = {} /\ table'.entries = 0
    BY <2>1, <2>2, ClearedGood DEF Cleared
  <2>. QED
    BY <2>3, FS_EmptySet DEF Drifts
<1>4. ASSUME NEW k \in Keys, NEW v \in Rows, Put(k, v) PROVE Drifts(table')
  BY <1>1, <1>4, PlaceDrifts DEF Put
<1>5. ASSUME NEW k \in Keys, NEW v \in Rows, PutExpanding(k, v) PROVE Drifts(table')
  BY <1>1, <1>5, ExpandedDrifts DEF PutExpanding
<1>6. ASSUME NEW k \in Keys, NEW v \in Rows, Modify(k, v) PROVE Drifts(table')
  <2>1. table' = Place(table, k, v)
    BY <1>6, ModifyIsPlace DEF Modify
  <2>2. ~MustExpand(table, k)
    BY <1>6 DEF Modify, contains, bucket_for_key, MustExpand
  <2>. QED
    BY <1>1, <2>1, <2>2, PlaceDrifts
<1>7. \/ UNCHANGED table \/ InitTable
      \/ \E k \in Keys, v \in Rows : Put(k, v) \/ Modify(k, v) \/ PutExpanding(k, v)
  BY DEF Next, vars, Configured, InitTableFails, Loaded, Finished, Ended, ModifyMissing
<1>. QED
  BY <1>2, <1>3, <1>4, <1>5, <1>6, <1>7

\* DriftInv is an invariant.
LEMMA DriftInvariance == Spec => []DriftInv
BY DriftInit, DriftNext, FitsInvariance, PTL DEF Spec

\* entries_ of put and resize: never too few rows, never more than one too
\* many however often the table is filled up and expanded, and exactly their
\* number as long as the keys fit.
THEOREM TableCountRight == Spec => []CountRight
<1>1. FitsInv /\ DriftInv => CountRight
  <2> SUFFICES ASSUME FitsInv, DriftInv PROVE CountRight
    OBVIOUS
  <2>1. UsedIn(table) = InUse
    BY DEF UsedIn, InUse
  <2>2. Cardinality(UsedIn(table)) \in Nat /\ table.entries \in Nat
    BY UsedFinite DEF FitsInv, TableInv, GoodTable, IsTable
  <2>3. /\ Cardinality(UsedIn(table)) <= table.entries
        /\ table.entries <= Cardinality(UsedIn(table)) + 1
    BY DEF DriftInv, Drifts, TableInv, GoodTable, Counted
  <2>4. Fits => table.entries = Cardinality(UsedIn(table))
    BY DEF FitsInv, Exact
  <2>. QED
    BY <2>1, <2>2, <2>3, <2>4 DEF CountRight
<1>. QED
  BY <1>1, FitsInvariance, DriftInvariance, PTL

-----------------------------------------------------------------------------
(* The map.                                                                *)

\* At first the map is empty.
LEMMA FoundAtInit == Init => Promise!Init
<1> SUFFICES ASSUME Init PROVE Promise!Init
  OBVIOUS
<1>1. TableInv /\ Exact(table, written)
  BY TableInvInit, ClearedExact DEF Init, NewTable
<1>2. Found = written
  BY <1>1, FoundIsWritten
<1>. QED
  BY <1>2 DEF Init, Promise!Init

\* While the keys fit, the rows that are found are those written.
LEMMA WriteIsPut ==
  ASSUME FitsInv, FitsInv', phase \in {"load", "run"}, NEW k \in Keys, NEW v \in Rows,
         Wrote(k, v), UNCHANGED num_nodes, Fits'
  PROVE  Promise!Next
<1>1. Fits
  BY FitsAfterPut
<1>2. Found = written /\ Found' = written'
  BY <1>1, FoundIsWritten DEF FitsInv
<1>3. written' = [written EXCEPT ![k] = v] /\ written'[k] = v
  BY DEF Wrote, FitsInv, TableInv
<1>4. Promise!Put(k, v)
  BY <1>2, <1>3 DEF Promise!Put
<1>. QED
  BY <1>4 DEF Promise!Next

\* While the keys fit, every step puts the row it is asked to put, or none.
LEMMA StepIsPut ==
  ASSUME FitsInv, FitsInv', [Next]_vars, Fits'
  PROVE  [Promise!Next]_(Promise!vars)
<1> SUFFICES Promise!Next \/ (Found' = Found /\ written' = written)
  BY DEF Promise!vars
<1>1. CASE UNCHANGED <<table, written>>
  BY <1>1 DEF Found
<1>2. CASE InitTable
  <2>1. /\ Untouched /\ UNCHANGED <<num_nodes, written>>
    BY <1>2 DEF InitTable, FitsInv
  <2>2. Exact(table, written)
    BY <2>1, ClearedExact DEF Untouched
  <2>3. Found = written /\ Found' = written'
    BY <2>2, FoundIsWritten DEF FitsInv
  <2>. QED
    BY <2>1, <2>3
<1>3. ASSUME NEW k \in Keys, NEW v \in Rows, Put(k, v) \/ Modify(k, v)
      PROVE  Promise!Next
  <2>1. phase \in {"load", "run"} /\ Wrote(k, v) /\ UNCHANGED num_nodes
    BY <1>3 DEF Put, Modify
  <2>. QED
    BY <2>1, WriteIsPut
<1>4. ASSUME NEW k \in Keys, NEW v \in Rows, PutExpanding(k, v)
      PROVE  FALSE
  BY <1>4, NoExpansion
<1>5. \/ UNCHANGED <<table, written>> \/ InitTable
      \/ \E k \in Keys, v \in Rows : Put(k, v) \/ Modify(k, v) \/ PutExpanding(k, v)
  BY DEF Next, vars, Configured, InitTableFails, Loaded, Finished, Ended, ModifyMissing
<1>. QED
  BY <1>1, <1>2, <1>3, <1>4, <1>5

\* put, get and the changes of rows, seen through contains and get: as long
\* as the keys fit, each call changes the row of its key to the row it was
\* given, and nothing else.
THEOREM TableImplementsRowMap == Spec => ImplementsRowMap
<1>1. FitsInv /\ FitsInv' /\ [Next]_vars => [Fits' => [Promise!Next]_(Promise!vars)]_vars
  BY StepIsPut
<1>. QED
  BY <1>1, FoundAtInit, FitsInvariance, PTL DEF Spec, ImplementsRowMap

=============================================================================
