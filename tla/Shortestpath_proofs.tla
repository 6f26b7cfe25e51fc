------------------------- MODULE Shortestpath_proofs -------------------------
(***************************************************************************)
(* With accumulate and g_func of shortestpath.cpp the values are never     *)
(* below the lengths of shortest paths, and are these lengths when nothing *)
(* is left to be spread: for every graph, weights and number of threads.   *)
(***************************************************************************)
EXTENDS Shortestpath, VertexUpdate_proofs

-----------------------------------------------------------------------------
(* Lengths of paths with at most n arcs.                                   *)

\* A set of numbers has a least one.
LEMMA LeastNumber ==
  ASSUME NEW S \in SUBSET Nat, S # {}
  PROVE  \E x \in S : \A y \in S : x <= y
<1>1. PICK x \in S : \A y \in S : <<y, x>> \notin OpToRel(<, Nat)
  BY WFMin, NatLessThanWellFounded
<1>2. ASSUME NEW y \in S PROVE x <= y
  <2>1. x \in Nat /\ y \in Nat /\ ~(y < x)
    BY <1>1 DEF OpToRel
  <2>. QED
    BY <2>1
<1>. QED
  BY <1>2

\* A bounded set of numbers has a greatest one.
LEMMA GreatestNumber ==
  ASSUME NEW n \in Nat, NEW S \in SUBSET (0 .. n), S # {}
  PROVE  \E x \in S : \A y \in S : y <= x
<1> DEFINE Bounds == {b \in Nat : \A y \in S : y <= b}
<1>1. n \in Bounds
  OBVIOUS
<1>2. PICK b \in Bounds : \A c \in Bounds : b <= c
  BY <1>1, LeastNumber
<1>3. b \in S
  <2>1. SUFFICES ASSUME b \notin S PROVE FALSE
    OBVIOUS
  <2>2. \A y \in S : y \in Nat /\ y <= b /\ y # b
    BY <2>1
  <2>3. b # 0
    <3>1. PICK y \in S : TRUE
      OBVIOUS
    <3>. QED
      BY <2>2, <3>1
  <2>4. b - 1 \in Bounds
    BY <2>2, <2>3
  <2>. QED
    BY <1>2, <2>4
<1>. QED
  BY <1>3

-----------------------------------------------------------------------------
(* The reference.                                                          *)

\* Lengths that no link and no beginning contradicts.
Potentials ==
  {f \in [Keys -> Values] :
     /\ \A k \in Keys : f[k] <= init_c[k]
     /\ \A k \in Keys : \A i \in DOMAIN Links[k] :
          f[Links[k][i]] <= f[k] + Weights[k][i]}

\* One more arc makes no length greater, and as small as the links allow.
LEMMA ExtendedIs ==
  ASSUME NEW length \in [Keys -> Values]
  PROVE  /\ Extended(length) \in [Keys -> Values]
         /\ \A k \in Keys : Extended(length)[k] <= length[k]
         /\ \A k \in Keys : \A i \in DOMAIN Links[k] :
              Extended(length)[Links[k][i]] <= length[k] + Weights[k][i]
         /\ \A k \in Keys :
              \/ Extended(length)[k] = length[k]
              \/ \E j \in Keys : \E i \in DOMAIN Links[j] :
                   Links[j][i] = k /\ Extended(length)[k] = length[j] + Weights[j][i]
<1> DEFINE Via(k) == {length[l[1]] + Weights[l[1]][l[2]] : l \in Into(k)} \cup {length[k]}
<1>1. ASSUME NEW k \in Keys
      PROVE  /\ Extended(length)[k] \in Via(k) /\ Via(k) \in SUBSET Nat
             /\ \A e \in Via(k) : Extended(length)[k] <= e
  <2>1. Via(k) \in SUBSET Nat
    <3>1. ASSUME NEW l \in Into(k) PROVE length[l[1]] + Weights[l[1]][l[2]] \in Nat
      <4>1. l[1] \in Keys /\ l[2] \in DOMAIN Links[l[1]]
        BY IntoFinite
      <4>2. Weights[l[1]][l[2]] \in Nat /\ length[l[1]] \in Nat
        BY <4>1, WeightsAssumption, AlgorithmAssumption
      <4>. QED
        BY <4>2
    <3>2. length[k] \in Nat
      BY WeightsAssumption, AlgorithmAssumption
    <3>. QED
      BY <3>1, <3>2
  <2>2. Via(k) # {}
    OBVIOUS
  <2>3. Extended(length)[k] = CHOOSE d \in Via(k) : \A e \in Via(k) : d <= e
    BY DEF Extended, Into
  <2> HIDE DEF Via
  <2>4. \E d \in Via(k) : \A e \in Via(k) : d <= e
    BY <2>1, <2>2, LeastNumber
  <2>. QED
    BY <2>1, <2>3, <2>4
<1>2. \A k \in Keys : Extended(length)[k] \in Nat /\ Extended(length)[k] <= length[k]
  <2>1. \A k \in Keys : length[k] \in Via(k)
    OBVIOUS
  <2> HIDE DEF Via
  <2>. QED
    BY <1>1, <2>1
<1>3. Extended(length) \in [Keys -> Values]
  <2>1. Extended(length) = [k \in Keys |-> Extended(length)[k]]
    BY DEF Extended
  <2>2. \A k \in Keys : Extended(length)[k] \in Values
    BY <1>2, WeightsAssumption, AlgorithmAssumption
  <2>. QED
    BY <2>1, <2>2
<1>4. ASSUME NEW k \in Keys, NEW i \in DOMAIN Links[k]
      PROVE  Extended(length)[Links[k][i]] <= length[k] + Weights[k][i]
  <2> DEFINE j == Links[k][i]
  <2>1. <<k, i>> \in Into(j)
    BY IntoFinite
  <2>2. length[k] + Weights[k][i] \in Via(j)
    BY <2>1
  <2>3. j \in Keys
    BY LinksAssumption, ElementOfSeq
  <2> HIDE DEF j, Via
  <2>4. Extended(length)[j] <= length[k] + Weights[k][i]
    BY <1>1, <2>2, <2>3
  <2>. QED
    BY <2>4 DEF j
<1>5. ASSUME NEW k \in Keys, Extended(length)[k] # length[k]
      PROVE  \E j \in Keys : \E i \in DOMAIN Links[j] :
               Links[j][i] = k /\ Extended(length)[k] = length[j] + Weights[j][i]
  <2>1. PICK l \in Into(k) : Extended(length)[k] = length[l[1]] + Weights[l[1]][l[2]]
    BY <1>1, <1>5
  <2>2. l[1] \in Keys /\ l[2] \in DOMAIN Links[l[1]] /\ Links[l[1]][l[2]] = k
    BY IntoFinite
  <2>. QED
    BY <2>1, <2>2
<1>. QED
  BY <1>2, <1>3, <1>4, <1>5

\* Lengths of paths with 0, 1, ... and m arcs.
Lengths(m, f) ==
  f = [n \in 0 .. m |-> IF n = 0 THEN init_c ELSE Extended(f[n - 1])]

\* There are such lengths for any m.
LEMMA LengthsExist ==
  ASSUME NEW m \in Nat
  PROVE  \E f : Lengths(m, f)
<1> DEFINE Bad == {l \in Nat : ~ \E f : Lengths(l, f)}
<1> SUFFICES ASSUME Bad # {} PROVE FALSE
  OBVIOUS
<1>1. PICK l \in Bad : \A y \in Bad : l <= y
  BY LeastNumber
<1>2. l # 0
  <2>1. Lengths(0, [n \in 0 .. 0 |-> init_c])
    BY DEF Lengths
  <2>. QED
    BY <1>1, <2>1
<1>3. l \in Nat /\ l - 1 \in Nat /\ ~(l <= l - 1)
  BY <1>1, <1>2
<1>4. PICK f : Lengths(l - 1, f)
  BY <1>1, <1>3
<1> DEFINE g == [n \in 0 .. l |-> IF n < l THEN f[n] ELSE Extended(f[l - 1])]
<1>5. ASSUME NEW n \in 0 .. l
      PROVE  g[n] = IF n = 0 THEN init_c ELSE Extended(g[n - 1])
  <2>1. CASE n = 0
    BY <1>3, <1>4, <2>1 DEF Lengths
  <2>2. CASE n # 0 /\ n < l
    <3>1. n \in 0 .. l - 1 /\ n - 1 \in 0 .. l /\ n - 1 < l
      BY <1>3, <2>2
    <3>2. f[n] = Extended(f[n - 1])
      BY <1>4, <2>2, <3>1 DEF Lengths
    <3>. QED
      BY <2>2, <3>1, <3>2
  <2>3. CASE n = l
    <3>1. l - 1 \in 0 .. l /\ l - 1 < l
      BY <1>3
    <3>. QED
      BY <1>2, <2>3, <3>1
  <2>. QED
    BY <1>3, <2>1, <2>2, <2>3
<1>6. g = [n \in 0 .. l |-> g[n]]
  OBVIOUS
<1> HIDE DEF g
<1>7. Lengths(l, g)
  BY <1>5, <1>6 DEF Lengths
<1>. QED
  BY <1>1, <1>7

\* Counting the vertices.
LEMMA KeysCount == IsFiniteSet(Keys) /\ Cardinality(Keys) \in Nat
BY FiniteAssumption, FS_CardinalityType

\* The definition of PathLength, unfolded.
LEMMA PathLengthIs ==
  ASSUME NEW n \in 0 .. Cardinality(Keys)
  PROVE  PathLength[n] = IF n = 0 THEN init_c ELSE Extended(PathLength[n - 1])
<1>1. Lengths(Cardinality(Keys), PathLength)
  <2> DEFINE N == Cardinality(Keys)
             q == CHOOSE f : f = [m \in 0 .. N |-> IF m = 0 THEN init_c ELSE Extended(f[m - 1])]
  <2>1. \E f : f = [m \in 0 .. N |-> IF m = 0 THEN init_c ELSE Extended(f[m - 1])]
    BY KeysCount, LengthsExist DEF Lengths
  <2>2. q = [m \in 0 .. N |-> IF m = 0 THEN init_c ELSE Extended(q[m - 1])]
    BY <2>1
  <2>3. PathLength = q
    BY DEF PathLength
  <2>. QED
    BY <2>2, <2>3 DEF Lengths
<1>. QED
  BY <1>1 DEF Lengths

\* Paths have lengths, and none exceeds what its vertex begins with.
LEMMA PathLengthType ==
  ASSUME NEW n \in 0 .. Cardinality(Keys)
  PROVE  /\ PathLength[n] \in [Keys -> Values]
         /\ \A k \in Keys : PathLength[n][k] <= init_c[k]
<1> DEFINE N == Cardinality(Keys)
           Fine(m) == /\ PathLength[m] \in [Keys -> Values]
                      /\ \A k \in Keys : PathLength[m][k] <= init_c[k]
           Bad == {m \in 0 .. N : ~Fine(m)}
<1> SUFFICES ASSUME Bad # {} PROVE FALSE
  <2>1. Bad = {} => Fine(n)
    OBVIOUS
  <2>. QED
    BY <2>1
<1>1. PICK m \in Bad : \A y \in Bad : m <= y
  <2>1. Bad \in SUBSET Nat
    BY KeysCount
  <2> HIDE DEF Bad
  <2>. QED
    BY <2>1, LeastNumber
<1>2. init_c \in [Keys -> Values] /\ \A k \in Keys : init_c[k] <= init_c[k]
  BY WeightsAssumption, AlgorithmAssumption DEF init_c
<1>3. m # 0
  BY <1>1, <1>2, PathLengthIs
<1>4. m - 1 \in 0 .. N /\ ~(m <= m - 1)
  BY <1>1, <1>3, KeysCount
<1>5. Fine(m - 1)
  BY <1>1, <1>4
<1> DEFINE p == PathLength[m - 1]
<1>6. PathLength[m] = Extended(p)
  BY <1>1, <1>3, PathLengthIs
<1>7. p \in [Keys -> Values] /\ \A k \in Keys : p[k] <= init_c[k]
  BY <1>5
<1> HIDE DEF p
<1>8. Extended(p) \in [Keys -> Values] /\ \A k \in Keys : Extended(p)[k] <= p[k]
  BY <1>7, ExtendedIs
<1>9. \A k \in Keys : Extended(p)[k] <= init_c[k]
  BY <1>2, <1>7, <1>8, WeightsAssumption, AlgorithmAssumption
<1>. QED
  BY <1>1, <1>6, <1>8, <1>9

-----------------------------------------------------------------------------
(* The lengths of shortest paths are the greatest potential.               *)

\* No potential exceeds a path.
LEMMA PotentialsBelow ==
  ASSUME NEW f \in Potentials, NEW n \in 0 .. Cardinality(Keys)
  PROVE  \A k \in Keys : f[k] <= PathLength[n][k]
<1> DEFINE N == Cardinality(Keys)
           Fine(m) == \A k \in Keys : f[k] <= PathLength[m][k]
           Bad == {m \in 0 .. N : ~Fine(m)}
<1> SUFFICES ASSUME Bad # {} PROVE FALSE
  <2>1. Bad = {} => Fine(n)
    OBVIOUS
  <2>. QED
    BY <2>1
<1>1. PICK m \in Bad : \A y \in Bad : m <= y
  <2>1. Bad \in SUBSET Nat
    BY KeysCount
  <2> HIDE DEF Bad
  <2>. QED
    BY <2>1, LeastNumber
<1>2. /\ f \in [Keys -> Values] /\ \A k \in Keys : f[k] <= init_c[k]
      /\ \A k \in Keys : \A i \in DOMAIN Links[k] :
           f[Links[k][i]] <= f[k] + Weights[k][i]
  BY DEF Potentials
<1>3. m # 0
  BY <1>1, <1>2, PathLengthIs
<1>4. m - 1 \in 0 .. N /\ ~(m <= m - 1)
  BY <1>1, <1>3, KeysCount
<1> DEFINE p == PathLength[m - 1]
<1>5. p \in [Keys -> Values] /\ \A k \in Keys : f[k] <= p[k]
  BY <1>1, <1>4, PathLengthType
<1>6. PathLength[m] = Extended(p)
  BY <1>1, <1>3, PathLengthIs
<1> HIDE DEF p
<1>7. ASSUME NEW k \in Keys PROVE f[k] <= Extended(p)[k]
  <2>1. CASE Extended(p)[k] = p[k]
    BY <1>5, <2>1
  <2>2. ASSUME NEW j \in Keys, NEW i \in DOMAIN Links[j], Links[j][i] = k,
               Extended(p)[k] = p[j] + Weights[j][i]
        PROVE  f[k] <= Extended(p)[k]
    <3>1. f[k] <= f[j] + Weights[j][i] /\ f[j] <= p[j]
      BY <1>2, <1>5, <2>2
    <3>2. f[k] \in Nat /\ f[j] \in Nat /\ p[j] \in Nat /\ Weights[j][i] \in Nat
      BY <1>2, <1>5, WeightsAssumption, AlgorithmAssumption
    <3>. QED
      BY <2>2, <3>1, <3>2
  <2>. QED
    BY <1>5, <2>1, <2>2, ExtendedIs
<1>. QED
  BY <1>1, <1>6, <1>7

\* Of all potentials, the greatest length at each vertex.
Greatest ==
  [k \in Keys |-> CHOOSE d \in {f[k] : f \in Potentials} :
                    \A e \in {f[k] : f \in Potentials} : e <= d]

\* It is a potential itself.
LEMMA GreatestIs ==
  /\ Greatest \in Potentials
  /\ \A f \in Potentials : \A k \in Keys : f[k] <= Greatest[k]
<1> DEFINE At(k) == {f[k] : f \in Potentials}
<1>1. [k \in Keys |-> 0] \in Potentials
  <2>1. \A k \in Keys : \A i \in DOMAIN Links[k] : Links[k][i] \in Keys
    BY LinksAssumption, ElementOfSeq
  <2>2. [k \in Keys |-> 0] \in [Keys -> Values]
    BY WeightsAssumption, AlgorithmAssumption
  <2>. QED
    BY <2>1, <2>2, WeightsAssumption DEF Potentials, init_c
<1>2. ASSUME NEW k \in Keys
      PROVE  Greatest[k] \in At(k) /\ \A e \in At(k) : e <= Greatest[k]
  <2>1. At(k) \in SUBSET (0 .. imax) /\ At(k) # {}
    BY <1>1, AlgorithmAssumption DEF Potentials
  <2>2. Greatest[k] = CHOOSE d \in At(k) : \A e \in At(k) : e <= d
    BY DEF Greatest
  <2> HIDE DEF At
  <2>3. \E d \in At(k) : \A e \in At(k) : e <= d
    BY <2>1, GreatestNumber, WeightsAssumption
  <2>. QED
    BY <2>2, <2>3
<1>3. \A f \in Potentials : \A k \in Keys : f[k] <= Greatest[k]
  BY <1>2
<1>4. Greatest \in [Keys -> Values] /\ \A k \in Keys : Greatest[k] <= init_c[k]
  <2>1. \A k \in Keys : Greatest[k] \in Values /\ Greatest[k] <= init_c[k]
    BY <1>2 DEF Potentials
  <2>. QED
    BY <2>1 DEF Greatest
<1>5. ASSUME NEW k \in Keys, NEW i \in DOMAIN Links[k]
      PROVE  Greatest[Links[k][i]] <= Greatest[k] + Weights[k][i]
  <2>1. Links[k][i] \in Keys
    BY LinksAssumption, ElementOfSeq
  <2>2. PICK f \in Potentials : Greatest[Links[k][i]] = f[Links[k][i]]
    BY <1>2, <2>1
  <2>3. f[Links[k][i]] <= f[k] + Weights[k][i] /\ f[k] <= Greatest[k] /\ f \in [Keys -> Values]
    BY <1>3 DEF Potentials
  <2>4. f[Links[k][i]] \in Nat /\ f[k] \in Nat /\ Greatest[k] \in Nat /\ Weights[k][i] \in Nat
    BY <1>4, <2>1, <2>3, WeightsAssumption, AlgorithmAssumption
  <2>. QED
    BY <2>2, <2>3, <2>4
<1>. QED
  BY <1>3, <1>4, <1>5 DEF Potentials

\* The vertices whose greatest length paths with at most n arcs reach.
Reached(n) == {k \in Keys : PathLength[n][k] = Greatest[k]}

\* The lengths lie between the greatest potential and the beginning.
LEMMA LengthsBounds ==
  ASSUME NEW n \in 0 .. Cardinality(Keys), NEW k \in Keys
  PROVE  /\ PathLength[n][k] \in Nat /\ Greatest[k] \in Nat
         /\ Greatest[k] <= PathLength[n][k] /\ PathLength[n][k] <= init_c[k]
         /\ init_c[k] \in 0 .. imax
<1>1. PathLength[n][k] \in Values /\ PathLength[n][k] <= init_c[k]
  BY PathLengthType
<1>2. Greatest[k] \in Values /\ Greatest[k] <= PathLength[n][k]
  BY GreatestIs, PotentialsBelow DEF Potentials
<1>3. init_c[k] \in 0 .. imax
  BY WeightsAssumption DEF init_c
<1>. QED
  BY <1>1, <1>2, <1>3, WeightsAssumption, AlgorithmAssumption

\* One arc more reaches another vertex, as long as there is one: otherwise
\* the lengths of those that are not reached could all grow by one.
LEMMA ReachedGrows ==
  ASSUME NEW n \in Nat, n + 1 \in 0 .. Cardinality(Keys)
  PROVE  /\ Reached(n) \subseteq Reached(n + 1)
         /\ Reached(n + 1) = Reached(n) => Reached(n) = Keys
<1> DEFINE p == PathLength[n]
           q == PathLength[n + 1]
<1>1. n \in 0 .. Cardinality(Keys) /\ n + 1 \in 0 .. Cardinality(Keys)
      /\ n + 1 # 0 /\ (n + 1) - 1 = n
  BY KeysCount
<1>2. q = Extended(p)
  BY <1>1, PathLengthIs
<1>3. p \in [Keys -> Values]
  BY <1>1, PathLengthType
<1>4. \A k \in Keys : /\ p[k] \in Nat /\ q[k] \in Nat /\ Greatest[k] \in Nat
                      /\ Greatest[k] <= q[k] /\ q[k] <= init_c[k] /\ init_c[k] \in 0 .. imax
  BY <1>1, LengthsBounds
<1>5. /\ \A k \in Keys : q[k] <= p[k]
      /\ \A k \in Keys : \A i \in DOMAIN Links[k] :
           q[Links[k][i]] <= p[k] + Weights[k][i]
  <2> HIDE DEF p, q
  <2>. QED
    BY <1>2, <1>3, ExtendedIs
<1>6. Reached(n) \subseteq Reached(n + 1)
  <2>1. ASSUME NEW k \in Keys, p[k] = Greatest[k] PROVE q[k] = Greatest[k]
    <3> HIDE DEF p, q
    <3>1. q[k] <= p[k] /\ Greatest[k] <= q[k] /\ q[k] \in Nat /\ p[k] \in Nat
      BY <1>4, <1>5
    <3>. QED
      BY <2>1, <3>1
  <2>. QED
    BY <2>1 DEF Reached
<1>7. ASSUME Reached(n + 1) = Reached(n), NEW z \in Keys, z \notin Reached(n)
      PROVE  FALSE
  <2> DEFINE T == Reached(n)
             g == [k \in Keys |-> IF k \in T THEN Greatest[k] ELSE Greatest[k] + 1]
  <2>1. \A k \in Keys : /\ k \in T => p[k] = Greatest[k]
                        /\ k \notin T => q[k] # Greatest[k]
    BY <1>7 DEF Reached
  <2> HIDE DEF p, q, T
  <2>2. \A k \in Keys : k \notin T => Greatest[k] + 1 <= q[k]
    <3>1. ASSUME NEW k \in Keys, k \notin T PROVE Greatest[k] + 1 <= q[k]
      <4>1. q[k] \in Nat /\ Greatest[k] \in Nat /\ Greatest[k] <= q[k] /\ q[k] # Greatest[k]
        BY <1>4, <2>1, <3>1
      <4>. QED
        BY <4>1
    <3>. QED
      BY <3>1
  <2>3. ASSUME NEW k \in Keys PROVE g[k] \in 0 .. imax /\ g[k] <= init_c[k]
    <3>1. /\ q[k] \in Nat /\ Greatest[k] \in Nat /\ Greatest[k] <= q[k]
          /\ q[k] <= init_c[k] /\ init_c[k] \in 0 .. imax
      BY <1>4
    <3>2. CASE k \in T
      BY <3>1, <3>2, WeightsAssumption
    <3>3. CASE k \notin T
      <4>1. Greatest[k] + 1 <= q[k]
        BY <2>2, <3>3
      <4>. QED
        BY <3>1, <3>3, <4>1, WeightsAssumption
    <3>. QED
      BY <3>2, <3>3
  <2>4. ASSUME NEW k \in Keys, NEW i \in DOMAIN Links[k]
        PROVE  g[Links[k][i]] <= g[k] + Weights[k][i]
    <3> DEFINE j == Links[k][i]
               w == Weights[k][i]
    <3>1. j \in Keys /\ w \in Nat
      BY LinksAssumption, ElementOfSeq, WeightsAssumption
    <3>2. Greatest[j] <= Greatest[k] + w /\ q[j] <= p[k] + w
      BY <1>5, GreatestIs DEF Potentials
    <3> HIDE DEF j, w
    <3>3. /\ Greatest[j] \in Nat /\ Greatest[k] \in Nat /\ q[j] \in Nat /\ p[k] \in Nat
          /\ g[j] = IF j \in T THEN Greatest[j] ELSE Greatest[j] + 1
          /\ g[k] = IF k \in T THEN Greatest[k] ELSE Greatest[k] + 1
          /\ j \notin T => Greatest[j] + 1 <= q[j]
          /\ k \in T => p[k] = Greatest[k]
      BY <1>4, <2>1, <2>2, <3>1
    <3>4. g[j] <= g[k] + w
      <4> HIDE DEF g
      <4>. QED
        BY <3>1, <3>2, <3>3
    <3>. QED
      BY <3>4 DEF j, w
  <2>5. g \in Potentials
    <3>1. g \in [Keys -> Values]
      BY <2>3, AlgorithmAssumption
    <3> HIDE DEF g
    <3>. QED
      BY <2>3, <2>4, <3>1 DEF Potentials
  <2>6. g[z] = Greatest[z] + 1 /\ Greatest[z] \in Nat
    BY <1>4, <1>7 DEF T
  <2>7. g[z] <= Greatest[z]
    <3> HIDE DEF g
    <3>. QED
      BY <2>5, GreatestIs
  <2>. QED
    <3> HIDE DEF g
    <3>. QED
      BY <2>6, <2>7
<1>. QED
  BY <1>6, <1>7 DEF Reached

\* n arcs reach n vertices; as many arcs as there are vertices reach them all.
LEMMA AllReached == Reached(Cardinality(Keys)) = Keys
<1> DEFINE N == Cardinality(Keys)
           Fine(m) == Cardinality(Reached(m)) >= m
           Bad == {m \in 0 .. N : ~Fine(m)}
<1>0. \A m : Reached(m) \in SUBSET Keys /\ IsFiniteSet(Reached(m)) /\ Cardinality(Reached(m)) \in Nat
             /\ Cardinality(Reached(m)) <= N
             /\ (Cardinality(Reached(m)) = N => Reached(m) = Keys)
  <2>1. \A m : Reached(m) \in SUBSET Keys
    BY DEF Reached
  <2>. QED
    BY <2>1, KeysCount, FS_Subset, FS_CardinalityType
<1>1. Bad = {}
  <2> SUFFICES ASSUME Bad # {} PROVE FALSE
    OBVIOUS
  <2>1. PICK m \in Bad : \A y \in Bad : m <= y
    <3>1. Bad \in SUBSET Nat
      BY KeysCount
    <3> HIDE DEF Bad
    <3>. QED
      BY <3>1, LeastNumber
  <2>2. m # 0
    BY <1>0, <2>1
  <2> DEFINE n == m - 1
  <2>3. n \in Nat /\ n \in 0 .. N /\ ~(m <= n) /\ m = n + 1
    BY <2>1, <2>2, KeysCount
  <2>4. Fine(n) /\ ~Fine(n + 1) /\ n + 1 \in 0 .. N
    BY <2>1, <2>3
  <2> HIDE DEF n
  <2>5. /\ Reached(n) \subseteq Reached(n + 1)
        /\ Reached(n + 1) = Reached(n) => Reached(n) = Keys
    BY <2>3, <2>4, ReachedGrows
  <2>6. /\ Cardinality(Reached(n)) <= Cardinality(Reached(n + 1))
        /\ Cardinality(Reached(n)) = Cardinality(Reached(n + 1)) => Reached(n) = Reached(n + 1)
    BY <1>0, <2>5, FS_Subset
  <2>7. Cardinality(Reached(n)) \in Nat /\ Cardinality(Reached(n + 1)) \in Nat
    BY <1>0
  <2>8. CASE Reached(n + 1) = Reached(n)
    <3>1. Reached(n + 1) = Keys
      BY <2>5, <2>8
    <3>. QED
      BY <2>4, <3>1, KeysCount
  <2>9. CASE Reached(n + 1) # Reached(n)
    BY <2>3, <2>4, <2>6, <2>7, <2>9
  <2>. QED
    BY <2>8, <2>9
<1>2. Fine(N)
  <2>1. N \in 0 .. N
    BY KeysCount
  <2>. QED
    BY <1>1, <2>1
<1>. QED
  BY <1>0, <1>2, KeysCount

\* The lengths of shortest paths are the greatest potential.
LEMMA DistanceIs ==
  /\ Distance \in Potentials
  /\ \A f \in Potentials : \A k \in Keys : f[k] <= Distance[k]
<1>1. Cardinality(Keys) \in 0 .. Cardinality(Keys)
  BY KeysCount
<1>2. Distance \in [Keys -> Values]
  BY <1>1, PathLengthType DEF Distance
<1>3. \A k \in Keys : Distance[k] = Greatest[k]
  BY AllReached DEF Reached, Distance
<1>4. Greatest \in [Keys -> Values]
  BY GreatestIs DEF Potentials
<1>5. Distance = Greatest
  BY <1>2, <1>3, <1>4
<1>. QED
  BY <1>5, GreatestIs

-----------------------------------------------------------------------------
(* No value falls below a potential; at rest the values are one.           *)

\* Neither a delta, nor a value, nor a message is below f.
NotBelow(f) ==
  /\ \A k \in Keys : f[k] <= Deltas[k] /\ f[k] <= v2[k]
  /\ \A m \in DOMAIN Mail : f[m.to] <= m.v

\* What a potential is, in numbers.
LEMMA PotentialType ==
  ASSUME NEW f \in Potentials
  PROVE  /\ Values = 0 .. imax /\ imax \in Nat /\ Values \subseteq Nat
         /\ \A k \in Keys : f[k] \in Nat /\ f[k] <= imax /\ f[k] <= InitDelta[k]
                            /\ f[k] <= Default
         /\ \A k \in Keys : \A i \in DOMAIN Links[k] :
              /\ Links[k][i] \in Keys /\ Weights[k][i] \in Nat
              /\ f[Links[k][i]] <= f[k] + Weights[k][i]
<1>1. Values = 0 .. imax /\ imax \in Nat /\ Values \subseteq Nat
      /\ InitDelta = init_c /\ Default = imax
  BY WeightsAssumption, AlgorithmAssumption
<1>2. \A k \in Keys : f[k] \in Values /\ f[k] <= init_c[k]
  BY DEF Potentials
<1>3. \A k \in Keys : \A i \in DOMAIN Links[k] : Links[k][i] \in Keys
  BY LinksAssumption, ElementOfSeq
<1>4. \A k \in Keys : \A i \in DOMAIN Links[k] :
        f[Links[k][i]] <= f[k] + Weights[k][i]
  BY DEF Potentials
<1>. QED
  BY <1>1, <1>2, <1>3, <1>4, WeightsAssumption

\* What is not below f stays so when it is accumulated or sent on.
LEMMA AccNotBelow ==
  ASSUME NEW a \in Values, NEW b \in Values, NEW n \in Nat
  PROVE  /\ Acc(a, b) \in Nat /\ Acc(a, b) <= a /\ Acc(a, b) <= b
         /\ Acc(a, b) = a \/ Acc(a, b) = b
         /\ n <= a /\ n <= b => n <= Acc(a, b)
<1>1. a \in Nat /\ b \in Nat /\ Acc(a, b) = Least(a, b)
  BY WeightsAssumption, AlgorithmAssumption DEF accumulate
<1>. QED
  BY <1>1 DEF Least

\* A message spread from a delta that is not below f is not below it either.
LEMMA GainNotBelow ==
  ASSUME NEW f \in Potentials, NEW k \in Keys, NEW i \in DOMAIN Links[k],
         NEW d \in Values, f[k] <= d
  PROVE  f[Links[k][i]] <= Gain(k, i, d)
<1> DEFINE x == f[Links[k][i]]
           y == f[k]
           w == Weights[k][i]
<1>1. /\ x \in Nat /\ y \in Nat /\ w \in Nat /\ x <= y + w /\ x <= imax /\ imax \in Nat
      /\ d \in Nat /\ y <= d
  BY PotentialType
<1>2. Gain(k, i, d) = Least(d + w, imax)
  BY AlgorithmAssumption DEF g_func
<1> HIDE DEF x, y, w
<1>3. x <= Least(d + w, imax)
  BY <1>1 DEF Least
<1>. QED
  BY <1>2, <1>3 DEF x

\* The first deltas are not below a potential.
LEMMA NotBelowInit ==
  ASSUME NEW f \in Potentials, Init
  PROVE  NotBelow(f)
<1>1. Deltas = InitDelta /\ v2 = [k \in Keys |-> Default] /\ Mail = Promise!EmptyBag
  BY PromiseInit, MailIs DEF Promise!Init, Deltas
<1>2. DOMAIN Mail = {}
  BY <1>1 DEF Promise!EmptyBag, Promise!SetToBag
<1>. QED
  BY <1>1, <1>2, PotentialType DEF NotBelow

\* Neither an update nor a receipt of DeltaSpec brings anything below it.
LEMMA NotBelowStep ==
  ASSUME NEW f \in Potentials, VertexInv, VertexInv', [Next]_vars, NotBelow(f)
  PROVE  NotBelow(f)'
<1>1. v2 \in States /\ Deltas \in States /\ IsMail(Mail)
  BY StateTypes
<1>2. /\ \A k \in Keys : f[k] <= Deltas[k] /\ f[k] <= v2[k] /\ f[k] \in Nat
      /\ \A m \in DOMAIN Mail : f[m.to] <= m.v
  BY PotentialType DEF NotBelow
<1>3. SUFFICES /\ \A k \in Keys : f[k] <= Deltas'[k] /\ f[k] <= v2'[k]
               /\ \A m \in DOMAIN Mail' : f[m.to] <= m.v
  BY DEF NotBelow
<1>4. CASE UNCHANGED Promise!vars
  <2>1. Deltas' = Deltas /\ v2' = v2 /\ Mail' = Mail
    BY <1>4, MailIs DEF Promise!vars, Deltas
  <2>. QED
    BY <1>2, <2>1
<1>5. ASSUME NEW k \in Keys, Promise!Update(k)
      PROVE  /\ \A j \in Keys : f[j] <= Deltas'[j] /\ f[j] <= v2'[j]
             /\ \A m \in DOMAIN Mail' : f[m.to] <= m.v
  <2> DEFINE s == [i \in DOMAIN Links[k] |->
                     [to |-> Links[k][i], v |-> Gain(k, i, Deltas[k])]]
             Q == Promise!BagOf(s)
  <2>1. /\ v2' = [v2 EXCEPT ![k] = Acc(@, Deltas[k])]
        /\ Deltas' = [Deltas EXCEPT ![k] = Default]
        /\ Mail' = Promise!(+)(Mail, Promise!BagOf(s))
    BY <1>5, MailIs DEF Promise!Update, Deltas
  <2>2. Deltas[k] \in Values /\ v2[k] \in Values /\ f[k] \in Nat
    BY <1>1, <1>2 DEF States
  <2>3. f[k] <= Acc(v2[k], Deltas[k])
    BY <1>2, <2>2, AccNotBelow
  <2>4. \A j \in Keys : f[j] <= Deltas'[j] /\ f[j] <= v2'[j]
    BY <1>1, <1>2, <2>1, <2>3, PotentialType DEF States
  <2>5. \A m \in DOMAIN Q : \E i \in DOMAIN Links[k] :
          m.to = Links[k][i] /\ m.v = Gain(k, i, Deltas[k])
    <3>1. /\ DOMAIN s = DOMAIN Links[k]
          /\ \A i \in DOMAIN s :
               s[i].to = Links[k][i] /\ s[i].v = Gain(k, i, Deltas[k])
      OBVIOUS
    <3> HIDE DEF s
    <3>2. DOMAIN Q = {s[i] : i \in DOMAIN s}
      BY DEF Promise!BagOf
    <3>. QED
      BY <3>1, <3>2
  <2>6. DOMAIN Mail' = DOMAIN Mail \cup DOMAIN Q
    BY <2>1 DEF Promise!(+)
  <2>7. ASSUME NEW m \in DOMAIN Q PROVE f[m.to] <= m.v
    BY <1>2, <2>2, <2>5, GainNotBelow
  <2> HIDE DEF Q
  <2>. QED
    BY <1>2, <2>4, <2>6, <2>7
<1>6. ASSUME NEW n \in Promise!BagToSet(Mail), Promise!Receive(n)
      PROVE  /\ \A j \in Keys : f[j] <= Deltas'[j] /\ f[j] <= v2'[j]
             /\ \A m \in DOMAIN Mail' : f[m.to] <= m.v
  <2>1. /\ v2' = v2 /\ Deltas' = [Deltas EXCEPT ![n.to] = Acc(@, n.v)]
        /\ Mail' = Promise!(-)(Mail, Promise!SetToBag({n}))
    BY <1>6, MailIs DEF Promise!Receive, Deltas
  <2>2. n \in DOMAIN Mail /\ n.to \in Keys /\ n.v \in Values
    BY <1>1 DEF Promise!BagToSet, IsMail
  <2>3. Deltas[n.to] \in Values /\ f[n.to] \in Nat
    BY <1>1, <1>2, <2>2 DEF States
  <2>4. f[n.to] <= Acc(Deltas[n.to], n.v)
    BY <1>2, <2>2, <2>3, AccNotBelow
  <2>5. \A j \in Keys : f[j] <= Deltas'[j] /\ f[j] <= v2'[j]
    BY <1>1, <1>2, <2>1, <2>4 DEF States
  <2>6. DOMAIN Mail' \subseteq DOMAIN Mail
    BY <2>1 DEF Promise!(-)
  <2>. QED
    BY <1>2, <2>5, <2>6
<1>7. [Promise!Next]_(Promise!vars)
  BY PromiseStep
<1>8. Promise!Next => \/ \E k \in Keys : Promise!Update(k)
                      \/ \E m \in Promise!BagToSet(Mail) : Promise!Receive(m)
  BY MailIs DEF Promise!Next
<1>. QED
  BY <1>4, <1>5, <1>6, <1>7, <1>8

\* A fold of numbers is at most the base and each number.
LEMMA FoldAtMost ==
  ASSUME NEW S, IsFiniteSet(S), NEW f, \A x \in S : f[x] \in Values,
         NEW base \in Values
  PROVE  /\ Fold(base, f, S) <= base
         /\ \A x \in S : Fold(base, f, S) <= f[x]
<1>1. Fold(base, f, S) <= base
  <2>1. Default \in Values /\ Acc(Default, base) = base
    BY ValuesAssumption, AlgebraAssumption
  <2>2. Fold(Default, f, S) \in Values
    BY <2>1, FoldType
  <2>3. Fold(Acc(Default, base), f, S) = Acc(base, Fold(Default, f, S))
    <3> DEFINE z == Default
    <3>1. z \in Values
      BY <2>1
    <3> HIDE DEF z
    <3>2. Fold(Acc(z, base), f, S) = Acc(base, Fold(z, f, S))
      BY <3>1, FoldBase
    <3>. QED
      BY <3>2 DEF z
  <2>4. Acc(base, Fold(Default, f, S)) <= base
    BY <2>2, AccNotBelow
  <2>. QED
    BY <2>1, <2>3, <2>4
<1>2. ASSUME NEW x \in S PROVE Fold(base, f, S) <= f[x]
  <2>1. IsFiniteSet(S \ {x}) /\ \A y \in S \ {x} : f[y] \in Values
    BY FS_Subset
  <2>2. Fold(base, f, S \ {x}) \in Values
    BY <2>1, FoldType
  <2>3. Fold(base, f, S) = Acc(f[x], Fold(base, f, S \ {x}))
    BY FoldTakes
  <2>. QED
    BY <2>2, <2>3, AccNotBelow
<1>. QED
  BY <1>1, <1>2

\* When all threads are idle and no delta is left to be spread, the ledger
\* says that the values are lengths no link contradicts.
LEMMA QuietValues ==
  ASSUME VertexInv, LedgerHolds, AllIdle, \A k \in Keys : v1[k] >= v2[k]
  PROVE  v2 \in Potentials
<1>1. Deltas \in States /\ v2 \in States /\ v1 \in States /\ IsMail(Mail)
  BY StateTypes DEF VertexInv, TypeOK, States
<1>2. Deltas = v1
  <2>1. \A k \in Keys : Unspread(k) = v1[k]
    BY DEF Unspread, AllIdle
  <2>2. v1 = [k \in Keys |-> v1[k]]
    BY <1>1 DEF States
  <2>. QED
    BY <2>1, <2>2 DEF Deltas
<1>3. DOMAIN Mail = {}
  <2>1. \A t \in Threads : Unsents[t] = << >>
    BY DEF Unsents, Unsent, AllIdle
  <2>2. Flight(Unsents) = {}
    BY <2>1 DEF Flight
  <2>. QED
    BY <2>2 DEF Mail, MailOf
<1>4. ASSUME NEW j \in Keys PROVE v2[j] = GivenBy(v2, j)
  <2>1. HasBy(Deltas, v2, Mail, j) = GivenBy(v2, j)
    BY LedgerIsBalanced DEF Balanced
  <2>2. CopiesTo(Mail, j) = {}
    BY <1>3 DEF CopiesTo
  <2>3. HasBy(Deltas, v2, Mail, j) = Acc(v2[j], v1[j])
    BY <1>2, <2>2, FoldEmpty DEF HasBy
  <2>4. v2[j] \in Values /\ v1[j] \in Values /\ v1[j] >= v2[j]
    BY <1>1 DEF States
  <2>5. v2[j] \in Nat /\ v1[j] \in Nat
    BY <2>4, WeightsAssumption, AlgorithmAssumption
  <2>6. Acc(v2[j], v1[j]) = v2[j]
    <3>1. Acc(v2[j], v1[j]) = Least(v2[j], v1[j])
      BY <2>4, AlgorithmAssumption DEF accumulate
    <3>. QED
      BY <2>4, <2>5, <3>1 DEF Least
  <2>. QED
    BY <2>1, <2>3, <2>6
<1>5. ASSUME NEW j \in Keys
      PROVE  /\ IsFiniteSet(Into(j)) /\ InitDelta[j] \in Values
             /\ \A l \in Into(j) : Gains(v2, j)[l] \in Values
  <2>1. ASSUME NEW l \in Into(j) PROVE Gains(v2, j)[l] \in Values
    <3>1. l[1] \in Keys /\ l[2] \in DOMAIN Links[l[1]]
      BY IntoFinite
    <3>2. v2[l[1]] \in Values
      BY <1>1, <3>1 DEF States
    <3>. QED
      BY <3>1, <3>2, ValuesAssumption DEF Gains
  <2>. QED
    BY <2>1, IntoFinite, ValuesAssumption
<1>6. \A j \in Keys : v2[j] <= init_c[j]
  <2>1. \A j \in Keys : GivenBy(v2, j) <= InitDelta[j]
    BY <1>5, FoldAtMost DEF GivenBy
  <2>. QED
    BY <1>4, <2>1, AlgorithmAssumption
<1>7. ASSUME NEW k \in Keys, NEW i \in DOMAIN Links[k]
      PROVE  v2[Links[k][i]] <= v2[k] + Weights[k][i]
  <2> DEFINE j == Links[k][i]
  <2>1. j \in Keys
    BY LinksAssumption, ElementOfSeq
  <2>2. <<k, i>> \in Into(j)
    BY IntoFinite
  <2>3. GivenBy(v2, j) <= Gains(v2, j)[<<k, i>>]
    <3> HIDE DEF j
    <3>. QED
      BY <1>5, <2>1, <2>2, FoldAtMost DEF GivenBy
  <2>4. Gains(v2, j)[<<k, i>>] = Gain(k, i, v2[k])
    BY <2>2 DEF Gains
  <2>5. v2[k] \in Values /\ v2[k] \in Nat /\ Weights[k][i] \in Nat /\ imax \in Nat
        /\ v2[j] \in Nat
    BY <1>1, <2>1, WeightsAssumption, AlgorithmAssumption DEF States
  <2>6. Gain(k, i, v2[k]) = Least(v2[k] + Weights[k][i], imax)
    BY <2>5, AlgorithmAssumption DEF g_func
  <2>7. Gain(k, i, v2[k]) <= v2[k] + Weights[k][i]
    BY <2>5, <2>6 DEF Least
  <2>8. v2[j] <= Gain(k, i, v2[k])
    BY <1>4, <2>1, <2>3, <2>4
  <2>9. Gain(k, i, v2[k]) \in Nat
    BY <2>5, <2>6 DEF Least
  <2> DEFINE a == v2[j]
             b == Gain(k, i, v2[k])
             c == v2[k] + Weights[k][i]
  <2>10. a \in Nat /\ b \in Nat /\ c \in Nat /\ a <= b /\ b <= c
    BY <2>5, <2>7, <2>8, <2>9
  <2> HIDE DEF a, b, c
  <2>11. a <= c
    BY <2>10
  <2>. QED
    BY <2>11 DEF a, c
<1>. QED
  BY <1>1, <1>6, <1>7 DEF Potentials, States

\* The values of shortestpath never go below the shortest distances, and no
\* value is above its distance once all threads are idle and no delta is better
\* than the value beside it.
THEOREM DistancesAreSound == Spec => []DistancesSound
<1>1. Init => NotBelow(Distance)
  BY NotBelowInit, DistanceIs
<1>2. VertexInv /\ VertexInv' /\ [Next]_vars /\ NotBelow(Distance) => NotBelow(Distance)'
  BY NotBelowStep, DistanceIs
<1>3. VertexInv /\ LedgerHolds /\ NotBelow(Distance) => DistancesSound
  <2> SUFFICES ASSUME VertexInv, LedgerHolds, NotBelow(Distance) PROVE DistancesSound
    OBVIOUS
  <2>1. v2 \in [Keys -> Values] /\ Distance \in [Keys -> Values]
    BY StateTypes, DistanceIs DEF States, Potentials
  <2>2. \A k \in Keys : v2[k] \in Nat /\ Distance[k] \in Nat /\ Distance[k] <= v2[k]
    BY <2>1, WeightsAssumption, AlgorithmAssumption DEF NotBelow
  <2>3. ASSUME AllIdle, \A k \in Keys : v1[k] >= v2[k] PROVE v2 = Distance
    <3>1. \A k \in Keys : v2[k] <= Distance[k]
      BY <2>3, QuietValues, DistanceIs
    <3>2. \A k \in Keys : v2[k] = Distance[k]
      BY <2>2, <3>1
    <3>. QED
      BY <2>1, <3>2
  <2>. QED
    BY <2>2, <2>3 DEF DistancesSound
<1>. QED
  BY <1>1, <1>2, <1>3, Invariance, LedgerIsKept, PTL DEF Spec

=============================================================================
