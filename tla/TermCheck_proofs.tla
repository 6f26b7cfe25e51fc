-------------------------- MODULE TermCheck_proofs --------------------------
(***************************************************************************)
(* For every table and every additive algorithm: a sum taken row by row    *)
(* while the values change lies between the totals at the ends of its      *)
(* pass, and what the check concludes from two such sums is right.         *)
(***************************************************************************)
EXTENDS TermCheck, FiniteSetTheorems, TLAPS

-----------------------------------------------------------------------------
(* Least numbers.                                                          *)

\* A set of numbers has a least one.
LEMMA Least ==
  ASSUME NEW S, S \subseteq Nat, S # {}
  PROVE  \E x \in S : \A y \in S : x <= y
<1>1. PICK x \in S : \A y \in S : <<y, x>> \notin OpToRel(<, Nat)
  BY WFMin, NatLessThanWellFounded
<1>2. \A y \in S : ~(y < x)
  BY <1>1 DEF OpToRel
<1>. QED
  BY <1>2

\* Min of a set of numbers is one of them, and the least.
LEMMA MinIsLeast ==
  ASSUME NEW S, S \subseteq Nat, S # {}
  PROVE  Min(S) \in S /\ \A y \in S : Min(S) <= y
BY Least DEF Min

-----------------------------------------------------------------------------
(* Sums over the first buckets.                                            *)

\* What bucket b counts.
Counts(values, b) == IF b \in Keys THEN values[b] ELSE 0

Sums(values, m, f) ==
  f = [n \in 0 .. m |-> IF n = 0 THEN 0 ELSE f[n - 1] + Counts(values, n - 1)]

\* The recursive function of SumTo exists, by the least length without one.
LEMMA SumsExist ==
  ASSUME NEW values, NEW m \in Nat
  PROVE  \E f : Sums(values, m, f)
<1> DEFINE Bad == {l \in Nat : ~ \E f : Sums(values, l, f)}
<1> SUFFICES ASSUME Bad # {} PROVE FALSE
  OBVIOUS
<1>1. PICK l \in Bad : \A y \in Bad : l <= y
  BY Least
<1>2. l # 0
  <2>1. Sums(values, 0, [n \in 0 .. 0 |-> 0])
    BY DEF Sums
  <2>. QED
    BY <1>1, <2>1
<1>3. l \in Nat /\ l - 1 \in Nat /\ ~(l <= l - 1)
  BY <1>1, <1>2
<1>4. PICK f : Sums(values, l - 1, f)
  BY <1>1, <1>3
<1> DEFINE g == [n \in 0 .. l |-> IF n < l THEN f[n]
                                  ELSE f[l - 1] + Counts(values, l - 1)]
<1>5. ASSUME NEW n \in 0 .. l
      PROVE  g[n] = IF n = 0 THEN 0 ELSE g[n - 1] + Counts(values, n - 1)
  <2>1. CASE n = 0
    BY <1>3, <1>4, <2>1 DEF Sums
  <2>2. CASE n # 0 /\ n < l
    <3>1. n \in 0 .. l - 1 /\ n - 1 \in 0 .. l /\ n - 1 < l
      BY <1>3, <2>2
    <3>2. f[n] = f[n - 1] + Counts(values, n - 1)
      BY <1>4, <2>2, <3>1 DEF Sums
    <3>. QED
      BY <2>2, <3>1, <3>2
  <2>3. CASE n = l
    <3>1. l - 1 \in 0 .. l /\ l - 1 < l
      BY <1>3
    <3>. QED
      BY <1>2, <2>3, <3>1
  <2>. QED
    BY <1>3, <2>1, <2>2, <2>3
<1>6. g = [n \in 0 .. l |-> g[n]]
  OBVIOUS
<1> HIDE DEF g
<1>7. Sums(values, l, g)
  BY <1>5, <1>6 DEF Sums
<1>. QED
  BY <1>1, <1>7

\* SumTo satisfies its recursion.
LEMMA SumToIs ==
  ASSUME NEW values
  PROVE  Sums(values, TableSize, SumTo(values))
<1> DEFINE sum[n \in 0 .. TableSize] ==
             IF n = 0 THEN 0
             ELSE sum[n - 1] + (IF n - 1 \in Keys THEN values[n - 1] ELSE 0)
<1>1. \E f : f = [n \in 0 .. TableSize |->
                    IF n = 0 THEN 0
                    ELSE f[n - 1] + (IF n - 1 \in Keys THEN values[n - 1] ELSE 0)]
  <2>1. PICK f : Sums(values, TableSize, f)
    BY SumsExist, TableSizeAssumption
  <2>. QED
    BY <2>1 DEF Sums, Counts
<1>2. sum = [n \in 0 .. TableSize |->
               IF n = 0 THEN 0
               ELSE sum[n - 1] + (IF n - 1 \in Keys THEN values[n - 1] ELSE 0)]
  BY <1>1
<1>3. SumTo(values) = sum
  BY DEF SumTo
<1> HIDE DEF sum
<1>4. Sums(values, TableSize, sum)
  BY <1>2 DEF Sums, Counts
<1>. QED
  BY <1>3, <1>4

\* The sum up to a bucket, unfolded.
LEMMA SumToStep ==
  ASSUME NEW values, NEW n \in 0 .. TableSize
  PROVE  SumTo(values)[n] = IF n = 0 THEN 0
                            ELSE SumTo(values)[n - 1] + Counts(values, n - 1)
BY SumToIs DEF Sums

\* Sums are numbers, and values that are nowhere less have no smaller sums.
LEMMA SumsCompare ==
  ASSUME NEW low \in [Keys -> Nat], NEW high \in [Keys -> Nat],
         \A k \in Keys : low[k] <= high[k], NEW n \in 0 .. TableSize
  PROVE  /\ SumTo(low)[n] \in Nat /\ SumTo(high)[n] \in Nat
         /\ SumTo(low)[n] <= SumTo(high)[n]
<1> DEFINE Fine(i) == /\ SumTo(low)[i] \in Nat /\ SumTo(high)[i] \in Nat
                      /\ SumTo(low)[i] <= SumTo(high)[i]
           Bad == {i \in 0 .. TableSize : ~Fine(i)}
<1> SUFFICES ASSUME Bad # {} PROVE FALSE
  <2>1. Bad = {} => Fine(n)
    OBVIOUS
  <2>. QED
    BY <2>1
<1>0. Bad \subseteq Nat
  BY TableSizeAssumption
<1>1. PICK i \in Bad : \A y \in Bad : i <= y
  BY <1>0, Least
<1>2. i \in 0 .. TableSize /\ TableSize \in Nat
  BY TableSizeAssumption
<1>3. i # 0
  BY <1>1, SumToStep
<1>4. i - 1 \in 0 .. TableSize /\ ~(i <= i - 1)
  BY <1>2, <1>3
<1>5. Fine(i - 1)
  BY <1>1, <1>4
<1>6. /\ Counts(low, i - 1) \in Nat /\ Counts(high, i - 1) \in Nat
      /\ Counts(low, i - 1) <= Counts(high, i - 1)
  BY DEF Counts
<1>7. /\ SumTo(low)[i] = SumTo(low)[i - 1] + Counts(low, i - 1)
      /\ SumTo(high)[i] = SumTo(high)[i - 1] + Counts(high, i - 1)
  BY <1>2, <1>3, SumToStep
<1>8. Fine(i)
  BY <1>5, <1>6, <1>7
<1>. QED
  BY <1>1, <1>8

\* Free buckets add nothing.
LEMMA SumOverFree ==
  ASSUME NEW values \in [Keys -> Nat], NEW m \in 0 .. TableSize,
         NEW n \in 0 .. TableSize, m <= n, \A b \in m .. n - 1 : b \notin Keys
  PROVE  SumTo(values)[n] = SumTo(values)[m]
<1> DEFINE Bad == {i \in m .. n : SumTo(values)[i] # SumTo(values)[m]}
<1>0. TableSize \in Nat /\ n \in m .. n /\ Bad \subseteq Nat
  BY TableSizeAssumption
<1> SUFFICES ASSUME Bad # {} PROVE FALSE
  <2>1. Bad = {} => SumTo(values)[n] = SumTo(values)[m]
    BY <1>0
  <2>. QED
    BY <2>1
<1>1. PICK i \in Bad : \A y \in Bad : i <= y
  BY <1>0, Least
<1>2. i \in m .. n /\ i # m
  BY <1>1
<1>3. i \in 0 .. TableSize /\ i # 0 /\ i - 1 \in m .. n - 1 /\ i - 1 \in m .. n /\ ~(i <= i - 1)
  BY <1>0, <1>2
<1>4. SumTo(values)[i - 1] = SumTo(values)[m]
  BY <1>1, <1>3
<1>5. SumTo(values)[i] = SumTo(values)[i - 1] + 0
  BY <1>3, SumToStep DEF Counts
<1>6. SumTo(values)[m] \in Nat
  BY SumsCompare
<1>. QED
  BY <1>1, <1>4, <1>5, <1>6

-----------------------------------------------------------------------------
(* The inductive invariant.                                                *)

Mail == [to : Keys, v : Values]

Typed ==
  /\ v1 \in [Keys -> Values] /\ v2 \in [Keys -> Values]
  /\ BagToSet(mail) \subseteq Mail
  /\ atEnd \in [Keys -> Values] /\ atStart \in [Keys -> Values]
  /\ TypeOK

\* The values only grow, from the end of a pass to the next one and on.
Grown ==
  /\ \A k \in Keys : atEnd[k] <= v2[k] /\ atStart[k] <= v2[k]
  /\ phase \in {"pass", "end"} => \A k \in Keys : atEnd[k] <= atStart[k]

\* During a pass, the partial sum lies between the sums of the buckets it has
\* passed, of the values then and of the values now.
Bracketed ==
  phase = "pass" =>
    /\ SumTo(atStart)[cpos + 1] <= partial_curr
    /\ partial_curr <= SumTo(v2)[cpos + 1]

\* last is no more than the values were when its pass ended; the sum that
\* ended the computation is near it, and no less than when its pass began.
Compared ==
  /\ last # Never => last <= Total(atEnd)
  /\ phase = "end" => Close(curr) /\ Total(atStart) <= curr

TermInv == Typed /\ Grown /\ Bracketed /\ Compared

\* Values can be summed up.
LEMMA ValuesAreNumbers ==
  ASSUME NEW f \in [Keys -> Values]
  PROVE  f \in [Keys -> Nat]
BY ValuesAssumption

\* Greater values have a greater total.
LEMMA TotalsCompare ==
  ASSUME NEW low \in [Keys -> Values], NEW high \in [Keys -> Values],
         \A k \in Keys : low[k] <= high[k]
  PROVE  Total(low) \in Nat /\ Total(high) \in Nat /\ Total(low) <= Total(high)
<1>1. TableSize \in 0 .. TableSize
  BY TableSizeAssumption
<1>. QED
  BY <1>1, ValuesAreNumbers, SumsCompare DEF Total

\* TermInv holds at first.
LEMMA TermInvInit == CheckInit => TermInv
<1> SUFFICES ASSUME CheckInit PROVE TermInv
  OBVIOUS
<1> USE DEF CheckInit, Init
<1>1. Typed
  BY ValuesAssumption, TableSizeAssumption
     DEF Typed, TypeOK, Mail, BagToSet, EmptyBag, SetToBag
<1>2. Grown
  BY <1>1, ValuesAreNumbers DEF Grown, Typed
<1>. QED
  BY <1>1, <1>2 DEF TermInv, Bracketed, Compared

\* The execute threads keep the types, and no value falls.
LEMMA WorkGrows ==
  ASSUME Typed, Work
  PROVE  Typed' /\ \A k \in Keys : v2[k] <= v2'[k]
<1> USE DEF Typed
<1>0. UNCHANGED check
  BY DEF Work
<1>1. CASE \E k \in Keys : Update(k)
  <2>1. PICK k \in Keys : Update(k)
    BY <1>1
  <2>2. v1' \in [Keys -> Values] /\ v2' \in [Keys -> Values]
    BY <2>1, ValuesAssumption DEF Update
  <2>3. \A j \in Keys : v2[j] <= v2'[j]
    BY <2>1, ValuesAssumption, ValuesAreNumbers DEF Update
  <2> DEFINE sent == [i \in DOMAIN Links[k] |->
                        [to |-> Links[k][i], v |-> Gain(k, i, v1[k])]]
  <2>4. ASSUME NEW i \in DOMAIN sent PROVE sent[i] \in Mail
    <3>1. Links[k][i] \in Keys
      BY LinksAssumption
    <3>2. Gain(k, i, v1[k]) \in Values
      BY ValuesAssumption
    <3>. QED
      BY <3>1, <3>2 DEF Mail
  <2>5. mail' = mail (+) BagOf(sent)
    BY <2>1 DEF Update
  <2> HIDE DEF sent
  <2>6. BagToSet(mail') \subseteq Mail
    BY <2>4, <2>5 DEF BagToSet, BagOf, (+)
  <2>. QED
    BY <1>0, <2>2, <2>3, <2>6 DEF check, TypeOK
<1>2. CASE \E m \in BagToSet(mail) : Receive(m)
  <2>1. PICK m \in BagToSet(mail) : Receive(m)
    BY <1>2
  <2>2. m.to \in Keys /\ m.v \in Values
    BY DEF Mail
  <2>3. v1' \in [Keys -> Values] /\ v2' = v2
    BY <2>1, <2>2, ValuesAssumption DEF Receive
  <2>4. BagToSet(mail') \subseteq Mail
    BY <2>1 DEF Receive, BagToSet, (-)
  <2>. QED
    BY <1>0, <2>3, <2>4, ValuesAreNumbers DEF check, TypeOK
<1>. QED
  BY <1>1, <1>2 DEF Work

\* A value that grows during a pass keeps the bounds.
LEMMA TermInvWork ==
  ASSUME TermInv, Work
  PROVE  TermInv'
<1> USE DEF TermInv
<1>1. Typed /\ Typed' /\ \A k \in Keys : v2[k] <= v2'[k]
  BY WorkGrows
<1>2. UNCHANGED check
  BY DEF Work
<1>3. /\ v2 \in [Keys -> Nat] /\ v2' \in [Keys -> Nat]
      /\ atEnd \in [Keys -> Nat] /\ atStart \in [Keys -> Nat]
  BY <1>1, ValuesAreNumbers DEF Typed
<1>4. Grown'
  BY <1>1, <1>2, <1>3 DEF Grown, check
<1>5. Bracketed'
  <2> SUFFICES ASSUME phase = "pass" PROVE Bracketed'
    BY <1>2 DEF Bracketed, check
  <2>1. cpos + 1 \in 0 .. TableSize /\ partial_curr \in Nat
    BY <1>1, TableSizeAssumption DEF Typed, TypeOK
  <2>2. /\ SumTo(v2)[cpos + 1] \in Nat /\ SumTo(v2')[cpos + 1] \in Nat
        /\ SumTo(v2)[cpos + 1] <= SumTo(v2')[cpos + 1]
    BY <1>1, <1>3, <2>1, SumsCompare
  <2>3. partial_curr <= SumTo(v2)[cpos + 1] /\ SumTo(atStart)[cpos + 1] <= partial_curr
    BY DEF Bracketed
  <2>4. partial_curr <= SumTo(v2')[cpos + 1]
    BY <2>1, <2>2, <2>3
  <2>. QED
    BY <1>2, <2>3, <2>4 DEF Bracketed, check
<1>6. Compared'
  BY <1>2 DEF Compared, Close, check
<1>. QED
  BY <1>1, <1>4, <1>5, <1>6

\* A pass begins with a sum of 0 and bounds of 0.
LEMMA TermInvStartPass ==
  ASSUME TermInv, StartPass
  PROVE  TermInv'
<1> USE DEF TermInv, StartPass
<1>1. Typed'
  BY TableSizeAssumption DEF Typed, TypeOK, vars
<1>2. v2 \in [Keys -> Nat] /\ atEnd \in [Keys -> Nat]
  BY ValuesAreNumbers DEF Typed
<1>3. Grown'
  BY <1>2 DEF Grown, vars
<1>4. Bracketed'
  <2>1. 0 \in 0 .. TableSize
    BY TableSizeAssumption
  <2>2. SumTo(v2)[0] = 0
    BY <2>1, SumToStep
  <2>. QED
    BY <2>2 DEF Bracketed, vars
<1>5. Compared'
  BY DEF Compared
<1>. QED
  BY <1>1, <1>3, <1>4, <1>5

\* What AddRow adds up to bucket k.
LEMMA SumToRow ==
  ASSUME NEW f \in [Keys -> Nat], cpos \in -1 .. TableSize - 1, Left # {}
  PROVE  /\ Min(Left) \in Keys /\ cpos + 1 \in 0 .. TableSize
         /\ SumTo(f)[Min(Left) + 1] = SumTo(f)[cpos + 1] + f[Min(Left)]
<1> DEFINE k == Min(Left)
<1>1. TableSize \in Nat /\ Left \subseteq Nat /\ Left \subseteq Keys
  <2>1. Left \subseteq Keys
    BY DEF Left
  <2>2. TableSize \in Nat /\ Keys \subseteq Nat
    BY TableSizeAssumption
  <2>. QED
    BY <2>1, <2>2
<1>2. k \in Left /\ \A j \in Left : k <= j
  BY <1>1, MinIsLeast
<1> HIDE DEF k
<1>3. k \in Keys /\ k \in 0 .. TableSize - 1 /\ k > cpos
  BY <1>2, TableSizeAssumption DEF Left
<1>4. cpos + 1 \in 0 .. TableSize /\ k \in 0 .. TableSize /\ cpos + 1 <= k
  BY <1>1, <1>3
<1>5. ASSUME NEW b \in cpos + 1 .. k - 1 PROVE b \notin Keys
  BY <1>2, <1>3, <1>4, <1>5 DEF Left
<1>6. SumTo(f)[k] = SumTo(f)[cpos + 1]
  BY <1>4, <1>5, SumOverFree
<1>7. SumTo(f)[k + 1] = SumTo(f)[k] + Counts(f, k)
  <2> DEFINE n == k + 1
  <2>1. n \in 0 .. TableSize /\ n # 0 /\ n - 1 = k
    BY <1>1, <1>3
  <2> HIDE DEF n
  <2>2. SumTo(f)[n] = SumTo(f)[k] + Counts(f, k)
    BY <2>1, SumToStep
  <2>. QED
    BY <2>2 DEF n
<1>. QED
  BY <1>3, <1>4, <1>6, <1>7 DEF Counts, k

\* The next row is added to the sum and to both bounds.
LEMMA TermInvAddRow ==
  ASSUME TermInv, AddRow
  PROVE  TermInv'
<1> USE DEF TermInv
<1> DEFINE k == Min(Left)
<1>1. /\ v2 \in [Keys -> Nat] /\ atStart \in [Keys -> Nat]
      /\ cpos \in -1 .. TableSize - 1 /\ partial_curr \in Nat
  BY ValuesAreNumbers DEF Typed, TypeOK
<1>2. /\ k \in Keys /\ cpos + 1 \in 0 .. TableSize
      /\ SumTo(v2)[k + 1] = SumTo(v2)[cpos + 1] + v2[k]
      /\ SumTo(atStart)[k + 1] = SumTo(atStart)[cpos + 1] + atStart[k]
  BY <1>1, SumToRow DEF AddRow
<1> HIDE DEF k
<1>3. /\ phase = "pass" /\ cpos' = k
      /\ UNCHANGED <<vars, phase, curr, last, atEnd, atStart>>
  BY DEF AddRow, k
<1>4. partial_curr' = partial_curr + v2[k]
  BY <1>1, <1>2, ValuesAssumption DEF AddRow, k
<1>5. v2[k] \in Nat /\ atStart[k] \in Nat /\ atStart[k] <= v2[k]
  BY <1>1, <1>2 DEF Grown
<1>6. Typed'
  BY <1>1, <1>2, <1>3, <1>4, <1>5, TableSizeAssumption DEF Typed, TypeOK, vars
<1>7. Grown'
  BY <1>3 DEF Grown, vars
<1>8. Bracketed'
  <2>1. SumTo(v2)[cpos + 1] \in Nat /\ SumTo(atStart)[cpos + 1] \in Nat
    BY <1>1, <1>2, SumsCompare
  <2>2. SumTo(atStart)[cpos + 1] <= partial_curr /\ partial_curr <= SumTo(v2)[cpos + 1]
    BY <1>3 DEF Bracketed
  <2>3. /\ SumTo(atStart)[k + 1] <= partial_curr'
        /\ partial_curr' <= SumTo(v2)[k + 1]
    BY <1>1, <1>2, <1>4, <1>5, <2>1, <2>2
  <2>. QED
    BY <1>3, <2>3 DEF Bracketed, vars
<1>9. Compared'
  BY <1>3 DEF Compared
<1>. QED
  BY <1>6, <1>7, <1>8, <1>9

\* A pass that has come to the end has summed up all buckets.
LEMMA PassEnds ==
  ASSUME TermInv, phase = "pass", Left = {}
  PROVE  /\ Total(atEnd) \in Nat /\ Total(atStart) \in Nat /\ Total(v2) \in Nat
         /\ Total(atEnd) <= Total(atStart)
         /\ Total(atStart) <= partial_curr /\ partial_curr <= Total(v2)
<1> USE DEF TermInv
<1>1. /\ v2 \in [Keys -> Values] /\ atStart \in [Keys -> Values]
      /\ atEnd \in [Keys -> Values]
      /\ cpos \in -1 .. TableSize - 1
  BY DEF Typed, TypeOK
<1>2. v2 \in [Keys -> Nat] /\ atStart \in [Keys -> Nat]
  BY <1>1, ValuesAreNumbers
<1>3. /\ cpos + 1 \in 0 .. TableSize /\ TableSize \in 0 .. TableSize
      /\ cpos + 1 <= TableSize
  BY <1>1, TableSizeAssumption
<1>4. ASSUME NEW b \in cpos + 1 .. TableSize - 1 PROVE b \notin Keys
  BY <1>1, <1>4, TableSizeAssumption DEF Left
<1>5. /\ Total(v2) = SumTo(v2)[cpos + 1]
      /\ Total(atStart) = SumTo(atStart)[cpos + 1]
  BY <1>2, <1>3, <1>4, SumOverFree DEF Total
<1>6. /\ Total(atEnd) \in Nat /\ Total(atStart) \in Nat /\ Total(v2) \in Nat
      /\ Total(atEnd) <= Total(atStart)
  BY <1>1, TotalsCompare DEF Grown
<1>. QED
  BY <1>5, <1>6 DEF Bracketed

\* At the end of a pass the bounds are the totals.
LEMMA TermInvEndPass ==
  ASSUME TermInv, EndPass
  PROVE  TermInv'
<1> USE DEF TermInv
<1>1. /\ phase = "pass" /\ Left = {} /\ curr' = partial_curr
      /\ UNCHANGED <<vars, cpos, partial_curr, atStart>>
  BY DEF EndPass
<1>2. /\ Total(atStart) <= partial_curr /\ partial_curr <= Total(v2)
  BY <1>1, PassEnds
<1>3. CASE Close(curr') /\ phase' = "end" /\ UNCHANGED <<last, atEnd>>
  <2>1. Typed'
    BY <1>1, <1>3 DEF Typed, TypeOK, vars
  <2>2. Grown'
    BY <1>1, <1>3 DEF Grown, vars
  <2>3. Compared'
    BY <1>1, <1>2, <1>3 DEF Compared, Close
  <2>. QED
    BY <1>3, <2>1, <2>2, <2>3 DEF Bracketed
<1>4. CASE phase' = "wait" /\ last' = curr' /\ atEnd' = v2
  <2>1. Typed'
    BY <1>1, <1>4 DEF Typed, TypeOK, vars
  <2>2. \A k \in Keys : v2[k] <= v2[k]
    BY ValuesAreNumbers DEF Typed
  <2>3. Grown'
    BY <1>1, <1>4, <2>2 DEF Grown, vars
  <2>4. Compared'
    BY <1>1, <1>2, <1>4 DEF Compared
  <2>. QED
    BY <1>4, <2>1, <2>3, <2>4 DEF Bracketed
<1>. QED
  BY <1>3, <1>4 DEF EndPass

\* Every step keeps TermInv.
LEMMA TermInvStep == TermInv /\ [CheckNext]_allVars => TermInv'
<1> SUFFICES ASSUME TermInv, [CheckNext]_allVars PROVE TermInv'
  OBVIOUS
<1>1. CASE Work
  BY <1>1, TermInvWork
<1>2. CASE StartPass
  BY <1>2, TermInvStartPass
<1>3. CASE AddRow
  BY <1>3, TermInvAddRow
<1>4. CASE EndPass
  BY <1>4, TermInvEndPass
<1>5. CASE UNCHANGED allVars
  BY <1>5 DEF allVars, vars, check, TermInv, Typed, TypeOK, Grown, Bracketed,
              Compared, Close
<1>. QED
  BY <1>1, <1>2, <1>3, <1>4, <1>5 DEF CheckNext, Check

\* TermInv is an invariant.
LEMMA TermInvAlways == CheckSpec => []TermInv
BY TermInvInit, TermInvStep, PTL DEF CheckSpec

-----------------------------------------------------------------------------
(* The properties.                                                         *)

\* A sum estimate_prog takes while run_iter changes values lies between the
\* totals when its pass began and when it ended.
THEOREM SumsAreBracketed == CheckSpec => []CheckInv
<1>1. TermInv => CheckInv
  BY PassEnds DEF CheckInv, SumBracketed, TermInv, Typed
<1>. QED
  BY <1>1, TermInvAlways, PTL

\* The sums that TermCheckers::Diff sees one after another never fall.
THEOREM SumsNeverFall == CheckSpec => SumsGrow
<1>1. TermInv /\ [CheckNext]_allVars => [last # Never => curr' >= last]_curr
  <2> SUFFICES ASSUME TermInv, [CheckNext]_allVars, curr' # curr, last # Never
               PROVE  curr' >= last
    OBVIOUS
  <2>1. EndPass
    BY DEF CheckNext, Check, Work, check, StartPass, AddRow, allVars
  <2>2. phase = "pass" /\ Left = {} /\ curr' = partial_curr
    BY <2>1 DEF EndPass
  <2>3. /\ Total(atEnd) \in Nat /\ Total(atStart) \in Nat
        /\ Total(atEnd) <= Total(atStart) /\ Total(atStart) <= partial_curr
    BY <2>2, PassEnds
  <2>4. last \in Nat /\ last <= Total(atEnd) /\ partial_curr \in Nat
    BY DEF TermInv, Typed, TypeOK, Compared
  <2>. QED
    BY <2>2, <2>3, <2>4
<1>. QED
  BY <1>1, TermInvAlways, PTL DEF CheckSpec, SumsGrow

\* When terminate ends the computation, all values together have grown by no
\* more than termcheck_threshold from the end of the pass before to the start
\* of the last one.
THEOREM ChecksAreRight == CheckSpec => []QuietBetweenPasses
<1>1. TermInv => QuietBetweenPasses
  <2> SUFFICES ASSUME TermInv, phase = "end"
               PROVE  Total(atStart) - Total(atEnd) <= Threshold
    BY DEF QuietBetweenPasses
  <2>1. /\ last # Never /\ Distance(curr, last) <= Threshold
        /\ last <= Total(atEnd) /\ Total(atStart) <= curr
    BY DEF TermInv, Compared, Close
  <2>2. curr \in Nat /\ last \in Nat /\ Threshold \in Nat
    BY <2>1, ThresholdAssumption DEF TermInv, Typed, TypeOK
  <2>3. Total(atEnd) \in Nat /\ Total(atStart) \in Nat
    BY TotalsCompare DEF TermInv, Typed, Grown
  <2>. QED
    BY <2>1, <2>2, <2>3 DEF Distance
<1>. QED
  BY <1>1, TermInvAlways, PTL

=============================================================================
