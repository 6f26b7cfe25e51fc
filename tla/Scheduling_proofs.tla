-------------------------- MODULE Scheduling_proofs --------------------------
(***************************************************************************)
(* What the selection by a threshold guarantees for every table, sample    *)
(* size, schedule_portion and sample.                                      *)
(***************************************************************************)
EXTENDS Scheduling, FiniteSetTheorems, FunctionTheorems, TLAPS

-----------------------------------------------------------------------------
(* The selection.                                                          *)

\* The threshold is taken from a row of the sample: a portion that would lead
\* beyond it means that there is no sample.
LEMMA CutIndexInSample ==
  ASSUME TableOK, Sampling
  PROVE  cut_index \in 0 .. SampleSize - 1
<1>1. portion \in Nat /\ portion < 100
  BY PortionsAssumption DEF TableOK, Sampling
<1>2. SampleSize \in Nat /\ SampleSize > 0
  BY SampleSizeAssumption
<1> DEFINE n == SampleSize * portion
<1>3. n \in Nat /\ n < SampleSize * 100
  BY <1>1, <1>2, SMTT(30)
<1>4. n \div 100 \in Nat /\ n \div 100 < SampleSize
  <2> HIDE DEF n
  <2>. QED
    BY <1>2, <1>3
<1>. QED
  BY <1>2, <1>4 DEF cut_index

\* A priority is a number; so is the threshold of any sample.
LEMMA PrioritiesAreNumbers ==
  ASSUME TableOK PROVE \A b \in in_use : priority[b] \in Nat
BY PrioritiesAssumption DEF TableOK

\* Whatever the sample, a waiting row that no row exceeds is eligible: the
\* threshold is the priority of a row, and only another row of the sample
\* that is above it makes the test strict.
LEMMA MostUrgentIsEligible ==
  ASSUME TableOK, Sampling,
         NEW sampled_pos \in Samples,
         NEW b \in pending, \A c \in in_use : priority[b] >= priority[c]
  PROVE  b \in Eligible(sampled_pos)
<1>1. cut_index \in 0 .. SampleSize - 1 /\ 0 \in 0 .. SampleSize - 1
  BY CutIndexInSample, SampleSizeAssumption
<1>2. sampled_pos[0] \in in_use /\ sampled_pos[cut_index] \in in_use
  BY <1>1 DEF Samples
<1>3. b \in in_use
  BY DEF TableOK
<1>4. /\ priority[b] \in Nat
      /\ priority[sampled_pos[0]] \in Nat /\ priority[sampled_pos[cut_index]] \in Nat
  BY <1>2, <1>3, PrioritiesAreNumbers
<1>5. /\ priority[b] >= priority[sampled_pos[0]]
      /\ priority[b] >= priority[sampled_pos[cut_index]]
  BY <1>2
<1>6. cut_index # 0 => priority[sampled_pos[0]] >= priority[sampled_pos[cut_index]]
  <2>1. cut_index # 0 => ~compare_priority(sampled_pos[cut_index], sampled_pos[0])
    BY <1>1, SampleSizeAssumption DEF Samples
  <2>. QED
    BY <1>4, <2>1 DEF compare_priority
<1>7. CASE cut_index = 0 \/ priority[sampled_pos[0]] = priority[sampled_pos[cut_index]]
  BY <1>5, <1>7 DEF Eligible
<1>8. CASE ~(cut_index = 0 \/ priority[sampled_pos[0]] = priority[sampled_pos[cut_index]])
  <2>1. priority[b] > priority[sampled_pos[cut_index]]
    BY <1>4, <1>5, <1>6, <1>8
  <2>. QED
    BY <1>8, <2>1 DEF Eligible
<1>. QED
  BY <1>7, <1>8

\* A waiting row that is not eligible is below every eligible one.
LEMMA EligibleIsUpward ==
  ASSUME TableOK, Sampling,
         NEW sampled_pos \in Samples,
         NEW b \in Eligible(sampled_pos), NEW c \in pending \ Eligible(sampled_pos)
  PROVE  priority[c] < priority[b]
<1>1. cut_index \in 0 .. SampleSize - 1
  BY CutIndexInSample
<1>2. sampled_pos[cut_index] \in in_use
  BY <1>1 DEF Samples
<1>3. b \in in_use /\ c \in in_use
  BY DEF TableOK, Eligible
<1>4. /\ priority[b] \in Nat /\ priority[c] \in Nat
      /\ priority[sampled_pos[cut_index]] \in Nat
  BY <1>2, <1>3, PrioritiesAreNumbers
<1>5. CASE cut_index = 0 \/ priority[sampled_pos[0]] = priority[sampled_pos[cut_index]]
  <2>1. priority[b] >= priority[sampled_pos[cut_index]]
    BY <1>5 DEF Eligible
  <2>2. ~(priority[c] >= priority[sampled_pos[cut_index]])
    BY <1>5 DEF Eligible
  <2>. QED
    BY <1>4, <2>1, <2>2
<1>6. CASE ~(cut_index = 0 \/ priority[sampled_pos[0]] = priority[sampled_pos[cut_index]])
  <2>1. priority[b] > priority[sampled_pos[cut_index]]
    BY <1>6 DEF Eligible
  <2>2. ~(priority[c] > priority[sampled_pos[cut_index]])
    BY <1>6 DEF Eligible
  <2>. QED
    BY <1>4, <2>1, <2>2
<1>. QED
  BY <1>5, <1>6

\* The part of the type invariant the selection depends on; no step of a
\* round disturbs it, whatever row the position stands for.
THEOREM TableCorrect == Spec => []TableOK
<1>1. Init => TableOK
  BY DEF Init, TableOK
<1>2. TableOK /\ [Next]_vars => TableOK'
  <2> SUFFICES ASSUME TableOK, [Next]_vars PROVE TableOK'
    OBVIOUS
  <2>1. CASE UNCHANGED <<table, portion>>
    BY <2>1 DEF TableOK, table, Buckets
  <2>2. ASSUME NEW pos \in todo, RunIter(pos) PROVE TableOK'
    <3>1. in_use' = in_use /\ portion' = portion
      BY <2>2 DEF RunIter
    <3>2. pending' \subseteq in_use
      BY <2>2 DEF RunIter, TableOK
    <3>3. priority' \in [Buckets -> Priorities]
      BY <2>2, PrioritiesAssumption DEF RunIter, TableOK
    <3>. QED
      BY <3>1, <3>2, <3>3 DEF TableOK, Buckets
  <2>3. [Next]_vars => \/ UNCHANGED <<table, portion>>
                       \/ \E pos \in todo : RunIter(pos)
    BY DEF Next, vars, ScheduleWhole, ScheduleAll, ScheduleSampled, NewRound,
           Skip, EndRound
  <2>. QED
    BY <2>1, <2>2, <2>3
<1>. QED
  BY <1>1, <1>2, PTL DEF Spec

\* A round is planned by one of the constructors.
LEMMA PlannedBy ==
  ASSUME [Next]_vars, Planned
  PROVE  \/ scheduled' = in_use
         \/ /\ Sampling
            /\ \E sampled_pos \in Samples : scheduled' = Eligible(sampled_pos)
<1>1. phase = "plan" /\ phase' = "work"
  BY DEF Planned
<1>2. ScheduleWhole \/ ScheduleAll \/ ScheduleSampled
  BY <1>1 DEF Next, vars, round, Skip, RunIter, EndRound
<1>3. CASE ScheduleWhole \/ ScheduleAll
  BY <1>3 DEF ScheduleWhole, ScheduleAll, NewRound
<1>4. CASE ScheduleSampled
  BY <1>4 DEF ScheduleSampled, NewRound
<1>. QED
  BY <1>2, <1>3, <1>4

\* The row with the most urgent delta is scheduled in every round, whatever
\* rows the random sample of ScheduledIterator hits.
THEOREM MostUrgentIsScheduled == Spec => MostUrgentScheduled
<1>1. ASSUME TableOK, [Next]_vars
      PROVE  Planned => \A b \in pending :
               (\A c \in in_use : priority[b] >= priority[c]) => b \in scheduled'
  <2> SUFFICES ASSUME Planned, NEW b \in pending,
                      \A c \in in_use : priority[b] >= priority[c]
               PROVE  b \in scheduled'
    OBVIOUS
  <2>1. CASE scheduled' = in_use
    BY <1>1, <2>1 DEF TableOK
  <2>2. CASE /\ Sampling
             /\ \E sampled_pos \in Samples : scheduled' = Eligible(sampled_pos)
    BY <1>1, <2>2, MostUrgentIsEligible
  <2>. QED
    BY <1>1, <2>1, <2>2, PlannedBy
<1>2. TableOK /\ [Next]_vars =>
        [Planned => \A b \in pending :
           (\A c \in in_use : priority[b] >= priority[c]) => b \in scheduled']_vars
  BY <1>1
<1>. QED
  BY <1>2, TableCorrect, PTL DEF Spec, MostUrgentScheduled

\* The sample decides how many waiting rows are scheduled, never a less
\* urgent one before a more urgent one.
THEOREM PriorityIsRespected == Spec => PriorityOrder
<1>1. ASSUME TableOK, [Next]_vars
      PROVE  Planned =>
               \A b \in scheduled' \cap pending : \A c \in pending \ scheduled' :
                 priority[c] < priority[b]
  <2> SUFFICES ASSUME Planned, NEW b \in scheduled' \cap pending,
                      NEW c \in pending \ scheduled'
               PROVE  priority[c] < priority[b]
    OBVIOUS
  <2>1. CASE scheduled' = in_use
    BY <1>1, <2>1 DEF TableOK
  <2>2. CASE /\ Sampling
             /\ \E sampled_pos \in Samples : scheduled' = Eligible(sampled_pos)
    BY <1>1, <2>2, EligibleIsUpward
  <2>. QED
    BY <1>1, <2>1, <2>2, PlannedBy
<1>2. TableOK /\ [Next]_vars =>
        [Planned => \A b \in scheduled' \cap pending :
           \A c \in pending \ scheduled' : priority[c] < priority[b]]_vars
  BY <1>1
<1>. QED
  BY <1>2, TableCorrect, PTL DEF Spec, PriorityOrder

-----------------------------------------------------------------------------
(* The positions of scheduled_pos.                                         *)

Below(S, b) == {c \in S : c < b}

\* The table has as many buckets as its size says.
LEMMA BucketsFinite == IsFiniteSet(Buckets) /\ Cardinality(Buckets) = TableSize
BY FS_Interval, TableSizeAssumption DEF Buckets

\* Fewer rows are below a row than there are.
LEMMA RankBounded ==
  ASSUME NEW S \in SUBSET Buckets, NEW b \in S
  PROVE  /\ Cardinality(S) \in Nat
         /\ Cardinality(Below(S, b)) \in 0 .. Cardinality(S) - 1
<1>1. IsFiniteSet(S)
  BY BucketsFinite, FS_Subset
<1>2. Below(S, b) \in SUBSET S /\ b \notin Below(S, b)
  BY DEF Below, Buckets
<1>3. /\ IsFiniteSet(Below(S, b))
      /\ Cardinality(Below(S, b)) <= Cardinality(S)
      /\ Cardinality(Below(S, b)) # Cardinality(S)
  BY <1>1, <1>2, FS_Subset
<1>4. Cardinality(S) \in Nat /\ Cardinality(Below(S, b)) \in Nat
  BY <1>1, <1>3, FS_CardinalityType
<1>. QED
  BY <1>3, <1>4

\* ... and more below the larger one of two.
LEMMA RankGrows ==
  ASSUME NEW S \in SUBSET Buckets, NEW b \in S, NEW c \in S, b < c
  PROVE  Cardinality(Below(S, b)) < Cardinality(Below(S, c))
<1>1. IsFiniteSet(S)
  BY BucketsFinite, FS_Subset
<1>2. Below(S, c) \in SUBSET Buckets /\ b \in Below(S, c)
  BY DEF Below
<1>3. Below(Below(S, c), b) = Below(S, b)
  <2>1. ASSUME NEW d \in S, d < b PROVE d < c
    <3>1. d \in Int /\ b \in Int /\ c \in Int
      BY DEF Buckets
    <3>. QED
      BY <2>1, <3>1
  <2>. QED
    BY <2>1 DEF Below
<1>4. /\ Cardinality(Below(S, c)) \in Nat
      /\ Cardinality(Below(Below(S, c), b)) \in 0 .. Cardinality(Below(S, c)) - 1
  BY <1>2, RankBounded
<1>. QED
  BY <1>3, <1>4

\* No two rows have the same rank.
LEMMA RankUnique ==
  ASSUME NEW S \in SUBSET Buckets, NEW b \in S, NEW c \in S,
         Cardinality(Below(S, b)) = Cardinality(Below(S, c))
  PROVE  b = c
<1>1. b \in Int /\ c \in Int
  BY DEF Buckets
<1>2. /\ Cardinality(Below(S, b)) \in Int
      /\ ~(Cardinality(Below(S, b)) < Cardinality(Below(S, c)))
      /\ ~(Cardinality(Below(S, c)) < Cardinality(Below(S, b)))
  BY RankBounded
<1>3. ~(b < c) /\ ~(c < b)
  BY <1>2, RankGrows
<1>. QED
  BY <1>1, <1>3

\* Each position is the rank of a row: by counting, since ranks are unique.
LEMMA RankReached ==
  ASSUME NEW S \in SUBSET Buckets, NEW pos \in 0 .. Cardinality(S) - 1
  PROVE  \E b \in S : Cardinality(Below(S, b)) = pos
<1> DEFINE f == [b \in S |-> Cardinality(Below(S, b))]
           T == 0 .. Cardinality(S) - 1
<1>1. IsFiniteSet(S) /\ Cardinality(S) \in Nat
  BY BucketsFinite, FS_Subset, FS_CardinalityType
<1>2. IsFiniteSet(T) /\ Cardinality(T) = Cardinality(S)
  BY <1>1, FS_Interval
<1>3. f \in [S -> T]
  BY RankBounded
<1>4. \A b, c \in S : f[b] = f[c] => b = c
  BY RankUnique
<1> HIDE DEF f, T
<1>5. f \in Injection(S, T)
  BY <1>3, <1>4, Fun_IsInj
<1>6. f \in Surjection(S, T)
  BY <1>1, <1>2, <1>5, FS_Injection
<1>7. PICK b \in S : f[b] = pos
  BY <1>6 DEF Surjection, T
<1>. QED
  BY <1>7 DEF f

\* scheduled_pos lists the scheduled rows, each once.
LEMMA ScheduledPosLists ==
  ASSUME scheduled \in SUBSET Buckets
  PROVE  /\ \A pos \in 0 .. Cardinality(scheduled) - 1 : scheduled_pos(pos) \in scheduled
         /\ \A b \in scheduled :
              \E pos \in 0 .. Cardinality(scheduled) - 1 : scheduled_pos(pos) = b
<1>1. \A pos : scheduled_pos(pos) =
        CHOOSE b \in scheduled : Cardinality(Below(scheduled, b)) = pos
  BY DEF scheduled_pos, Below
<1>2. ASSUME NEW pos \in 0 .. Cardinality(scheduled) - 1
      PROVE  /\ scheduled_pos(pos) \in scheduled
             /\ Cardinality(Below(scheduled, scheduled_pos(pos))) = pos
  BY <1>1, RankReached
<1>3. ASSUME NEW b \in scheduled
      PROVE  \E pos \in 0 .. Cardinality(scheduled) - 1 : scheduled_pos(pos) = b
  <2> DEFINE pos == Cardinality(Below(scheduled, b))
  <2>1. pos \in 0 .. Cardinality(scheduled) - 1
    BY RankBounded
  <2>2. /\ scheduled_pos(pos) \in scheduled
        /\ Cardinality(Below(scheduled, scheduled_pos(pos))) = pos
    BY <1>2, <2>1
  <2>3. scheduled_pos(pos) = b
    BY <2>2, RankUnique
  <2>. QED
    BY <2>1, <2>3
<1>. QED
  BY <1>2, <1>3

-----------------------------------------------------------------------------
(* The rounds.                                                             *)

RoundPositions == IF Sampling THEN 0 .. Cardinality(scheduled) - 1 ELSE Buckets

\* The strengthening of ScheduledRuns: the rows of the positions come to, as
\* far as these are not skipped, are those run_iter was called for.
RoundInv ==
  /\ phase = "plan" => scheduled = {} /\ done = {} /\ todo = {}
  /\ phase = "work" =>
       /\ todo \subseteq RoundPositions
       /\ ~Sampling => scheduled = in_use
       /\ done = {BucketAt(pos) : pos \in {p \in RoundPositions \ todo : is_in_use(p)}}

\* There are no more positions than buckets.
LEMMA PositionsAreBuckets ==
  ASSUME NEW S \in SUBSET Buckets
  PROVE  0 .. Cardinality(S) - 1 \subseteq Buckets
<1>1. /\ Cardinality(S) <= TableSize /\ Cardinality(S) \in Nat
  BY BucketsFinite, FS_Subset, FS_CardinalityType
<1>. QED
  BY <1>1, TableSizeAssumption DEF Buckets

\* A position in use stands for a scheduled row.
LEMMA BucketAtScheduled ==
  ASSUME TypeOK, RoundInv, phase = "work",
         NEW pos \in RoundPositions, is_in_use(pos)
  PROVE  BucketAt(pos) \in scheduled
<1>1. scheduled \in SUBSET Buckets
  BY DEF TypeOK, TableOK
<1>. QED
  BY <1>1, ScheduledPosLists DEF BucketAt, RoundPositions, RoundInv, is_in_use

\* A round takes only rows in use, and positions of the table.
LEMMA NewRoundOK ==
  ASSUME TypeOK, NEW rows \in SUBSET in_use, NEW positions,
         NewRound(rows, positions),
         positions = IF Sampling THEN 0 .. Cardinality(rows) - 1 ELSE Buckets,
         ~Sampling => rows = in_use
  PROVE  TypeOK' /\ RoundInv'
<1>1. rows \in SUBSET Buckets
  BY DEF TypeOK, TableOK
<1>2. positions \subseteq Buckets
  BY <1>1, PositionsAreBuckets
<1>3. TypeOK'
  BY <1>2 DEF TypeOK, TableOK, NewRound, table, Buckets
<1>4. Sampling' = Sampling /\ RoundPositions' = positions
  BY DEF NewRound, Sampling, RoundPositions, Buckets
<1>5. RoundInv'
  <2>1. /\ phase' = "work" /\ scheduled' = rows /\ done' = {} /\ todo' = positions
        /\ in_use' = in_use
    BY DEF NewRound, table
  <2>2. {p \in RoundPositions' \ todo' : is_in_use(p)'} = {}
    BY <1>4, <2>1
  <2>. QED
    BY <1>4, <2>1, <2>2 DEF RoundInv
<1>. QED
  BY <1>3, <1>5

\* A skipped position keeps the invariant.
LEMMA SkipOK ==
  ASSUME TypeOK, RoundInv, NEW pos \in todo, Skip(pos)
  PROVE  TypeOK' /\ RoundInv'
<1>1. /\ phase = "work" /\ phase' = "work" /\ todo' = todo \ {pos} /\ ~is_in_use(pos)
      /\ UNCHANGED <<in_use, pending, priority, portion, scheduled, done, messages>>
  BY DEF Skip, table
<1>2. TypeOK'
  BY <1>1 DEF TypeOK, TableOK, Buckets
<1>3. /\ RoundPositions' = RoundPositions /\ Sampling' = Sampling
      /\ \A p : BucketAt(p)' = BucketAt(p) /\ is_in_use(p)' = is_in_use(p)
  BY <1>1 DEF RoundPositions, BucketAt, scheduled_pos, is_in_use, Sampling, Buckets
<1>4. {p \in RoundPositions \ todo' : is_in_use(p)}
        = {p \in RoundPositions \ todo : is_in_use(p)}
  BY <1>1
<1>. QED
  BY <1>1, <1>2, <1>3, <1>4 DEF RoundInv

\* A processed position keeps the invariant.
LEMMA RunIterOK ==
  ASSUME TypeOK, RoundInv, NEW pos \in todo, RunIter(pos)
  PROVE  TypeOK' /\ RoundInv'
<1>1. /\ phase = "work" /\ phase' = "work" /\ todo' = todo \ {pos} /\ is_in_use(pos)
      /\ done' = done \cup {BucketAt(pos)}
      /\ UNCHANGED <<in_use, portion, scheduled>>
  BY DEF RunIter
<1>2. /\ RoundPositions' = RoundPositions /\ Sampling' = Sampling
      /\ \A p : BucketAt(p)' = BucketAt(p) /\ is_in_use(p)' = is_in_use(p)
  BY <1>1 DEF RoundPositions, BucketAt, scheduled_pos, is_in_use, Sampling, Buckets
<1>3. pos \in RoundPositions
  BY <1>1 DEF RoundInv
<1>4. BucketAt(pos) \in Buckets
  BY <1>1, <1>3, BucketAtScheduled DEF TypeOK, TableOK
<1>5. TypeOK'
  <2>1. /\ pending' \subseteq in_use
        /\ priority' \in [Buckets -> Priorities]
        /\ messages' \in 0 .. MaxMessages
    BY PrioritiesAssumption, MaxMessagesAssumption DEF RunIter, TypeOK, TableOK
  <2>. QED
    BY <1>1, <1>4, <2>1 DEF TypeOK, TableOK, Buckets
<1>6. {p \in RoundPositions \ todo' : is_in_use(p)}
        = {p \in RoundPositions \ todo : is_in_use(p)} \cup {pos}
  BY <1>1, <1>3
<1>7. {BucketAt(p) : p \in {q \in RoundPositions \ todo' : is_in_use(q)}} = done'
  BY <1>1, <1>6 DEF RoundInv
<1>. QED
  BY <1>1, <1>2, <1>5, <1>7 DEF RoundInv

\* The type invariant: positions stand for buckets of the table.
THEOREM SchedulingInvariance == Spec => [](TypeOK /\ RoundInv)
<1>1. Init => TypeOK /\ RoundInv
  BY MaxMessagesAssumption DEF Init, TypeOK, TableOK, RoundInv, Buckets
<1>2. TypeOK /\ RoundInv /\ [Next]_vars => (TypeOK /\ RoundInv)'
  <2> SUFFICES ASSUME TypeOK, RoundInv, [Next]_vars PROVE (TypeOK /\ RoundInv)'
    OBVIOUS
  <2>1. CASE ScheduleWhole
    BY <2>1, NewRoundOK DEF ScheduleWhole
  <2>2. CASE ScheduleAll
    BY <2>2, NewRoundOK DEF ScheduleAll
  <2>3. CASE ScheduleSampled
    <3>1. \A sampled_pos : Eligible(sampled_pos) \subseteq in_use
      BY DEF Eligible, TypeOK, TableOK
    <3>. QED
      BY <2>3, <3>1, NewRoundOK DEF ScheduleSampled
  <2>4. CASE EndRound
    BY <2>4 DEF EndRound, TypeOK, TableOK, RoundInv, table, Buckets
  <2>5. CASE UNCHANGED vars
    <3>1. UNCHANGED <<in_use, pending, priority, portion, phase, scheduled, todo, done, messages>>
      BY <2>5 DEF vars, table, round
    <3>2. TypeOK'
      BY <3>1 DEF TypeOK, TableOK, Buckets
    <3>3. /\ RoundPositions' = RoundPositions /\ Sampling' = Sampling
          /\ \A p : BucketAt(p)' = BucketAt(p) /\ is_in_use(p)' = is_in_use(p)
      BY <3>1 DEF RoundPositions, BucketAt, scheduled_pos, is_in_use, Sampling, Buckets
    <3>. QED
      BY <3>1, <3>2, <3>3 DEF RoundInv
  <2>. QED
    BY <2>1, <2>2, <2>3, <2>4, <2>5, SkipOK, RunIterOK DEF Next
<1>. QED
  BY <1>1, <1>2, PTL DEF Spec

\* statetable.h, Iterator and ScheduledIterator: scheduled rows are buckets of the
\* table, and positions count through them.
THEOREM SchedulingTypes == Spec => []TypeOK
BY SchedulingInvariance, PTL

\* At the end of a round every position is come to; where none is skipped,
\* the positions stand for the scheduled rows, all of them.
THEOREM ScheduledRowsRun == Spec => []ScheduledRuns
<1>1. TypeOK /\ RoundInv => ScheduledRuns
  <2> SUFFICES ASSUME TypeOK, RoundInv PROVE ScheduledRuns
    OBVIOUS
  <2>1. done \subseteq scheduled
    <3>1. CASE phase = "plan"
      BY <3>1 DEF RoundInv
    <3>2. CASE phase = "work"
      BY <3>2, BucketAtScheduled DEF RoundInv
    <3>. QED
      BY <3>1, <3>2 DEF TypeOK
  <2>2. ASSUME RoundOver, Lucky PROVE scheduled \subseteq done
    <3>1. done = {BucketAt(pos) : pos \in {p \in RoundPositions : is_in_use(p)}}
      BY <2>2 DEF RoundOver, RoundInv
    <3>2. CASE ~Sampling
      BY <2>2, <3>1, <3>2
         DEF RoundOver, RoundInv, RoundPositions, BucketAt, is_in_use, TypeOK, TableOK
    <3>3. CASE Sampling
      <4>1. scheduled \in SUBSET Buckets
        BY DEF TypeOK, TableOK
      <4>2. done = {scheduled_pos(pos) : pos \in 0 .. Cardinality(scheduled) - 1}
        BY <2>2, <3>1, <3>3 DEF RoundPositions, BucketAt, is_in_use, Lucky
      <4>. QED
        BY <4>1, <4>2, ScheduledPosLists
    <3>. QED
      BY <3>2, <3>3
  <2>. QED
    BY <2>1, <2>2 DEF ScheduledRuns
<1>. QED
  BY <1>1, SchedulingInvariance, PTL

=============================================================================
