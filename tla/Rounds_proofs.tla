--------------------------- MODULE Rounds_proofs ---------------------------
(***************************************************************************)
(* The safety of the second phase, for every number of threads and of      *)
(* positions: RoundsInv is an invariant of Spec, each invariant the runs   *)
(* check follows from it, and every step is a step of the promised rounds. *)
(***************************************************************************)
EXTENDS Rounds, FiniteSetTheorems, TLAPS

-----------------------------------------------------------------------------
(* The intervals of the threads partition the positions of a round.        *)

\* The share of a thread, size / num_threads, times the number of threads
\* does not exceed the size, and leaves less than one position per thread.
LEMMA ShareFits ==
  ASSUME NEW total \in Nat, NEW n \in Nat \ {0}
  PROVE  /\ total \div n \in Nat
         /\ (total \div n) * n <= total
         /\ total < (total \div n) * n + n
BY SMT

\* Multiplication by a natural number is monotonic (for the provers, which
\* do no non-linear arithmetic on their own).
LEMMA Monotonic ==
  ASSUME NEW q \in Nat, NEW a \in Int, NEW b \in Int, a <= b
  PROVE  q * a \in Int /\ q * b \in Int /\ q * a <= q * b
BY SMT

\* The first position and the last one are integers, within the round, and
\* the interval is at worst empty.
LEMMA IntervalBounds ==
  ASSUME NEW total \in Nat, NEW n \in Nat \ {0}, NEW i \in 0 .. n - 1
  PROVE  /\ IntervalFirst(total, n, i) \in Nat
         /\ IntervalLast(total, n, i) \in Int
         /\ IntervalFirst(total, n, i) <= IntervalLast(total, n, i) + 1
         /\ IntervalLast(total, n, i) <= total - 1
<1> DEFINE q == total \div n
<1>1. q \in Nat /\ q * n <= total
  BY ShareFits
<1> HIDE DEF q
<1>2. q * i \in Nat /\ q * i <= q * n /\ q * (i + 1) <= q * n
  <2>1. q * 0 <= q * i /\ q * i <= q * n /\ q * (i + 1) <= q * n
    BY <1>1, Monotonic
  <2>2. q * 0 = 0
    BY <1>1
  <2>3. q * i \in Int
    BY <1>1
  <2> QED
    BY <2>1, <2>2, <2>3
<1>3. q * (i + 1) = q * i + q
  BY <1>1
<1> QED
  BY <1>1, <1>2, <1>3 DEF IntervalFirst, IntervalLast, q

\* Two threads never get the same position.
THEOREM IntervalsDisjoint ==
  ASSUME NEW total \in Nat, NEW n \in Nat \ {0},
         NEW i \in 0 .. n - 1, NEW j \in 0 .. n - 1, i # j
  PROVE  IntervalPositions(total, n, i) \cap IntervalPositions(total, n, j) = {}
<1> DEFINE q == total \div n
<1>1. q \in Nat
  BY ShareFits
<1>2. ASSUME NEW a \in 0 .. n - 1, NEW b \in 0 .. n - 1, a < b
      PROVE  IntervalLast(total, n, a) < IntervalFirst(total, n, b)
  <2> HIDE DEF q
  <2>1. q * (a + 1) <= q * b /\ q * (a + 1) \in Int /\ q * b \in Int
    BY <1>1, <1>2, Monotonic
  <2> QED
    BY <1>2, <2>1 DEF IntervalFirst, IntervalLast, q
<1>3. CASE i < j
  BY <1>2, <1>3, IntervalBounds DEF IntervalPositions
<1>4. CASE j < i
  BY <1>2, <1>4, IntervalBounds DEF IntervalPositions
<1> QED
  BY <1>3, <1>4

\* No position of the round is left without a thread.
THEOREM IntervalsCover ==
  ASSUME NEW total \in Nat, NEW n \in Nat \ {0}, NEW p \in 0 .. total - 1
  PROVE  \E i \in 0 .. n - 1 : p \in IntervalPositions(total, n, i)
<1> DEFINE q == total \div n
<1>1. q \in Nat
  BY ShareFits
<1> HIDE DEF q
<1>2. CASE p >= q * (n - 1)
  <2>1. p \in IntervalPositions(total, n, n - 1)
    BY <1>1, <1>2 DEF IntervalPositions, IntervalFirst, IntervalLast, q
  <2> QED
    BY <2>1
<1>3. CASE p < q * (n - 1)
  <2>1. q # 0
    BY <1>1, <1>3
  <2> DEFINE i == p \div q
  <2>2. i \in Nat /\ i * q <= p /\ p < i * q + q
    BY <1>1, <2>1, ShareFits
  <2> HIDE DEF i
  <2>3. q * i <= p /\ p < q * (i + 1) /\ q * i \in Nat
    BY <1>1, <2>2
  <2>4. i < n - 1
    <3>1. ASSUME n - 1 <= i
          PROVE  FALSE
      BY <1>1, <1>3, <2>2, <2>3, <3>1, Monotonic
    <3> QED
      BY <2>2, <3>1
  <2>5. p \in IntervalPositions(total, n, i)
    BY <1>1, <2>2, <2>3, <2>4
       DEF IntervalPositions, IntervalFirst, IntervalLast, q
  <2> QED
    BY <2>2, <2>4, <2>5
<1> QED
  BY <1>1, <1>2, <1>3

-----------------------------------------------------------------------------
(* The rounds.                                                             *)

USE NumThreadsAssumption, SizesAssumption

\* Counting threads: a set of them has at most NumThreads elements, and has
\* as many only if it holds them all.
LEMMA CountingThreads ==
  ASSUME NEW S \in SUBSET Threads
  PROVE  /\ IsFiniteSet(S)
         /\ Cardinality(S) \in 0 .. NumThreads
         /\ Cardinality(S) >= NumThreads <=> S = Threads
         /\ \A t \in Threads \ S :
              Cardinality(S \cup {t}) = Cardinality(S) + 1
<1>1. IsFiniteSet(Threads) /\ Cardinality(Threads) = NumThreads
  BY FS_Interval DEF Threads
<1>2. /\ IsFiniteSet(S)
      /\ Cardinality(S) <= NumThreads
      /\ Cardinality(S) = NumThreads => S = Threads
  BY <1>1, FS_Subset
<1>3. Cardinality(S) \in Nat
  BY <1>2, FS_CardinalityType
<1>4. \A t \in Threads \ S : Cardinality(S \cup {t}) = Cardinality(S) + 1
  BY <1>2, FS_AddElement
<1> QED
  BY <1>1, <1>2, <1>3, <1>4

\* Blocking is preserved.
LEMMA BlockingStep == RoundsInv /\ Next => Blocking'
<1> SUFFICES ASSUME RoundsInv, Next PROVE Blocking'
  OBVIOUS
<1> USE DEF RoundsInv, TypeOK, Blocking
<1>1. CASE CreateThread
  BY <1>1, CountingThreads
     DEF CreateThread, Running, execVars, condVars, schedVars, mainVars,
         Creation
<1>2. CASE Register
  BY <1>2 DEF Register, Running, execVars, condVars, schedVars, mainVars
<1>3. CASE CreateScheduler
  BY <1>3
     DEF CreateScheduler, Running, execVars, condVars, schedVars, mainVars,
         Creation
<1>4. CASE CreateFails
  BY <1>4 DEF CreateFails, Running, execVars, condVars, schedVars, mainVars
<1>5. CASE TermCheck
  BY <1>5 DEF TermCheck, Running, execVars, condVars, schedVars, mainVars
<1>6. CASE JoinScheduler
  BY <1>6
     DEF JoinScheduler, Running, execVars, condVars, schedVars, mainVars
<1>7. CASE Destroy
  BY <1>7 DEF Destroy, Running, execVars, condVars, schedVars, mainVars
<1>8. CASE Dump
  BY <1>8 DEF Dump, Running, execVars, condVars, schedVars, mainVars
<1>9. CASE ReadTerminated
  BY <1>9
     DEF ReadTerminated, Running, execVars, condVars, schedVars, mainVars
<1>10. CASE BuildIterator
  BY <1>10
     DEF BuildIterator, Running, execVars, condVars, schedVars, mainVars
<1>11. CASE Gather
  BY <1>11, CountingThreads
     DEF Gather, Running, execVars, condVars, schedVars, mainVars
<1>12. CASE Notify
  BY <1>12, FS_EmptySet
     DEF Notify, Running, execVars, condVars, schedVars, mainVars, Threads
<1>13. CASE Park
  BY <1>13 DEF Park, Running, execVars, condVars, schedVars, mainVars
<1>14. CASE ScheduleWakes
  BY <1>14
     DEF ScheduleWakes, Running, execVars, condVars, schedVars, mainVars
<1>15. CASE DeleteIterator
  BY <1>15
     DEF DeleteIterator, Running, execVars, condVars, schedVars, mainVars
<1>16. CASE Drain
  BY <1>16, CountingThreads
     DEF Drain, Running, execVars, condVars, schedVars, mainVars
<1>17. ASSUME NEW t \in Threads, CountAndWait(t)
       PROVE  Blocking'
  BY <1>17, CountingThreads
     DEF CountAndWait, Moves, Running, execVars, condVars, schedVars,
         mainVars
<1>18. ASSUME NEW t \in Threads, ThreadWakes(t)
       PROVE  Blocking'
  BY <1>18
     DEF ThreadWakes, Moves, Running, execVars, condVars, schedVars,
         mainVars
<1>19. ASSUME NEW t \in Threads, LoadIterator(t)
       PROVE  Blocking'
  BY <1>19
     DEF LoadIterator, Moves, Running, execVars, condVars, schedVars,
         mainVars
<1>20. ASSUME NEW t \in Threads, ThreadBegin(t)
       PROVE  Blocking'
  BY <1>20
     DEF ThreadBegin, Moves, Running, execVars, condVars, schedVars,
         mainVars
<1>21. ASSUME NEW t \in Threads, ThreadEnd(t)
       PROVE  Blocking'
  BY <1>21
     DEF ThreadEnd, Moves, Running, execVars, condVars, schedVars, mainVars
<1>22. ASSUME NEW t \in Threads, Process(t)
       PROVE  Blocking'
  BY <1>22 DEF Process, Running, execVars, condVars, schedVars, mainVars
<1>23. ASSUME NEW t \in Threads, Arrive(t)
       PROVE  Blocking'
  BY <1>23
     DEF Arrive, Moves, Running, execVars, condVars, schedVars, mainVars
<1>24. ASSUME NEW t \in Threads, LeaveBarrier(t)
       PROVE  Blocking'
  BY <1>24
     DEF LeaveBarrier, Moves, Running, execVars, condVars, schedVars,
         mainVars
<1>25. ASSUME NEW t \in Threads, SignalScheduler(t)
       PROVE  Blocking'
  BY <1>25
     DEF SignalScheduler, Moves, Running, execVars, condVars, schedVars,
         mainVars
<1>26. CASE JoinUncreated
  BY <1>26
     DEF JoinUncreated, Running, execVars, condVars, schedVars, mainVars
<1>27. ASSUME NEW t \in Threads, CountDeleted(t)
       PROVE  Blocking'
  BY <1>27
     DEF CountDeleted, Running, execVars, condVars, schedVars, mainVars
<1> QED
  BY <1>1, <1>2, <1>3, <1>4, <1>5, <1>6, <1>7, <1>8, <1>9, <1>10, <1>11,
     <1>12, <1>13, <1>14, <1>15, <1>16, <1>17, <1>18, <1>19, <1>20, <1>21,
     <1>22, <1>23, <1>24, <1>25, <1>26, <1>27
     DEF Next, Main, Scheduler, Exec

\* TypeOK is preserved; count_wait stays in range because it counts threadc.
LEMMA TypeStep == RoundsInv /\ Next => TypeOK'
<1> SUFFICES ASSUME RoundsInv, Next PROVE TypeOK'
  OBVIOUS
<1> USE DEF RoundsInv, TypeOK, Pointers, ExecStates, SchedStates, MainStates
<1>1. CASE CreateThread
  BY <1>1
     DEF CreateThread, Running, execVars, condVars, schedVars, mainVars,
         Creation
<1>2. CASE Register
  <2>1. thread_interval' \in [Threads -> [first : Int, last : Int]]
    <3>1. [first |-> 0, last |-> 0] \in [first : Int, last : Int]
      OBVIOUS
    <3> QED
      BY <1>2, <3>1 DEF Register
  <2>2. created' \in 0 .. NumThreads
    BY <1>2 DEF Register, Creation
  <2> QED
    BY <1>2, <2>1, <2>2
       DEF Register, execVars, condVars, schedVars
<1>3. CASE CreateScheduler
  BY <1>3
     DEF CreateScheduler, Running, execVars, condVars, schedVars, mainVars
<1>4. CASE CreateFails
  BY <1>4 DEF CreateFails, Running, execVars, condVars, schedVars, mainVars
<1>5. CASE TermCheck
  BY <1>5 DEF TermCheck, Running, execVars, condVars, schedVars, mainVars
<1>6. CASE JoinScheduler
  BY <1>6
     DEF JoinScheduler, Running, execVars, condVars, schedVars, mainVars
<1>7. CASE Destroy
  BY <1>7 DEF Destroy, Running, execVars, condVars, schedVars, mainVars
<1>8. CASE Dump
  BY <1>8 DEF Dump, Running, execVars, condVars, schedVars, mainVars
<1>9. CASE ReadTerminated
  BY <1>9
     DEF ReadTerminated, Running, execVars, condVars, schedVars, mainVars
<1>10. CASE BuildIterator
  <2>1. PICK n \in Sizes :
          /\ size' = n
          /\ thread_interval' =
               [t \in Threads |-> [first |-> IntervalFirst(n, NumThreads, t),
                                   last  |-> IntervalLast(n, NumThreads, t)]]
    BY <1>10 DEF BuildIterator
  <2>2. thread_interval' \in [Threads -> [first : Int, last : Int]]
    <3>1. n \in Nat
      BY <2>1
    <3>2. \A t \in Threads : /\ IntervalFirst(n, NumThreads, t) \in Int
                           /\ IntervalLast(n, NumThreads, t) \in Int
      BY <3>1, IntervalBounds DEF Threads
    <3> QED
      BY <2>1, <3>2
  <2> QED
    BY <1>10, <2>1, <2>2 DEF BuildIterator, condVars, mainVars
<1>11. CASE Gather
  BY <1>11 DEF Gather, Running, execVars, condVars, schedVars, mainVars
<1>12. CASE Notify
  BY <1>12 DEF Notify, Running, execVars, condVars, schedVars, mainVars
<1>13. CASE Park
  BY <1>13 DEF Park, Running, execVars, condVars, schedVars, mainVars
<1>14. CASE ScheduleWakes
  BY <1>14
     DEF ScheduleWakes, Running, execVars, condVars, schedVars, mainVars
<1>15. CASE DeleteIterator
  BY <1>15
     DEF DeleteIterator, Running, execVars, condVars, schedVars, mainVars
<1>16. CASE Drain
  BY <1>16 DEF Drain, Running, execVars, condVars, schedVars, mainVars
<1>17. ASSUME NEW t \in Threads, CountAndWait(t)
       PROVE  TypeOK'
  BY <1>17, BlockingStep, CountingThreads
     DEF CountAndWait, Moves, Running, execVars, condVars, schedVars,
         mainVars, Blocking
<1>18. ASSUME NEW t \in Threads, ThreadWakes(t)
       PROVE  TypeOK'
  BY <1>18
     DEF ThreadWakes, Moves, Running, execVars, condVars, schedVars,
         mainVars
<1>19. ASSUME NEW t \in Threads, LoadIterator(t)
       PROVE  TypeOK'
  BY <1>19
     DEF LoadIterator, Moves, Running, execVars, condVars, schedVars,
         mainVars
<1>20. ASSUME NEW t \in Threads, ThreadBegin(t)
       PROVE  TypeOK'
  BY <1>20
     DEF ThreadBegin, Moves, Running, execVars, condVars, schedVars,
         mainVars
<1>21. ASSUME NEW t \in Threads, ThreadEnd(t)
       PROVE  TypeOK'
  BY <1>21
     DEF ThreadEnd, Moves, Running, execVars, condVars, schedVars, mainVars
<1>22. ASSUME NEW t \in Threads, Process(t)
       PROVE  TypeOK'
  <2>1. pos[t] \in Int /\ pos[t] + 1 \in Int
    OBVIOUS
  <2>2. pos' \in [Threads -> Int]
    BY <1>22, <2>1 DEF Process
  <2>3. visited' \subseteq Int
    BY <1>22, <2>1 DEF Process
  <2> QED
    BY <1>22, <2>2, <2>3 DEF Process, condVars, schedVars, mainVars
<1>23. ASSUME NEW t \in Threads, Arrive(t)
       PROVE  TypeOK'
  BY <1>23
     DEF Arrive, Moves, Running, execVars, condVars, schedVars, mainVars
<1>24. ASSUME NEW t \in Threads, LeaveBarrier(t)
       PROVE  TypeOK'
  BY <1>24
     DEF LeaveBarrier, Moves, Running, execVars, condVars, schedVars,
         mainVars
<1>25. ASSUME NEW t \in Threads, SignalScheduler(t)
       PROVE  TypeOK'
  BY <1>25
     DEF SignalScheduler, Moves, Running, execVars, condVars, schedVars,
         mainVars
<1>26. CASE JoinUncreated
  BY <1>26
     DEF JoinUncreated, Running, execVars, condVars, schedVars, mainVars
<1>27. ASSUME NEW t \in Threads, CountDeleted(t)
       PROVE  TypeOK'
  BY <1>27
     DEF CountDeleted, Running, execVars, condVars, schedVars, mainVars
<1> QED
  BY <1>1, <1>2, <1>3, <1>4, <1>5, <1>6, <1>7, <1>8, <1>9, <1>10, <1>11,
     <1>12, <1>13, <1>14, <1>15, <1>16, <1>17, <1>18, <1>19, <1>20, <1>21,
     <1>22, <1>23, <1>24, <1>25, <1>26, <1>27
     DEF Next, Main, Scheduler, Exec

\* Creation is preserved: no thread is started twice.
LEMMA CreationStep == RoundsInv /\ Next => Creation'
<1> SUFFICES ASSUME RoundsInv, Next PROVE Creation'
  OBVIOUS
<1> USE DEF RoundsInv, TypeOK, Creation, Threads, ExecStates, SchedStates,
         MainStates
<1>1. CASE CreateThread
  BY <1>1 DEF CreateThread, Running, execVars, condVars, schedVars, mainVars
<1>2. CASE Register
  BY <1>2 DEF Register, Running, execVars, condVars, schedVars, mainVars
<1>3. CASE CreateScheduler
  BY <1>3
     DEF CreateScheduler, Running, execVars, condVars, schedVars, mainVars
<1>4. CASE CreateFails
  BY <1>4 DEF CreateFails, Running, execVars, condVars, schedVars, mainVars
<1>5. CASE TermCheck
  BY <1>5 DEF TermCheck, Running, execVars, condVars, schedVars, mainVars
<1>6. CASE JoinScheduler
  BY <1>6
     DEF JoinScheduler, Running, execVars, condVars, schedVars, mainVars
<1>7. CASE Destroy
  BY <1>7 DEF Destroy, Running, execVars, condVars, schedVars, mainVars
<1>8. CASE Dump
  BY <1>8 DEF Dump, Running, execVars, condVars, schedVars, mainVars
<1>9. CASE ReadTerminated
  BY <1>9
     DEF ReadTerminated, Running, execVars, condVars, schedVars, mainVars
<1>10. CASE BuildIterator
  BY <1>10
     DEF BuildIterator, Running, execVars, condVars, schedVars, mainVars
<1>11. CASE Gather
  BY <1>11 DEF Gather, Running, execVars, condVars, schedVars, mainVars
<1>12. CASE Notify
  BY <1>12 DEF Notify, Running, execVars, condVars, schedVars, mainVars
<1>13. CASE Park
  BY <1>13 DEF Park, Running, execVars, condVars, schedVars, mainVars
<1>14. CASE ScheduleWakes
  BY <1>14
     DEF ScheduleWakes, Running, execVars, condVars, schedVars, mainVars
<1>15. CASE DeleteIterator
  BY <1>15
     DEF DeleteIterator, Running, execVars, condVars, schedVars, mainVars
<1>16. CASE Drain
  BY <1>16 DEF Drain, Running, execVars, condVars, schedVars, mainVars
<1>17. ASSUME NEW t \in Threads, CountAndWait(t)
       PROVE  Creation'
  BY <1>17
     DEF CountAndWait, Moves, Running, execVars, condVars, schedVars,
         mainVars
<1>18. ASSUME NEW t \in Threads, ThreadWakes(t)
       PROVE  Creation'
  BY <1>18
     DEF ThreadWakes, Moves, Running, execVars, condVars, schedVars,
         mainVars
<1>19. ASSUME NEW t \in Threads, LoadIterator(t)
       PROVE  Creation'
  BY <1>19
     DEF LoadIterator, Moves, Running, execVars, condVars, schedVars,
         mainVars
<1>20. ASSUME NEW t \in Threads, ThreadBegin(t)
       PROVE  Creation'
  BY <1>20
     DEF ThreadBegin, Moves, Running, execVars, condVars, schedVars,
         mainVars
<1>21. ASSUME NEW t \in Threads, ThreadEnd(t)
       PROVE  Creation'
  BY <1>21
     DEF ThreadEnd, Moves, Running, execVars, condVars, schedVars, mainVars
<1>22. ASSUME NEW t \in Threads, Process(t)
       PROVE  Creation'
  BY <1>22 DEF Process, Running, execVars, condVars, schedVars, mainVars
<1>23. ASSUME NEW t \in Threads, Arrive(t)
       PROVE  Creation'
  BY <1>23
     DEF Arrive, Moves, Running, execVars, condVars, schedVars, mainVars
<1>24. ASSUME NEW t \in Threads, LeaveBarrier(t)
       PROVE  Creation'
  BY <1>24
     DEF LeaveBarrier, Moves, Running, execVars, condVars, schedVars,
         mainVars
<1>25. ASSUME NEW t \in Threads, SignalScheduler(t)
       PROVE  Creation'
  BY <1>25
     DEF SignalScheduler, Moves, Running, execVars, condVars, schedVars,
         mainVars
<1>26. CASE JoinUncreated
  BY <1>26
     DEF JoinUncreated, Running, execVars, condVars, schedVars, mainVars
<1>27. ASSUME NEW t \in Threads, CountDeleted(t)
       PROVE  Creation'
  BY <1>27
     DEF CountDeleted, Running, execVars, condVars, schedVars, mainVars
<1> QED
  BY <1>1, <1>2, <1>3, <1>4, <1>5, <1>6, <1>7, <1>8, <1>9, <1>10, <1>11,
     <1>12, <1>13, <1>14, <1>15, <1>16, <1>17, <1>18, <1>19, <1>20, <1>21,
     <1>22, <1>23, <1>24, <1>25, <1>26, <1>27
     DEF Next, Main, Scheduler, Exec

\* AllOrNone is preserved: a broadcast takes all threads into the round, and
\* the last thread to reach the barrier takes all of them out.
LEMMA AllOrNoneStep == RoundsInv /\ Next => AllOrNone'
<1> SUFFICES ASSUME RoundsInv, Next PROVE AllOrNone'
  OBVIOUS
<1> USE DEF RoundsInv, TypeOK, AllOrNone, InRound, Working
<1>1. CASE CreateThread
  BY <1>1
     DEF CreateThread, Running, execVars, condVars, schedVars, mainVars,
         Creation, Blocking
<1>2. CASE Register
  BY <1>2 DEF Register, Running, execVars, condVars, schedVars, mainVars
<1>3. CASE CreateScheduler
  BY <1>3
     DEF CreateScheduler, Running, execVars, condVars, schedVars, mainVars,
         Creation
<1>4. CASE CreateFails
  BY <1>4 DEF CreateFails, Running, execVars, condVars, schedVars, mainVars
<1>5. CASE TermCheck
  BY <1>5 DEF TermCheck, Running, execVars, condVars, schedVars, mainVars
<1>6. CASE JoinScheduler
  BY <1>6
     DEF JoinScheduler, Running, execVars, condVars, schedVars, mainVars
<1>7. CASE Destroy
  BY <1>7 DEF Destroy, Running, execVars, condVars, schedVars, mainVars
<1>8. CASE Dump
  BY <1>8 DEF Dump, Running, execVars, condVars, schedVars, mainVars
<1>9. CASE ReadTerminated
  BY <1>9
     DEF ReadTerminated, Running, execVars, condVars, schedVars, mainVars
<1>10. CASE BuildIterator
  BY <1>10
     DEF BuildIterator, Running, execVars, condVars, schedVars, mainVars
<1>11. CASE Gather
  BY <1>11 DEF Gather, Running, execVars, condVars, schedVars, mainVars
<1>12. CASE Notify
  BY <1>12
     DEF Notify, Running, execVars, condVars, schedVars, mainVars, Blocking
<1>13. CASE Park
  BY <1>13 DEF Park, Running, execVars, condVars, schedVars, mainVars
<1>14. CASE ScheduleWakes
  BY <1>14
     DEF ScheduleWakes, Running, execVars, condVars, schedVars, mainVars
<1>15. CASE DeleteIterator
  BY <1>15
     DEF DeleteIterator, Running, execVars, condVars, schedVars, mainVars
<1>16. CASE Drain
  BY <1>16 DEF Drain, Running, execVars, condVars, schedVars, mainVars
<1>17. ASSUME NEW t \in Threads, CountAndWait(t)
       PROVE  AllOrNone'
  BY <1>17
     DEF CountAndWait, Moves, Running, execVars, condVars, schedVars,
         mainVars
<1>18. ASSUME NEW t \in Threads, ThreadWakes(t)
       PROVE  AllOrNone'
  BY <1>18
     DEF ThreadWakes, Moves, Running, execVars, condVars, schedVars,
         mainVars
<1>19. ASSUME NEW t \in Threads, LoadIterator(t)
       PROVE  AllOrNone'
  BY <1>19
     DEF LoadIterator, Moves, Running, execVars, condVars, schedVars,
         mainVars, IteratorLives
<1>20. ASSUME NEW t \in Threads, ThreadBegin(t)
       PROVE  AllOrNone'
  BY <1>20
     DEF ThreadBegin, Moves, Running, execVars, condVars, schedVars,
         mainVars
<1>21. ASSUME NEW t \in Threads, ThreadEnd(t)
       PROVE  AllOrNone'
  BY <1>21
     DEF ThreadEnd, Moves, Running, execVars, condVars, schedVars, mainVars
<1>22. ASSUME NEW t \in Threads, Process(t)
       PROVE  AllOrNone'
  BY <1>22 DEF Process, Running, execVars, condVars, schedVars, mainVars
<1>23. ASSUME NEW t \in Threads, Arrive(t)
       PROVE  AllOrNone'
  BY <1>23
     DEF Arrive, Moves, Running, execVars, condVars, schedVars, mainVars,
         Blocking
<1>24. ASSUME NEW t \in Threads, LeaveBarrier(t)
       PROVE  AllOrNone'
  BY <1>24
     DEF LeaveBarrier, Moves, Running, execVars, condVars, schedVars,
         mainVars
<1>25. ASSUME NEW t \in Threads, SignalScheduler(t)
       PROVE  AllOrNone'
  BY <1>25
     DEF SignalScheduler, Moves, Running, execVars, condVars, schedVars,
         mainVars
<1>26. CASE JoinUncreated
  BY <1>26
     DEF JoinUncreated, Running, execVars, condVars, schedVars, mainVars
<1>27. ASSUME NEW t \in Threads, CountDeleted(t)
       PROVE  AllOrNone'
  BY <1>27
     DEF CountDeleted, Running, execVars, condVars, schedVars, mainVars
<1> QED
  BY <1>1, <1>2, <1>3, <1>4, <1>5, <1>6, <1>7, <1>8, <1>9, <1>10, <1>11,
     <1>12, <1>13, <1>14, <1>15, <1>16, <1>17, <1>18, <1>19, <1>20, <1>21,
     <1>22, <1>23, <1>24, <1>25, <1>26, <1>27
     DEF Next, Main, Scheduler, Exec

\* IteratorLives is preserved: the iterator is only deleted out of a round.
LEMMA IteratorStep == RoundsInv /\ Next => IteratorLives'
<1> SUFFICES ASSUME RoundsInv, Next PROVE IteratorLives'
  OBVIOUS
<1> USE DEF RoundsInv, TypeOK, IteratorLives, NoUseAfterFree
<1>1. CASE CreateThread
  BY <1>1 DEF CreateThread, Running, execVars, condVars, schedVars, mainVars
<1>2. CASE Register
  BY <1>2 DEF Register, Running, execVars, condVars, schedVars, mainVars
<1>3. CASE CreateScheduler
  BY <1>3
     DEF CreateScheduler, Running, execVars, condVars, schedVars, mainVars,
         Creation
<1>4. CASE CreateFails
  BY <1>4 DEF CreateFails, Running, execVars, condVars, schedVars, mainVars
<1>5. CASE TermCheck
  BY <1>5 DEF TermCheck, Running, execVars, condVars, schedVars, mainVars
<1>6. CASE JoinScheduler
  BY <1>6
     DEF JoinScheduler, Running, execVars, condVars, schedVars, mainVars
<1>7. CASE Destroy
  BY <1>7 DEF Destroy, Running, execVars, condVars, schedVars, mainVars
<1>8. CASE Dump
  BY <1>8 DEF Dump, Running, execVars, condVars, schedVars, mainVars
<1>9. CASE ReadTerminated
  BY <1>9
     DEF ReadTerminated, Running, execVars, condVars, schedVars, mainVars
<1>10. CASE BuildIterator
  BY <1>10
     DEF BuildIterator, Running, execVars, condVars, schedVars, mainVars
<1>11. CASE Gather
  BY <1>11 DEF Gather, Running, execVars, condVars, schedVars, mainVars
<1>12. CASE Notify
  BY <1>12 DEF Notify, Running, execVars, condVars, schedVars, mainVars
<1>13. CASE Park
  BY <1>13 DEF Park, Running, execVars, condVars, schedVars, mainVars
<1>14. CASE ScheduleWakes
  BY <1>14
     DEF ScheduleWakes, Running, execVars, condVars, schedVars, mainVars
<1>15. CASE DeleteIterator
  BY <1>15
     DEF DeleteIterator, Running, execVars, condVars, schedVars, mainVars,
         AllOrNone, InRound, Working
<1>16. CASE Drain
  BY <1>16 DEF Drain, Running, execVars, condVars, schedVars, mainVars
<1>17. ASSUME NEW t \in Threads, CountAndWait(t)
       PROVE  IteratorLives'
  BY <1>17
     DEF CountAndWait, Moves, Running, execVars, condVars, schedVars,
         mainVars
<1>18. ASSUME NEW t \in Threads, ThreadWakes(t)
       PROVE  IteratorLives'
  BY <1>18
     DEF ThreadWakes, Moves, Running, execVars, condVars, schedVars,
         mainVars
<1>19. ASSUME NEW t \in Threads, LoadIterator(t)
       PROVE  IteratorLives'
  BY <1>19
     DEF LoadIterator, Moves, Running, execVars, condVars, schedVars,
         mainVars, AllOrNone, InRound, Working
<1>20. ASSUME NEW t \in Threads, ThreadBegin(t)
       PROVE  IteratorLives'
  BY <1>20
     DEF ThreadBegin, Moves, Running, execVars, condVars, schedVars,
         mainVars
<1>21. ASSUME NEW t \in Threads, ThreadEnd(t)
       PROVE  IteratorLives'
  BY <1>21
     DEF ThreadEnd, Moves, Running, execVars, condVars, schedVars, mainVars
<1>22. ASSUME NEW t \in Threads, Process(t)
       PROVE  IteratorLives'
  BY <1>22 DEF Process, Running, execVars, condVars, schedVars, mainVars
<1>23. ASSUME NEW t \in Threads, Arrive(t)
       PROVE  IteratorLives'
  BY <1>23
     DEF Arrive, Moves, Running, execVars, condVars, schedVars, mainVars
<1>24. ASSUME NEW t \in Threads, LeaveBarrier(t)
       PROVE  IteratorLives'
  BY <1>24
     DEF LeaveBarrier, Moves, Running, execVars, condVars, schedVars,
         mainVars
<1>25. ASSUME NEW t \in Threads, SignalScheduler(t)
       PROVE  IteratorLives'
  BY <1>25
     DEF SignalScheduler, Moves, Running, execVars, condVars, schedVars,
         mainVars
<1>26. CASE JoinUncreated
  BY <1>26
     DEF JoinUncreated, Running, execVars, condVars, schedVars, mainVars
<1>27. ASSUME NEW t \in Threads, CountDeleted(t)
       PROVE  IteratorLives'
  BY <1>27
     DEF CountDeleted, Running, execVars, condVars, schedVars, mainVars
<1> QED
  BY <1>1, <1>2, <1>3, <1>4, <1>5, <1>6, <1>7, <1>8, <1>9, <1>10, <1>11,
     <1>12, <1>13, <1>14, <1>15, <1>16, <1>17, <1>18, <1>19, <1>20, <1>21,
     <1>22, <1>23, <1>24, <1>25, <1>26, <1>27
     DEF Next, Main, Scheduler, Exec

\* What the lemmas on intervals say of the threads.
LEMMA MineFacts ==
  ASSUME TypeOK
  PROVE  /\ \A t \in Threads :
              /\ IntervalFirst(size, NumThreads, t) \in Nat
              /\ IntervalLast(size, NumThreads, t) \in Int
              /\ IntervalFirst(size, NumThreads, t)
                   <= IntervalLast(size, NumThreads, t) + 1
              /\ Mine(t) = IntervalFirst(size, NumThreads, t)
                             .. IntervalLast(size, NumThreads, t)
              /\ Mine(t) \subseteq Positions
         /\ \A t, u \in Threads : t # u => Mine(t) \cap Mine(u) = {}
         /\ \A p \in Positions : \E t \in Threads : p \in Mine(t)
<1>1. size \in Nat
  BY DEF TypeOK
<1>2. \A t \in Threads :
        /\ IntervalFirst(size, NumThreads, t) \in Nat
        /\ IntervalLast(size, NumThreads, t) \in Int
        /\ IntervalFirst(size, NumThreads, t)
             <= IntervalLast(size, NumThreads, t) + 1
        /\ IntervalLast(size, NumThreads, t) <= size - 1
  BY <1>1, IntervalBounds DEF Threads
<1>3. \A t \in Threads :
        Mine(t) = IntervalFirst(size, NumThreads, t)
                    .. IntervalLast(size, NumThreads, t)
  BY DEF Mine, IntervalPositions
<1>4. \A t \in Threads : Mine(t) \subseteq Positions
  BY <1>1, <1>2, <1>3 DEF Positions
<1>5. \A t, u \in Threads : t # u => Mine(t) \cap Mine(u) = {}
  BY <1>1, IntervalsDisjoint DEF Mine, Threads
<1>6. \A p \in Positions : \E t \in Threads : p \in Mine(t)
  BY <1>1, IntervalsCover DEF Mine, Threads, Positions
<1> QED
  BY <1>2, <1>3, <1>4, <1>5, <1>6

\* Progress is preserved: the intervals keep the threads apart, and the
\* barrier lets none go before all are done.
LEMMA ProgressStep == RoundsInv /\ Next => Progress'
<1> SUFFICES ASSUME RoundsInv, Next PROVE Progress'
  OBVIOUS
<1> USE DEF RoundsInv, TypeOK, Progress
<1>1. CASE CreateThread
  BY <1>1
     DEF CreateThread, Running, HowFar, Mine, Positions, InRound, Working,
         execVars, condVars, schedVars, mainVars, Creation, Blocking
<1>2. CASE Register
  BY <1>2
     DEF Register, Running, HowFar, Mine, Positions, InRound, Working,
         execVars, condVars, schedVars, mainVars, Creation
<1>3. CASE CreateScheduler
  BY <1>3
     DEF CreateScheduler, Running, HowFar, Mine, Positions, InRound,
         Working, execVars, condVars, schedVars, mainVars, Creation,
         AllOrNone
<1>4. CASE CreateFails
  BY <1>4
     DEF CreateFails, Running, HowFar, Mine, Positions, InRound, Working,
         execVars, condVars, schedVars, mainVars
<1>5. CASE TermCheck
  BY <1>5
     DEF TermCheck, Running, HowFar, Mine, Positions, InRound, Working,
         execVars, condVars, schedVars, mainVars
<1>6. CASE JoinScheduler
  BY <1>6
     DEF JoinScheduler, Running, HowFar, Mine, Positions, InRound, Working,
         execVars, condVars, schedVars, mainVars
<1>7. CASE Destroy
  BY <1>7
     DEF Destroy, Running, HowFar, Mine, Positions, InRound, Working,
         execVars, condVars, schedVars, mainVars
<1>8. CASE Dump
  BY <1>8
     DEF Dump, Running, HowFar, Mine, Positions, InRound, Working, execVars,
         condVars, schedVars, mainVars
<1>9. CASE ReadTerminated
  BY <1>9
     DEF ReadTerminated, Running, HowFar, Mine, Positions, InRound, Working,
         execVars, condVars, schedVars, mainVars
<1>10. CASE BuildIterator
  <2>1. \A t \in Threads : ~InRound(t) /\ ~InRound(t)'
    BY <1>10 DEF AllOrNone, BuildIterator, InRound, Working, condVars
  <2>2. visited' = {} /\ sp' = "gather"
    BY <1>10 DEF BuildIterator
  <2>3. \A t \in Threads : HowFar(t)'
    BY <1>10, <2>1, <2>2 DEF BuildIterator, HowFar, InRound, Working
  <2>4. \A t \in Threads :
          thread_interval'[t] =
            [first |-> IntervalFirst(size', NumThreads, t),
             last  |-> IntervalLast(size', NumThreads, t)]
    BY <1>10 DEF BuildIterator
  <2> QED
    BY <2>2, <2>3, <2>4 DEF Positions
<1>11. CASE Gather
  BY <1>11
     DEF Gather, Running, HowFar, Mine, Positions, InRound, Working,
         execVars, condVars, schedVars, mainVars
<1>12. CASE Notify
  <2>1. visited' = {} /\ sp' = "park" /\ visited = {}
    BY <1>12 DEF Notify, execVars
  <2>2. \A t \in Threads : pc'[t] = "wait" /\ InRound(t)'
    BY <1>12 DEF Notify, Blocking, InRound, execVars
  <2>3. \A t \in Threads : HowFar(t)'
    BY <2>1, <2>2 DEF HowFar
  <2>4. UNCHANGED <<size, thread_interval>>
    BY <1>12 DEF Notify
  <2> QED
    BY <1>12, <2>1, <2>3, <2>4 DEF Positions, Notify
<1>13. CASE Park
  BY <1>13
     DEF Park, Running, HowFar, Mine, Positions, InRound, Working, execVars,
         condVars, schedVars, mainVars
<1>14. CASE ScheduleWakes
  <2>1. \A t \in Threads : Mine(t) \subseteq visited
    BY <1>14 DEF ScheduleWakes, AllOrNone, HowFar
  <2>2. visited = Positions
    BY <2>1, MineFacts
  <2>3. /\ UNCHANGED <<execVars, condVars, size, thread_interval>>
        /\ sp = "wait" /\ sp' = "delete"
    BY <1>14 DEF ScheduleWakes
  <2>4. \A t \in Threads : HowFar(t)'
    BY <2>3 DEF HowFar, InRound, Working, Mine, execVars, condVars
  <2> QED
    BY <2>2, <2>3, <2>4 DEF Positions, execVars
<1>15. CASE DeleteIterator
  BY <1>15
     DEF DeleteIterator, Running, HowFar, Mine, Positions, InRound, Working,
         execVars, condVars, schedVars, mainVars
<1>16. CASE Drain
  BY <1>16
     DEF Drain, Running, HowFar, Mine, Positions, InRound, Working,
         execVars, condVars, schedVars, mainVars
<1>17. ASSUME NEW t \in Threads, CountAndWait(t)
       PROVE  Progress'
  BY <1>17
     DEF CountAndWait, Moves, Running, HowFar, Mine, Positions, InRound,
         Working, execVars, condVars, schedVars, mainVars
<1>18. ASSUME NEW t \in Threads, ThreadWakes(t)
       PROVE  Progress'
  BY <1>18
     DEF ThreadWakes, Moves, Running, HowFar, Mine, Positions, InRound,
         Working, execVars, condVars, schedVars, mainVars
<1>19. ASSUME NEW t \in Threads, LoadIterator(t)
       PROVE  Progress'
  <2>1. pc[t] = "load" /\ pc' \in [Threads -> ExecStates] /\ pc'[t] = "begin"
    BY <1>19, TypeStep DEF LoadIterator, Moves, AllOrNone, IteratorLives,
                          InRound, Working
  <2>2. HowFar(t)'
    BY <1>19, <2>1
       DEF LoadIterator, Moves, HowFar, InRound, Working, Mine, condVars,
           schedVars
  <2>3. \A u \in Threads \ {t} : HowFar(u)'
    BY <1>19
       DEF LoadIterator, Moves, HowFar, InRound, Working, Mine, condVars,
           schedVars
  <2> QED
    BY <1>19, <2>2, <2>3 DEF LoadIterator, Positions, schedVars
<1>20. ASSUME NEW t \in Threads, ThreadBegin(t)
       PROVE  Progress'
  <2>1. thread_interval[t].first = IntervalFirst(size, NumThreads, t)
    BY <1>20 DEF ThreadBegin, Moves, AllOrNone, InRound, Working, SchedStates
  <2>2. HowFar(t)'
    BY <1>20, <2>1
       DEF ThreadBegin, Moves, HowFar, InRound, Working, Mine, condVars,
           schedVars
  <2>3. \A u \in Threads \ {t} : HowFar(u)'
    BY <1>20
       DEF ThreadBegin, Moves, HowFar, InRound, Working, Mine, condVars,
           schedVars
  <2> QED
    BY <1>20, <2>2, <2>3 DEF ThreadBegin, Positions, schedVars
<1>21. ASSUME NEW t \in Threads, ThreadEnd(t)
       PROVE  Progress'
  <2> DEFINE first == IntervalFirst(size, NumThreads, t)
             end == IntervalLast(size, NumThreads, t)
  <2>1. thread_interval[t].last = end /\ pos[t] = first
    BY <1>21 DEF ThreadEnd, Moves, AllOrNone, InRound, Working, HowFar
  <2>2. first \in Nat /\ end \in Int /\ first <= end + 1
    BY MineFacts
  <2>3. pc'[t] = "loop" /\ last'[t] = end /\ pos'[t] = first
    BY <1>21, <2>1 DEF ThreadEnd, Moves
  <2>4. visited' \cap Mine(t)' = {} /\ UNCHANGED <<size, sp, visited>>
    BY <1>21 DEF ThreadEnd, Moves, HowFar, InRound, Working, Mine, schedVars
  <2>5. HowFar(t)'
    <3>1. first .. first - 1 = {} /\ first \in first .. end + 1
      BY <2>2
    <3> HIDE DEF first, end
    <3>2. /\ last'[t] = end
          /\ pos'[t] \in first .. last'[t] + 1
          /\ visited' \cap Mine(t)' = first .. pos'[t] - 1
      BY <2>3, <2>4, <3>1
    <3>3. InRound(t)' /\ pc'[t] = "loop"
      BY <2>3 DEF InRound, Working
    <3> QED
      BY <2>4, <3>2, <3>3 DEF HowFar, first, end
  <2>6. \A u \in Threads \ {t} : HowFar(u)'
    BY <1>21
       DEF ThreadEnd, Moves, HowFar, InRound, Working, Mine, condVars,
           schedVars
  <2> QED
    BY <1>21, <2>5, <2>6 DEF ThreadEnd, Positions, schedVars
<1>22. ASSUME NEW t \in Threads, Process(t)
       PROVE  Progress'
  <2> DEFINE first == IntervalFirst(size, NumThreads, t)
  <2>1. /\ last[t] = IntervalLast(size, NumThreads, t)
        /\ pos[t] \in first .. last[t] /\ first \in Nat /\ last[t] \in Int
        /\ visited \cap Mine(t) = first .. pos[t] - 1
    <3>1. pc[t] = "loop" /\ pos[t] <= last[t]
      BY <1>22 DEF Process
    <3>2. /\ last[t] = IntervalLast(size, NumThreads, t)
          /\ pos[t] \in first .. last[t] + 1
          /\ visited \cap Mine(t) = first .. pos[t] - 1
      <4>1. HowFar(t)
        OBVIOUS
      <4> QED
        BY <3>1, <4>1 DEF HowFar
    <3>3. first \in Nat /\ last[t] \in Int
      BY MineFacts
    <3> QED
      BY <3>1, <3>2, <3>3
  <2>2. pos[t] \in Mine(t) /\ pos[t] \in Positions
    BY <2>1, MineFacts
  <2>3. /\ visited' = visited \cup {pos[t]} /\ pos'[t] = pos[t] + 1
        /\ UNCHANGED <<pc, last, size, sp, threadc, arrived, thread_interval>>
        /\ pc[t] = "loop"
    BY <1>22 DEF Process, condVars, schedVars
  <2>4. HowFar(t)'
    <3>1. (visited \cup {pos[t]}) \cap Mine(t) = first .. (pos[t] + 1) - 1
      <4>1. first .. (pos[t] + 1) - 1 = (first .. pos[t] - 1) \cup {pos[t]}
        BY <2>1
      <4> QED
        BY <2>1, <2>2, <4>1
    <3>2. pos[t] + 1 \in first .. last[t] + 1
      BY <2>1
    <3> QED
      BY <2>1, <2>3, <3>1, <3>2 DEF HowFar, InRound, Working, Mine
  <2>5. ASSUME NEW u \in Threads \ {t}
        PROVE  HowFar(u)'
    <3>1. visited' \cap Mine(u) = visited \cap Mine(u)
      <4>1. Mine(t) \cap Mine(u) = {}
        BY MineFacts
      <4>2. pos[t] \notin Mine(u)
        BY <2>2, <4>1
      <4> QED
        BY <2>3, <4>2
    <3>2. visited \subseteq visited' /\ pos'[u] = pos[u] /\ HowFar(u)
      BY <1>22, <2>3 DEF Process
    <3> QED
      BY <2>3, <3>1, <3>2 DEF HowFar, InRound, Working, Mine
  <2>6. sp \in {"park", "wait"}
    BY <2>3 DEF AllOrNone, InRound, Working
  <2> QED
    BY <2>2, <2>3, <2>4, <2>5, <2>6 DEF Positions
<1>23. ASSUME NEW t \in Threads, Arrive(t)
       PROVE  Progress'
  <2>1. pc[t] = "loop" /\ pos[t] > last[t]
    BY <1>23 DEF Arrive, Moves
  <2>2. Mine(t) \subseteq visited
    <3> DEFINE first == IntervalFirst(size, NumThreads, t)
    <3>1. /\ last[t] = IntervalLast(size, NumThreads, t)
          /\ pos[t] \in first .. last[t] + 1
          /\ visited \cap Mine(t) = first .. pos[t] - 1
      <4>1. HowFar(t)
        OBVIOUS
      <4> QED
        BY <2>1, <4>1 DEF HowFar
    <3>2. first \in Nat /\ last[t] \in Int /\ Mine(t) = first .. last[t]
      BY <3>1, MineFacts
    <3>3. pos[t] - 1 = last[t]
      BY <2>1, <3>1, <3>2
    <3> QED
      BY <3>1, <3>2, <3>3
  <2>3. /\ pc'[t] = "barrier" /\ UNCHANGED <<size, sp, visited>>
        /\ \A u \in Threads \ {t} : /\ pc'[u] = pc[u] /\ pos'[u] = pos[u]
                                    /\ last'[u] = last[u]
        /\ UNCHANGED <<threadc, thread_interval>>
    BY <1>23 DEF Arrive, Moves, schedVars
  <2>4. HowFar(t)'
    BY <2>2, <2>3 DEF HowFar, Mine
  <2>5. ASSUME NEW u \in Threads \ {t}
        PROVE  HowFar(u)'
    <3>1. InRound(u)' => InRound(u)
      BY <1>23, <2>3 DEF Arrive, InRound, Working, Blocking
    <3>2. InRound(u) /\ ~InRound(u)' => pc[u] = "barrier"
      BY <1>23, <2>3 DEF Arrive, InRound, Working
    <3> QED
      BY <2>3, <3>1, <3>2 DEF HowFar, Mine
  <2> QED
    BY <2>3, <2>4, <2>5 DEF Positions
<1>24. ASSUME NEW t \in Threads, LeaveBarrier(t)
       PROVE  Progress'
  BY <1>24
     DEF LeaveBarrier, Moves, Running, HowFar, Mine, Positions, InRound,
         Working, execVars, condVars, schedVars, mainVars
<1>25. ASSUME NEW t \in Threads, SignalScheduler(t)
       PROVE  Progress'
  BY <1>25
     DEF SignalScheduler, Moves, Running, HowFar, Mine, Positions, InRound,
         Working, execVars, condVars, schedVars, mainVars
<1>26. CASE JoinUncreated
  BY <1>26
     DEF JoinUncreated, Running, HowFar, Mine, Positions, InRound, Working,
         execVars, condVars, schedVars, mainVars
<1>27. ASSUME NEW t \in Threads, CountDeleted(t)
       PROVE  Progress'
  BY <1>27
     DEF CountDeleted, Running, HowFar, Mine, Positions, InRound, Working,
         execVars, condVars, schedVars, mainVars
<1> QED
  BY <1>1, <1>2, <1>3, <1>4, <1>5, <1>6, <1>7, <1>8, <1>9, <1>10, <1>11,
     <1>12, <1>13, <1>14, <1>15, <1>16, <1>17, <1>18, <1>19, <1>20, <1>21,
     <1>22, <1>23, <1>24, <1>25, <1>26, <1>27
     DEF Next, Main, Scheduler, Exec

-----------------------------------------------------------------------------
\* RoundsInv holds at first.
LEMMA InitEstablishes == Init => RoundsInv
<1> SUFFICES ASSUME Init PROVE RoundsInv
  OBVIOUS
<1> USE DEF Init
<1>1. TypeOK
  <2>1. thread_interval \in [Threads -> [first : Int, last : Int]]
    <3>1. [first |-> 0, last |-> 0] \in [first : Int, last : Int]
      OBVIOUS
    <3> QED
      BY <3>1
  <2>2. /\ pc \in [Threads -> ExecStates] /\ ref \in [Threads -> Pointers]
        /\ pos \in [Threads -> Int] /\ last \in [Threads -> Int]
    BY DEF ExecStates, Pointers
  <2>3. sp \in SchedStates /\ mp \in MainStates /\ it2 \in Pointers
    BY DEF SchedStates, MainStates, Pointers
  <2>4. count_wait \in 0 .. NumThreads /\ created \in 0 .. NumThreads
    OBVIOUS
  <2>5. /\ threadc \subseteq Threads /\ arrived \subseteq Threads
        /\ visited \subseteq Int /\ size \in Nat
        /\ schedulec \in BOOLEAN /\ terminated \in BOOLEAN
        /\ aborted \in BOOLEAN
    OBVIOUS
  <2> QED
    BY <2>1, <2>2, <2>3, <2>4, <2>5 DEF TypeOK
<1>2. Blocking
  BY FS_EmptySet DEF Blocking
<1>3. Creation
  BY DEF Creation
<1>4. AllOrNone /\ IteratorLives
  BY DEF AllOrNone, IteratorLives, NoUseAfterFree, InRound, Working
<1>5. Progress
  <2>1. Positions = {}
    BY DEF Positions
  <2> QED
    BY <2>1 DEF Progress, HowFar, InRound, Working
<1> QED
  BY <1>1, <1>2, <1>3, <1>4, <1>5 DEF RoundsInv

\* RoundsInv speaks of the variables of Rounds only.
LEMMA StutterKeeps == RoundsInv /\ UNCHANGED vars => RoundsInv'
BY DEF vars, execVars, condVars, schedVars, mainVars, RoundsInv, TypeOK,
       Blocking, Creation, AllOrNone, IteratorLives, NoUseAfterFree, Progress,
       HowFar, InRound, Working, Mine, Positions

\* The state of the second phase, over all its threads, always satisfies the
\* inductive invariant.
THEOREM Invariance == Spec => []RoundsInv
<1>1. RoundsInv /\ [Next]_vars => RoundsInv'
  BY BlockingStep, TypeStep, CreationStep, AllOrNoneStep, IteratorStep,
     ProgressStep, StutterKeeps DEF RoundsInv
<1> QED
  BY <1>1, InitEstablishes, PTL DEF Spec

-----------------------------------------------------------------------------
(* The invariants the runs check.                                          *)

\* Every variable of the second phase keeps its type; in particular
\* count_wait never exceeds num_threads.
THEOREM TypeCorrect == Spec => []TypeOK
<1>1. RoundsInv => TypeOK
  BY DEF RoundsInv
<1> QED
  BY <1>1, Invariance, PTL

\* Without a lock between them, the schedule thread never builds or deletes
\* an iterator while an execute thread works on the table.
THEOREM SchedulingIsExclusive == Spec => []ScheduleExclusive
<1>1. RoundsInv => ScheduleExclusive
  BY DEF RoundsInv, AllOrNone, InRound, ScheduleExclusive
<1> QED
  BY <1>1, Invariance, PTL

\* The broadcast that starts a round finds all execute threads blocked.
THEOREM EveryThreadIsNotified == Spec => []NotifyReachesAll
<1>1. RoundsInv => NotifyReachesAll
  BY DEF RoundsInv, Blocking, NotifyReachesAll
<1> QED
  BY <1>1, Invariance, PTL

\* No execute thread calls an iterator that was deleted.
THEOREM IteratorIsNeverDangling == Spec => []NoUseAfterFree
<1>1. RoundsInv => NoUseAfterFree
  BY DEF RoundsInv, IteratorLives
<1> QED
  BY <1>1, Invariance, PTL

\* No two execute threads are about to process the same position, and none
\* processes a position a second time in a round.
THEOREM PositionsAreExclusive == Spec => []ExclusivePositions
<1>1. ASSUME RoundsInv
      PROVE  ExclusivePositions
  <2> USE DEF RoundsInv
  <2>1. TypeOK
    BY <1>1
  <2>2. ASSUME NEW t \in Threads, pc[t] = "loop", pos[t] <= last[t]
        PROVE  pos[t] \in Mine(t) /\ pos[t] \in Positions \ visited
    <3>1. /\ last[t] = IntervalLast(size, NumThreads, t)
          /\ pos[t] \in IntervalFirst(size, NumThreads, t) .. last[t] + 1
          /\ visited \cap Mine(t) =
               IntervalFirst(size, NumThreads, t) .. pos[t] - 1
      <4>1. HowFar(t)
        BY <1>1 DEF Progress
      <4> QED
        BY <2>2, <4>1 DEF HowFar
    <3>2. /\ IntervalFirst(size, NumThreads, t) \in Nat
          /\ IntervalLast(size, NumThreads, t) \in Int
          /\ Mine(t) = IntervalFirst(size, NumThreads, t) .. last[t]
          /\ Mine(t) \subseteq Positions
      BY <2>1, <3>1, MineFacts
    <3>3. pos[t] \in Mine(t) /\ pos[t] \notin visited \cap Mine(t)
      BY <2>2, <3>1, <3>2
    <3> QED
      BY <3>2, <3>3
  <2>3. \A t, u \in Threads : t # u => Mine(t) \cap Mine(u) = {}
    BY <2>1, MineFacts
  <2> QED
    BY <2>2, <2>3 DEF ExclusivePositions
<1> QED
  BY <1>1, Invariance, PTL

\* A round is over only when all its positions have been processed.
THEOREM RoundsAreComplete == Spec => []RoundComplete
<1>1. RoundsInv => RoundComplete
  BY DEF RoundsInv, Progress, RoundComplete
<1> QED
  BY <1>1, Invariance, PTL

\* When main goes on to the dump no execute thread is in a round, and every
\* one is blocked for good if there was a schedule thread.
THEOREM DumpIsQuiescent == Spec => []DumpQuiescent
<1>1. RoundsInv => DumpQuiescent
  BY DEF RoundsInv, Blocking, Creation, AllOrNone, DumpQuiescent
<1> QED
  BY <1>1, Invariance, PTL

-----------------------------------------------------------------------------
(* The rounds the threads promise.                                         *)

\* Rounds begins as BulkRounds does.
LEMMA PromiseInit == Init => Promise!Init
BY DEF Init, Promise!Init, Phase, Positions

\* Every step of the threads plans a round, applies one position of it, ends
\* it, stops, or is invisible at the level of rounds.
LEMMA PromiseStep ==
  RoundsInv /\ ExclusivePositions /\ [Next]_vars
    => [Promise!Next]_(Promise!vars)
<1> SUFFICES ASSUME RoundsInv, ExclusivePositions, [Next]_vars
             PROVE  Promise!Next \/ UNCHANGED Promise!vars
  OBVIOUS
<1> USE DEF Promise!Next, Promise!vars
<1>1. CASE UNCHANGED <<sp, size, visited>>
  BY <1>1 DEF Phase, Positions
<1>2. CASE CreateScheduler
  BY <1>2 DEF CreateScheduler, RoundsInv, Creation, Phase, Positions,
              execVars
<1>3. CASE ReadTerminated
  <2>1. visited = Positions /\ UNCHANGED <<size, visited>>
    BY <1>3 DEF ReadTerminated, RoundsInv, Progress, execVars
  <2>2. CASE terminated
    BY <1>3, <2>1, <2>2 DEF ReadTerminated, Phase, Positions, Promise!Stop
  <2>3. CASE ~terminated
    BY <1>3, <2>1, <2>3 DEF ReadTerminated, Phase, Positions
  <2> QED
    BY <2>2, <2>3
<1>4. CASE BuildIterator
  <2>1. PICK n \in Sizes : size' = n
    BY <1>4 DEF BuildIterator
  <2>2. Positions' \ visited' = 0 .. n - 1
    BY <1>4, <2>1 DEF BuildIterator, Positions
  <2>3. Phase = "plan" /\ Phase' = "work"
    BY <1>4 DEF BuildIterator, Phase
  <2> QED
    BY <2>2, <2>3 DEF Promise!Plan
<1>5. CASE Gather \/ Notify \/ Park \/ ScheduleWakes
  <2>1. UNCHANGED <<size, visited>> /\ Phase = "work" /\ Phase' = "work"
    BY <1>5 DEF Gather, Notify, Park, ScheduleWakes, Phase, execVars
  <2> QED
    BY <2>1 DEF Positions
<1>6. CASE DeleteIterator
  <2>1. Positions \ visited = {} /\ UNCHANGED <<size, visited>>
    BY <1>6 DEF DeleteIterator, RoundsInv, Progress
  <2>2. Phase = "work" /\ Phase' = "plan"
    BY <1>6 DEF DeleteIterator, Phase
  <2> QED
    BY <2>1, <2>2 DEF Positions, Promise!Finish
<1>7. CASE Drain
  BY <1>7 DEF Drain, Phase, Positions, execVars
<1>8. ASSUME NEW t \in Threads, Process(t)
      PROVE  Promise!Apply
  <2>1. pos[t] \in Positions \ visited
    BY <1>8 DEF Process, ExclusivePositions
  <2>2. sp \in {"park", "wait"}
    BY <1>8 DEF Process, RoundsInv, AllOrNone, InRound, Working
  <2>3. /\ UNCHANGED <<sp, size>>
        /\ visited' = visited \cup {pos[t]}
    BY <1>8 DEF Process, schedVars
  <2>4. Phase = "work" /\ Phase' = "work"
    BY <2>2, <2>3 DEF Phase
  <2>5. Positions' \ visited' = (Positions \ visited) \ {pos[t]}
    BY <2>3 DEF Positions
  <2> QED
    BY <2>1, <2>4, <2>5 DEF Promise!Apply
<1>9. CASE Main
  BY <1>1, <1>2, <1>9
     DEF Main, CreateThread, Register, CreateFails, TermCheck,
         JoinScheduler, JoinUncreated, Destroy, Dump, execVars, schedVars
<1>10. CASE Scheduler
  BY <1>3, <1>4, <1>5, <1>6, <1>7, <1>10 DEF Scheduler
<1>11. ASSUME NEW t \in Threads, Exec(t)
       PROVE  Promise!Next \/ UNCHANGED Promise!vars
  BY <1>1, <1>8, <1>11
     DEF Exec, CountAndWait, CountDeleted, ThreadWakes, LoadIterator,
         ThreadBegin, ThreadEnd, Arrive, LeaveBarrier, SignalScheduler,
         execVars, schedVars
<1>12. CASE UNCHANGED vars
  BY <1>1, <1>12 DEF vars, execVars, schedVars
<1> QED
  BY <1>9, <1>10, <1>11, <1>12 DEF Next

\* The detailed threads implement the rounds of BulkRounds.
THEOREM RoundsImplementBulkRounds == Spec => ImplementsBulkRounds
<1>1. RoundsInv /\ ExclusivePositions /\ [Next]_vars
        => [Promise!Next]_(Promise!vars)
  BY PromiseStep
<1> QED
  BY <1>1, PromiseInit, Invariance, PositionsAreExclusive, PTL
     DEF Spec, ImplementsBulkRounds, Promise!Spec

=============================================================================
