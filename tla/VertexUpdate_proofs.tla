------------------------ MODULE VertexUpdate_proofs ------------------------
(***************************************************************************)
(* For every graph, algorithm and number of threads: the lock discipline   *)
(* of run_iter and what it protects, the refinement of DeltaSpec, and the  *)
(* ledger of what is spread and what arrives.                              *)
(***************************************************************************)
EXTENDS VertexUpdate, SequenceTheorems, FiniteSetTheorems, TLAPS

\* The messages g_func buffers are messages to vertices.
LEMMA SentType ==
  ASSUME NEW d \in [Keys -> Values], NEW k \in Keys
  PROVE  [i \in DOMAIN Links[k] |->
            [to |-> Links[k][i], v |-> Gain(k, i, d[k])]]
           \in Seq([to : Keys, v : Values])
<1>1. Links[k] \in Seq(Keys) /\ DOMAIN Links[k] = 1 .. Len(Links[k])
  BY LinksAssumption
<1>2. \A i \in DOMAIN Links[k] : /\ Links[k][i] \in Keys
                                 /\ Gain(k, i, d[k]) \in Values
  <2>1. \A i \in DOMAIN Links[k] : Links[k][i] \in Keys
    BY <1>1, ElementOfSeq
  <2>2. d[k] \in Values
    OBVIOUS
  <2>3. \A i \in DOMAIN Links[k] : Gain(k, i, d[k]) \in Values
    BY <2>2, ValuesAssumption
  <2> QED
    BY <2>1, <2>3
<1> DEFINE messages == [i \in 1 .. Len(Links[k]) |->
                          [to |-> Links[k][i], v |-> Gain(k, i, d[k])]]
<1>3. Len(Links[k]) \in Nat
      /\ messages \in [1 .. Len(Links[k]) -> [to : Keys, v : Values]]
  BY <1>1, <1>2
<1>4. messages \in Seq([to : Keys, v : Values])
  <2> DEFINE M == [to : Keys, v : Values]
             n == Len(Links[k])
  <2>1. n \in Nat /\ messages \in [1 .. n -> M]
    BY <1>3
  <2>2. Seq(M) = UNION {[1 .. j -> M] : j \in Nat}
    BY SeqDef, Zenon
  <2> HIDE DEF messages, M, n
  <2>3. messages \in Seq(M)
    BY <2>1, <2>2, Zenon
  <2> QED
    BY <2>3 DEF M
<1> QED
  BY <1>1, <1>4

\* So are those of a vertex and its delta in the table.
LEMMA SpreadType ==
  ASSUME TypeOK, NEW k \in Keys
  PROVE  [i \in DOMAIN Links[k] |->
            [to |-> Links[k][i], v |-> Gain(k, i, v1[k])]]
           \in Seq([to : Keys, v : Values])
BY SentType DEF TypeOK

\* The target of a thread with something to send is a vertex.
LEMMA TargetType ==
  ASSUME TypeOK, NEW t \in Threads, output[t] # << >>
  PROVE  /\ Target(t) \in Keys /\ Head(output[t]).v \in Values
         /\ Tail(output[t]) \in Seq([to : Keys, v : Values])
<1>1. output[t] \in Seq([to : Keys, v : Values])
  BY DEF TypeOK
<1>2. Head(output[t]) \in [to : Keys, v : Values]
  BY <1>1, HeadTailProperties
<1>3. Tail(output[t]) \in Seq([to : Keys, v : Values])
  BY <1>1, HeadTailProperties
<1> QED
  BY <1>2, <1>3 DEF Target

\* TypeOK is preserved.
LEMMA TypeStep == VertexInv /\ Next => TypeOK'
<1> SUFFICES ASSUME VertexInv, Next PROVE TypeOK'
  OBVIOUS
<1> USE DEF VertexInv, TypeOK, Steps
<1>1. CASE NewRound
  BY <1>1, SchedulesAssumption DEF NewRound, rows, locals
<1>2. ASSUME NEW t \in Threads, Begin(t)
      PROVE  TypeOK'
  BY <1>2 DEF Begin, Moves, rows, locals
<1>3. ASSUME NEW t \in Threads, LockVertex(t)
      PROVE  TypeOK'
  BY <1>3, NamesAssumption DEF LockVertex, Moves, rows, locals, Lock, Locals
<1>4. ASSUME NEW t \in Threads, AccumulateF2(t)
      PROVE  TypeOK'
  BY <1>4, ValuesAssumption DEF AccumulateF2, Moves, rows, locals, Locals
<1>5. ASSUME NEW t \in Threads, Spread(t)
      PROVE  TypeOK'
  BY <1>5, SpreadType DEF Spread, Moves, rows, locals, Locals
<1>6. ASSUME NEW t \in Threads, UpdateF1(t)
      PROVE  TypeOK'
  BY <1>6, ValuesAssumption DEF UpdateF1, Moves, rows, locals, Locals
<1>7. ASSUME NEW t \in Threads, UnlockVertex(t)
      PROVE  TypeOK'
  BY <1>7 DEF UnlockVertex, Moves, rows, locals, Unlock, Locals
<1>8. ASSUME NEW t \in Threads, LockTarget(t)
      PROVE  TypeOK'
  BY <1>8, TargetType DEF LockTarget, Moves, rows, locals, Lock
<1>9. ASSUME NEW t \in Threads, ReadDelta(t)
      PROVE  TypeOK'
  BY <1>9, TargetType DEF ReadDelta, Moves, rows, locals, Locals
<1>10. ASSUME NEW t \in Threads, WriteDelta(t)
       PROVE  TypeOK'
  BY <1>10, TargetType, ValuesAssumption DEF WriteDelta, Moves, rows, locals, Locals
<1>11. ASSUME NEW t \in Threads, SetPriority(t)
       PROVE  TypeOK'
  BY <1>11, TargetType DEF SetPriority, Moves, rows, locals, Locals
<1>12. ASSUME NEW t \in Threads, UnlockTarget(t)
       PROVE  TypeOK'
  BY <1>12, TargetType DEF UnlockTarget, Moves, rows, locals, Unlock, Locals
<1>13. ASSUME NEW t \in Threads, Return(t)
       PROVE  TypeOK'
  BY <1>13 DEF Return, Moves, rows, locals
<1> QED
  BY <1>1, <1>2, <1>3, <1>4, <1>5, <1>6, <1>7, <1>8, <1>9, <1>10, <1>11,
     <1>12, <1>13 DEF Next, Thread

\* Locals is preserved.
LEMMA LocalsStep == VertexInv /\ Next => Locals'
<1> SUFFICES ASSUME VertexInv, Next PROVE Locals'
  OBVIOUS
<1> USE DEF VertexInv, TypeOK, Locals
<1>1. CASE NewRound
  BY <1>1 DEF NewRound, rows, locals
<1>2. ASSUME NEW t \in Threads, Begin(t)
      PROVE  Locals'
  BY <1>2 DEF Begin, Moves, rows, locals
<1>3. ASSUME NEW t \in Threads, LockVertex(t)
      PROVE  Locals'
  BY <1>3 DEF LockVertex, Moves, rows, locals, Lock
<1>4. ASSUME NEW t \in Threads, AccumulateF2(t)
      PROVE  Locals'
  BY <1>4 DEF AccumulateF2, Moves, rows, locals
<1>5. ASSUME NEW t \in Threads, Spread(t)
      PROVE  Locals'
  BY <1>5 DEF Spread, Moves, rows, locals
<1>6. ASSUME NEW t \in Threads, UpdateF1(t)
      PROVE  Locals'
  BY <1>6 DEF UpdateF1, Moves, rows, locals
<1>7. ASSUME NEW t \in Threads, UnlockVertex(t)
      PROVE  Locals'
  BY <1>7, NamesAssumption DEF UnlockVertex, Moves, rows, locals, Unlock
<1>8. ASSUME NEW t \in Threads, LockTarget(t)
      PROVE  Locals'
  BY <1>8, NamesAssumption DEF LockTarget, Moves, rows, locals, Lock
<1>9. ASSUME NEW t \in Threads, ReadDelta(t)
      PROVE  Locals'
  BY <1>9 DEF ReadDelta, Moves, rows, locals
<1>10. ASSUME NEW t \in Threads, WriteDelta(t)
       PROVE  Locals'
  BY <1>10 DEF WriteDelta, Moves, rows, locals
<1>11. ASSUME NEW t \in Threads, SetPriority(t)
       PROVE  Locals'
  BY <1>11 DEF SetPriority, Moves, rows, locals
<1>12. ASSUME NEW t \in Threads, UnlockTarget(t)
       PROVE  Locals'
  BY <1>12, NamesAssumption DEF UnlockTarget, Moves, rows, locals, Unlock
<1>13. ASSUME NEW t \in Threads, Return(t)
       PROVE  Locals'
  BY <1>13 DEF Return, Moves, rows, locals
<1> QED
  BY <1>1, <1>2, <1>3, <1>4, <1>5, <1>6, <1>7, <1>8, <1>9, <1>10, <1>11,
     <1>12, <1>13 DEF Next, Thread

\* LockDiscipline is preserved: a lock is taken where Held says so, and given
\* back where Held stops saying so.
LEMMA LockStep == VertexInv /\ Next => LockDiscipline'
<1> SUFFICES ASSUME VertexInv, Next PROVE LockDiscipline'
  OBVIOUS
<1> USE DEF VertexInv, TypeOK, LockDiscipline, Held, Target
<1>1. CASE NewRound
  BY <1>1 DEF NewRound, rows, locals
<1>2. ASSUME NEW t \in Threads, Begin(t)
      PROVE  LockDiscipline'
  BY <1>2 DEF Begin, Moves, rows, locals
<1>3. ASSUME NEW t \in Threads, LockVertex(t)
      PROVE  LockDiscipline'
  BY <1>3, NamesAssumption DEF LockVertex, Moves, rows, locals, Lock, Locals
<1>4. ASSUME NEW t \in Threads, AccumulateF2(t)
      PROVE  LockDiscipline'
  BY <1>4 DEF AccumulateF2, Moves, rows, locals
<1>5. ASSUME NEW t \in Threads, Spread(t)
      PROVE  LockDiscipline'
  BY <1>5 DEF Spread, Moves, rows, locals
<1>6. ASSUME NEW t \in Threads, UpdateF1(t)
      PROVE  LockDiscipline'
  BY <1>6 DEF UpdateF1, Moves, rows, locals
<1>7. ASSUME NEW t \in Threads, UnlockVertex(t)
      PROVE  LockDiscipline'
  BY <1>7, NamesAssumption DEF UnlockVertex, Moves, rows, locals, Unlock
<1>8. ASSUME NEW t \in Threads, LockTarget(t)
      PROVE  LockDiscipline'
  BY <1>8, NamesAssumption DEF LockTarget, Moves, rows, locals, Lock
<1>9. ASSUME NEW t \in Threads, ReadDelta(t)
      PROVE  LockDiscipline'
  BY <1>9 DEF ReadDelta, Moves, rows, locals
<1>10. ASSUME NEW t \in Threads, WriteDelta(t)
       PROVE  LockDiscipline'
  BY <1>10 DEF WriteDelta, Moves, rows, locals
<1>11. ASSUME NEW t \in Threads, SetPriority(t)
       PROVE  LockDiscipline'
  BY <1>11 DEF SetPriority, Moves, rows, locals
<1>12. ASSUME NEW t \in Threads, UnlockTarget(t)
       PROVE  LockDiscipline'
  BY <1>12, NamesAssumption DEF UnlockTarget, Moves, rows, locals, Unlock
<1>13. ASSUME NEW t \in Threads, Return(t)
       PROVE  LockDiscipline'
  BY <1>13 DEF Return, Moves, rows, locals
<1> QED
  BY <1>1, <1>2, <1>3, <1>4, <1>5, <1>6, <1>7, <1>8, <1>9, <1>10, <1>11,
     <1>12, <1>13 DEF Next, Thread

\* NoLostMessage is preserved: the delta a thread has read is covered by a
\* lock that nobody else holds.
LEMMA MessageStep == VertexInv /\ Next => NoLostMessage'
<1> SUFFICES ASSUME VertexInv, Next PROVE NoLostMessage'
  OBVIOUS
<1> USE DEF VertexInv, TypeOK, NoLostMessage, Target
<1>1. CASE NewRound
  BY <1>1 DEF NewRound, rows, locals
<1>2. ASSUME NEW t \in Threads, Begin(t)
      PROVE  NoLostMessage'
  BY <1>2 DEF Begin, Moves, rows, locals
<1>3. ASSUME NEW t \in Threads, LockVertex(t)
      PROVE  NoLostMessage'
  BY <1>3 DEF LockVertex, Moves, rows, locals, Lock
<1>4. ASSUME NEW t \in Threads, AccumulateF2(t)
      PROVE  NoLostMessage'
  BY <1>4 DEF AccumulateF2, Moves, rows, locals
<1>5. ASSUME NEW t \in Threads, Spread(t)
      PROVE  NoLostMessage'
  BY <1>5 DEF Spread, Moves, rows, locals
<1>6. ASSUME NEW t \in Threads, UpdateF1(t)
      PROVE  NoLostMessage'
  <2>1. ASSUME NEW u \in Threads, pc'[u] = "write"
        PROVE  Target(u) # key[t] /\ UNCHANGED <<read[u], Target(u)>>
    <3>1. pc[u] = "write" /\ u # t /\ pc[t] = "reset"
      BY <1>6, <2>1 DEF UpdateF1, Moves
    <3>2. key[t] \in Keys /\ Target(u) \in Keys
      BY <3>1, TargetType DEF Locals
    <3>3. holder[key[t]] = t /\ holder[Target(u)] = u
      <4>1. key[t] \in Held(t) /\ Target(u) \in Held(u)
        BY <3>1 DEF Held
      <4> QED
        BY <3>2, <4>1 DEF LockDiscipline
    <3> QED
      BY <1>6, <3>1, <3>3 DEF UpdateF1, locals, Target
  <2> QED
    BY <1>6, <2>1 DEF UpdateF1, Moves, locals
<1>7. ASSUME NEW t \in Threads, UnlockVertex(t)
      PROVE  NoLostMessage'
  BY <1>7, NamesAssumption DEF UnlockVertex, Moves, rows, locals, Unlock
<1>8. ASSUME NEW t \in Threads, LockTarget(t)
      PROVE  NoLostMessage'
  BY <1>8, NamesAssumption DEF LockTarget, Moves, rows, locals, Lock
<1>9. ASSUME NEW t \in Threads, ReadDelta(t)
      PROVE  NoLostMessage'
  BY <1>9 DEF ReadDelta, Moves, rows, locals
<1>10. ASSUME NEW t \in Threads, WriteDelta(t)
       PROVE  NoLostMessage'
  BY <1>10, TargetType
     DEF WriteDelta, Moves, rows, locals, LockDiscipline, Held, Locals
<1>11. ASSUME NEW t \in Threads, SetPriority(t)
       PROVE  NoLostMessage'
  BY <1>11 DEF SetPriority, Moves, rows, locals
<1>12. ASSUME NEW t \in Threads, UnlockTarget(t)
       PROVE  NoLostMessage'
  BY <1>12, NamesAssumption DEF UnlockTarget, Moves, rows, locals, Unlock
<1>13. ASSUME NEW t \in Threads, Return(t)
       PROVE  NoLostMessage'
  BY <1>13 DEF Return, Moves, rows, locals
<1> QED
  BY <1>1, <1>2, <1>3, <1>4, <1>5, <1>6, <1>7, <1>8, <1>9, <1>10, <1>11,
     <1>12, <1>13 DEF Next, Thread

\* PriorityOwed is preserved.
LEMMA PriorityStep == VertexInv /\ Next => PriorityOwed'
<1> SUFFICES ASSUME VertexInv, Next PROVE PriorityOwed'
  OBVIOUS
<1> USE DEF VertexInv, TypeOK, PriorityOwed, Held, Target
<1>1. CASE NewRound
  BY <1>1 DEF NewRound, rows, locals
<1>2. ASSUME NEW t \in Threads, Begin(t)
      PROVE  PriorityOwed'
  BY <1>2 DEF Begin, Moves, rows, locals
<1>3. ASSUME NEW t \in Threads, LockVertex(t)
      PROVE  PriorityOwed'
  BY <1>3 DEF LockVertex, Moves, rows, locals, Lock
<1>4. ASSUME NEW t \in Threads, AccumulateF2(t)
      PROVE  PriorityOwed'
  BY <1>4 DEF AccumulateF2, Moves, rows, locals
<1>5. ASSUME NEW t \in Threads, Spread(t)
      PROVE  PriorityOwed'
  BY <1>5 DEF Spread, Moves, rows, locals
<1>6. ASSUME NEW t \in Threads, UpdateF1(t)
      PROVE  PriorityOwed'
  BY <1>6, PriorityAssumption DEF UpdateF1, Moves, rows, locals, Locals
<1>7. ASSUME NEW t \in Threads, UnlockVertex(t)
      PROVE  PriorityOwed'
  BY <1>7, NamesAssumption DEF UnlockVertex, Moves, rows, locals, Unlock
<1>8. ASSUME NEW t \in Threads, LockTarget(t)
      PROVE  PriorityOwed'
  BY <1>8, NamesAssumption DEF LockTarget, Moves, rows, locals, Lock
<1>9. ASSUME NEW t \in Threads, ReadDelta(t)
      PROVE  PriorityOwed'
  BY <1>9 DEF ReadDelta, Moves, rows, locals
<1>10. ASSUME NEW t \in Threads, WriteDelta(t)
       PROVE  PriorityOwed'
  BY <1>10 DEF WriteDelta, Moves, rows, locals
<1>11. ASSUME NEW t \in Threads, SetPriority(t)
       PROVE  PriorityOwed'
  BY <1>11 DEF SetPriority, Moves, rows, locals
<1>12. ASSUME NEW t \in Threads, UnlockTarget(t)
       PROVE  PriorityOwed'
  BY <1>12, NamesAssumption DEF UnlockTarget, Moves, rows, locals, Unlock
<1>13. ASSUME NEW t \in Threads, Return(t)
       PROVE  PriorityOwed'
  BY <1>13 DEF Return, Moves, rows, locals
<1> QED
  BY <1>1, <1>2, <1>3, <1>4, <1>5, <1>6, <1>7, <1>8, <1>9, <1>10, <1>11,
     <1>12, <1>13 DEF Next, Thread

-----------------------------------------------------------------------------
\* At first no lock is held and nothing is buffered.
LEMMA InitEstablishes == Init => VertexInv
<1> SUFFICES ASSUME Init PROVE VertexInv
  OBVIOUS
<1> USE DEF Init
<1>1. TypeOK
  BY EmptySeq, ValuesAssumption DEF TypeOK, Steps
<1>2. Locals /\ NoLostMessage /\ PriorityOwed
  BY DEF Locals, NoLostMessage, PriorityOwed
<1>3. LockDiscipline
  BY NamesAssumption DEF LockDiscipline, Held
<1> QED
  BY <1>1, <1>2, <1>3 DEF VertexInv

\* VertexInv says nothing of the variables a stutter may change.
LEMMA StutterKeeps == VertexInv /\ UNCHANGED vars => VertexInv'
<1> SUFFICES ASSUME VertexInv, UNCHANGED vars PROVE VertexInv'
  OBVIOUS
<1> USE DEF VertexInv, vars, rows, locals
<1>1. TypeOK' /\ Locals'
  BY DEF TypeOK, Locals
<1>2. LockDiscipline'
  BY DEF LockDiscipline, Held, Target
<1>3. NoLostMessage'
  BY DEF NoLostMessage, Target
<1>4. PriorityOwed'
  BY DEF PriorityOwed, Held, Target
<1> QED
  BY <1>1, <1>2, <1>3, <1>4

\* The rows, the locks and the threads always satisfy the inductive
\* invariant of run_iter.
THEOREM Invariance == Spec => []VertexInv
<1>1. VertexInv /\ [Next]_vars => VertexInv'
  BY TypeStep, LocalsStep, LockStep, MessageStep, PriorityStep, StutterKeeps
     DEF VertexInv
<1> QED
  BY <1>1, InitEstablishes, PTL DEF Spec

-----------------------------------------------------------------------------
(* The invariants the runs check.                                          *)

\* Every variable of run_iter keeps its type; in particular every message
\* that is buffered goes to a vertex of the table.
THEOREM TypeCorrect == Spec => []TypeOK
<1>1. VertexInv => TypeOK
  BY DEF VertexInv
<1> QED
  BY <1>1, Invariance, PTL

\* A thread holds the lock of the row it touches, and never two locks.
THEOREM OneLockAtATime == Spec => []LockDiscipline
<1>1. VertexInv => LockDiscipline
  BY DEF VertexInv
<1> QED
  BY <1>1, Invariance, PTL

\* No two messages for one vertex overwrite each other.
THEOREM NoMessageIsLost == Spec => []NoLostMessage
<1>1. VertexInv => NoLostMessage
  BY DEF VertexInv
<1> QED
  BY <1>1, Invariance, PTL

\* The priority of a row that nobody has locked is up to date, for every
\* algorithm whose priority of a value and the neutral delta is 0.
THEOREM PrioritiesAreFresh == Spec => []PriorityFresh
<1>1. ASSUME VertexInv, NEW k \in Keys, holder[k] = NoThread
      PROVE  priority[k] = Pri(v2[k], v1[k])
  <2>1. \A t \in Threads : k \notin Held(t)
    BY <1>1, NamesAssumption DEF VertexInv, LockDiscipline
  <2> QED
    BY <1>1, <2>1 DEF VertexInv, PriorityOwed
<1>2. VertexInv => PriorityFresh
  BY <1>1 DEF PriorityFresh
<1> QED
  BY <1>2, Invariance, PTL

-----------------------------------------------------------------------------
(* The messages under way, as a bag.                                       *)

\* Messages by thread and place, and the bag of them.
Flight(u) == UNION {{<<t, i>> : i \in DOMAIN u[t]} : t \in Threads}

Copies(u, x) == {m \in Flight(u) : u[m[1]][m[2]] = x}

MailOf(u) ==
  [x \in {u[m[1]][m[2]] : m \in Flight(u)} |-> Cardinality(Copies(u, x))]

\* The places of x in a sequence, and its copies elsewhere.
Places(s, x) == {i \in DOMAIN s : s[i] = x}

Elsewhere(u, t, x) == {m \in Copies(u, x) : m[1] # t}

\* A sequence of messages for each thread.
Sequences == [Threads -> Seq([to : Keys, v : Values])]

\* A message is at finitely many places of a sequence.
LEMMA PlacesFinite ==
  ASSUME NEW M, NEW s \in Seq(M), NEW x
  PROVE  IsFiniteSet(Places(s, x)) /\ Cardinality(Places(s, x)) \in Nat
<1>1. DOMAIN s = 1 .. Len(s) /\ Len(s) \in Nat
  OBVIOUS
<1>2. IsFiniteSet(DOMAIN s)
  BY <1>1, FS_Interval
<1>3. Places(s, x) \in SUBSET DOMAIN s
  BY DEF Places
<1>. QED
  BY <1>2, <1>3, FS_Subset, FS_CardinalityType

\* There are as many pairs with a fixed first element as second ones.
LEMMA PairsCount ==
  ASSUME NEW t, NEW I, IsFiniteSet(I)
  PROVE  /\ IsFiniteSet({<<t, i>> : i \in I})
         /\ Cardinality({<<t, i>> : i \in I}) = Cardinality(I)
<1> DEFINE P == {<<t, i>> : i \in I}
           f == [i \in I |-> <<t, i>>]
<1>1. f \in Bijection(I, P)
  <2>1. f \in [I -> P]
    OBVIOUS
  <2>2. \A a, b \in I : f[a] = f[b] => a = b
    OBVIOUS
  <2>3. \A p \in P : \E i \in I : f[i] = p
    OBVIOUS
  <2>. QED
    BY <2>1, <2>2, <2>3 DEF Bijection, Injection, Surjection, IsInjective
<1>2. ExistsBijection(I, P)
  BY <1>1 DEF ExistsBijection
<1>. QED
  BY <1>2, FS_Bijection

\* A tail has the places of the sequence but the first.
LEMMA TailPlaces ==
  ASSUME NEW M, NEW s \in Seq(M), s # << >>, NEW x
  PROVE  Cardinality(Places(Tail(s), x)) =
           Cardinality(Places(s, x)) - (IF Head(s) = x THEN 1 ELSE 0)
<1> DEFINE n == Len(s)
           P == Places(Tail(s), x)
           Q == Places(s, x) \ {1}
           f == [i \in P |-> i + 1]
<1>1. /\ n \in Nat \ {0} /\ DOMAIN s = 1 .. n /\ Head(s) = s[1]
      /\ Tail(s) \in Seq(M) /\ DOMAIN Tail(s) = 1 .. n - 1
      /\ \A i \in 1 .. n - 1 : Tail(s)[i] = s[i + 1]
  BY HeadTailProperties, EmptySeq
<1>2. f \in Bijection(P, Q)
  <2>1. \A i \in P : i + 1 \in Q
    BY <1>1 DEF Places
  <2>2. \A j \in Q : j - 1 \in P /\ (j - 1) + 1 = j
    BY <1>1 DEF Places
  <2>3. \A a, b \in P : f[a] = f[b] => a = b
    BY <1>1 DEF Places
  <2>4. f \in [P -> Q]
    BY <2>1
  <2>5. \A j \in Q : \E i \in P : f[i] = j
    BY <2>2
  <2> HIDE DEF f, P, Q
  <2>. QED
    BY <2>3, <2>4, <2>5 DEF Bijection, Injection, Surjection, IsInjective
<1>3. IsFiniteSet(P) /\ IsFiniteSet(Places(s, x)) /\ Cardinality(Places(s, x)) \in Nat
  BY <1>1, PlacesFinite
<1>4. Cardinality(P) = Cardinality(Q)
  BY <1>2, <1>3, FS_Bijection DEF ExistsBijection
<1>5. 1 \in Places(s, x) <=> Head(s) = x
  BY <1>1 DEF Places
<1>6. Cardinality(Q) = IF 1 \in Places(s, x) THEN Cardinality(Places(s, x)) - 1
                       ELSE Cardinality(Places(s, x))
  BY <1>3, FS_RemoveElement
<1>. QED
  BY <1>3, <1>4, <1>5, <1>6

\* A family of subsets of a finite set has one that loses every element
\* only by leaving the family: the least counterexample of what follows.
LEMMA LeastSet ==
  ASSUME NEW S, IsFiniteSet(S), NEW B \in SUBSET SUBSET S, B # {}
  PROVE  \E T \in B : \A x \in T : T \ {x} \notin B
<1>1. B \subseteq FiniteSubsetsOf(S)
  BY FS_FiniteSubsetsOfFinite
<1>2. PICK T \in B : \A U \in B : <<U, T>> \notin StrictSubsetOrdering(S)
  BY <1>1, FS_StrictSubsetOrderingWellFounded, WFMin
<1>3. ASSUME NEW x \in T, T \ {x} \in B
      PROVE  <<T \ {x}, T>> \in StrictSubsetOrdering(S)
  BY <1>3 DEF StrictSubsetOrdering
<1>. QED
  BY <1>2, <1>3

\* The messages of some of the threads.
FlightOf(u, T) == UNION {{<<t, i>> : i \in DOMAIN u[t]} : t \in T}

\* Finitely many messages are under way.
LEMMA FlightFinite ==
  ASSUME NEW u \in Sequences
  PROVE  IsFiniteSet(Flight(u))
<1> USE FiniteAssumption
<1> DEFINE Bad == {T \in SUBSET Threads : ~ IsFiniteSet(FlightOf(u, T))}
<1> SUFFICES ASSUME Bad # {} PROVE FALSE
  BY DEF Flight, FlightOf
<1>1. PICK T \in Bad : \A t \in T : T \ {t} \notin Bad
  BY LeastSet
<1>2. CASE T = {}
  <2>1. FlightOf(u, T) = {}
    BY <1>2 DEF FlightOf
  <2>. QED
    BY <2>1, FS_EmptySet
<1>3. ASSUME NEW t \in T PROVE FALSE
  <2>1. t \in Threads /\ u[t] \in Seq([to : Keys, v : Values])
    BY DEF Sequences
  <2>2. DOMAIN u[t] = 1 .. Len(u[t]) /\ Len(u[t]) \in Nat
    BY <2>1
  <2>3. IsFiniteSet({<<t, i>> : i \in DOMAIN u[t]})
    <3>1. IsFiniteSet(DOMAIN u[t])
      BY <2>2, FS_Interval
    <3>. QED
      BY <3>1, PairsCount
  <2>4. IsFiniteSet(FlightOf(u, T \ {t}))
    BY <1>1
  <2>5. FlightOf(u, T) = FlightOf(u, T \ {t}) \cup {<<t, i>> : i \in DOMAIN u[t]}
    BY DEF FlightOf
  <2>. QED
    BY <2>3, <2>4, <2>5, FS_Union
<1>. QED
  BY <1>2, <1>3

\* The copies of x are those of one thread and those elsewhere.
LEMMA CopiesSplit ==
  ASSUME NEW u \in Sequences, NEW t \in Threads, NEW x
  PROVE  /\ IsFiniteSet(Copies(u, x))
         /\ Cardinality(Elsewhere(u, t, x)) \in Nat
         /\ Cardinality(Copies(u, x)) =
              Cardinality(Elsewhere(u, t, x)) + Cardinality(Places(u[t], x))
<1> USE FiniteAssumption
<1> DEFINE H == {<<t, i>> : i \in Places(u[t], x)}
<1>1. u[t] \in Seq([to : Keys, v : Values])
  BY DEF Sequences
<1>2. IsFiniteSet(Copies(u, x)) /\ IsFiniteSet(Elsewhere(u, t, x))
  BY FlightFinite, FS_Subset DEF Copies, Elsewhere
<1>3. IsFiniteSet(H) /\ Cardinality(H) = Cardinality(Places(u[t], x))
  BY <1>1, PlacesFinite, PairsCount
<1>4. Copies(u, x) = Elsewhere(u, t, x) \cup H /\ Elsewhere(u, t, x) \cap H = {}
  <2>1. \A m \in Copies(u, x) : m[1] = t => m \in H
    BY DEF Copies, Flight, Places
  <2>2. H \subseteq Copies(u, x)
    BY DEF Copies, Flight, Places
  <2>3. \A m \in H : m[1] = t
    OBVIOUS
  <2> HIDE DEF H
  <2>. QED
    BY <2>1, <2>2, <2>3 DEF Elsewhere
<1>5. Cardinality(Elsewhere(u, t, x)) \in Nat /\ Cardinality(H) \in Nat
  BY <1>2, <1>3, FS_CardinalityType
<1>6. Cardinality(Copies(u, x)) = Cardinality(Elsewhere(u, t, x)) + Cardinality(H) - Cardinality({})
  BY <1>2, <1>3, <1>4, FS_Union
<1>. QED
  BY <1>2, <1>3, <1>5, <1>6, FS_EmptySet

\* What elsewhere is does not depend on the thread.
LEMMA ElsewhereSame ==
  ASSUME NEW u \in Sequences, NEW t \in Threads, NEW s, NEW x
  PROVE  Elsewhere([u EXCEPT ![t] = s], t, x) = Elsewhere(u, t, x)
<1> DEFINE w == [u EXCEPT ![t] = s]
<1>1. \A r \in Threads : r # t => w[r] = u[r]
  BY DEF Sequences
<1>2. ASSUME NEW m, m[1] # t PROVE m \in Copies(w, x) <=> m \in Copies(u, x)
  <2>1. m \in Flight(w) <=> m \in Flight(u)
    BY <1>1, <1>2 DEF Flight
  <2>2. m \in Flight(u) => m[1] \in Threads
    BY DEF Flight
  <2>. QED
    BY <1>1, <1>2, <2>1, <2>2 DEF Copies
<1> HIDE DEF w
<1>3. Elsewhere(w, t, x) = Elsewhere(u, t, x)
  BY <1>2 DEF Elsewhere
<1>. QED
  BY <1>3 DEF w

\* The bag of the messages counts how often each is under way.
LEMMA MailCounts ==
  ASSUME NEW u \in Sequences
  PROVE  /\ MailOf(u) = [x \in DOMAIN MailOf(u) |-> Cardinality(Copies(u, x))]
         /\ \A x : /\ Cardinality(Copies(u, x)) \in Nat
                   /\ x \in DOMAIN MailOf(u) <=> Cardinality(Copies(u, x)) # 0
<1> USE FiniteAssumption
<1>1. MailOf(u) = [x \in DOMAIN MailOf(u) |-> Cardinality(Copies(u, x))]
  BY DEF MailOf
<1>2. ASSUME NEW x
      PROVE  /\ Cardinality(Copies(u, x)) \in Nat
             /\ x \in DOMAIN MailOf(u) <=> Cardinality(Copies(u, x)) # 0
  <2>1. IsFiniteSet(Copies(u, x))
    BY FlightFinite, FS_Subset DEF Copies
  <2>2. x \in DOMAIN MailOf(u) <=> Copies(u, x) # {}
    BY DEF MailOf, Copies
  <2>. QED
    BY <2>1, <2>2, FS_EmptySet, FS_CardinalityType
<1>. QED
  BY <1>1, <1>2

\* DeltaSpec counts as this module does.
LEMMA SameCardinality ==
  ASSUME NEW S
  PROVE  Promise!Cardinality(S) = Cardinality(S)
BY DEF Promise!Cardinality, Cardinality

\* A thread that has nothing to send takes a sequence of messages.
LEMMA MailOfMore ==
  ASSUME NEW u \in Sequences, NEW t \in Threads, u[t] = << >>,
         NEW s \in Seq([to : Keys, v : Values])
  PROVE  MailOf([u EXCEPT ![t] = s]) = Promise!(+)(MailOf(u), Promise!BagOf(s))
<1> USE FiniteAssumption
<1> DEFINE w == [u EXCEPT ![t] = s]
           B == Promise!BagOf(s)
<1>1. w \in Sequences /\ w[t] = s
  BY DEF Sequences
<1>2. \A x : Elsewhere(w, t, x) = Elsewhere(u, t, x)
  BY ElsewhereSame
<1> HIDE DEF w
<1>3. ASSUME NEW x
      PROVE  /\ Cardinality(Copies(w, x)) = Cardinality(Copies(u, x)) + Cardinality(Places(s, x))
             /\ Cardinality(Copies(u, x)) \in Nat /\ Cardinality(Places(s, x)) \in Nat
             /\ Places(s, x) # {} <=> Cardinality(Places(s, x)) # 0
  <2>1. Places(u[t], x) = {}
    BY DEF Places
  <2>2. Cardinality(Copies(u, x)) = Cardinality(Elsewhere(u, t, x)) + 0
        /\ Cardinality(Elsewhere(u, t, x)) \in Nat
    BY <2>1, CopiesSplit, FS_EmptySet
  <2>3. Cardinality(Copies(w, x)) = Cardinality(Elsewhere(u, t, x)) + Cardinality(Places(s, x))
    BY <1>1, <1>2, CopiesSplit
  <2>4. IsFiniteSet(Places(s, x)) /\ Cardinality(Places(s, x)) \in Nat
    BY PlacesFinite
  <2>. QED
    BY <2>2, <2>3, <2>4, FS_EmptySet
<1>4. /\ \A x : x \in DOMAIN B <=> Places(s, x) # {}
      /\ \A x \in DOMAIN B : B[x] = Cardinality(Places(s, x))
  <2>1. B = [x \in {s[i] : i \in DOMAIN s} |-> Cardinality(Places(s, x))]
    BY SameCardinality DEF Promise!BagOf, Places
  <2> HIDE DEF B
  <2>2. /\ DOMAIN B = {s[i] : i \in DOMAIN s}
        /\ \A x \in DOMAIN B : B[x] = Cardinality(Places(s, x))
    BY <2>1
  <2>. QED
    BY <2>1, <2>2 DEF Places
<1> HIDE DEF B
<1>5. ASSUME NEW x
      PROVE  x \in DOMAIN MailOf(w) <=> x \in DOMAIN MailOf(u) \cup DOMAIN B
  BY <1>1, <1>3, <1>4, MailCounts
<1>6. ASSUME NEW x \in DOMAIN MailOf(w)
      PROVE  MailOf(w)[x] = (IF x \in DOMAIN MailOf(u) THEN MailOf(u)[x] ELSE 0)
                            + (IF x \in DOMAIN B THEN B[x] ELSE 0)
  <2>1. MailOf(w)[x] = Cardinality(Copies(w, x))
    BY <1>1, MailCounts
  <2>2. (IF x \in DOMAIN MailOf(u) THEN MailOf(u)[x] ELSE 0) = Cardinality(Copies(u, x))
    BY MailCounts
  <2>3. (IF x \in DOMAIN B THEN B[x] ELSE 0) = Cardinality(Places(s, x))
    BY <1>3, <1>4
  <2>. QED
    BY <1>3, <2>1, <2>2, <2>3
<1>7. DOMAIN MailOf(w) = DOMAIN MailOf(u) \cup DOMAIN B
  BY <1>5
<1>8. MailOf(w) = [x \in DOMAIN MailOf(w) |-> MailOf(w)[x]]
  BY DEF MailOf
<1>9. MailOf(w) = Promise!(+)(MailOf(u), B)
  BY <1>6, <1>7, <1>8 DEF Promise!(+)
<1>. QED
  BY <1>9 DEF w, B

\* A thread takes its first message away.
LEMMA MailOfLess ==
  ASSUME NEW u \in Sequences, NEW t \in Threads, u[t] # << >>
  PROVE  /\ Head(u[t]) \in Promise!BagToSet(MailOf(u))
         /\ MailOf([u EXCEPT ![t] = Tail(@)]) =
              Promise!(-)(MailOf(u), Promise!SetToBag({Head(u[t])}))
<1> USE FiniteAssumption
<1> DEFINE w == [u EXCEPT ![t] = Tail(@)]
           m == Head(u[t])
           B == Promise!SetToBag({m})
<1>1. u[t] \in Seq([to : Keys, v : Values])
  BY DEF Sequences
<1>2. w \in Sequences /\ w[t] = Tail(u[t])
  <2>1. Tail(u[t]) \in Seq([to : Keys, v : Values])
    BY <1>1, HeadTailProperties
  <2>. QED
    BY <2>1 DEF Sequences
<1>3. \A x : Elsewhere(w, t, x) = Elsewhere(u, t, x)
  BY ElsewhereSame
<1> HIDE DEF w, m
<1>4. ASSUME NEW x
      PROVE  /\ Cardinality(Copies(w, x)) = Cardinality(Copies(u, x)) - (IF m = x THEN 1 ELSE 0)
             /\ Cardinality(Copies(u, x)) \in Nat /\ Cardinality(Copies(w, x)) \in Nat
  <2>1. Cardinality(Places(w[t], x)) = Cardinality(Places(u[t], x)) - (IF m = x THEN 1 ELSE 0)
    BY <1>1, <1>2, TailPlaces DEF m
  <2>2. Cardinality(Copies(u, x)) = Cardinality(Elsewhere(u, t, x)) + Cardinality(Places(u[t], x))
        /\ Cardinality(Elsewhere(u, t, x)) \in Nat
    BY CopiesSplit
  <2>3. Cardinality(Copies(w, x)) = Cardinality(Elsewhere(u, t, x)) + Cardinality(Places(w[t], x))
    BY <1>2, <1>3, CopiesSplit
  <2>4. Cardinality(Places(u[t], x)) \in Nat
    BY <1>1, PlacesFinite
  <2>5. Cardinality(Copies(u, x)) \in Nat /\ Cardinality(Copies(w, x)) \in Nat
    BY <1>2, MailCounts
  <2>. QED
    BY <2>1, <2>2, <2>3, <2>4, <2>5
<1>5. DOMAIN B = {m} /\ B[m] = 1
  BY DEF Promise!SetToBag
<1> HIDE DEF B
<1>6. m \in DOMAIN MailOf(u)
  BY <1>4, MailCounts
<1> DEFINE D == [x \in DOMAIN MailOf(u) |-> IF x \in DOMAIN B THEN MailOf(u)[x] - B[x]
                                            ELSE MailOf(u)[x]]
<1>7. \A x \in DOMAIN MailOf(u) : D[x] = Cardinality(Copies(w, x))
  <2>1. \A x \in DOMAIN MailOf(u) : MailOf(u)[x] = Cardinality(Copies(u, x))
    BY MailCounts
  <2>. QED
    BY <1>4, <1>5, <2>1
<1>8. DOMAIN MailOf(w) = {x \in DOMAIN D : D[x] > 0}
  <2>1. DOMAIN D = DOMAIN MailOf(u)
    OBVIOUS
  <2> HIDE DEF D
  <2>2. ASSUME NEW x
        PROVE  x \in DOMAIN MailOf(w) <=> x \in DOMAIN MailOf(u) /\ Cardinality(Copies(w, x)) > 0
    BY <1>2, <1>4, MailCounts
  <2>. QED
    BY <1>7, <2>1, <2>2
<1>9. MailOf(w) = [x \in DOMAIN MailOf(w) |-> Cardinality(Copies(w, x))]
  BY <1>2, MailCounts
<1>10. MailOf(w) = [x \in {y \in DOMAIN D : D[y] > 0} |-> D[x]]
  BY <1>7, <1>8, <1>9
<1>11. MailOf(w) = Promise!(-)(MailOf(u), B)
  BY <1>10 DEF Promise!(-)
<1>. QED
  BY <1>6, <1>11 DEF w, B, m, Promise!BagToSet

-----------------------------------------------------------------------------
(* Every step is one of DeltaSpec, or none.                                *)

\* The variables of DeltaSpec: what is under way and the deltas that count.
Unsents == [t \in Threads |-> Unsent(t)]
Mail == MailOf(Unsents)
Deltas == [j \in Keys |-> Unspread(j)]

\* The refinement mapping of mail, in terms of the lemmas above.
LEMMA MailIs ==
  /\ [x \in {Message(m) : m \in InFlight} |->
        Cardinality({m \in InFlight : Message(m) = x})] = Mail
  /\ [x \in {Message(m) : m \in InFlight} |->
        Cardinality({m \in InFlight : Message(m) = x})]' = Mail'
<1>1. InFlight = Flight(Unsents) /\ InFlight' = Flight(Unsents')
  BY DEF InFlight, Flight, Unsents
<1>2. \A m \in InFlight : Message(m) = Unsents[m[1]][m[2]]
  BY DEF InFlight, Message, Unsents
<1>3. \A m \in InFlight' : Message(m)' = Unsents'[m[1]][m[2]]
  BY DEF InFlight, Message, Unsents
<1> HIDE DEF Unsents
<1>4. {Message(m) : m \in InFlight} = {Unsents[m[1]][m[2]] : m \in Flight(Unsents)}
  BY <1>1, <1>2
<1>5. \A x : {m \in InFlight : Message(m) = x} = Copies(Unsents, x)
  BY <1>1, <1>2 DEF Copies
<1>6. {Message(m) : m \in InFlight}' = {Unsents'[m[1]][m[2]] : m \in Flight(Unsents')}
  BY <1>1, <1>3
<1>7. \A x : {m \in InFlight' : Message(m)' = x} = Copies(Unsents', x)
  BY <1>1, <1>3 DEF Copies
<1>. QED
  BY <1>4, <1>5, <1>6, <1>7 DEF Mail, MailOf

\* What the threads have not sent are messages to vertices.
LEMMA UnsentsType ==
  ASSUME VertexInv
  PROVE  Unsents \in Sequences
<1> USE DEF VertexInv
<1>1. ASSUME NEW t \in Threads
      PROVE  Unsent(t) \in Seq([to : Keys, v : Values])
  <2> DEFINE M == [to : Keys, v : Values]
  <2>1. CASE pc[t] = "spread"
    BY <2>1, SpreadType DEF Unsent, Locals
  <2>2. CASE pc[t] \in {"reset", "unlock", "send", "read", "write"}
    BY <2>2 DEF Unsent, TypeOK
  <2>3. CASE pc[t] \in {"priority", "release"}
    BY <2>3, TargetType DEF Unsent, Locals
  <2>4. CASE pc[t] \in {"idle", "lock", "accumulate"}
    <3>1. Unsent(t) = << >>
      BY <2>4 DEF Unsent
    <3>. QED
      BY <3>1, EmptySeq
  <2>. QED
    BY <2>1, <2>2, <2>3, <2>4 DEF TypeOK, Steps
<1>. QED
  BY <1>1 DEF Unsents, Sequences

\* A thread has the delta of j and has not yet reset it.
Spreading(j) == \E t \in Threads : pc[t] \in {"spread", "reset"} /\ key[t] = j

\* A thread that holds a row finds in it the delta that counts.
LEMMA HeldDelta ==
  ASSUME VertexInv, NEW t \in Threads, NEW j \in Keys, j \in Held(t),
         pc[t] \notin {"spread", "reset"}
  PROVE  Unspread(j) = v1[j]
<1>1. ASSUME NEW u \in Threads, pc[u] \in {"spread", "reset"}, key[u] = j
      PROVE  FALSE
  <2>1. j \in Held(u)
    BY <1>1 DEF Held
  <2>2. holder[j] = t /\ holder[j] = u
    BY <2>1 DEF VertexInv, LockDiscipline
  <2>. QED
    BY <1>1, <2>2
<1>. QED
  BY <1>1 DEF Unspread

\* A step that changes neither value, nor delta, nor what is under way.
LEMMA Stutters ==
  ASSUME v2' = v2, \A j \in Keys : Unspread(j)' = Unspread(j),
         \A t \in Threads : Unsent(t)' = Unsent(t)
  PROVE  UNCHANGED Promise!vars
<1>1. Deltas' = Deltas
  BY DEF Deltas
<1>2. Unsents' = Unsents
  BY DEF Unsents
<1>3. Mail' = Mail
  BY <1>2 DEF Mail
<1>. QED
  BY <1>1, <1>3, MailIs DEF Promise!vars, Deltas

\* No two threads hold one row.
LEMMA HeldOnce ==
  ASSUME VertexInv, NEW t \in Threads, NEW u \in Threads, NEW j \in Keys,
         j \in Held(t), j \in Held(u)
  PROVE  t = u
<1>1. holder[j] = t /\ holder[j] = u
  BY DEF VertexInv, LockDiscipline
<1>. QED
  BY <1>1

\* accumulateF2 is the update of the vertex: from here on it counts.
LEMMA AccumulateUpdates ==
  ASSUME VertexInv, NEW t \in Threads, AccumulateF2(t)
  PROVE  key[t] \in Keys /\ Promise!Update(key[t])
<1> USE FiniteAssumption
<1> USE DEF VertexInv
<1> DEFINE k == key[t]
           s == [i \in DOMAIN Links[k] |-> [to |-> Links[k][i], v |-> Gain(k, i, v1[k])]]
<1>1. k \in Keys /\ pc[t] = "accumulate" /\ k \in Held(t)
  BY DEF AccumulateF2, Moves, Locals, Held
<1>2. pc' = [pc EXCEPT ![t] = "spread"] /\ v2' = [v2 EXCEPT ![k] = Acc(@, v1[k])]
      /\ UNCHANGED <<v1, key, output>>
  BY DEF AccumulateF2, Moves, locals
<1>3. Deltas[k] = v1[k]
  BY <1>1, HeldDelta DEF Deltas
<1>4. Deltas' = [Deltas EXCEPT ![k] = Default]
  <2>1. ASSUME NEW j \in Keys
        PROVE  Unspread(j)' = IF j = k THEN Default ELSE Unspread(j)
    <3>1. \A u \in Threads : pc'[u] = IF u = t THEN "spread" ELSE pc[u]
      BY <1>2 DEF TypeOK
    <3>. QED
      BY <1>1, <1>2, <3>1 DEF Unspread
  <2>. QED
    BY <2>1 DEF Deltas
<1>5. s \in Seq([to : Keys, v : Values])
  BY <1>1, SpreadType
<1>6. Unsents[t] = << >>
  BY <1>1 DEF Unsents, Unsent
<1>7. Unsents' = [Unsents EXCEPT ![t] = s]
  <2>1. Unsent(t)' = s
    <3>1. pc'[t] = "spread"
      BY <1>2 DEF TypeOK
    <3>. QED
      BY <1>2, <3>1 DEF Unsent
  <2>2. \A u \in Threads : u # t => Unsent(u)' = Unsent(u)
    <3>1. \A u \in Threads : u # t => pc'[u] = pc[u]
      BY <1>2 DEF TypeOK
    <3>. QED
      BY <1>2, <3>1 DEF Unsent
  <2> HIDE DEF s
  <2>. QED
    BY <2>1, <2>2 DEF Unsents
<1>8. Mail' = Promise!(+)(Mail, Promise!BagOf(s))
  <2> HIDE DEF s
  <2>. QED
    BY <1>5, <1>6, <1>7, UnsentsType, MailOfMore DEF Mail
<1>9. s = [i \in DOMAIN Links[k] |-> [to |-> Links[k][i], v |-> Gain(k, i, Deltas[k])]]
  BY <1>3
<1>. QED
  BY <1>1, <1>2, <1>3, <1>4, <1>8, <1>9, MailIs DEF Promise!Update, Deltas

\* accumulate in accumulateF1 receives a message.
LEMMA WriteReceives ==
  ASSUME VertexInv, NEW t \in Threads, WriteDelta(t)
  PROVE  \E m \in Promise!BagToSet(Mail) : Promise!Receive(m)
<1> USE FiniteAssumption
<1> USE DEF VertexInv
<1> DEFINE j == Target(t)
           m == Head(output[t])
<1>1. /\ pc[t] = "write" /\ output[t] # << >>
      /\ j \in Keys /\ m \in [to : Keys, v : Values] /\ m.to = j /\ j \in Held(t)
  <2>1. pc[t] = "write" /\ output[t] # << >>
    BY DEF WriteDelta, Moves, Locals
  <2>2. m \in [to : Keys, v : Values]
    BY <2>1, HeadTailProperties DEF TypeOK
  <2>. QED
    BY <2>1, <2>2 DEF Target, Held
<1>2. pc' = [pc EXCEPT ![t] = "priority"] /\ v1' = [v1 EXCEPT ![j] = Acc(v1[j], m.v)]
      /\ UNCHANGED <<v2, key, output>>
  BY <1>1 DEF WriteDelta, Moves, locals, NoLostMessage
<1>3. Deltas[j] = v1[j]
  BY <1>1, HeldDelta DEF Deltas
<1>4. \A u \in Threads : pc'[u] = IF u = t THEN "priority" ELSE pc[u]
  BY <1>2 DEF TypeOK
<1>5. ASSUME NEW u \in Threads, pc[u] \in {"spread", "reset"} PROVE key[u] # j
  <2>1. key[u] \in Held(u)
    BY <1>5 DEF Held
  <2>. QED
    BY <1>1, <1>5, <2>1, HeldOnce
<1> HIDE DEF j, m
<1>6. Deltas' = [Deltas EXCEPT ![j] = Acc(@, m.v)]
  <2>1. ASSUME NEW i \in Keys
        PROVE  Unspread(i)' = IF i = j THEN Acc(v1[j], m.v) ELSE Unspread(i)
    <3>1. v1'[i] = IF i = j THEN Acc(v1[j], m.v) ELSE v1[i]
      BY <1>2 DEF TypeOK
    <3>2. Spreading(i)' <=> Spreading(i)
      BY <1>1, <1>2, <1>4 DEF Spreading
    <3>3. i = j => ~Spreading(i)
      BY <1>5 DEF Spreading
    <3>. QED
      BY <3>1, <3>2, <3>3 DEF Unspread, Spreading
  <2>. QED
    BY <1>1, <1>3, <2>1 DEF Deltas
<1>7. Unsents[t] = output[t]
  BY <1>1 DEF Unsents, Unsent
<1>8. Unsents' = [Unsents EXCEPT ![t] = Tail(@)]
  <2>1. Unsent(t)' = Tail(output[t])
    BY <1>2, <1>4 DEF Unsent
  <2>2. ASSUME NEW u \in Threads, u # t PROVE Unsent(u)' = Unsent(u)
    <3>1. pc[u] = "spread" => v1'[key[u]] = v1[key[u]]
      BY <1>2, <1>5 DEF TypeOK, Locals
    <3>. QED
      BY <1>2, <1>4, <2>2, <3>1 DEF Unsent
  <2>. QED
    BY <1>7, <2>1, <2>2 DEF Unsents
<1>9. m \in Promise!BagToSet(Mail) /\ Mail' = Promise!(-)(Mail, Promise!SetToBag({m}))
  BY <1>1, <1>7, <1>8, UnsentsType, MailOfLess DEF Mail, m
<1>10. Promise!Receive(m)
  BY <1>1, <1>2, <1>6, <1>9, MailIs DEF Promise!Receive, Deltas
<1>. QED
  BY <1>9, <1>10

\* The other steps are not seen.
LEMMA OthersStutter ==
  ASSUME VertexInv, Next, \A t \in Threads : ~AccumulateF2(t) /\ ~WriteDelta(t)
  PROVE  UNCHANGED Promise!vars
<1> USE DEF VertexInv
<1>1. CASE NewRound
  BY <1>1, Stutters DEF NewRound, rows, locals, Unspread, Unsent
<1>2. ASSUME NEW t \in Threads, Begin(t)
      PROVE  UNCHANGED Promise!vars
  <2>1. /\ pc[t] = "idle" /\ pc' = [pc EXCEPT ![t] = "lock"]
        /\ UNCHANGED <<v1, v2, output>>
        /\ \A u \in Threads : u # t => key'[u] = key[u]
    BY <1>2 DEF Begin, Moves, rows, TypeOK
  <2>2. \A u \in Threads : pc'[u] = IF u = t THEN "lock" ELSE pc[u]
    BY <2>1 DEF TypeOK
  <2>3. \A u \in Threads : Unsent(u)' = Unsent(u)
    BY <2>1, <2>2 DEF Unsent
  <2>4. \A j \in Keys : Unspread(j)' = Unspread(j)
    BY <2>1, <2>2 DEF Unspread
  <2>. QED
    BY <2>1, <2>3, <2>4, Stutters
<1>3. ASSUME NEW t \in Threads, LockVertex(t) \/ UnlockVertex(t)
                              \/ LockTarget(t) \/ ReadDelta(t) \/ SetPriority(t)
      PROVE  UNCHANGED Promise!vars
  <2>1. UNCHANGED <<v1, v2, key, output>>
    BY <1>3 DEF LockVertex, UnlockVertex, LockTarget, ReadDelta, SetPriority, rows, locals
  <2>2. \E p \in { <<"lock", "accumulate">>, <<"unlock", "send">>, <<"send", "read">>,
                   <<"read", "write">>, <<"priority", "release">> } :
          pc[t] = p[1] /\ pc' = [pc EXCEPT ![t] = p[2]]
    BY <1>3 DEF LockVertex, UnlockVertex, LockTarget, ReadDelta, SetPriority, Moves
  <2>3. \A u \in Threads : u # t => pc'[u] = pc[u]
    BY <2>2 DEF TypeOK
  <2>4. <<pc[t], pc'[t]>> \in { <<"lock", "accumulate">>, <<"unlock", "send">>, <<"send", "read">>,
                   <<"read", "write">>, <<"priority", "release">> }
    BY <2>2 DEF TypeOK
  <2>5. \A u \in Threads : Unsent(u)' = Unsent(u)
    BY <2>1, <2>3, <2>4 DEF Unsent
  <2>6. \A j \in Keys : Unspread(j)' = Unspread(j)
    BY <2>1, <2>3, <2>4 DEF Unspread
  <2>. QED
    BY <2>1, <2>5, <2>6, Stutters
<1>4. ASSUME NEW t \in Threads, Spread(t)
      PROVE  UNCHANGED Promise!vars
  <2>1. UNCHANGED <<v1, v2, key>> /\ pc[t] = "spread" /\ pc' = [pc EXCEPT ![t] = "reset"]
    BY <1>4 DEF Spread, rows, Moves
  <2>2. \A u \in Threads : pc'[u] = IF u = t THEN "reset" ELSE pc[u]
    BY <2>1 DEF TypeOK
  <2>3. output' = [output EXCEPT ![t] = Unsent(t)]
    BY <1>4, <2>1 DEF Spread, Unsent
  <2>4. \A u \in Threads : output'[u] = IF u = t THEN Unsent(t) ELSE output[u]
    BY <2>3 DEF TypeOK
  <2>5. Unsent(t)' = Unsent(t)
    BY <2>2, <2>4 DEF Unsent
  <2>6. \A u \in Threads : u # t => Unsent(u)' = Unsent(u)
    BY <2>1, <2>2, <2>4 DEF Unsent
  <2>7. \A j \in Keys : Unspread(j)' = Unspread(j)
    BY <2>1, <2>2 DEF Unspread
  <2>. QED
    BY <2>1, <2>5, <2>6, <2>7, Stutters
<1>5. ASSUME NEW t \in Threads, UpdateF1(t)
      PROVE  UNCHANGED Promise!vars
  <2>1. /\ UNCHANGED <<v2, key, output>> /\ pc[t] = "reset" /\ pc' = [pc EXCEPT ![t] = "unlock"]
        /\ v1' = [v1 EXCEPT ![key[t]] = Default] /\ key[t] \in Keys /\ key[t] \in Held(t)
    BY <1>5 DEF UpdateF1, locals, Moves, Locals, Held
  <2>2. \A u \in Threads : pc'[u] = IF u = t THEN "unlock" ELSE pc[u]
    BY <2>1 DEF TypeOK
  <2>3. \A j \in Keys : v1'[j] = IF j = key[t] THEN Default ELSE v1[j]
    BY <2>1 DEF TypeOK
  <2>4. ASSUME NEW u \in Threads, u # t PROVE Unsent(u)' = Unsent(u)
    <3>1. pc[u] = "spread" => key[u] \in Keys /\ key[u] # key[t]
      BY <2>1, <2>4, HeldOnce DEF Held, Locals
    <3>. QED
      BY <2>1, <2>2, <2>3, <2>4, <3>1 DEF Unsent
  <2>5. Unsent(t)' = Unsent(t)
    BY <2>1, <2>2 DEF Unsent
  <2>6. ASSUME NEW j \in Keys PROVE Unspread(j)' = Unspread(j)
    <3>1. CASE j = key[t]
      BY <2>1, <2>3, <3>1 DEF Unspread
    <3>2. CASE j # key[t]
      BY <2>1, <2>2, <2>3, <3>2 DEF Unspread
    <3>. QED
      BY <3>1, <3>2
  <2>. QED
    BY <2>1, <2>4, <2>5, <2>6, Stutters
<1>6. ASSUME NEW t \in Threads, UnlockTarget(t)
      PROVE  UNCHANGED Promise!vars
  <2>1. UNCHANGED <<v1, v2, key>> /\ pc[t] = "release" /\ pc' = [pc EXCEPT ![t] = "send"]
        /\ output' = [output EXCEPT ![t] = Tail(@)]
    BY <1>6 DEF UnlockTarget, rows, Moves
  <2>2. \A u \in Threads : /\ pc'[u] = IF u = t THEN "send" ELSE pc[u]
                           /\ output'[u] = IF u = t THEN Tail(output[t]) ELSE output[u]
    BY <2>1 DEF TypeOK
  <2>3. \A u \in Threads : Unsent(u)' = Unsent(u)
    BY <2>1, <2>2 DEF Unsent
  <2>4. \A j \in Keys : Unspread(j)' = Unspread(j)
    BY <2>1, <2>2 DEF Unspread
  <2>. QED
    BY <2>1, <2>3, <2>4, Stutters
<1>7. ASSUME NEW t \in Threads, Return(t)
      PROVE  UNCHANGED Promise!vars
  <2>1. /\ UNCHANGED <<v1, v2, output>> /\ pc[t] = "send" /\ pc' = [pc EXCEPT ![t] = "idle"]
        /\ output[t] = << >> /\ \A u \in Threads : u # t => key'[u] = key[u]
    BY <1>7 DEF Return, rows, Moves, TypeOK
  <2>2. \A u \in Threads : pc'[u] = IF u = t THEN "idle" ELSE pc[u]
    BY <2>1 DEF TypeOK
  <2>3. \A u \in Threads : Unsent(u)' = Unsent(u)
    BY <2>1, <2>2 DEF Unsent
  <2>4. \A j \in Keys : Unspread(j)' = Unspread(j)
    BY <2>1, <2>2 DEF Unspread
  <2>. QED
    BY <2>1, <2>3, <2>4, Stutters
<1>. QED
  BY <1>1, <1>2, <1>3, <1>4, <1>5, <1>6, <1>7 DEF Next, Thread

\* VertexUpdate begins as DeltaSpec does.
LEMMA PromiseInit == Init => Promise!Init
<1> SUFFICES ASSUME Init PROVE Promise!Init
  OBVIOUS
<1> USE DEF Init
<1>1. Deltas = InitDelta
  <2>1. \A j \in Keys : Unspread(j) = InitDelta[j]
    BY DEF Unspread
  <2>. QED
    BY <2>1, ValuesAssumption DEF Deltas
<1>2. \A t \in Threads : Unsents[t] = << >>
  BY DEF Unsents, Unsent
<1>3. Flight(Unsents) = {}
  BY <1>2 DEF Flight
<1>4. Mail = Promise!EmptyBag
  BY <1>3 DEF Mail, MailOf, Promise!EmptyBag, Promise!SetToBag
<1>. QED
  BY <1>1, <1>4, MailIs DEF Promise!Init, Deltas

\* Every step of a thread is a step of DeltaSpec or none.
LEMMA PromiseStep ==
  ASSUME VertexInv, [Next]_vars
  PROVE  [Promise!Next]_(Promise!vars)
<1> USE FiniteAssumption
<1>1. CASE UNCHANGED vars
  BY <1>1, Stutters DEF vars, rows, locals, Unspread, Unsent
<1>2. ASSUME NEW t \in Threads, AccumulateF2(t) PROVE Promise!Next
  BY <1>2, AccumulateUpdates DEF Promise!Next
<1>3. ASSUME NEW t \in Threads, WriteDelta(t) PROVE Promise!Next
  BY <1>3, WriteReceives, MailIs DEF Promise!Next
<1>4. CASE Next /\ \A t \in Threads : ~AccumulateF2(t) /\ ~WriteDelta(t)
  BY <1>4, OthersStutter
<1>. QED
  BY <1>1, <1>2, <1>3, <1>4

\* run_iter, with its locks, buffers and the separate reads and writes of
\* accumulateF1, updates vertices as if an update and the arrival of a message
\* were each one step: any number of threads, any graph, any algorithm.
THEOREM VertexUpdateImplementsDeltaSpec == Spec => ImplementsDeltaSpec
<1>1. VertexInv /\ [Next]_vars => [Promise!Next]_(Promise!vars)
  BY PromiseStep
<1>. QED
  BY <1>1, PromiseInit, Invariance, PTL DEF Spec, ImplementsDeltaSpec, Promise!Spec

-----------------------------------------------------------------------------
(* Folds.                                                                  *)

\* An element, and the function that folds f over all subsets of S.
Any(T) == CHOOSE x \in T : TRUE

Folds(base, f, S, g) ==
  g = [T \in SUBSET S |-> IF T = {} THEN base
                          ELSE Acc(f[Any(T)], g[T \ {Any(T)}])]

\* What f gives on a set, accumulated, with the base.
Fold(base, f, S) == (CHOOSE g : Folds(base, f, S, g))[S]

\* Any chooses an element.
LEMMA AnyIn == ASSUME NEW T, T # {} PROVE Any(T) \in T
BY DEF Any

\* There is at most one fold over the subsets of a finite set.
LEMMA FoldsUnique ==
  ASSUME NEW base, NEW f, NEW S, IsFiniteSet(S), NEW g, NEW h,
         Folds(base, f, S, g), Folds(base, f, S, h)
  PROVE  \A T \in SUBSET S : g[T] = h[T]
<1> DEFINE Bad == {T \in SUBSET S : g[T] # h[T]}
<1> SUFFICES ASSUME Bad # {} PROVE FALSE
  OBVIOUS
<1>1. PICK T \in Bad : \A x \in T : T \ {x} \notin Bad
  BY LeastSet
<1>2. T \in SUBSET S
  BY <1>1
<1>3. /\ g[T] = IF T = {} THEN base ELSE Acc(f[Any(T)], g[T \ {Any(T)}])
      /\ h[T] = IF T = {} THEN base ELSE Acc(f[Any(T)], h[T \ {Any(T)}])
  BY <1>2 DEF Folds
<1>4. T # {} => g[T \ {Any(T)}] = h[T \ {Any(T)}]
  BY <1>1, AnyIn
<1>. QED
  BY <1>1, <1>3, <1>4

\* Cut down to the subsets of a smaller set it is the fold of that set.
LEMMA FoldsRestrict ==
  ASSUME NEW base, NEW f, NEW S, NEW g, Folds(base, f, S, g), NEW R \in SUBSET S
  PROVE  Folds(base, f, R, [T \in SUBSET R |-> g[T]])
<1> DEFINE h == [T \in SUBSET R |-> g[T]]
<1>1. ASSUME NEW T \in SUBSET R
      PROVE  h[T] = IF T = {} THEN base ELSE Acc(f[Any(T)], h[T \ {Any(T)}])
  <2>1. g[T] = IF T = {} THEN base ELSE Acc(f[Any(T)], g[T \ {Any(T)}])
    BY DEF Folds
  <2>2. T \ {Any(T)} \in SUBSET R
    OBVIOUS
  <2>. QED
    BY <2>1, <2>2
<1>2. h = [T \in SUBSET R |-> h[T]]
  OBVIOUS
<1> HIDE DEF h
<1>3. Folds(base, f, R, h)
  BY <1>1, <1>2 DEF Folds
<1>. QED
  BY <1>3 DEF h

\* A fold whose function exists is unfolded.
LEMMA FoldUnfolds ==
  ASSUME NEW base, NEW f, NEW S, IsFiniteSet(S), \E g : Folds(base, f, S, g)
  PROVE  Fold(base, f, S) =
           IF S = {} THEN base ELSE Acc(f[Any(S)], Fold(base, f, S \ {Any(S)}))
<1> DEFINE g == CHOOSE h : Folds(base, f, S, h)
           R == S \ {Any(S)}
           q == CHOOSE h : Folds(base, f, R, h)
<1>1. Folds(base, f, S, g)
  OBVIOUS
<1>2. Fold(base, f, S) = g[S] /\ Fold(base, f, R) = q[R]
  BY DEF Fold
<1> HIDE DEF g
<1>3. R \in SUBSET S /\ IsFiniteSet(R)
  BY FS_Subset
<1>4. Folds(base, f, R, [T \in SUBSET R |-> g[T]])
  BY <1>1, <1>3, FoldsRestrict
<1>5. Folds(base, f, R, q)
  BY <1>4
<1> HIDE DEF q
<1>6. q[R] = g[R]
  <2>1. R \in SUBSET R
    OBVIOUS
  <2> HIDE DEF R
  <2>2. q[R] = [T \in SUBSET R |-> g[T]][R]
    BY <1>3, <1>4, <1>5, <2>1, FoldsUnique
  <2>. QED
    BY <2>1, <2>2
<1>7. g[S] = IF S = {} THEN base ELSE Acc(f[Any(S)], g[R])
  BY <1>1 DEF Folds
<1>. QED
  BY <1>2, <1>6, <1>7

\* There is a fold over the subsets of every finite set.
LEMMA FoldsExist ==
  ASSUME NEW base, NEW f, NEW S, IsFiniteSet(S)
  PROVE  \E g : Folds(base, f, S, g)
<1> DEFINE Bad == {T \in SUBSET S : ~ \E g : Folds(base, f, T, g)}
<1> SUFFICES ASSUME Bad # {} PROVE FALSE
  OBVIOUS
<1>1. PICK T \in Bad : \A x \in T : T \ {x} \notin Bad
  BY LeastSet
<1>2. ASSUME NEW U \in SUBSET T, U # T
      PROVE  IsFiniteSet(U) /\ \E g : Folds(base, f, U, g)
  <2>1. PICK x \in T : x \notin U
    BY <1>2
  <2>2. PICK g : Folds(base, f, T \ {x}, g)
    BY <1>1
  <2>3. U \in SUBSET (T \ {x})
    BY <2>1
  <2>. QED
    BY <2>2, <2>3, FoldsRestrict, FS_Subset
<1> DEFINE h == [U \in SUBSET T |-> IF U = {} THEN base
                                    ELSE Acc(f[Any(U)], Fold(base, f, U \ {Any(U)}))]
<1>3. ASSUME NEW U \in SUBSET T
      PROVE  h[U] = IF U = {} THEN base ELSE Acc(f[Any(U)], h[U \ {Any(U)}])
  <2>1. CASE U = {}
    BY <2>1
  <2>2. CASE U # {}
    <3> DEFINE W == U \ {Any(U)}
    <3>1. W \in SUBSET T /\ W # T
      BY <2>2, AnyIn
    <3>2. Fold(base, f, W) = IF W = {} THEN base ELSE Acc(f[Any(W)], Fold(base, f, W \ {Any(W)}))
      <4> HIDE DEF W
      <4>. QED
        BY <1>2, <3>1, FoldUnfolds
    <3>3. h[W] = Fold(base, f, W)
      BY <3>1, <3>2
    <3>. QED
      BY <2>2, <3>3
  <2>. QED
    BY <2>1, <2>2
<1>4. h = [U \in SUBSET T |-> h[U]]
  OBVIOUS
<1> HIDE DEF h
<1>5. Folds(base, f, T, h)
  BY <1>3, <1>4 DEF Folds
<1>. QED
  BY <1>1, <1>5

\* A fold takes out one element after the other, in the order of Any.
LEMMA FoldStep ==
  ASSUME NEW base, NEW f, NEW S, IsFiniteSet(S)
  PROVE  Fold(base, f, S) =
           IF S = {} THEN base ELSE Acc(f[Any(S)], Fold(base, f, S \ {Any(S)}))
BY FoldsExist, FoldUnfolds

\* A fold of values is a value.
LEMMA FoldType ==
  ASSUME NEW S, IsFiniteSet(S), NEW f, \A x \in S : f[x] \in Values, NEW base \in Values
  PROVE  Fold(base, f, S) \in Values
<1> DEFINE Bad == {T \in SUBSET S : Fold(base, f, T) \notin Values}
<1> SUFFICES ASSUME Bad # {} PROVE FALSE
  OBVIOUS
<1>1. PICK T \in Bad : \A x \in T : T \ {x} \notin Bad
  BY LeastSet
<1>2. T \in SUBSET S /\ IsFiniteSet(T)
  BY <1>1, FS_Subset
<1>3. Fold(base, f, T) = IF T = {} THEN base ELSE Acc(f[Any(T)], Fold(base, f, T \ {Any(T)}))
  BY <1>2, FoldStep
<1>4. T # {} => Fold(base, f, T \ {Any(T)}) \in Values /\ f[Any(T)] \in Values
  BY <1>1, <1>2, AnyIn
<1>. QED
  BY <1>1, <1>3, <1>4, ValuesAssumption

\* Only the values on the set matter.
LEMMA FoldSame ==
  ASSUME NEW S, IsFiniteSet(S), NEW f, NEW h, \A x \in S : f[x] = h[x], NEW base
  PROVE  Fold(base, f, S) = Fold(base, h, S)
<1> DEFINE Bad == {T \in SUBSET S : Fold(base, f, T) # Fold(base, h, T)}
<1> SUFFICES ASSUME Bad # {} PROVE FALSE
  OBVIOUS
<1>1. PICK T \in Bad : \A x \in T : T \ {x} \notin Bad
  BY LeastSet
<1>2. T \in SUBSET S /\ IsFiniteSet(T)
  BY <1>1, FS_Subset
<1>3. /\ Fold(base, f, T) = IF T = {} THEN base ELSE Acc(f[Any(T)], Fold(base, f, T \ {Any(T)}))
      /\ Fold(base, h, T) = IF T = {} THEN base ELSE Acc(h[Any(T)], Fold(base, h, T \ {Any(T)}))
  BY <1>2, FoldStep
<1>4. T # {} => Fold(base, f, T \ {Any(T)}) = Fold(base, h, T \ {Any(T)}) /\ f[Any(T)] = h[Any(T)]
  BY <1>1, <1>2, AnyIn
<1>. QED
  BY <1>1, <1>3, <1>4

\* Any element may be taken out first.
LEMMA FoldTakes ==
  ASSUME NEW S, IsFiniteSet(S), NEW f, \A y \in S : f[y] \in Values,
         NEW base \in Values, NEW x \in S
  PROVE  Fold(base, f, S) = Acc(f[x], Fold(base, f, S \ {x}))
<1> DEFINE Fine(T) == \A y \in T : Fold(base, f, T) = Acc(f[y], Fold(base, f, T \ {y}))
           Bad == {T \in SUBSET S : ~Fine(T)}
<1> SUFFICES ASSUME Bad # {} PROVE FALSE
  <2>1. Bad = {} => Fine(S)
    OBVIOUS
  <2>. QED
    BY <2>1
<1>1. PICK T \in Bad : \A y \in T : T \ {y} \notin Bad
  BY LeastSet
<1>2. PICK y \in T : Fold(base, f, T) # Acc(f[y], Fold(base, f, T \ {y}))
  BY <1>1
<1> DEFINE c == Any(T)
<1>3. T \in SUBSET S /\ IsFiniteSet(T) /\ c \in T
  BY <1>1, <1>2, FS_Subset, AnyIn
<1>4. Fold(base, f, T) = Acc(f[c], Fold(base, f, T \ {c}))
  BY <1>2, <1>3, FoldStep
<1> HIDE DEF c
<1>5. c # y
  BY <1>2, <1>4
<1>6. Fine(T \ {c}) /\ Fine(T \ {y})
  BY <1>1, <1>2, <1>3
<1> DEFINE R == (T \ {c}) \ {y}
<1>7. R = (T \ {y}) \ {c} /\ R \in SUBSET S /\ IsFiniteSet(R)
  BY <1>3, FS_Subset
<1>8. /\ Fold(base, f, T \ {c}) = Acc(f[y], Fold(base, f, R))
      /\ Fold(base, f, T \ {y}) = Acc(f[c], Fold(base, f, R))
  BY <1>2, <1>3, <1>5, <1>6, <1>7
<1> HIDE DEF R
<1>9. Fold(base, f, R) \in Values /\ f[c] \in Values /\ f[y] \in Values
  BY <1>2, <1>3, <1>7, FoldType
<1>10. Acc(f[c], Acc(f[y], Fold(base, f, R))) = Acc(f[y], Acc(f[c], Fold(base, f, R)))
  <2> DEFINE a == f[c]
             b == f[y]
             r == Fold(base, f, R)
  <2>1. a \in Values /\ b \in Values /\ r \in Values
    BY <1>9
  <2> HIDE DEF a, b, r
  <2>2. Acc(a, Acc(b, r)) = Acc(b, Acc(a, r))
    BY <2>1, AlgebraAssumption
  <2>. QED
    BY <2>2 DEF a, b, r
<1>. QED
  BY <1>2, <1>4, <1>8, <1>10

\* A fold over nothing is the base.
LEMMA FoldEmpty ==
  ASSUME NEW base, NEW f
  PROVE  Fold(base, f, {}) = base
BY FoldStep, FS_EmptySet

\* Two folds over one set make one.
LEMMA FoldAcc ==
  ASSUME NEW S, IsFiniteSet(S), NEW f, NEW e, NEW h,
         \A x \in S : f[x] \in Values /\ e[x] \in Values /\ h[x] = Acc(f[x], e[x]),
         NEW a \in Values, NEW b \in Values
  PROVE  Fold(Acc(a, b), h, S) = Acc(Fold(a, f, S), Fold(b, e, S))
<1> DEFINE Fine(T) == Fold(Acc(a, b), h, T) = Acc(Fold(a, f, T), Fold(b, e, T))
           Bad == {T \in SUBSET S : ~Fine(T)}
<1> SUFFICES ASSUME Bad # {} PROVE FALSE
  <2>1. Bad = {} => Fine(S)
    OBVIOUS
  <2>. QED
    BY <2>1
<1>1. PICK T \in Bad : \A y \in T : T \ {y} \notin Bad
  BY LeastSet
<1>2. T \in SUBSET S /\ IsFiniteSet(T)
  BY <1>1, FS_Subset
<1>3. Fine({})
  BY FoldEmpty
<1>4. ASSUME NEW x \in T PROVE Fine(T)
  <2> DEFINE R == T \ {x}
             p == Fold(a, f, R)
             q == Fold(b, e, R)
             c == f[x]
             d == e[x]
  <2>1. Fine(R) /\ R \in SUBSET S /\ IsFiniteSet(R)
    BY <1>1, <1>2, FS_Subset
  <2>2. \A y \in S : h[y] \in Values
    BY ValuesAssumption
  <2>3. Acc(a, b) \in Values
    BY ValuesAssumption
  <2>4. /\ Fold(Acc(a, b), h, T) = Acc(h[x], Fold(Acc(a, b), h, R))
        /\ Fold(a, f, T) = Acc(c, p)
        /\ Fold(b, e, T) = Acc(d, q)
    BY <1>2, <2>2, <2>3, FoldTakes
  <2>5. p \in Values /\ q \in Values /\ c \in Values /\ d \in Values /\ h[x] = Acc(c, d)
    <3>1. p \in Values /\ q \in Values
      BY <2>1, FoldType
    <3>. QED
      BY <1>2, <3>1
  <2>6. Fold(Acc(a, b), h, R) = Acc(p, q)
    BY <2>1
  <2> HIDE DEF R, p, q, c, d
  <2>7. Acc(Acc(c, d), Acc(p, q)) = Acc(Acc(c, p), Acc(d, q))
    <3>1. Acc(d, Acc(p, q)) = Acc(p, Acc(d, q))
      <4>1. Acc(d, Acc(p, q)) = Acc(Acc(d, p), q)
        BY <2>5, AlgebraAssumption
      <4>2. Acc(p, Acc(d, q)) = Acc(Acc(p, d), q)
        BY <2>5, AlgebraAssumption
      <4>3. Acc(p, d) = Acc(d, p)
        BY <2>5, AlgebraAssumption
      <4>. QED
        BY <4>1, <4>2, <4>3
    <3>2. Acc(p, q) \in Values /\ Acc(d, q) \in Values
      BY <2>5, ValuesAssumption
    <3>3. /\ Acc(Acc(c, d), Acc(p, q)) = Acc(c, Acc(d, Acc(p, q)))
          /\ Acc(Acc(c, p), Acc(d, q)) = Acc(c, Acc(p, Acc(d, q)))
      BY <2>5, <3>2, AlgebraAssumption
    <3>. QED
      BY <3>1, <3>3
  <2>. QED
    BY <2>4, <2>5, <2>6, <2>7
<1>. QED
  BY <1>1, <1>3, <1>4

\* A fold over two sets.
LEMMA FoldUnion ==
  ASSUME NEW A, NEW B, IsFiniteSet(A), IsFiniteSet(B), A \cap B = {}, NEW f,
         \A x \in A \cup B : f[x] \in Values, NEW base \in Values
  PROVE  Fold(base, f, A \cup B) = Acc(Fold(base, f, A), Fold(Default, f, B))
<1> DEFINE Fine(T) == Fold(base, f, A \cup T) = Acc(Fold(base, f, A), Fold(Default, f, T))
           Bad == {T \in SUBSET B : ~Fine(T)}
<1> SUFFICES ASSUME Bad # {} PROVE FALSE
  <2>1. Bad = {} => Fine(B)
    OBVIOUS
  <2>. QED
    BY <2>1
<1>1. PICK T \in Bad : \A y \in T : T \ {y} \notin Bad
  BY LeastSet
<1>2. T \in SUBSET B /\ IsFiniteSet(T)
  BY <1>1, FS_Subset
<1>3. Fold(base, f, A) \in Values /\ Default \in Values
  BY FoldType, ValuesAssumption
<1>4. Fine({})
  <2>1. A \cup {} = A
    OBVIOUS
  <2>. QED
    BY <1>3, <2>1, FoldEmpty, AlgebraAssumption
<1>5. ASSUME NEW x \in T PROVE Fine(T)
  <2> DEFINE R == T \ {x}
             p == Fold(base, f, A)
             q == Fold(Default, f, R)
             c == f[x]
  <2>1. /\ Fine(R) /\ R \in SUBSET B /\ IsFiniteSet(R) /\ IsFiniteSet(A \cup T)
        /\ (A \cup T) \ {x} = A \cup R /\ A \cup T \subseteq A \cup B
    <3>1. Fine(R) /\ R \in SUBSET B
      BY <1>1, <1>2
    <3>2. IsFiniteSet(R) /\ IsFiniteSet(A \cup T)
      BY <1>2, <3>1, FS_Subset, FS_Union
    <3>3. (A \cup T) \ {x} = A \cup R /\ A \cup T \subseteq A \cup B
      BY <1>2
    <3>. QED
      BY <3>1, <3>2, <3>3
  <2>2. Fold(base, f, A \cup T) = Acc(c, Fold(base, f, A \cup R))
    <3>1. x \in A \cup T /\ \A y \in A \cup T : f[y] \in Values
      BY <2>1
    <3>2. Fold(base, f, A \cup T) = Acc(c, Fold(base, f, (A \cup T) \ {x}))
      BY <2>1, <3>1, FoldTakes
    <3>. QED
      BY <2>1, <3>2
  <2>3. Fold(Default, f, T) = Acc(c, q)
    BY <1>2, <1>3, FoldTakes
  <2>4. p \in Values /\ q \in Values /\ c \in Values
    <3>1. q \in Values
      BY <1>3, <2>1, FoldType
    <3>. QED
      BY <1>2, <1>3, <3>1
  <2>5. Fold(base, f, A \cup R) = Acc(p, q)
    BY <2>1
  <2> HIDE DEF R, p, q, c
  <2>6. Acc(c, Acc(p, q)) = Acc(p, Acc(c, q))
    BY <2>4, AlgebraAssumption
  <2>7. Fold(base, f, A \cup T) = Acc(p, Fold(Default, f, T))
    BY <2>2, <2>3, <2>5, <2>6
  <2>. QED
    BY <2>7 DEF p
<1>. QED
  BY <1>1, <1>4, <1>5

\* Where f gives the default, nothing is added.
LEMMA FoldDrop ==
  ASSUME NEW S, IsFiniteSet(S), NEW R \in SUBSET S, NEW f,
         \A x \in S : f[x] \in Values, \A x \in S \ R : f[x] = Default,
         NEW base \in Values
  PROVE  Fold(base, f, S) = Fold(base, f, R)
<1> DEFINE Fine(T) == Fold(base, f, R \cup T) = Fold(base, f, R)
           Bad == {T \in SUBSET (S \ R) : ~Fine(T)}
<1>0. IsFiniteSet(S \ R) /\ IsFiniteSet(R) /\ R \cup (S \ R) = S
  BY FS_Subset
<1> SUFFICES ASSUME Bad # {} PROVE FALSE
  <2>1. Bad = {} => Fine(S \ R)
    OBVIOUS
  <2>. QED
    BY <1>0, <2>1
<1>1. PICK T \in Bad : \A y \in T : T \ {y} \notin Bad
  BY <1>0, LeastSet
<1>2. T \in SUBSET (S \ R) /\ IsFiniteSet(R \cup T) /\ R \cup T \subseteq S
  BY <1>1, FS_Subset
<1>3. Fine({})
  <2>1. R \cup {} = R
    OBVIOUS
  <2>. QED
    BY <2>1
<1>4. ASSUME NEW x \in T PROVE Fine(T)
  <2>1. Fine(T \ {x}) /\ (R \cup T) \ {x} = R \cup (T \ {x}) /\ f[x] = Default
    BY <1>1, <1>2
  <2>2. Fold(base, f, R \cup T) = Acc(Default, Fold(base, f, (R \cup T) \ {x}))
    BY <1>2, <2>1, FoldTakes
  <2>3. Fold(base, f, R) \in Values /\ Default \in Values
    <3>1. \A y \in R : f[y] \in Values
      OBVIOUS
    <3>. QED
      BY <1>0, <3>1, FoldType, ValuesAssumption
  <2>4. Acc(Default, Fold(base, f, R)) = Fold(base, f, R)
    BY <2>3, AlgebraAssumption
  <2>. QED
    BY <2>1, <2>2, <2>4
<1>. QED
  BY <1>1, <1>3, <1>4

\* A fold over the image of a set.
LEMMA FoldImage ==
  ASSUME NEW S, IsFiniteSet(S), NEW T, NEW b \in Bijection(S, T), NEW f, NEW h,
         \A x \in S : f[x] \in Values /\ h[b[x]] = f[x], NEW base \in Values
  PROVE  Fold(base, f, S) = Fold(base, h, T)
<1> DEFINE Image(U) == {b[x] : x \in U}
           Fine(U) == Fold(base, f, U) = Fold(base, h, Image(U))
           Bad == {U \in SUBSET S : ~Fine(U)}
<1>0. IsFiniteSet(T) /\ Image(S) = T /\ \A x, y \in S : b[x] = b[y] => x = y
  <2>1. IsFiniteSet(T)
    BY FS_Bijection DEF ExistsBijection
  <2>. QED
    BY <2>1 DEF Bijection, Injection, Surjection, IsInjective
<1> SUFFICES ASSUME Bad # {} PROVE FALSE
  <2>1. Bad = {} => Fine(S)
    OBVIOUS
  <2>. QED
    BY <1>0, <2>1
<1>1. PICK U \in Bad : \A y \in U : U \ {y} \notin Bad
  BY LeastSet
<1>2. U \in SUBSET S /\ IsFiniteSet(U) /\ Image(U) \in SUBSET T /\ IsFiniteSet(Image(U))
  <2>1. U \in SUBSET S
    BY <1>1
  <2>2. Image(U) \in SUBSET T
    BY <1>0, <2>1
  <2> HIDE DEF Image
  <2>. QED
    BY <1>0, <2>1, <2>2, FS_Subset
<1>3. Fine({})
  BY FoldEmpty
<1>4. ASSUME NEW x \in U PROVE Fine(U)
  <2>1. Fine(U \ {x})
    BY <1>1, <1>2
  <2>2. Image(U) \ {b[x]} = Image(U \ {x}) /\ b[x] \in Image(U)
    BY <1>0, <1>2
  <2>3. \A y \in Image(U) : h[y] \in Values
    BY <1>2
  <2>4. h[b[x]] = f[x] /\ \A y \in U : f[y] \in Values
    BY <1>2
  <2> HIDE DEF Image
  <2>5. Fold(base, f, U) = Acc(f[x], Fold(base, f, U \ {x}))
    BY <1>2, <2>4, FoldTakes
  <2>6. Fold(base, h, Image(U)) = Acc(h[b[x]], Fold(base, h, Image(U) \ {b[x]}))
    <3> DEFINE I == Image(U)
               z == b[x]
    <3>1. IsFiniteSet(I) /\ z \in I /\ \A y \in I : h[y] \in Values
      BY <1>2, <2>2, <2>3
    <3> HIDE DEF I, z
    <3>2. Fold(base, h, I) = Acc(h[z], Fold(base, h, I \ {z}))
      BY <3>1, FoldTakes
    <3>. QED
      BY <3>2 DEF I, z
  <2>. QED
    BY <2>1, <2>2, <2>4, <2>5, <2>6
<1>. QED
  BY <1>1, <1>3, <1>4

-----------------------------------------------------------------------------
(* The two sides of the ledger, as folds of functions of the state.        *)

\* The links into j, and what j was given of the values w.
Into(j) == Promise!Into(j)

Gains(w, j) == [l \in Into(j) |-> Gain(l[1], l[2], w[l[1]])]

GivenBy(w, j) == Fold(InitDelta[j], Gains(w, j), Into(j))

\* The copies of messages to j in a bag, and what j has of the deltas d, the
\* values w and the bag B.
CopiesTo(B, j) ==
  UNION {{<<m, c>> : c \in 1 .. B[m]} : m \in {n \in DOMAIN B : n.to = j}}

Amounts(B, j) == [copy \in CopiesTo(B, j) |-> copy[1].v]

HasBy(d, w, B, j) == Fold(Acc(w[j], d[j]), Amounts(B, j), CopiesTo(B, j))

\* Finitely many finite sets have a finite union.
LEMMA FiniteUnion ==
  ASSUME NEW S, IsFiniteSet(S), NEW f, \A x \in S : IsFiniteSet(f[x])
  PROVE  IsFiniteSet(UNION {f[x] : x \in S})
<1> DEFINE Fine(T) == IsFiniteSet(UNION {f[x] : x \in T})
           Bad == {T \in SUBSET S : ~Fine(T)}
<1> SUFFICES ASSUME Bad # {} PROVE FALSE
  <2>1. Bad = {} => Fine(S)
    OBVIOUS
  <2>. QED
    BY <2>1
<1>1. PICK T \in Bad : \A y \in T : T \ {y} \notin Bad
  BY LeastSet
<1>2. Fine({})
  <2>1. UNION {f[x] : x \in {}} = {}
    OBVIOUS
  <2>. QED
    BY <2>1, FS_EmptySet
<1>3. ASSUME NEW x \in T PROVE Fine(T)
  <2>1. Fine(T \ {x}) /\ IsFiniteSet(f[x])
    BY <1>1
  <2>2. UNION {f[y] : y \in T} = (UNION {f[y] : y \in T \ {x}}) \cup f[x]
    OBVIOUS
  <2> DEFINE A == UNION {f[y] : y \in T \ {x}}
             B == f[x]
  <2>3. IsFiniteSet(A) /\ IsFiniteSet(B)
    BY <2>1
  <2> HIDE DEF A, B
  <2>4. IsFiniteSet(A \cup B)
    BY <2>3, FS_Union
  <2>. QED
    BY <2>2, <2>4 DEF A, B
<1>. QED
  BY <1>1, <1>2, <1>3

\* Finitely many links lead to a vertex.
LEMMA IntoFinite ==
  ASSUME NEW j
  PROVE  /\ IsFiniteSet(Into(j))
         /\ \A l \in Into(j) : /\ l[1] \in Keys /\ l[2] \in DOMAIN Links[l[1]]
                               /\ Links[l[1]][l[2]] = j /\ l = <<l[1], l[2]>>
         /\ \A k \in Keys : \A i \in DOMAIN Links[k] :
              Links[k][i] = j => <<k, i>> \in Into(j)
<1> DEFINE f == [k \in Keys |-> {<<k, i>> : i \in {n \in DOMAIN Links[k] : Links[k][n] = j}}]
<1>1. ASSUME NEW k \in Keys PROVE IsFiniteSet(f[k])
  <2>1. Links[k] \in Seq(Keys)
    BY LinksAssumption
  <2>2. DOMAIN Links[k] = 1 .. Len(Links[k]) /\ Len(Links[k]) \in Nat
    BY <2>1
  <2>3. IsFiniteSet(DOMAIN Links[k])
    BY <2>2, FS_Interval
  <2>4. IsFiniteSet({n \in DOMAIN Links[k] : Links[k][n] = j})
    BY <2>3, FS_Subset
  <2>. QED
    BY <2>4, PairsCount
<1>2. Into(j) = UNION {f[k] : k \in Keys}
  BY DEF Into, Promise!Into
<1>3. IsFiniteSet(Into(j))
  <2> HIDE DEF f
  <2>. QED
    BY <1>1, <1>2, FiniteUnion, FiniteAssumption
<1>. QED
  BY <1>3 DEF Into, Promise!Into

\* The fold of DeltaSpec, written out as its library defines it.
RawGiven(w, j) ==
  Promise!AccAll(InitDelta[j], LAMBDA l : Gain(l[1], l[2], w[l[1]]), Into(j))

\* They are the same.
LEMMA RawGivenIs ==
  ASSUME NEW w, NEW j
  PROVE  RawGiven(w, j) = GivenBy(w, j)
<1> DEFINE S == Into(j)
           base == InitDelta[j]
           f == Gains(w, j)
           Raw(g) == g = [s \in SUBSET S |->
                            IF s = {} THEN base
                            ELSE Acc(Gain(Any(s)[1], Any(s)[2], w[Any(s)[1]]),
                                     g[s \ {Any(s)}])]
           raw == CHOOSE g : Raw(g)
           g0 == CHOOSE g : Folds(base, f, S, g)
<1>1. RawGiven(w, j) = raw[S]
  BY DEF RawGiven, Promise!AccAll, Promise!MapThenFoldSet, Any
<1>2. \A g : Raw(g) <=> Folds(base, f, S, g)
  <2>1. \A s \in SUBSET S : s # {} => f[Any(s)] = Gain(Any(s)[1], Any(s)[2], w[Any(s)[1]])
    BY AnyIn DEF Gains
  <2> HIDE DEF f, S, base
  <2>. QED
    BY <2>1 DEF Folds
<1>3. IsFiniteSet(S)
  BY IntoFinite
<1>4. GivenBy(w, j) = g0[S]
  BY DEF GivenBy, Fold
<1> HIDE DEF S, base, f, Raw
<1>5. \E g : Folds(base, f, S, g)
  BY <1>3, FoldsExist
<1>6. Folds(base, f, S, g0) /\ Folds(base, f, S, raw)
  BY <1>2, <1>5
<1> HIDE DEF raw, g0
<1>7. raw[S] = g0[S]
  BY <1>3, <1>6, FoldsUnique
<1>. QED
  BY <1>1, <1>4, <1>7

\* Given of DeltaSpec, in this state and in the next.
LEMMA GivenIs ==
  ASSUME NEW j
  PROVE  Promise!Given(j) = GivenBy(v2, j) /\ Promise!Given(j)' = GivenBy(v2', j)
<1>1. Promise!Given(j) = RawGiven(v2, j)
  BY DEF Promise!Given, RawGiven, Into
<1>2. Promise!Given(j)' = RawGiven(v2', j)
  BY DEF Promise!Given, RawGiven, Into, Promise!AccAll, Promise!MapThenFoldSet
<1>. QED
  BY <1>1, <1>2, RawGivenIs

\* A bag of messages to vertices.
IsMail(B) ==
  /\ IsFiniteSet(DOMAIN B) /\ DOMAIN B \subseteq [to : Keys, v : Values]
  /\ \A m \in DOMAIN B : B[m] \in Nat \ {0}

\* A vertex is sent finitely many copies of messages.
LEMMA CopiesFinite ==
  ASSUME NEW B, IsMail(B), NEW j
  PROVE  /\ IsFiniteSet(CopiesTo(B, j))
         /\ \A copy \in CopiesTo(B, j) :
              /\ copy = <<copy[1], copy[2]>> /\ copy[1] \in DOMAIN B
              /\ copy[1].to = j /\ copy[2] \in 1 .. B[copy[1]]
              /\ Amounts(B, j)[copy] = copy[1].v /\ Amounts(B, j)[copy] \in Values
         /\ \A m \in DOMAIN B : \A c \in 1 .. B[m] :
              m.to = j => <<m, c>> \in CopiesTo(B, j)
<1> DEFINE S == {n \in DOMAIN B : n.to = j}
           f == [m \in DOMAIN B |-> {<<m, c>> : c \in 1 .. B[m]}]
<1>1. IsFiniteSet(S)
  BY FS_Subset DEF IsMail
<1>2. \A m \in S : IsFiniteSet(f[m])
  <2>1. ASSUME NEW m \in S PROVE IsFiniteSet(f[m])
    <3>1. B[m] \in Nat
      BY DEF IsMail
    <3>2. IsFiniteSet(1 .. B[m])
      BY <3>1, FS_Interval
    <3>3. IsFiniteSet({<<m, c>> : c \in 1 .. B[m]})
      BY <3>2, PairsCount
    <3>. QED
      BY <3>3
  <2>. QED
    BY <2>1
<1>3. CopiesTo(B, j) = UNION {f[m] : m \in S}
  BY DEF CopiesTo
<1>4. IsFiniteSet(CopiesTo(B, j))
  <2> HIDE DEF S, f
  <2>. QED
    BY <1>1, <1>2, <1>3, FiniteUnion
<1>5. ASSUME NEW copy \in CopiesTo(B, j)
      PROVE  /\ copy = <<copy[1], copy[2]>> /\ copy[1] \in DOMAIN B
             /\ copy[1].to = j /\ copy[2] \in 1 .. B[copy[1]]
  BY DEF CopiesTo
<1>6. ASSUME NEW copy \in CopiesTo(B, j)
      PROVE  Amounts(B, j)[copy] = copy[1].v /\ copy[1].v \in Values
  <2>1. copy[1] \in [to : Keys, v : Values]
    BY <1>5 DEF IsMail
  <2>. QED
    BY <2>1 DEF Amounts
<1>7. \A m \in DOMAIN B : \A c \in 1 .. B[m] :
        m.to = j => <<m, c>> \in CopiesTo(B, j)
  BY DEF CopiesTo
<1>. QED
  BY <1>4, <1>5, <1>6, <1>7

\* The fold of DeltaSpec, written out as its library defines it.
RawHas(d, w, B, j) ==
  Promise!AccAll(Acc(w[j], d[j]), LAMBDA copy : copy[1].v, CopiesTo(B, j))

\* They are the same.
LEMMA RawHasIs ==
  ASSUME NEW d, NEW w, NEW B, IsMail(B), NEW j
  PROVE  RawHas(d, w, B, j) = HasBy(d, w, B, j)
<1> DEFINE S == CopiesTo(B, j)
           base == Acc(w[j], d[j])
           f == Amounts(B, j)
           Raw(g) == g = [s \in SUBSET S |->
                            IF s = {} THEN base
                            ELSE Acc(Any(s)[1].v, g[s \ {Any(s)}])]
           raw == CHOOSE g : Raw(g)
           g0 == CHOOSE g : Folds(base, f, S, g)
<1>1. RawHas(d, w, B, j) = raw[S]
  BY DEF RawHas, Promise!AccAll, Promise!MapThenFoldSet, Any
<1>2. \A g : Raw(g) <=> Folds(base, f, S, g)
  <2>1. \A s \in SUBSET S : s # {} => f[Any(s)] = Any(s)[1].v
    BY AnyIn DEF Amounts
  <2> HIDE DEF f, S, base
  <2>. QED
    BY <2>1 DEF Folds
<1>3. IsFiniteSet(S)
  BY CopiesFinite
<1>4. HasBy(d, w, B, j) = g0[S]
  BY DEF HasBy, Fold
<1> HIDE DEF S, base, f, Raw
<1>5. \E g : Folds(base, f, S, g)
  BY <1>3, FoldsExist
<1>6. Folds(base, f, S, g0) /\ Folds(base, f, S, raw)
  BY <1>2, <1>5
<1> HIDE DEF raw, g0
<1>7. raw[S] = g0[S]
  BY <1>3, <1>6, FoldsUnique
<1>. QED
  BY <1>1, <1>4, <1>7

\* The messages under way make a bag of messages to vertices.
LEMMA MailIsMail ==
  ASSUME NEW u \in Sequences
  PROVE  IsMail(MailOf(u))
<1>1. ASSUME NEW m \in Flight(u)
      PROVE  u[m[1]][m[2]] \in [to : Keys, v : Values]
  <2>1. PICK t \in Threads : \E i \in DOMAIN u[t] : m = <<t, i>>
    BY DEF Flight
  <2>2. PICK i \in DOMAIN u[t] : m = <<t, i>>
    BY <2>1
  <2>3. u[t] \in Seq([to : Keys, v : Values])
    BY DEF Sequences
  <2>4. u[t][i] \in [to : Keys, v : Values]
    <3> DEFINE M == [to : Keys, v : Values]
               s == u[t]
    <3>1. s \in Seq(M) /\ i \in DOMAIN s
      BY <2>3
    <3> HIDE DEF M, s
    <3>2. i \in 1 .. Len(s)
      BY <3>1
    <3>3. s[i] \in M
      BY <3>1, <3>2, ElementOfSeq
    <3>. QED
      BY <3>3 DEF M, s
  <2>. QED
    BY <2>2, <2>4
<1>2. DOMAIN MailOf(u) \subseteq [to : Keys, v : Values]
  BY <1>1 DEF MailOf
<1>3. IsFiniteSet(DOMAIN MailOf(u))
  <2> DEFINE D == DOMAIN MailOf(u)
             f == [m \in Flight(u) |-> u[m[1]][m[2]]]
  <2>1. f \in Surjection(Flight(u), D)
    <3>1. D = {u[m[1]][m[2]] : m \in Flight(u)}
      BY DEF MailOf
    <3>. QED
      BY <3>1 DEF Surjection
  <2>2. IsFiniteSet(Flight(u))
    BY FlightFinite, FiniteAssumption
  <2> HIDE DEF f, D
  <2>3. IsFiniteSet(D)
    BY <2>1, <2>2, FS_Surjection
  <2>. QED
    BY <2>3 DEF D
<1>4. ASSUME NEW m \in DOMAIN MailOf(u) PROVE MailOf(u)[m] \in Nat \ {0}
  <2>1. MailOf(u)[m] = Cardinality(Copies(u, m))
    BY DEF MailOf
  <2>. QED
    BY <2>1, MailCounts, FiniteAssumption
<1>. QED
  BY <1>2, <1>3, <1>4 DEF IsMail

\* Has of DeltaSpec, in this state and in the next.
LEMMA HasIs ==
  ASSUME NEW j
  PROVE  /\ VertexInv => Promise!Has(j) = HasBy(Deltas, v2, Mail, j)
         /\ VertexInv' => Promise!Has(j)' = HasBy(Deltas', v2', Mail', j)
<1>1. Promise!Has(j) = RawHas(Deltas, v2, [x \in {Message(m) : m \in InFlight} |->
        Cardinality({m \in InFlight : Message(m) = x})], j)
  BY DEF Promise!Has, RawHas, Promise!BagToSet, Deltas, CopiesTo
<1>2. Promise!Has(j)' = RawHas(Deltas', v2', [x \in {Message(m) : m \in InFlight} |->
        Cardinality({m \in InFlight : Message(m) = x})]', j)
  BY DEF Promise!Has, RawHas, Promise!BagToSet, Deltas, CopiesTo, Promise!AccAll, Promise!MapThenFoldSet
<1>3. VertexInv => IsMail(Mail)
  BY UnsentsType, MailIsMail DEF Mail
<1>4. VertexInv' => IsMail(Mail')
  <2>1. VertexInv => Unsents \in Sequences
    BY UnsentsType
  <2>2. VertexInv' => (Unsents \in Sequences)'
    BY <2>1, PTL
  <2>3. (Unsents \in Sequences)' => Unsents' \in Sequences
    BY DEF Sequences
  <2>. QED
    BY <2>2, <2>3, MailIsMail DEF Mail
<1>. QED
  BY <1>1, <1>2, <1>3, <1>4, MailIs, RawHasIs

\* What is in the base may as well be added in the end.
LEMMA FoldBase ==
  ASSUME NEW S, IsFiniteSet(S), NEW f, \A x \in S : f[x] \in Values,
         NEW a \in Values, NEW b \in Values
  PROVE  Fold(Acc(a, b), f, S) = Acc(b, Fold(a, f, S))
<1> DEFINE e == [x \in S |-> Default]
<1>1. Fold(Acc(a, b), f, S) = Acc(Fold(a, f, S), Fold(b, e, S))
  <2>1. \A x \in S : f[x] \in Values /\ e[x] \in Values /\ f[x] = Acc(f[x], e[x])
    BY ValuesAssumption, AlgebraAssumption
  <2> HIDE DEF e
  <2>. QED
    BY <2>1, FoldAcc
<1>2. Fold(b, e, S) = b
  <2>1. \A x \in S : e[x] \in Values /\ e[x] = Default
    BY ValuesAssumption
  <2> HIDE DEF e
  <2>2. {} \in SUBSET S /\ S \ {} = S
    OBVIOUS
  <2>3. Fold(b, e, S) = Fold(b, e, {})
    BY <2>1, <2>2, FoldDrop
  <2>. QED
    BY <2>3, FoldEmpty
<1>3. Fold(a, f, S) \in Values
  BY FoldType
<1>. QED
  BY <1>1, <1>2, <1>3, AlgebraAssumption

\* Values or deltas of all vertices.
States == [Keys -> Values]

\* What a vertex has is a value.
LEMMA HasType ==
  ASSUME NEW d \in States, NEW w \in States, NEW B, IsMail(B), NEW j \in Keys
  PROVE  HasBy(d, w, B, j) \in Values
<1>1. Acc(w[j], d[j]) \in Values
  BY ValuesAssumption DEF States
<1>. QED
  BY <1>1, CopiesFinite, FoldType DEF HasBy

\* A function that changes in one place, and a bag that loses one message.
Sets(e, d, k, x) == e = [d EXCEPT ![k] = x]

Loses(B, m, D) == D = Promise!(-)(B, Promise!SetToBag({m}))

\* A message that is received was under way before.
LEMMA LedgerReceive ==
  ASSUME NEW d \in States, NEW w \in States, NEW B, IsMail(B), NEW m \in DOMAIN B,
         NEW j \in Keys, NEW D, Loses(B, m, D), IsMail(D),
         NEW e, Sets(e, d, m.to, Acc(d[m.to], m.v))
  PROVE  HasBy(e, w, D, j) = HasBy(d, w, B, j)
<1> DEFINE C == CopiesTo(B, j)
           z == <<m, B[m]>>
<1>1. /\ DOMAIN D = {n \in DOMAIN B : n = m => B[m] > 1}
      /\ \A n \in DOMAIN D : D[n] = IF n = m THEN B[m] - 1 ELSE B[n]
  <2> DEFINE E == [n \in DOMAIN B |-> IF n \in {m} THEN B[n] - 1 ELSE B[n]]
  <2>1. D = [n \in {x \in DOMAIN E : E[x] > 0} |-> E[n]]
    <3>1. Promise!SetToBag({m}) = [n \in {m} |-> 1]
      BY DEF Promise!SetToBag
    <3>2. DOMAIN Promise!SetToBag({m}) = {m} /\ Promise!SetToBag({m})[m] = 1
      BY <3>1
    <3>3. E = [n \in DOMAIN B |-> IF n \in DOMAIN Promise!SetToBag({m})
                                  THEN B[n] - Promise!SetToBag({m})[n] ELSE B[n]]
      BY <3>2
    <3>. QED
      BY <3>3 DEF Promise!(-), Loses
  <2>2. \A x \in DOMAIN B : E[x] > 0 <=> (x = m => B[m] > 1)
    BY DEF IsMail
  <2>. QED
    BY <2>1, <2>2
<1>2. /\ IsFiniteSet(C) /\ \A copy \in C : Amounts(B, j)[copy] \in Values
      /\ IsFiniteSet(CopiesTo(D, j))
  BY CopiesFinite
<1>3. m.to \in Keys /\ m.v \in Values /\ m \in [to : Keys, v : Values] /\ B[m] \in Nat \ {0}
  BY DEF IsMail
<1>4. ASSUME NEW x
      PROVE  x \in CopiesTo(D, j) <=> x \in C /\ x # z
  <2>1. ASSUME x \in CopiesTo(D, j) PROVE x \in C /\ x # z
    <3>1. x = <<x[1], x[2]>> /\ x[1] \in DOMAIN D /\ x[1].to = j /\ x[2] \in 1 .. D[x[1]]
      BY <2>1, CopiesFinite
    <3>2. x[1] \in DOMAIN B /\ B[x[1]] \in Nat /\ x[2] \in 1 .. B[x[1]]
          /\ (x[1] = m => x[2] # B[m])
      BY <1>1, <1>3, <3>1 DEF IsMail
    <3>3. x \in C
      BY <3>1, <3>2, CopiesFinite
    <3>. QED
      BY <3>2, <3>3
  <2>2. ASSUME x \in C, x # z PROVE x \in CopiesTo(D, j)
    <3>1. x = <<x[1], x[2]>> /\ x[1] \in DOMAIN B /\ x[1].to = j /\ x[2] \in 1 .. B[x[1]]
      BY <2>2, CopiesFinite
    <3>2. x[1] = m => x[2] # B[m]
      BY <2>2, <3>1
    <3>3. x[1] \in DOMAIN D /\ x[2] \in 1 .. D[x[1]]
      <4> DEFINE n == x[1]
                 c == x[2]
      <4>1. n \in DOMAIN B /\ c \in 1 .. B[n] /\ B[n] \in Nat \ {0}
        BY <3>1 DEF IsMail
      <4>2. n = m => c # B[m]
        BY <3>2
      <4> HIDE DEF n, c
      <4>3. CASE n = m
        <5>1. B[m] > 1 /\ c \in 1 .. (B[m] - 1)
          BY <4>1, <4>2, <4>3
        <5>2. m \in DOMAIN D /\ D[m] = B[m] - 1
          BY <1>1, <4>1, <4>3, <5>1
        <5>3. n \in DOMAIN D /\ c \in 1 .. D[n]
          BY <4>3, <5>1, <5>2
        <5>. QED
          BY <5>3 DEF n, c
      <4>4. CASE n # m
        <5>1. n \in DOMAIN D /\ D[n] = B[n]
          BY <1>1, <4>1, <4>4
        <5>2. n \in DOMAIN D /\ c \in 1 .. D[n]
          BY <4>1, <5>1
        <5>. QED
          BY <5>2 DEF n, c
      <4>. QED
        BY <4>3, <4>4
    <3>. QED
      BY <3>1, <3>3, CopiesFinite
  <2>. QED
    BY <2>1, <2>2
<1>5. CopiesTo(D, j) = C \ {z}
  BY <1>4
<1>6. \A base : Fold(base, Amounts(D, j), C \ {z}) = Fold(base, Amounts(B, j), C \ {z})
  <2>1. ASSUME NEW x \in C \ {z} PROVE Amounts(D, j)[x] = Amounts(B, j)[x]
    <3>1. x \in CopiesTo(D, j)
      BY <1>5
    <3>2. Amounts(D, j)[x] = x[1].v
      BY <3>1 DEF Amounts
    <3>3. Amounts(B, j)[x] = x[1].v
      BY DEF Amounts
    <3>. QED
      BY <3>2, <3>3
  <2>2. IsFiniteSet(C \ {z})
    BY <1>2, FS_Subset
  <2> HIDE DEF C, z
  <2>. QED
    BY <2>1, <2>2, FoldSame
<1>7. CASE j # m.to
  <2>1. e[j] = d[j]
    BY <1>7 DEF States, Sets
  <2>2. z \notin C
    BY <1>7, CopiesFinite
  <2>3. C \ {z} = C
    BY <2>2
  <2>. QED
    BY <1>5, <1>6, <2>1, <2>3 DEF HasBy
<1>8. CASE j = m.to
  <2> DEFINE a == Acc(w[j], d[j])
             F == Fold(a, Amounts(B, j), C \ {z})
  <2>1. e[j] = Acc(d[j], m.v) /\ w[j] \in Values /\ d[j] \in Values /\ a \in Values
    BY <1>8, ValuesAssumption DEF States, Sets
  <2>2. Acc(w[j], e[j]) = Acc(a, m.v)
    BY <1>3, <2>1, AlgebraAssumption
  <2>3. z \in C /\ Amounts(B, j)[z] = m.v
    <3>1. z \in C
      BY <1>3, <1>8, CopiesFinite
    <3>. QED
      BY <3>1, CopiesFinite
  <2>4. HasBy(d, w, B, j) = Acc(m.v, F)
    <3> HIDE DEF C, z, a
    <3>1. Fold(a, Amounts(B, j), C) = Acc(Amounts(B, j)[z], F)
      BY <1>2, <2>1, <2>3, FoldTakes
    <3>. QED
      BY <2>3, <3>1 DEF HasBy, C, a
  <2>5. IsFiniteSet(C \ {z}) /\ \A x \in C \ {z} : Amounts(B, j)[x] \in Values
    BY <1>2, FS_Subset
  <2>6. Fold(Acc(a, m.v), Amounts(B, j), C \ {z}) = Acc(m.v, F)
    <3> HIDE DEF C, z, a
    <3>. QED
      BY <1>3, <2>1, <2>5, FoldBase
  <2>7. HasBy(e, w, D, j) = Fold(Acc(w[j], e[j]), Amounts(D, j), C \ {z})
    BY <1>5 DEF HasBy
  <2>8. HasBy(e, w, D, j) = Fold(Acc(a, m.v), Amounts(B, j), C \ {z})
    <3> HIDE DEF C, z, a
    <3>. QED
      BY <1>6, <2>2, <2>7
  <2>. QED
    BY <2>4, <2>6, <2>8
<1>. QED
  BY <1>7, <1>8

\* How often a message is in a bag.
Count(B, m) == IF m \in DOMAIN B THEN B[m] ELSE 0

\* The places of a sequence whose message goes to j.
SentTo(s, j) == {i \in DOMAIN s : s[i].to = j}

\* Sequences of messages, and a bag to which such a sequence is added.
Messages == Seq([to : Keys, v : Values])

Grows(B, s, D) == D = Promise!(+)(B, Promise!BagOf(s))

\* A bag and a sequence of messages make a bag.
LEMMA BagMore ==
  ASSUME NEW B, IsMail(B), NEW s \in Messages,
         NEW D, Grows(B, s, D)
  PROVE  /\ DOMAIN B \subseteq DOMAIN D
         /\ \A i \in DOMAIN s : s[i] \in DOMAIN D
         /\ \A m \in DOMAIN D : D[m] = Count(B, m) + Cardinality(Places(s, m))
         /\ \A m : /\ Count(B, m) \in Nat /\ IsFiniteSet(Places(s, m))
                   /\ Cardinality(Places(s, m)) \in Nat
<1> DEFINE Q == Promise!BagOf(s)
<1>1. /\ \A x : x \in DOMAIN Q <=> Places(s, x) # {}
      /\ \A x \in DOMAIN Q : Q[x] = Cardinality(Places(s, x))
  <2>1. Q = [x \in {s[i] : i \in DOMAIN s} |-> Cardinality(Places(s, x))]
    BY SameCardinality DEF Promise!BagOf, Places
  <2> HIDE DEF Q
  <2>2. /\ DOMAIN Q = {s[i] : i \in DOMAIN s}
        /\ \A x \in DOMAIN Q : Q[x] = Cardinality(Places(s, x))
    BY <2>1
  <2>. QED
    BY <2>1, <2>2 DEF Places
<1> HIDE DEF Q
<1>2. D = [x \in (DOMAIN B) \cup (DOMAIN Q) |->
             Count(B, x) + (IF x \in DOMAIN Q THEN Q[x] ELSE 0)]
  BY DEF Q, Promise!(+), Count, Grows
<1>3. \A m : /\ Count(B, m) \in Nat /\ IsFiniteSet(Places(s, m))
             /\ Cardinality(Places(s, m)) \in Nat
  BY PlacesFinite DEF Count, IsMail, Messages
<1>4. \A x : (IF x \in DOMAIN Q THEN Q[x] ELSE 0) = Cardinality(Places(s, x))
  BY <1>1, FS_EmptySet
<1>5. \A m \in DOMAIN D : D[m] = Count(B, m) + Cardinality(Places(s, m))
  BY <1>2, <1>4
<1>6. \A i \in DOMAIN s : s[i] \in DOMAIN Q
  BY <1>1 DEF Places
<1>. QED
  BY <1>2, <1>3, <1>5, <1>6

\* The old copies are among them.
LEMMA OldCopies ==
  ASSUME NEW B, IsMail(B), NEW s \in Messages,
         NEW D, Grows(B, s, D), IsMail(D), NEW j
  PROVE  CopiesTo(B, j) \subseteq CopiesTo(D, j)
<1>1. ASSUME NEW copy \in CopiesTo(B, j) PROVE copy \in CopiesTo(D, j)
  <2>1. /\ copy = <<copy[1], copy[2]>> /\ copy[1] \in DOMAIN B
        /\ copy[1].to = j /\ copy[2] \in 1 .. B[copy[1]]
    BY CopiesFinite
  <2> DEFINE m == copy[1]
             c == copy[2]
             n == Cardinality(Places(s, m))
  <2>2. m \in DOMAIN D /\ D[m] = B[m] + n /\ n \in Nat /\ B[m] \in Nat
    <3> HIDE DEF m
    <3>1. m \in DOMAIN B
      BY <2>1 DEF m
    <3>. QED
      BY <3>1, BagMore DEF IsMail, Count
  <2>3. c \in 1 .. B[m]
    BY <2>1
  <2> HIDE DEF m, c, n
  <2>4. c \in 1 .. D[m]
    BY <2>2, <2>3
  <2>. QED
    BY <2>1, <2>2, <2>4, CopiesFinite DEF m, c
<1>. QED
  BY <1>1

\* The copies that are new are those of the sequence, one for each place.
LEMMA NewCopies ==
  ASSUME NEW B, IsMail(B), NEW s \in Messages,
         NEW D, Grows(B, s, D), IsMail(D), NEW j,
         NEW New, \A copy : copy \in New <=> copy \in CopiesTo(D, j) /\ copy \notin CopiesTo(B, j)
  PROVE  \E g \in Bijection(New, SentTo(s, j)) : \A copy \in New : s[g[copy]] = copy[1]
<1> DEFINE Sent == SentTo(s, j)
           n == [m \in DOMAIN D |-> Cardinality(Places(s, m))]
           b == [m \in DOMAIN D |-> Count(B, m)]
           P == [m \in DOMAIN D |-> CHOOSE f : f \in Bijection(1 .. n[m], Places(s, m))]
           g == [copy \in New |-> P[copy[1]][copy[2] - b[copy[1]]]]
<1>1. /\ DOMAIN B \subseteq DOMAIN D /\ \A i \in DOMAIN s : s[i] \in DOMAIN D
      /\ \A m \in DOMAIN D : /\ D[m] = b[m] + n[m] /\ b[m] \in Nat /\ n[m] \in Nat
                             /\ IsFiniteSet(Places(s, m))
                             /\ b[m] = IF m \in DOMAIN B THEN B[m] ELSE 0
  <2>1. \A m \in DOMAIN D : n[m] = Cardinality(Places(s, m)) /\ b[m] = Count(B, m)
    OBVIOUS
  <2> HIDE DEF n, b
  <2>2. /\ DOMAIN B \subseteq DOMAIN D
        /\ \A i \in DOMAIN s : s[i] \in DOMAIN D
        /\ \A m \in DOMAIN D : D[m] = Count(B, m) + Cardinality(Places(s, m))
        /\ \A m : /\ Count(B, m) \in Nat /\ IsFiniteSet(Places(s, m))
                  /\ Cardinality(Places(s, m)) \in Nat
    BY BagMore
  <2>3. \A m : Count(B, m) = IF m \in DOMAIN B THEN B[m] ELSE 0
    BY DEF Count
  <2>. QED
    BY <2>1, <2>2, <2>3
<1>2. ASSUME NEW m \in DOMAIN D
      PROVE  P[m] \in Bijection(1 .. n[m], Places(s, m))
  <2>1. ExistsBijection(1 .. n[m], Places(s, m))
    BY <1>1, FS_CardinalityType
  <2>. QED
    BY <2>1 DEF ExistsBijection
<1> HIDE DEF n, b
<1>4. ASSUME NEW copy \in New
      PROVE  /\ copy = <<copy[1], copy[2]>> /\ copy[1] \in DOMAIN D /\ copy[1].to = j
             /\ copy[2] \in Nat /\ copy[2] - b[copy[1]] \in 1 .. n[copy[1]]
             /\ g[copy] = P[copy[1]][copy[2] - b[copy[1]]]
             /\ b[copy[1]] \in Nat
  <2>1. /\ copy = <<copy[1], copy[2]>> /\ copy[1] \in DOMAIN D
        /\ copy[1].to = j /\ copy[2] \in 1 .. D[copy[1]]
    BY CopiesFinite
  <2> DEFINE m == copy[1]
             c == copy[2]
  <2>2. m \in DOMAIN B => c \notin 1 .. B[m]
    BY <2>1, CopiesFinite
  <2>3. /\ c \in 1 .. D[m] /\ m \in DOMAIN D /\ D[m] = b[m] + n[m] /\ b[m] \in Nat /\ n[m] \in Nat
        /\ b[m] = IF m \in DOMAIN B THEN B[m] ELSE 0
    BY <1>1, <2>1
  <2> HIDE DEF m, c
  <2>4. c \in Nat /\ c - b[m] \in 1 .. n[m]
    BY <2>2, <2>3
  <2>. QED
    BY <2>1, <2>3, <2>4 DEF m, c
<1> HIDE DEF P
<1>5. ASSUME NEW copy \in New
      PROVE  g[copy] \in Sent /\ s[g[copy]] = copy[1]
  <2> DEFINE m == copy[1]
             i == copy[2] - b[m]
  <2>1. m \in DOMAIN D /\ m.to = j /\ i \in 1 .. n[m] /\ g[copy] = P[m][i]
    BY <1>4
  <2> HIDE DEF m, i
  <2>2. P[m][i] \in Places(s, m)
    BY <1>2, <2>1 DEF Bijection, Injection
  <2>. QED
    BY <2>1, <2>2 DEF Places, SentTo, m
<1>6. ASSUME NEW x \in New, NEW y \in New, g[x] = g[y] PROVE x = y
  <2> DEFINE m == x[1]
  <2>1. y[1] = m
    BY <1>5, <1>6
  <2>2. /\ m \in DOMAIN D /\ x[2] - b[m] \in 1 .. n[m] /\ y[2] - b[m] \in 1 .. n[m]
        /\ P[m][x[2] - b[m]] = P[m][y[2] - b[m]]
        /\ x[2] \in Nat /\ y[2] \in Nat /\ b[m] \in Nat
    BY <1>4, <1>6, <2>1
  <2>3. x[2] - b[m] = y[2] - b[m]
    <3> DEFINE p == P[m]
               I == 1 .. n[m]
    <3>1. p \in Bijection(I, Places(s, m))
      BY <1>2, <2>2
    <3> HIDE DEF m, p, I
    <3>2. \A u, w \in I : p[u] = p[w] => u = w
      BY <3>1 DEF Bijection, Injection, IsInjective
    <3>. QED
      BY <2>2, <3>2 DEF p, I
  <2>4. x[2] = y[2]
    <3> DEFINE q == x[2]
               r == y[2]
               z == b[m]
    <3>1. q \in Nat /\ r \in Nat /\ z \in Nat /\ q - z = r - z
      BY <2>2, <2>3
    <3> HIDE DEF q, r, z
    <3>2. q = r
      BY <3>1
    <3>. QED
      BY <3>2 DEF q, r
  <2>. QED
    BY <1>4, <2>1, <2>4
<1>7. ASSUME NEW i \in Sent PROVE \E copy \in New : g[copy] = i
  <2> DEFINE m == s[i]
  <2>1. m \in DOMAIN D /\ i \in Places(s, m) /\ m.to = j
    BY <1>1 DEF SentTo, Places
  <2>2. PICK c \in 1 .. n[m] : P[m][c] = i
    <3> HIDE DEF m
    <3>. QED
      BY <1>2, <2>1 DEF Bijection, Surjection
  <2> DEFINE copy == <<m, b[m] + c>>
  <2>3. /\ b[m] + c \in 1 .. D[m]
        /\ m \in DOMAIN B => b[m] + c \notin 1 .. B[m]
        /\ (b[m] + c) - b[m] = c
    <3> HIDE DEF m
    <3>1. D[m] = b[m] + n[m] /\ b[m] \in Nat /\ n[m] \in Nat
          /\ b[m] = IF m \in DOMAIN B THEN B[m] ELSE 0
      BY <1>1, <2>1
    <3>. QED
      BY <3>1
  <2>4. copy \in CopiesTo(D, j)
    BY <2>1, <2>3, CopiesFinite
  <2>5. copy \notin CopiesTo(B, j)
    <3> SUFFICES ASSUME copy \in CopiesTo(B, j) PROVE FALSE
      OBVIOUS
    <3>1. m \in DOMAIN B /\ b[m] + c \in 1 .. B[m]
      BY CopiesFinite
    <3>. QED
      BY <2>3, <3>1
  <2>6. copy \in New
    BY <2>4, <2>5
  <2>7. g[copy] = i
    <3>1. g[copy] = P[copy[1]][copy[2] - b[copy[1]]]
      BY <2>6
    <3>. QED
      BY <2>2, <2>3, <3>1
  <2>. QED
    BY <2>6, <2>7
<1>8. g \in Bijection(New, Sent)
  <2>1. g \in [New -> Sent]
    BY <1>5
  <2> HIDE DEF g, Sent
  <2>. QED
    BY <1>6, <1>7, <2>1 DEF Bijection, Injection, Surjection, IsInjective
<1>. QED
  BY <1>5, <1>8

\* What g_func sends of a delta.
Spreads(s, k, d) ==
  s = [i \in DOMAIN Links[k] |-> [to |-> Links[k][i], v |-> Gain(k, i, d[k])]]

\* What the new copies amount to is what the sequence does.
LEMMA NewFold ==
  ASSUME NEW B, IsMail(B), NEW s \in Messages,
         NEW D, Grows(B, s, D), IsMail(D), NEW j,
         NEW N, \A copy : copy \in N <=> copy \in CopiesTo(D, j) /\ copy \notin CopiesTo(B, j),
         NEW h, \A i \in DOMAIN s : h[i] = s[i].v
  PROVE  Fold(Default, Amounts(D, j), N) = Fold(Default, h, SentTo(s, j))
<1> DEFINE Sent == SentTo(s, j)
<1>3. PICK g \in Bijection(N, Sent) : \A copy \in N : s[g[copy]] = copy[1]
  BY NewCopies
<1>4. /\ IsFiniteSet(N)
      /\ \A copy \in N : /\ Amounts(D, j)[copy] = copy[1].v
                           /\ Amounts(D, j)[copy] \in Values
  <2>1. IsFiniteSet(CopiesTo(D, j))
    BY CopiesFinite
  <2>2. IsFiniteSet(N)
    BY <2>1, FS_Subset
  <2>3. \A copy \in CopiesTo(D, j) : /\ Amounts(D, j)[copy] = copy[1].v
                                     /\ Amounts(D, j)[copy] \in Values
    BY CopiesFinite
  <2>. QED
    BY <2>2, <2>3
<1>5. Default \in Values
  BY ValuesAssumption
<1>6. \A copy \in N : h[g[copy]] = Amounts(D, j)[copy]
  <2>1. \A copy \in N : g[copy] \in DOMAIN s
    <3>. QED
      BY DEF Bijection, Injection, SentTo
  <2>. QED
    BY <1>3, <1>4, <2>1
<1>7. Fold(Default, Amounts(D, j), N) = Fold(Default, h, Sent)
  <2> DEFINE f == Amounts(D, j)
  <2>1. \A copy \in N : f[copy] \in Values /\ h[g[copy]] = f[copy]
    BY <1>4, <1>6
  <2> HIDE DEF Sent, f
  <2>2. Fold(Default, f, N) = Fold(Default, h, Sent)
    BY <1>3, <1>4, <1>5, <2>1, FoldImage
  <2>. QED
    BY <2>2 DEF f
<1>. QED
  BY <1>7

\* What a sequence of messages gives to j.
LEMMA NewAmounts ==
  ASSUME NEW B, IsMail(B), NEW k \in Keys, NEW d \in States, NEW s, Spreads(s, k, d),
         NEW D, Grows(B, s, D), IsMail(D), NEW j,
         NEW e, \A l \in Into(j) : e[l] = IF l[1] = k THEN Gain(k, l[2], d[k]) ELSE Default
  PROVE  Fold(Default, Amounts(D, j), CopiesTo(D, j) \ CopiesTo(B, j)) =
           Fold(Default, e, Into(j))
<1> DEFINE New == CopiesTo(D, j) \ CopiesTo(B, j)
           Sent == SentTo(s, j)
           Out == {l \in Into(j) : l[1] = k}
           h == [i \in DOMAIN s |-> s[i].v]
           q == [i \in Sent |-> <<k, i>>]
<1>1. s \in Messages
  BY SentType DEF States, Messages, Spreads
<1>2. /\ DOMAIN s = DOMAIN Links[k]
      /\ \A i \in DOMAIN s : /\ s[i].to = Links[k][i] /\ s[i].v = Gain(k, i, d[k])
                             /\ s[i].v \in Values
  <2>1. \A i \in DOMAIN Links[k] : Gain(k, i, d[k]) \in Values
    BY ValuesAssumption DEF States
  <2>. QED
    BY <2>1 DEF Spreads
<1>5. Default \in Values
  BY ValuesAssumption
<1>7. Fold(Default, Amounts(D, j), New) = Fold(Default, h, Sent)
  <2>1. /\ \A copy : copy \in New <=> copy \in CopiesTo(D, j) /\ copy \notin CopiesTo(B, j)
        /\ \A i \in DOMAIN s : h[i] = s[i].v
    OBVIOUS
  <2> HIDE DEF New, h
  <2>. QED
    BY <1>1, <2>1, NewFold
<1> HIDE DEF New
<1>8. q \in Bijection(Sent, Out)
  <2>1. ASSUME NEW i \in Sent PROVE q[i] \in Out
    <3>1. i \in DOMAIN Links[k] /\ Links[k][i] = j
      BY <1>2 DEF SentTo
    <3>. QED
      BY <3>1, IntoFinite
  <2>2. \A a, c \in Sent : q[a] = q[c] => a = c
    OBVIOUS
  <2>3. ASSUME NEW l \in Out PROVE \E i \in Sent : q[i] = l
    <3>1. l = <<k, l[2]>> /\ l[2] \in DOMAIN Links[k] /\ Links[k][l[2]] = j
      BY IntoFinite
    <3>2. l[2] \in Sent
      BY <1>2, <3>1 DEF SentTo
    <3>. QED
      BY <3>1, <3>2
  <2>4. q \in [Sent -> Out]
    BY <2>1
  <2> HIDE DEF q, Sent, Out
  <2>. QED
    BY <2>2, <2>3, <2>4 DEF Bijection, Injection, Surjection, IsInjective
<1>9. IsFiniteSet(Sent)
  <2>1. DOMAIN s = 1 .. Len(s) /\ Len(s) \in Nat
    BY <1>1 DEF Messages
  <2>2. IsFiniteSet(DOMAIN s)
    BY <2>1, FS_Interval
  <2>. QED
    BY <2>2, FS_Subset DEF SentTo
<1>10. \A i \in Sent : h[i] \in Values /\ e[q[i]] = h[i]
  <2>1. ASSUME NEW i \in Sent PROVE h[i] \in Values /\ e[q[i]] = h[i]
    <3>1. i \in DOMAIN s /\ i \in DOMAIN Links[k] /\ Links[k][i] = j
      BY <1>2 DEF SentTo
    <3>2. <<k, i>> \in Into(j)
      BY <3>1, IntoFinite
    <3>3. e[<<k, i>>] = Gain(k, i, d[k])
      BY <3>2
    <3>. QED
      BY <1>2, <3>1, <3>3
  <2>. QED
    BY <2>1
<1>11. Fold(Default, h, Sent) = Fold(Default, e, Out)
  <2> HIDE DEF h, q, Sent, Out
  <2>. QED
    BY <1>5, <1>8, <1>9, <1>10, FoldImage
<1>12. Fold(Default, e, Into(j)) = Fold(Default, e, Out)
  <2>1. \A l \in Into(j) : e[l] \in Values
    <3>1. ASSUME NEW l \in Into(j), l[1] = k PROVE Gain(k, l[2], d[k]) \in Values
      <4>1. l[2] \in DOMAIN Links[k]
        BY <3>1, IntoFinite
      <4>. QED
        BY <4>1, ValuesAssumption DEF States
    <3>. QED
      BY <1>5, <3>1
  <2>2. \A l \in Into(j) \ Out : e[l] = Default
    OBVIOUS
  <2>3. IsFiniteSet(Into(j)) /\ Out \in SUBSET Into(j)
    BY IntoFinite
  <2> HIDE DEF Out
  <2>. QED
    BY <1>5, <2>1, <2>2, <2>3, FoldDrop
<1>. QED
  BY <1>7, <1>11, <1>12 DEF New

\* What a vertex was given grows as the gain on each link does.
LEMMA GivenGrows ==
  ASSUME NEW j \in Keys, NEW w, NEW ww, NEW e,
         \A l \in Into(j) : /\ Gains(w, j)[l] \in Values /\ e[l] \in Values
                            /\ Gains(ww, j)[l] = Acc(Gains(w, j)[l], e[l])
  PROVE  GivenBy(ww, j) = Acc(GivenBy(w, j), Fold(Default, e, Into(j)))
<1> DEFINE f == Gains(w, j)
           h == Gains(ww, j)
           S == Into(j)
           i0 == InitDelta[j]
<1>1. i0 \in Values /\ Default \in Values /\ IsFiniteSet(S)
  BY ValuesAssumption, IntoFinite
<1>2. \A l \in S : f[l] \in Values /\ e[l] \in Values /\ h[l] = Acc(f[l], e[l])
  OBVIOUS
<1>3. Fold(Acc(i0, Default), h, S) = Acc(Fold(i0, f, S), Fold(Default, e, S))
  <2> HIDE DEF f, h, S, i0
  <2>. QED
    BY <1>1, <1>2, FoldAcc
<1>4. Acc(i0, Default) = i0
  BY <1>1, AlgebraAssumption
<1>. QED
  BY <1>3, <1>4 DEF GivenBy

\* An update gives the same on both sides.
LEMMA LedgerUpdate ==
  ASSUME NEW B, IsMail(B), NEW k \in Keys, NEW d \in States, NEW w \in States, NEW s, Spreads(s, k, d),
         NEW D, Grows(B, s, D), IsMail(D), NEW j \in Keys,
         NEW dd, Sets(dd, d, k, Default),
         NEW ww, Sets(ww, w, k, Acc(w[k], d[k])),
         HasBy(d, w, B, j) = GivenBy(w, j)
  PROVE  HasBy(dd, ww, D, j) = GivenBy(ww, j)
<1> DEFINE e == [l \in Into(j) |-> IF l[1] = k THEN Gain(k, l[2], d[k]) ELSE Default]
           X == Fold(Default, e, Into(j))
           Old == CopiesTo(B, j)
           New == CopiesTo(D, j) \ Old
           a == Acc(w[j], d[j])
<1>1. /\ Default \in Values /\ InitDelta[j] \in Values /\ w[j] \in Values /\ d[j] \in Values
      /\ a \in Values /\ d[k] \in Values /\ w[k] \in Values
  BY ValuesAssumption DEF States
<1>2. GivenBy(ww, j) = Acc(GivenBy(w, j), X)
  <2>1. ASSUME NEW l \in Into(j)
        PROVE  /\ Gains(w, j)[l] \in Values /\ e[l] \in Values
               /\ Gains(ww, j)[l] = Acc(Gains(w, j)[l], e[l])
    <3>1. l[1] \in Keys /\ l[2] \in DOMAIN Links[l[1]]
      BY IntoFinite
    <3>2. /\ w[l[1]] \in Values /\ Gain(l[1], l[2], w[l[1]]) \in Values
          /\ Gain(l[1], l[2], d[l[1]]) \in Values /\ d[l[1]] \in Values
      BY <3>1, ValuesAssumption DEF States
    <3>3. Gains(w, j)[l] = Gain(l[1], l[2], w[l[1]]) /\ Gains(ww, j)[l] = Gain(l[1], l[2], ww[l[1]])
      BY DEF Gains
    <3>4. CASE l[1] = k
      <4>1. ww[l[1]] = Acc(w[k], d[k])
        BY <3>4 DEF States, Sets
      <4>2. Gain(k, l[2], Acc(w[k], d[k])) = Acc(Gain(k, l[2], w[k]), Gain(k, l[2], d[k]))
        BY <1>1, <3>1, <3>4, AlgebraAssumption
      <4>. QED
        BY <3>2, <3>3, <3>4, <4>1, <4>2
    <3>5. CASE l[1] # k
      <4>1. ww[l[1]] = w[l[1]]
        BY <3>5 DEF States, Sets
      <4>. QED
        BY <1>1, <3>2, <3>3, <3>5, <4>1, AlgebraAssumption
    <3>. QED
      BY <3>4, <3>5
  <2> HIDE DEF e
  <2>. QED
    BY <2>1, GivenGrows
<1>3. Fold(Default, Amounts(D, j), New) = X
  <2> HIDE DEF e
  <2>1. \A l \in Into(j) : e[l] = IF l[1] = k THEN Gain(k, l[2], d[k]) ELSE Default
    BY DEF e
  <2>. QED
    BY <2>1, NewAmounts
<1>4. Acc(ww[j], dd[j]) = a
  <2>1. CASE j = k
    <3>1. ww[j] = a /\ dd[j] = Default
      BY <2>1 DEF States, Sets
    <3>. QED
      BY <1>1, <3>1, AlgebraAssumption
  <2>2. CASE j # k
    BY <2>2 DEF States, Sets
  <2>. QED
    BY <2>1, <2>2
<1>5. /\ IsFiniteSet(Old) /\ IsFiniteSet(New) /\ Old \cap New = {} /\ Old \cup New = CopiesTo(D, j)
      /\ \A x \in Old \cup New : Amounts(D, j)[x] \in Values
      /\ \A x \in Old : Amounts(D, j)[x] = Amounts(B, j)[x]
  <2>1. s \in Messages
    BY SentType DEF States, Messages, Spreads
  <2>2. Old \subseteq CopiesTo(D, j)
    BY <2>1, OldCopies
  <2>3. IsFiniteSet(Old) /\ IsFiniteSet(New)
    BY CopiesFinite, FS_Subset
  <2>4. \A x \in Old : Amounts(D, j)[x] = Amounts(B, j)[x]
    BY <2>2 DEF Amounts
  <2>5. Old \cup New = CopiesTo(D, j)
    BY <2>2
  <2>. QED
    BY <2>3, <2>4, <2>5, CopiesFinite
<1>6. HasBy(dd, ww, D, j) = Fold(a, Amounts(D, j), Old \cup New)
  BY <1>4, <1>5 DEF HasBy
<1>7. HasBy(d, w, B, j) = Fold(a, Amounts(B, j), Old)
  BY DEF HasBy
<1> HIDE DEF Old, New, X, a, e
<1>8. Fold(a, Amounts(D, j), Old \cup New) = Acc(Fold(a, Amounts(D, j), Old), X)
  BY <1>1, <1>3, <1>5, FoldUnion
<1>9. Fold(a, Amounts(D, j), Old) = Fold(a, Amounts(B, j), Old)
  BY <1>5, FoldSame
<1>. QED
  BY <1>2, <1>6, <1>7, <1>8, <1>9

\* The ledger in terms of the state functions above.
Balanced == \A j \in Keys : HasBy(Deltas, v2, Mail, j) = GivenBy(v2, j)

\* LedgerHolds in terms of the folds, in this state and in the next.
LEMMA LedgerIsBalanced ==
  /\ VertexInv => (LedgerHolds <=> Balanced)
  /\ VertexInv' => (LedgerHolds' <=> \A j \in Keys : HasBy(Deltas', v2', Mail', j) = GivenBy(v2', j))
<1>1. VertexInv => (LedgerHolds <=> Balanced)
  <2>1. LedgerHolds <=> \A j \in Keys : Promise!Has(j) = Promise!Given(j)
    BY DEF LedgerHolds, Promise!Ledger
  <2>. QED
    BY <2>1, HasIs, GivenIs DEF Balanced
<1>2. Balanced' <=> \A j \in Keys : HasBy(Deltas', v2', Mail', j) = GivenBy(v2', j)
  BY DEF Balanced, HasBy, GivenBy, Fold, Folds, Amounts, Gains, CopiesTo, Into, Promise!Into
<1>3. VertexInv' => (LedgerHolds' <=> Balanced')
  BY <1>1, PTL
<1>. QED
  BY <1>1, <1>2, <1>3

\* The types of the mapped variables.
LEMMA StateTypes ==
  /\ VertexInv => v2 \in States /\ Deltas \in States /\ IsMail(Mail)
  /\ VertexInv' => IsMail(Mail')
<1>1. VertexInv => v2 \in States /\ Deltas \in States
  <2>1. VertexInv => \A j \in Keys : Unspread(j) \in Values
    BY ValuesAssumption DEF VertexInv, TypeOK, Unspread
  <2>. QED
    BY <2>1 DEF VertexInv, TypeOK, States, Deltas
<1>2. VertexInv => IsMail(Mail)
  BY UnsentsType, MailIsMail DEF Mail
<1>3. VertexInv' => IsMail(Mail')
  <2>1. VertexInv => Unsents \in Sequences
    BY UnsentsType
  <2>2. VertexInv' => (Unsents \in Sequences)'
    BY <2>1, PTL
  <2>3. (Unsents \in Sequences)' => Unsents' \in Sequences
    BY DEF Sequences
  <2>. QED
    BY <2>2, <2>3, MailIsMail DEF Mail
<1>. QED
  BY <1>1, <1>2, <1>3

\* At first a vertex has its first delta, and nothing is under way.
LEMMA LedgerInit == Init => LedgerHolds
<1> SUFFICES ASSUME Init PROVE LedgerHolds
  OBVIOUS
<1>1. VertexInv
  BY InitEstablishes
<1>2. Deltas = InitDelta /\ v2 = [k \in Keys |-> Default] /\ Mail = Promise!EmptyBag
  BY PromiseInit, MailIs DEF Promise!Init, Deltas
<1>3. ASSUME NEW j \in Keys
      PROVE  HasBy(Deltas, v2, Mail, j) = InitDelta[j]
  <2>1. CopiesTo(Mail, j) = {}
    BY <1>2 DEF CopiesTo, Promise!EmptyBag, Promise!SetToBag
  <2>2. Acc(v2[j], Deltas[j]) = InitDelta[j]
    BY <1>2, ValuesAssumption, AlgebraAssumption
  <2>. QED
    BY <2>1, <2>2, FoldEmpty DEF HasBy
<1>4. ASSUME NEW j \in Keys
      PROVE  GivenBy(v2, j) = InitDelta[j]
  <2> DEFINE f == Gains(v2, j)
             S == Into(j)
  <2>1. \A l \in S : f[l] \in Values /\ f[l] = Default
    <3>1. ASSUME NEW l \in S PROVE f[l] = Default
      <4>1. l[1] \in Keys /\ l[2] \in DOMAIN Links[l[1]]
        BY IntoFinite
      <4>2. v2[l[1]] = Default
        BY <1>2, <4>1
      <4>. QED
        BY <4>1, <4>2, AlgebraAssumption DEF Gains
    <3>. QED
      BY <3>1, ValuesAssumption
  <2>2. IsFiniteSet(S) /\ {} \in SUBSET S /\ S \ {} = S /\ InitDelta[j] \in Values
    BY IntoFinite, ValuesAssumption
  <2> HIDE DEF f, S
  <2>3. Fold(InitDelta[j], f, S) = Fold(InitDelta[j], f, {})
    BY <2>1, <2>2, FoldDrop
  <2>. QED
    BY <2>3, FoldEmpty DEF GivenBy, f, S
<1>. QED
  BY <1>1, <1>3, <1>4, LedgerIsBalanced DEF Balanced

\* Updates and receipts keep the ledger; the other steps do not touch it.
LEMMA LedgerStep ==
  ASSUME VertexInv, VertexInv', [Next]_vars, LedgerHolds
  PROVE  LedgerHolds'
<1>1. \A j \in Keys : HasBy(Deltas, v2, Mail, j) = GivenBy(v2, j)
  BY LedgerIsBalanced DEF Balanced
<1>2. v2 \in States /\ Deltas \in States /\ IsMail(Mail) /\ IsMail(Mail')
  BY StateTypes
<1>3. SUFFICES ASSUME NEW j \in Keys
               PROVE  HasBy(Deltas', v2', Mail', j) = GivenBy(v2', j)
  BY LedgerIsBalanced
<1>4. CASE UNCHANGED Promise!vars
  <2>1. Deltas' = Deltas /\ v2' = v2 /\ Mail' = Mail
    BY <1>4, MailIs DEF Promise!vars, Deltas
  <2>. QED
    BY <1>1, <2>1
<1>5. ASSUME NEW k \in Keys, Promise!Update(k)
      PROVE  HasBy(Deltas', v2', Mail', j) = GivenBy(v2', j)
  <2> DEFINE s == [i \in DOMAIN Links[k] |->
                     [to |-> Links[k][i], v |-> Gain(k, i, Deltas[k])]]
  <2>1. /\ v2' = [v2 EXCEPT ![k] = Acc(@, Deltas[k])]
        /\ Deltas' = [Deltas EXCEPT ![k] = Default]
        /\ Mail' = Promise!(+)(Mail, Promise!BagOf(s))
    BY <1>5, MailIs DEF Promise!Update, Deltas
  <2>2. Spreads(s, k, Deltas) /\ Grows(Mail, s, Mail')
    BY <2>1 DEF Spreads, Grows
  <2> DEFINE d == Deltas
             w == v2
             B == Mail
             D == Mail'
             dd == Deltas'
             ww == v2'
  <2>3. /\ IsMail(B) /\ d \in States /\ w \in States /\ Spreads(s, k, d)
        /\ Grows(B, s, D) /\ IsMail(D) /\ Sets(dd, d, k, Default)
        /\ Sets(ww, w, k, Acc(w[k], d[k])) /\ HasBy(d, w, B, j) = GivenBy(w, j)
    BY <1>1, <1>2, <2>1, <2>2 DEF Sets
  <2>4. HasBy(dd, ww, D, j) = GivenBy(ww, j)
    <3> HIDE DEF s, d, w, B, D, dd, ww
    <3>. QED
      BY <2>3, LedgerUpdate
  <2>. QED
    BY <2>4
<1>6. ASSUME NEW m \in Promise!BagToSet(Mail), Promise!Receive(m)
      PROVE  HasBy(Deltas', v2', Mail', j) = GivenBy(v2', j)
  <2>1. /\ v2' = v2 /\ Deltas' = [Deltas EXCEPT ![m.to] = Acc(@, m.v)]
        /\ Mail' = Promise!(-)(Mail, Promise!SetToBag({m}))
    BY <1>6, MailIs DEF Promise!Receive, Deltas
  <2>2. m \in DOMAIN Mail
    BY DEF Promise!BagToSet
  <2>3. HasBy(Deltas', v2, Mail', j) = HasBy(Deltas, v2, Mail, j)
    <3> DEFINE d == Deltas
               w == v2
               B == Mail
               D == Mail'
               e == Deltas'
    <3>1. /\ d \in States /\ w \in States /\ IsMail(B) /\ m \in DOMAIN B
          /\ Loses(B, m, D) /\ IsMail(D) /\ Sets(e, d, m.to, Acc(d[m.to], m.v))
      BY <1>2, <2>1, <2>2 DEF Loses, Sets
    <3>2. HasBy(e, w, D, j) = HasBy(d, w, B, j)
      <4> HIDE DEF d, w, B, D, e
      <4>. QED
        BY <3>1, LedgerReceive
    <3>. QED
      BY <3>2
  <2>. QED
    BY <1>1, <2>1, <2>3
<1>7. [Promise!Next]_(Promise!vars)
  BY PromiseStep, FiniteAssumption
<1>8. Promise!Next => \/ \E k \in Keys : Promise!Update(k)
                      \/ \E m \in Promise!BagToSet(Mail) : Promise!Receive(m)
  BY MailIs DEF Promise!Next
<1>. QED
  BY <1>4, <1>5, <1>6, <1>7, <1>8

\* No delta is lost and none is spread twice: at any time, for any graph and
\* any algorithm whose gain distributes over accumulate, what a vertex has (its
\* value, its delta, the messages under way to it) is what it was given (its first
\* delta and what its predecessors spread).
THEOREM LedgerIsKept == Spec => []LedgerHolds
<1>1. VertexInv /\ VertexInv' /\ [Next]_vars /\ LedgerHolds => LedgerHolds'
  BY LedgerStep
<1>. QED
  BY <1>1, LedgerInit, Invariance, PTL DEF Spec

=============================================================================
