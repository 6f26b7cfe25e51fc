--------------------------- MODULE Logger_proofs ----------------------------
(***************************************************************************)
(* For any number of threads and lines, the inductive invariant of Logger  *)
(* and what follows from it.                                               *)
(***************************************************************************)
EXTENDS Logger, SequenceTheorems, TLAPS

\* What was in a buffer is said whether it is flushed or not.
LEMMA AppendLast ==
  ASSUME NEW S, NEW a \in Seq(S), NEW b \in Seq(S), NEW x \in S
  PROVE  a \o Append(b, x) = Append(a \o b, x)
  BY SMTT(60)

\* A new line sets the level and overtakes all other lines.
LEMMA LevelStep ==
  ASSUME TypeOK, LevelKept, [Next]_vars
  PROVE  LevelKept'
<1>1. ASSUME NEW t \in Threads, NEW line \in Lines, StartStream(t, line)
      PROVE  LevelKept'
  BY <1>1 DEF TypeOK, LevelKept, StartStream, Step
<1>2. ASSUME NEW t \in Threads,
             Say(t) \/ LeaveOpen(t) \/ Flush(t) \/ GoOn(t) \/ Throw(t)
      PROVE  LevelKept'
  BY <1>2 DEF TypeOK, LevelKept, Say, LeaveOpen, Flush, GoOn, Throw, Step
<1>3. CASE UNCHANGED vars
  BY <1>3 DEF LevelKept, vars
<1> QED
  BY <1>1, <1>2, <1>3 DEF Next

\* Every step leaves the variables in their sets.
LEMMA TypeStep ==
  ASSUME TypeOK, [Next]_vars
  PROVE  TypeOK'
<1>1. ASSUME NEW t \in Threads, NEW line \in Lines, StartStream(t, line)
      PROVE  TypeOK'
  <2>1. line.level \in Levels
    BY LinesAssumption
  <2> QED
    BY <1>1, <2>1 DEF TypeOK, StartStream, Step
<1>2. ASSUME NEW t \in Threads, Say(t)
      PROVE  TypeOK'
  <2>1. /\ Append(streambuffer[t], current[t]) \in Seq(Lines)
        /\ Append(said[t], current[t]) \in Seq(Lines)
    BY AppendProperties DEF TypeOK
  <2> QED
    BY <1>2, <2>1 DEF TypeOK, Say, Step
<1>3. ASSUME NEW t \in Threads, Flush(t)
      PROVE  TypeOK'
  <2>1. output[t] \o streambuffer[t] \in Seq(Lines)
    BY DEF TypeOK
  <2> QED
    BY <1>3, <2>1 DEF TypeOK, Flush, Step
<1>4. ASSUME NEW t \in Threads, LeaveOpen(t) \/ GoOn(t) \/ Throw(t)
      PROVE  TypeOK'
  BY <1>4 DEF TypeOK, LeaveOpen, GoOn, Throw, Step
<1>5. CASE UNCHANGED vars
  BY <1>5 DEF TypeOK, vars
<1> QED
  BY <1>1, <1>2, <1>3, <1>4, <1>5 DEF Next

\* Text moves from what is said to the buffer and from there to the output.
LEMMA TextStep ==
  ASSUME TypeOK, NothingLost, [Next]_vars
  PROVE  NothingLost'
<1>1. ASSUME NEW t \in Threads, Say(t)
      PROVE  NothingLost'
  <2>1. output[t] \o Append(streambuffer[t], current[t]) = Append(said[t], current[t])
    BY AppendLast DEF TypeOK, NothingLost
  <2> QED
    BY <1>1, <2>1 DEF TypeOK, NothingLost, Say
<1>2. ASSUME NEW t \in Threads, Flush(t)
      PROVE  NothingLost'
  <2>1. (output[t] \o streambuffer[t]) \o << >> = said[t]
    BY ConcatEmptySeq DEF TypeOK, NothingLost
  <2> QED
    BY <1>2, <2>1 DEF TypeOK, NothingLost, Flush
<1>3. ASSUME NEW t \in Threads,
             \/ \E line \in Lines : StartStream(t, line)
             \/ LeaveOpen(t) \/ GoOn(t) \/ Throw(t)
      PROVE  NothingLost'
  BY <1>3 DEF NothingLost, StartStream, LeaveOpen, GoOn, Throw
<1>4. CASE UNCHANGED vars
  BY <1>4 DEF NothingLost, vars
<1> QED
  BY <1>1, <1>2, <1>3, <1>4 DEF Next

\* The inductive invariant holds: no text is lost or mixed up, and the level
\* is that of a line which nobody has overtaken.
THEOREM LoggerInvariance == Spec => []LoggerInv
<1>1. Init => LoggerInv
  <2> SUFFICES ASSUME Init PROVE LoggerInv
    OBVIOUS
  <2>1. TypeOK
    BY DEF Init, TypeOK, Levels
  <2>2. NothingLost
    <3>1. << >> \in Seq(Lines)
      OBVIOUS
    <3>2. << >> \o << >> = << >>
      BY <3>1, ConcatEmptySeq
    <3> QED
      BY <3>2 DEF Init, NothingLost
  <2>3. LevelKept
    BY DEF Init, LevelKept
  <2> QED
    BY <2>1, <2>2, <2>3 DEF LoggerInv
<1>2. LoggerInv /\ [Next]_vars => LoggerInv'
  BY TypeStep, TextStep, LevelStep DEF LoggerInv
<1> QED
  BY <1>1, <1>2, PTL DEF Spec

\* No text of any thread is lost, doubled or mixed up with another's.
THEOREM TextIsKept == Spec => []NothingLost
<1>1. LoggerInv => NothingLost
  BY DEF LoggerInv
<1> QED
  BY <1>1, LoggerInvariance, PTL

\* A thread that was not overtaken throws exactly at fatal lines.
THEOREM FatalEnds == Spec => FatalThrows
<1>1. ASSUME LoggerInv, [Next]_vars, NEW t \in Threads,
             pc[t] = "flushed", pc'[t] = "out", ~overtaken[t]
      PROVE  thrown' = t <=> current[t].level = LOG_FATAL
  <2>1. streamloglevel = current[t].level
    BY <1>1 DEF LoggerInv, LevelKept
  <2>2. ASSUME NEW u \in Threads, \E line \in Lines : StartStream(u, line)
        PROVE  FALSE
    BY <1>1, <2>2 DEF LoggerInv, TypeOK, StartStream, Step
  <2>3. ASSUME NEW u \in Threads, Say(u) \/ LeaveOpen(u) \/ Flush(u)
        PROVE  FALSE
    BY <1>1, <2>3 DEF LoggerInv, TypeOK, Say, LeaveOpen, Flush, Step
  <2>4. ASSUME NEW u \in Threads, GoOn(u) \/ Throw(u)
        PROVE  thrown' = t <=> current[t].level = LOG_FATAL
    BY <1>1, <2>1, <2>4, ThreadsAssumption DEF LoggerInv, TypeOK, GoOn, Throw, Step
  <2>5. ~UNCHANGED vars
    BY <1>1 DEF vars
  <2> QED
    BY <1>1, <2>2, <2>3, <2>4, <2>5 DEF Next
<1>2. LoggerInv /\ [Next]_vars =>
        [\A t \in Threads : pc[t] = "flushed" /\ pc'[t] = "out" /\ ~overtaken[t] =>
           (thrown' = t <=> current[t].level = LOG_FATAL)]_vars
  BY <1>1
<1> QED
  BY <1>2, LoggerInvariance, PTL DEF Spec, FatalThrows

=============================================================================
