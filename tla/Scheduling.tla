----------------------------- MODULE Scheduling -----------------------------
(***************************************************************************)
(* Which rows of the state table a round processes.  The iterator either   *)
(* goes over the whole table (Iterator) or over the rows whose priority is *)
(* above a threshold taken from a random sample (ScheduledIterator).       *)
(*                                                                         *)
(* The constructor runs while no execute thread works (ScheduleExclusive   *)
(* of module Rounds), so it is one action; each position is processed once *)
(* by one thread (ExclusivePositions), in an order left open here.         *)
(***************************************************************************)
EXTENDS Integers, FiniteSets

CONSTANTS
  TableSize,    (* size_                                                   *)
  SampleSize,   (* sample_size                                             *)
  Portions,     (* values of schedule_portion, in hundredths               *)
  Priorities,   (* priorities a delta may have                             *)
  MaxMessages   (* bound: how many messages of a run change a delta        *)

ASSUME TableSizeAssumption == TableSize \in Nat \ {0}
ASSUME SampleSizeAssumption == SampleSize \in Nat \ {0}
ASSUME PortionsAssumption == Portions \subseteq Nat
ASSUME PrioritiesAssumption == Priorities \subseteq Nat /\ 0 \in Priorities
ASSUME MaxMessagesAssumption == MaxMessages \in Nat

VARIABLES
  in_use,      (* the buckets that hold a row                              *)
  pending,     (* those whose delta v1 is not the default                  *)
  priority,    (* the priority in each bucket                              *)
  portion,     (* schedule_portion of the configuration                    *)
  phase,       (* "plan" or "work"                                         *)
  scheduled,   (* the buckets in scheduled_pos                             *)
  todo,        (* positions of the round not yet come to                   *)
  done,        (* history: buckets run_iter was called for in the round    *)
  messages     (* how many more messages change a delta                    *)

table == <<in_use, pending, priority>>
round == <<phase, scheduled, todo, done>>
vars == <<table, portion, round, messages>>

Buckets == 0 .. TableSize - 1

\* After put: a row with the default delta has priority 0 (module
\* VertexUpdate, PriorityFresh).
Init ==
  /\ in_use \in SUBSET Buckets
  /\ pending \in SUBSET in_use
  /\ priority \in [Buckets -> Priorities]
  /\ \A b \in Buckets \ pending : priority[b] = 0
  /\ portion \in Portions
  /\ phase = "plan"
  /\ scheduled = {} /\ todo = {} /\ done = {}
  /\ messages = MaxMessages

-----------------------------------------------------------------------------
(* The constructors.                                                       *)

\* get_iterator of the global table: all rows, or a portion of them.
Sampling == portion < 100

\* Where the threshold is taken from the sample, rounded down.
cut_index == (SampleSize * portion) \div 100

\* The order of sort: the more urgent row comes first.
compare_priority(a, b) == priority[a] > priority[b]

\* Sorted samples of any rows, with repetition.
Samples ==
  {s \in [0 .. SampleSize - 1 -> in_use] :
     \A i, j \in 0 .. SampleSize - 1 : i < j => ~compare_priority(s[j], s[i])}

\* Faulty variants of Eligible: only rows above the threshold, whatever the
\* sample; rows below the threshold.
EligibleStrict(sampled_pos) ==
  {b \in pending : priority[b] > priority[sampled_pos[cut_index]]}

EligibleBelow(sampled_pos) ==
  {b \in pending : priority[b] <= priority[sampled_pos[cut_index]]}

\* The rows worth scheduling: those above the threshold, or those that reach
\* it if nothing in the sample is above it.
Eligible(sampled_pos) ==
  LET threshold == priority[sampled_pos[cut_index]]
  IN  IF cut_index = 0 \/ priority[sampled_pos[0]] = threshold
      THEN {b \in pending : priority[b] >= threshold}
      ELSE {b \in pending : priority[b] > threshold}

NewRound(rows, positions) ==
  /\ phase = "plan" /\ phase' = "work"
  /\ scheduled' = rows
  /\ todo' = positions
  /\ done' = {}
  /\ UNCHANGED <<table, portion, messages>>

\* Faulty variant of ScheduleWhole: the last interval is one too long.
ScheduleWholeAndOne == ~Sampling /\ NewRound(in_use, 0 .. TableSize)

\* Iterator: every bucket is a position.
ScheduleWhole == ~Sampling /\ NewRound(in_use, Buckets)

\* ScheduledIterator, no more rows than the sample would have.
ScheduleAll ==
  /\ Sampling /\ Cardinality(in_use) <= SampleSize
  /\ NewRound(in_use, 0 .. Cardinality(in_use) - 1)

\* ScheduledIterator, with a sample.
ScheduleSampled ==
  /\ Sampling /\ Cardinality(in_use) > SampleSize
  /\ \E sampled_pos \in Samples :
       LET rows == Eligible(sampled_pos)
       IN  NewRound(rows, 0 .. Cardinality(rows) - 1)

-----------------------------------------------------------------------------
(* The loop of run_loop over the positions.                                *)

\* scheduled_pos is filled in the order of the buckets.
scheduled_pos(pos) ==
  CHOOSE b \in scheduled : Cardinality({c \in scheduled : c < b}) = pos

\* Faulty variant of BucketAt: the position is taken for the bucket.
BucketAtPosition(pos) == pos

\* The bucket that key(pos), value1(pos) and so on refer to.
BucketAt(pos) == IF ~Sampling THEN pos ELSE scheduled_pos(pos)

\* is_in_use(pos) looks at the bucket with that number, for both iterators.
is_in_use(pos) == pos \in in_use

Skip(pos) ==
  /\ phase = "work" /\ pos \in todo
  /\ ~is_in_use(pos)
  /\ todo' = todo \ {pos}
  /\ UNCHANGED <<table, portion, phase, scheduled, done, messages>>

\* run_iter on a row resets its delta and its priority.  A message that
\* changes a delta may go out, if there was a delta to spread; it gives its
\* target (perhaps the same row) a priority.
RunIter(pos) ==
  LET b == BucketAt(pos) IN
  /\ phase = "work" /\ pos \in todo
  /\ is_in_use(pos)
  /\ todo' = todo \ {pos}
  /\ done' = done \cup {b}
  /\ \/ /\ pending' = pending \ {b}
        /\ priority' = [priority EXCEPT ![b] = 0]
        /\ UNCHANGED messages
     \/ /\ b \in pending /\ messages > 0
        /\ \E c \in in_use, p \in Priorities :
             /\ pending' = (pending \ {b}) \cup {c}
             /\ priority' = [priority EXCEPT ![b] = 0, ![c] = p]
        /\ messages' = messages - 1
  /\ UNCHANGED <<in_use, portion, phase, scheduled>>

\* The round is over; the iterator is deleted.
EndRound ==
  /\ phase = "work" /\ todo = {}
  /\ phase' = "plan"
  /\ scheduled' = {} /\ done' = {}
  /\ UNCHANGED <<table, portion, todo, messages>>

Next ==
  \/ ScheduleWhole \/ ScheduleAll \/ ScheduleSampled
  \/ \E pos \in todo : Skip(pos) \/ RunIter(pos)
  \/ EndRound

Spec == Init /\ [][Next]_vars

\* Rounds go on (module Rounds: RoundEnds).
FairSpec == Spec /\ WF_vars(Next)

-----------------------------------------------------------------------------
(* Properties.                                                             *)

TableOK ==
  /\ in_use \subseteq Buckets
  /\ pending \subseteq in_use
  /\ priority \in [Buckets -> Priorities]
  /\ portion \in Portions

TypeOK ==
  /\ TableOK
  /\ phase \in {"plan", "work"}
  /\ scheduled \subseteq in_use
  /\ todo \subseteq Buckets
  /\ done \subseteq Buckets
  /\ messages \in 0 .. MaxMessages

Planned == phase = "plan" /\ phase' = "work"

\* Whatever rows the sample hits, a row whose delta waits and whose priority
\* no row exceeds is scheduled: the most urgent work is not left to chance.
MostUrgentScheduled ==
  [][Planned => \A b \in pending :
       (\A c \in in_use : priority[b] >= priority[c]) => b \in scheduled']_vars

\* The sample decides how many rows are scheduled, not which first: a row
\* left out although its delta waits is less urgent than each waiting row
\* that is scheduled.
PriorityOrder ==
  [][Planned => \A b \in scheduled' \cap pending : \A c \in pending \ scheduled' :
       priority[c] < priority[b]]_vars

RoundOver == phase = "work" /\ todo = {}

\* The positions of the round are, by luck or because the table is full,
\* also the numbers of buckets that are in use.
Lucky == ~Sampling \/ 0 .. Cardinality(scheduled) - 1 \subseteq in_use

\* A round calls run_iter for the rows that were scheduled and no others,
\* as far as is_in_use does not skip them.
ScheduledRuns ==
  /\ done \subseteq scheduled
  /\ RoundOver /\ Lucky => done = scheduled

\* With rounds going on and messages coming to an end, every delta is spread,
\* whatever the samples, on a full table or without sampling.
Drains ==
  ~Sampling \/ in_use = Buckets => <>[](pending = {})

-----------------------------------------------------------------------------
(* What the code says and does not keep: see the README.                   *)

\* "if table size is less than the sample set size, schedule them all": a
\* round processes every row of a small table.
AllProcessed ==
  RoundOver /\ Cardinality(in_use) <= SampleSize => done = in_use

=============================================================================
