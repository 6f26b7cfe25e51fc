---------------------------- MODULE VertexUpdate ----------------------------
(***************************************************************************)
(* The execute threads at work on the state table: run_iter, with one lock *)
(* per vertex.  A thread updates a vertex under its lock and only then     *)
(* sends the messages it buffered, each under the lock of its target.      *)
(*                                                                         *)
(* Which vertices a round schedules is left open here (module Rounds shows *)
(* that each is processed once, by one thread, and that a round ends       *)
(* before the next begins).                                                *)
(***************************************************************************)
EXTENDS Naturals, Sequences, FiniteSets

CONSTANTS
  Keys, Links, InitDelta, Default, Acc(_, _), Gain(_, _, _),
               (* as in module DeltaSpec                                   *)
  Values,      (* the numbers the algorithm computes with                  *)
  Pri(_, _),   (* priority, of a value and a delta                         *)
  NoPriority,  (* the 0 that updateF1 stores without calling priority      *)
  Threads,     (* the execute threads                                      *)
  NoKey,       (* no vertex                                                *)
  NoThread,    (* no thread                                                *)
  Schedules    (* the sets of vertices an iterator may schedule            *)

\* A target that is not a vertex ends the program in accumulateF1.
ASSUME LinksAssumption == Links \in [Keys -> Seq(Keys)]
ASSUME ValuesAssumption ==
  /\ Default \in Values /\ InitDelta \in [Keys -> Values]
  /\ \A a, b \in Values : Acc(a, b) \in Values
  /\ \A k \in Keys : \A i \in DOMAIN Links[k] :
       \A d \in Values : Gain(k, i, d) \in Values
\* updateF1 does not call priority: "assume the smallest priority is 0".
ASSUME PriorityAssumption == \A a \in Values : Pri(a, Default) = NoPriority
ASSUME SchedulesAssumption == Schedules \subseteq SUBSET Keys
ASSUME NamesAssumption == NoKey \notin Keys /\ NoThread \notin Threads
ASSUME FiniteAssumption == IsFiniteSet(Keys) /\ IsFiniteSet(Threads)
\* What the algorithms have in common: deltas may be accumulated in any order,
\* the default adds nothing, and a delta spreads as its parts do.
ASSUME AlgebraAssumption ==
  /\ \A a, b \in Values : Acc(a, b) = Acc(b, a)
  /\ \A a, b, c \in Values : Acc(a, Acc(b, c)) = Acc(Acc(a, b), c)
  /\ \A a \in Values : Acc(a, Default) = a
  /\ \A k \in Keys : \A i \in DOMAIN Links[k] :
       /\ Gain(k, i, Default) = Default
       /\ \A a, b \in Values :
            Gain(k, i, Acc(a, b)) = Acc(Gain(k, i, a), Gain(k, i, b))

VARIABLES
  v1, v2,     (* the delta and the value in the row of each vertex         *)
  priority,   (* the priority in the row of each vertex                    *)
  holder,     (* who holds the lock of each vertex                         *)
  pc,         (* where each thread is in run_iter                          *)
  key,        (* the vertex each thread updates (k)                        *)
  output,     (* messages each thread has yet to send                      *)
  read,       (* the delta a thread read before it adds to it              *)
  todo        (* vertices of the round nobody has begun                    *)

rows == <<v1, v2, priority>>
locals == <<key, output, read>>
vars == <<rows, holder, pc, locals, todo>>

Target(t) == Head(output[t]).to

Init ==
  /\ v1 = InitDelta
  /\ v2 = [k \in Keys |-> Default]
  /\ priority = [k \in Keys |-> Pri(Default, InitDelta[k])]
  /\ holder = [k \in Keys |-> NoThread]
  /\ pc = [t \in Threads |-> "idle"]
  /\ key = [t \in Threads |-> NoKey]
  /\ output = [t \in Threads |-> << >>]
  /\ read = [t \in Threads |-> Default]
  /\ todo = {}

-----------------------------------------------------------------------------
Moves(t, from, to) ==
  /\ pc[t] = from
  /\ pc' = [pc EXCEPT ![t] = to]

\* Faulty variant of Lock: it does not wait for the holder.
LockBlindly(t, k) == holder' = [holder EXCEPT ![k] = t]

Lock(t, k) ==
  /\ holder[k] = NoThread
  /\ holder' = [holder EXCEPT ![k] = t]

Unlock(k) == holder' = [holder EXCEPT ![k] = NoThread]

\* All threads are past the barrier: the next round is scheduled.
NewRound ==
  /\ \A t \in Threads : pc[t] = "idle"
  /\ todo = {}
  /\ todo' \in Schedules
  /\ UNCHANGED <<rows, holder, pc, locals>>

\* A thread comes to the next position of its interval.
Begin(t) ==
  /\ Moves(t, "idle", "lock")
  /\ \E k \in todo :
       /\ key' = [key EXCEPT ![t] = k]
       /\ todo' = todo \ {k}
  /\ UNCHANGED <<rows, holder, output, read>>

\* Faulty variant of LockVertex: run_iter without its first lock.
LockVertexNot(t) ==
  /\ Moves(t, "lock", "accumulate")
  /\ UNCHANGED <<rows, holder, locals, todo>>

LockVertex(t) ==
  /\ Moves(t, "lock", "accumulate")
  /\ Lock(t, key[t])
  /\ UNCHANGED <<rows, locals, todo>>

AccumulateF2(t) ==
  /\ Moves(t, "accumulate", "spread")
  /\ v2' = [v2 EXCEPT ![key[t]] = Acc(@, v1[key[t]])]
  /\ UNCHANGED <<v1, priority, holder, locals, todo>>

\* Faulty variant of Spread: only the first link is followed.
SpreadFirst(t) ==
  LET k == key[t] IN
  /\ Moves(t, "spread", "reset")
  /\ output' = [output EXCEPT ![t] =
       [i \in DOMAIN Links[k] \cap {1} |->
          [to |-> Links[k][i], v |-> Gain(k, i, v1[k])]]]
  /\ UNCHANGED <<rows, holder, key, read, todo>>

\* g_func buffers one message per link.
Spread(t) ==
  LET k == key[t] IN
  /\ Moves(t, "spread", "reset")
  /\ output' = [output EXCEPT ![t] =
       [i \in DOMAIN Links[k] |-> [to |-> Links[k][i], v |-> Gain(k, i, v1[k])]]]
  /\ UNCHANGED <<rows, holder, key, read, todo>>

\* Faulty variants of UpdateF1: the priority stays; the delta stays.
UpdateF1KeepsPriority(t) ==
  /\ Moves(t, "reset", "unlock")
  /\ v1' = [v1 EXCEPT ![key[t]] = Default]
  /\ UNCHANGED <<v2, priority, holder, locals, todo>>

UpdateF1KeepsDelta(t) ==
  /\ Moves(t, "reset", "unlock")
  /\ priority' = [priority EXCEPT ![key[t]] = NoPriority]
  /\ UNCHANGED <<v1, v2, holder, locals, todo>>

UpdateF1(t) ==
  /\ Moves(t, "reset", "unlock")
  /\ v1' = [v1 EXCEPT ![key[t]] = Default]
  /\ priority' = [priority EXCEPT ![key[t]] = NoPriority]
  /\ UNCHANGED <<v2, holder, locals, todo>>

\* Faulty variant of UnlockVertex: the lock is kept while messages are sent.
UnlockVertexNot(t) ==
  /\ Moves(t, "unlock", "send")
  /\ UNCHANGED <<rows, holder, locals, todo>>

UnlockVertex(t) ==
  /\ Moves(t, "unlock", "send")
  /\ Unlock(key[t])
  /\ UNCHANGED <<rows, locals, todo>>

\* Faulty variant of LockTarget: messages are applied without a lock.
LockTargetNot(t) ==
  /\ Moves(t, "send", "read")
  /\ output[t] # << >>
  /\ UNCHANGED <<rows, holder, locals, todo>>

LockTarget(t) ==
  /\ Moves(t, "send", "read")
  /\ output[t] # << >>
  /\ Lock(t, Target(t))
  /\ UNCHANGED <<rows, locals, todo>>

\* accumulate in accumulateF1 reads the delta, and then writes it.
ReadDelta(t) ==
  /\ Moves(t, "read", "write")
  /\ read' = [read EXCEPT ![t] = v1[Target(t)]]
  /\ UNCHANGED <<rows, holder, key, output, todo>>

\* Faulty variant of WriteDelta: the message replaces the delta.
WriteDeltaOver(t) ==
  /\ Moves(t, "write", "priority")
  /\ v1' = [v1 EXCEPT ![Target(t)] = Head(output[t]).v]
  /\ UNCHANGED <<v2, priority, holder, locals, todo>>

WriteDelta(t) ==
  /\ Moves(t, "write", "priority")
  /\ v1' = [v1 EXCEPT ![Target(t)] = Acc(read[t], Head(output[t]).v)]
  /\ UNCHANGED <<v2, priority, holder, locals, todo>>

\* The other half of accumulateF1.
SetPriority(t) ==
  LET j == Target(t) IN
  /\ Moves(t, "priority", "release")
  /\ priority' = [priority EXCEPT ![j] = Pri(v2[j], v1[j])]
  /\ UNCHANGED <<v1, v2, holder, locals, todo>>

\* Faulty variant of UnlockTarget: the iterator over the buffer stays.
UnlockTargetAgain(t) ==
  /\ Moves(t, "release", "send")
  /\ Unlock(Target(t))
  /\ UNCHANGED <<rows, locals, todo>>

UnlockTarget(t) ==
  /\ Moves(t, "release", "send")
  /\ Unlock(Target(t))
  /\ output' = [output EXCEPT ![t] = Tail(@)]
  /\ UNCHANGED <<rows, key, read, todo>>

\* The buffer is empty: run_iter returns.
Return(t) ==
  /\ Moves(t, "send", "idle")
  /\ output[t] = << >>
  /\ key' = [key EXCEPT ![t] = NoKey]
  /\ UNCHANGED <<rows, holder, output, read, todo>>

Thread(t) == \/ Begin(t) \/ LockVertex(t) \/ AccumulateF2(t) \/ Spread(t)
             \/ UpdateF1(t) \/ UnlockVertex(t) \/ LockTarget(t)
             \/ ReadDelta(t) \/ WriteDelta(t) \/ SetPriority(t)
             \/ UnlockTarget(t) \/ Return(t)

Next == NewRound \/ \E t \in Threads : Thread(t)

Spec == Init /\ [][Next]_vars

\* Every thread goes on.  Weak fairness is enough for a thread that waits for
\* a vertex lock: a round has finitely many messages, so the competition ends.
FairSpec == Spec /\ WF_vars(NewRound) /\ \A t \in Threads : WF_vars(Thread(t))

-----------------------------------------------------------------------------
(* Invariants.                                                             *)

Steps == {"idle", "lock", "accumulate", "spread", "reset", "unlock", "send",
          "read", "write", "priority", "release"}

TypeOK ==
  /\ v1 \in [Keys -> Values]
  /\ v2 \in [Keys -> Values]
  /\ DOMAIN priority = Keys
  /\ holder \in [Keys -> Threads \cup {NoThread}]
  /\ pc \in [Threads -> Steps]
  /\ key \in [Threads -> Keys \cup {NoKey}]
  /\ output \in [Threads -> Seq([to : Keys, v : Values])]
  /\ read \in [Threads -> Values]
  /\ todo \subseteq Keys

\* The vertices whose rows run_iter lets the thread touch where it is.
Held(t) ==
  CASE pc[t] \in {"accumulate", "spread", "reset", "unlock"} -> {key[t]}
    [] pc[t] \in {"read", "write", "priority", "release"} -> {Target(t)}
    [] OTHER -> {}

\* A thread holds the lock of the row it touches and no other, also while it
\* waits for a lock (it holds none then): rows are accessed in mutual
\* exclusion, and threads cannot wait for each other in a circle.
LockDiscipline ==
  \A t \in Threads : \A k \in Keys : holder[k] = t <=> k \in Held(t)

\* The delta a thread is about to overwrite is still the one it read: no
\* message that arrives at the same vertex in between is lost.
NoLostMessage ==
  \A t \in Threads : pc[t] = "write" => read[t] = v1[Target(t)]

\* Whenever nobody holds its lock, the priority in a row is the one of the
\* value and the delta in it, although updateF1 stores 0 without asking and
\* accumulateF2 changes the value without touching the priority.
PriorityFresh ==
  \A k \in Keys : holder[k] = NoThread => priority[k] = Pri(v2[k], v1[k])

-----------------------------------------------------------------------------
(* The inductive invariant behind them, proved in VertexUpdate_proofs.     *)

\* What the locals hold where they are used.
Locals ==
  \A t \in Threads :
    /\ pc[t] \in {"lock", "accumulate", "spread", "reset", "unlock"} =>
         key[t] \in Keys
    /\ pc[t] \in {"read", "write", "priority", "release"} =>
         output[t] # << >>

\* Only the holder of a lock leaves a stale priority behind, and only until
\* it has called updateF1 or the end of accumulateF1.
PriorityOwed ==
  \A k \in Keys :
    \/ priority[k] = Pri(v2[k], v1[k])
    \/ \E t \in Threads : /\ k \in Held(t)
                          /\ pc[t] \in {"spread", "reset", "priority"}

VertexInv ==
  /\ TypeOK /\ Locals /\ LockDiscipline /\ NoLostMessage /\ PriorityOwed

-----------------------------------------------------------------------------
(* The abstract specification this module implements.  An update counts    *)
(* from the moment accumulateF2 adds the delta to the value.               *)

\* The messages of a thread that no row shows yet.
Unsent(t) ==
  LET k == key[t] IN
  CASE pc[t] = "spread" ->
         [i \in DOMAIN Links[k] |->
            [to |-> Links[k][i], v |-> Gain(k, i, v1[k])]]
    [] pc[t] \in {"reset", "unlock", "send", "read", "write"} -> output[t]
    [] pc[t] \in {"priority", "release"} -> Tail(output[t])
    [] OTHER -> << >>

\* A delta that was added to the value and is not reset yet counts no more.
Unspread(j) ==
  IF \E t \in Threads : pc[t] \in {"spread", "reset"} /\ key[t] = j
  THEN Default ELSE v1[j]

InFlight ==
  UNION {{<<t, i>> : i \in DOMAIN Unsent(t)} : t \in Threads}

Message(m) == Unsent(m[1])[m[2]]

Promise == INSTANCE DeltaSpec WITH
  v1 <- [j \in Keys |-> Unspread(j)],
  mail <- [x \in {Message(m) : m \in InFlight} |->
             Cardinality({m \in InFlight : Message(m) = x})]

\* The threads, for all their interleavings, update vertices as if one at a
\* time and at once.
ImplementsDeltaSpec == Promise!Spec

\* At every moment, with what is under way counted, no delta has been lost
\* and none was spread twice.
LedgerHolds == Promise!Ledger

-----------------------------------------------------------------------------
(* Liveness, under FairSpec.                                               *)

AllIdle == \A t \in Threads : pc[t] = "idle"

\* A round that was begun is processed to the last message: no thread waits
\* for a vertex lock for ever.
RoundDrains == todo # {} ~> todo = {} /\ AllIdle

=============================================================================
