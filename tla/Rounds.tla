------------------------------- MODULE Rounds -------------------------------
(***************************************************************************)
(* The second phase of a run (MaiterKernel2): the schedule thread builds   *)
(* an iterator over the state table, the execute threads process the       *)
(* positions it schedules, and the main thread decides when to stop.       *)
(*                                                                         *)
(* The threads meet at two condition variables and one barrier.  threadm   *)
(* and schedulem guard sections without any other shared access, so each   *)
(* section is one action and the mutexes have no variable of their own.    *)
(* A condition variable is the set of threads blocked on it: a broadcast   *)
(* empties the set and is lost on a thread that is not yet in it.  Wakeups *)
(* without a broadcast, which POSIX allows, are left out: no wait of       *)
(* kernel.h tests a condition, and a thread would run outside a round.     *)
(***************************************************************************)
EXTENDS Intervals, FiniteSets

CONSTANTS
  NumThreads,  (* num_threads: how many execute threads there are          *)
  Sizes        (* the numbers of positions an iterator may schedule        *)

ASSUME NumThreadsAssumption == NumThreads \in Nat \ {0}
ASSUME SizesAssumption == Sizes \subseteq Nat

VARIABLES
  pc,              (* where each execute thread is in run_loop             *)
  pos, last,       (* locals pos and end of run_loop (0 out of the loop)   *)
  ref,             (* local it2 of run_loop                                *)
  count_wait,      (* Arg->count_wait                                      *)
  threadc,         (* execute threads blocked on Arg->threadc              *)
  arrived,         (* execute threads held back by Arg->barrier            *)
  sp,              (* where the schedule thread is in obtain_iterator      *)
  schedulec,       (* the schedule thread is blocked on Arg->schedulec     *)
  it2,             (* the shared iterator, *it2_address                    *)
  size,            (* number of positions it schedules                     *)
  thread_interval, (* the global interval table                            *)
  mp,              (* where the main thread is                             *)
  created,         (* number of entries main has pushed to the table: one  *)
                   (* for each thread, whether it could be created or not  *)
  terminated,      (* terminated_ of the state table                       *)
  aborted,         (* a LOG_FATAL line that threw, or undefined behaviour, *)
                   (* ended the process                                    *)
  visited          (* history: positions processed in the current round    *)

execVars  == <<pc, pos, last, ref, visited>>
condVars  == <<count_wait, threadc, arrived>>
schedVars == <<sp, schedulec, it2, size>>
mainVars  == <<mp, created, terminated>>
vars == <<execVars, condVars, schedVars, thread_interval, mainVars, aborted>>

Threads == 0 .. NumThreads - 1
Positions == 0 .. size - 1
Pointers == {"null", "live", "freed"}
ExecStates == {"new", "count", "wait", "load", "begin", "end", "loop",
               "barrier", "signal", "exit"}
SchedStates == {"new", "get", "build", "gather", "notify", "park", "wait",
                "delete", "drain", "exit"}
MainStates == {"create", "register", "check", "join", "destroy", "dump",
               "exit", "hung"}

\* No step is taken once the process is gone.
Running == ~aborted /\ mp # "exit"

Init ==
  /\ pc = [t \in Threads |-> "new"]
  /\ pos = [t \in Threads |-> 0]
  /\ last = [t \in Threads |-> 0]
  /\ ref = [t \in Threads |-> "null"]
  /\ count_wait = 0
  /\ threadc = {}
  /\ arrived = {}
  /\ sp = "new"
  /\ schedulec = FALSE
  /\ it2 = "null"
  /\ size = 0
  /\ thread_interval = [t \in Threads |-> [first |-> 0, last |-> 0]]
  /\ mp = "create"
  /\ created = 0
  /\ terminated = FALSE
  /\ aborted = FALSE
  /\ visited = {}

-----------------------------------------------------------------------------
(* The main thread: runexcutethread, TermCheck and the dump.               *)

CreateThread ==
  /\ Running /\ mp = "create" /\ created < NumThreads
  /\ pc' = [pc EXCEPT ![created] = "count"]
  /\ mp' = "register"
  /\ UNCHANGED <<pos, last, ref, visited, condVars, schedVars,
                 thread_interval, created, terminated, aborted>>

\* thread_interval.push_back of the thread that was just created: it may
\* already be running.
Register ==
  /\ Running /\ mp = "register"
  /\ thread_interval' =
       [thread_interval EXCEPT ![created] = [first |-> 0, last |-> 0]]
  /\ created' = created + 1
  /\ mp' = "create"
  /\ UNCHANGED <<execVars, condVars, schedVars, terminated, aborted>>

CreateScheduler ==
  /\ Running /\ mp = "create" /\ created = NumThreads
  /\ sp' = "get"
  /\ mp' = "check"
  /\ UNCHANGED <<execVars, condVars, schedulec, it2, size, thread_interval,
                 created, terminated, aborted>>

\* pthread_create fails.  The LOG_FATAL line throws out of main, unless an
\* execute thread that is just starting overwrites the shared streamloglevel
\* with its own first line before the endl: main then goes on without the
\* thread, which stays "new".
CreateFails ==
  /\ Running /\ mp = "create"
  /\ \/ aborted' = TRUE /\ UNCHANGED mp
     \/ /\ \E t \in Threads : pc[t] = "count"
        /\ mp' = IF created < NumThreads THEN "register" ELSE "check"
        /\ UNCHANGED aborted
  /\ UNCHANGED <<execVars, condVars, schedVars, thread_interval, created,
                 terminated>>

\* A termination check that succeeds (one that does not changes nothing
\* here).  It may succeed at any time: see module TermCheck.
TermCheck ==
  /\ Running /\ mp = "check"
  /\ terminated' = TRUE
  /\ mp' = "join"
  /\ UNCHANGED <<execVars, condVars, schedVars, thread_interval, created,
                 aborted>>

JoinScheduler ==
  /\ Running /\ mp = "join" /\ sp = "exit"
  /\ mp' = "destroy"
  /\ UNCHANGED <<execVars, condVars, schedVars, thread_interval, created,
                 terminated, aborted>>

\* Joining a schedule thread that could not be created is undefined, its id
\* was never written: the call fails or never returns, or the process dies.
JoinUncreated ==
  /\ Running /\ mp = "join" /\ sp = "new"
  /\ \/ mp' \in {"destroy", "hung"} /\ UNCHANGED aborted
     \/ aborted' = TRUE /\ UNCHANGED mp
  /\ UNCHANGED <<execVars, condVars, schedVars, thread_interval, created,
                 terminated>>

\* Destroying a condition variable some thread is blocked on is undefined:
\* the call returns, or it waits for that thread and never does.
Destroy ==
  /\ Running /\ mp = "destroy"
  /\ \/ mp' = "dump"
     \/ threadc # {} /\ mp' = "hung"
  /\ UNCHANGED <<execVars, condVars, schedVars, thread_interval, created,
                 terminated, aborted>>

Dump ==
  /\ Running /\ mp = "dump"
  /\ mp' = "exit"
  /\ UNCHANGED <<execVars, condVars, schedVars, thread_interval, created,
                 terminated, aborted>>

-----------------------------------------------------------------------------
(* The schedule thread: obtain_iterator.                                   *)

\* get_typed_iterator reads terminated_ first; without it, it goes on to
\* build an iterator, with it, it returns NULL and the loop is left.
ReadTerminated ==
  /\ Running /\ sp = "get"
  /\ IF terminated THEN sp' = "drain" /\ it2' = "null"
                   ELSE sp' = "build" /\ UNCHANGED it2
  /\ UNCHANGED <<execVars, condVars, schedulec, size, thread_interval,
                 mainVars, aborted>>

\* The constructor of the iterator schedules some positions, rewrites the
\* interval table, and the new iterator is published.
BuildIterator ==
  /\ Running /\ sp = "build"
  /\ \E n \in Sizes :
       /\ size' = n
       /\ thread_interval' =
            [t \in Threads |-> [first |-> IntervalFirst(n, NumThreads, t),
                                last  |-> IntervalLast(n, NumThreads, t)]]
  /\ it2' = "live"
  /\ visited' = {}
  /\ sp' = "gather"
  /\ UNCHANGED <<pc, pos, last, ref, condVars, schedulec, mainVars, aborted>>

\* Faulty variant of Gather: count_wait keeps its value.
GatherNoReset ==
  /\ Running /\ sp = "gather" /\ count_wait >= NumThreads
  /\ sp' = "notify"
  /\ UNCHANGED <<execVars, condVars, schedulec, it2, size, thread_interval,
                 mainVars, aborted>>

\* Faulty variant of Gather: the loop is left one thread too early.
GatherEarly ==
  /\ Running /\ sp = "gather" /\ count_wait >= NumThreads - 1
  /\ count_wait' = 0
  /\ sp' = "notify"
  /\ UNCHANGED <<execVars, threadc, arrived, schedulec, it2, size,
                 thread_interval, mainVars, aborted>>

\* The polling loop is left with count_wait reset, still under threadm.
Gather ==
  /\ Running /\ sp = "gather" /\ count_wait >= NumThreads
  /\ count_wait' = 0
  /\ sp' = "notify"
  /\ UNCHANGED <<execVars, threadc, arrived, schedulec, it2, size,
                 thread_interval, mainVars, aborted>>

\* Faulty variant of Notify: pthread_cond_signal, which wakes one thread.
NotifyOne ==
  /\ Running /\ sp = "notify"
  /\ \E t \in threadc : threadc' = threadc \ {t}
  /\ sp' = "park"
  /\ UNCHANGED <<execVars, count_wait, arrived, schedulec, it2, size,
                 thread_interval, mainVars, aborted>>

\* The broadcast on threadc, after threadm was released.
Notify ==
  /\ Running /\ sp = "notify"
  /\ threadc' = {}
  /\ sp' = "park"
  /\ UNCHANGED <<execVars, count_wait, arrived, schedulec, it2, size,
                 thread_interval, mainVars, aborted>>

\* Faulty variant of Park: the wait on schedulec returns at once.
ParkNotAtAll ==
  /\ Running /\ sp = "park"
  /\ sp' = "wait"
  /\ UNCHANGED <<execVars, condVars, schedulec, it2, size, thread_interval,
                 mainVars, aborted>>

\* The schedule thread blocks on schedulec, without testing whether the
\* round is already over.
Park ==
  /\ Running /\ sp = "park"
  /\ schedulec' = TRUE
  /\ sp' = "wait"
  /\ UNCHANGED <<execVars, condVars, it2, size, thread_interval, mainVars,
                 aborted>>

ScheduleWakes ==
  /\ Running /\ sp = "wait" /\ ~schedulec
  /\ sp' = "delete"
  /\ UNCHANGED <<execVars, condVars, schedulec, it2, size, thread_interval,
                 mainVars, aborted>>

\* delete *it2_address: every copy of the pointer dangles.
DeleteIterator ==
  /\ Running /\ sp = "delete"
  /\ it2' = "freed"
  /\ ref' = [t \in Threads |-> IF ref[t] = "live" THEN "freed" ELSE ref[t]]
  /\ sp' = "get"
  /\ UNCHANGED <<pc, pos, last, visited, condVars, schedulec, size,
                 thread_interval, mainVars, aborted>>

\* Faulty variant of Drain: the thread ends without the last loop.
DrainAtOnce ==
  /\ Running /\ sp = "drain"
  /\ sp' = "exit"
  /\ UNCHANGED <<execVars, condVars, schedulec, it2, size, thread_interval,
                 mainVars, aborted>>

\* The last loop: the thread ends when every execute thread is counted.
Drain ==
  /\ Running /\ sp = "drain" /\ count_wait >= NumThreads
  /\ sp' = "exit"
  /\ UNCHANGED <<execVars, condVars, schedulec, it2, size, thread_interval,
                 mainVars, aborted>>

-----------------------------------------------------------------------------
(* An execute thread: run_loop.                                            *)

Moves(t, from, to) ==
  /\ Running /\ pc[t] = from
  /\ pc' = [pc EXCEPT ![t] = to]

\* count_wait++ and the wait on threadc, one section of threadm.
CountAndWait(t) ==
  /\ Moves(t, "count", "wait")
  /\ count_wait' = count_wait + 1
  /\ threadc' = threadc \cup {t}
  /\ UNCHANGED <<pos, last, ref, visited, arrived, schedVars,
                 thread_interval, mainVars, aborted>>

\* The same when main has already deleted Arg, which is undefined: the
\* process may die.  (It may also go on, which is CountAndWait.)
CountDeleted(t) ==
  /\ Running /\ mp = "dump" /\ pc[t] = "count"
  /\ aborted' = TRUE
  /\ UNCHANGED <<execVars, condVars, schedVars, thread_interval, mainVars>>

ThreadWakes(t) ==
  /\ Moves(t, "wait", "load")
  /\ t \notin threadc
  /\ UNCHANGED <<pos, last, ref, visited, condVars, schedVars,
                 thread_interval, mainVars, aborted>>

\* it2 = *it2_address; NULL ends the thread.
LoadIterator(t) ==
  /\ Moves(t, "load", IF it2 = "null" THEN "exit" ELSE "begin")
  /\ ref' = [ref EXCEPT ![t] = it2]
  /\ UNCHANGED <<pos, last, visited, condVars, schedVars, thread_interval,
                 mainVars, aborted>>

\* thread_begin: pos starts at the first position (never -1 for a
\* registered thread).
ThreadBegin(t) ==
  /\ Moves(t, "begin", "end")
  /\ pos' = [pos EXCEPT ![t] = thread_interval[t].first]
  /\ UNCHANGED <<last, ref, visited, condVars, schedVars, thread_interval,
                 mainVars, aborted>>

\* thread_end: -1 stands for "no such thread", but it is also the end of an
\* empty interval at position 0.  The LOG_FATAL line then throws, unless
\* another thread's log line overwrites the shared streamloglevel first.
ThreadEnd(t) ==
  /\ Moves(t, "end", "loop")
  /\ last' = [last EXCEPT ![t] = thread_interval[t].last]
  /\ \E overwritten \in BOOLEAN :
       aborted' = (thread_interval[t].last = -1 /\ ~overwritten)
  /\ UNCHANGED <<pos, ref, visited, condVars, schedVars, thread_interval,
                 mainVars>>

\* One turn of the loop over the positions of the interval.
Process(t) ==
  /\ Running /\ pc[t] = "loop" /\ pos[t] <= last[t]
  /\ visited' = visited \cup {pos[t]}
  /\ pos' = [pos EXCEPT ![t] = @ + 1]
  /\ UNCHANGED <<pc, last, ref, condVars, schedVars, thread_interval,
                 mainVars, aborted>>

\* Faulty variant of Arrive: the barrier was set up for one thread more.
ArriveStuck(t) ==
  /\ Moves(t, "loop", "barrier")
  /\ pos[t] > last[t]
  /\ arrived' = arrived \cup {t}
  /\ pos' = [pos EXCEPT ![t] = 0]
  /\ last' = [last EXCEPT ![t] = 0]
  /\ UNCHANGED <<ref, visited, count_wait, threadc, schedVars,
                 thread_interval, mainVars, aborted>>

\* Faulty variant of Arrive: nobody waits at the barrier.
ArriveUnheld(t) ==
  /\ Moves(t, "loop", "barrier")
  /\ pos[t] > last[t]
  /\ pos' = [pos EXCEPT ![t] = 0]
  /\ last' = [last EXCEPT ![t] = 0]
  /\ UNCHANGED <<ref, visited, condVars, schedVars, thread_interval,
                 mainVars, aborted>>

\* pthread_barrier_wait: the last thread to arrive releases them all.
Arrive(t) ==
  /\ Moves(t, "loop", "barrier")
  /\ pos[t] > last[t]
  /\ arrived' = IF arrived \cup {t} = Threads THEN {} ELSE arrived \cup {t}
  /\ pos' = [pos EXCEPT ![t] = 0]
  /\ last' = [last EXCEPT ![t] = 0]
  /\ UNCHANGED <<ref, visited, count_wait, threadc, schedVars,
                 thread_interval, mainVars, aborted>>

LeaveBarrier(t) ==
  /\ Moves(t, "barrier", "signal")
  /\ t \notin arrived
  /\ UNCHANGED <<pos, last, ref, visited, condVars, schedVars,
                 thread_interval, mainVars, aborted>>

\* The broadcast on schedulec, without schedulem: lost on a schedule thread
\* that has not parked yet.
SignalScheduler(t) ==
  /\ Moves(t, "signal", "count")
  /\ schedulec' = FALSE
  /\ UNCHANGED <<pos, last, ref, visited, condVars, sp, it2, size,
                 thread_interval, mainVars, aborted>>

-----------------------------------------------------------------------------
Main == \/ CreateThread \/ Register \/ CreateScheduler \/ CreateFails
        \/ TermCheck \/ JoinScheduler \/ JoinUncreated \/ Destroy \/ Dump

Scheduler == \/ ReadTerminated \/ BuildIterator \/ Gather \/ Notify
             \/ Park \/ ScheduleWakes \/ DeleteIterator \/ Drain

Exec(t) == \/ CountAndWait(t) \/ CountDeleted(t) \/ ThreadWakes(t)
           \/ LoadIterator(t) \/ ThreadBegin(t) \/ ThreadEnd(t)
           \/ Process(t) \/ Arrive(t) \/ LeaveBarrier(t)
           \/ SignalScheduler(t)

Next == Main \/ Scheduler \/ \E t \in Threads : Exec(t)

Spec == Init /\ [][Next]_vars

\* Every thread the operating system may run eventually runs; that main's
\* check eventually succeeds stands for the convergence of the computation.
Fairness ==
  /\ WF_vars(Main)
  /\ WF_vars(Scheduler)
  /\ \A t \in Threads : WF_vars(Exec(t))

FairSpec == Spec /\ Fairness

-----------------------------------------------------------------------------
(* Invariants.                                                             *)

TypeOK ==
  /\ pc \in [Threads -> ExecStates]
  /\ pos \in [Threads -> Int]
  /\ last \in [Threads -> Int]
  /\ ref \in [Threads -> Pointers]
  /\ count_wait \in 0 .. NumThreads
  /\ threadc \subseteq Threads
  /\ arrived \subseteq Threads
  /\ sp \in SchedStates
  /\ schedulec \in BOOLEAN
  /\ it2 \in Pointers
  /\ size \in Nat
  /\ thread_interval \in [Threads -> [first : Int, last : Int]]
  /\ mp \in MainStates
  /\ created \in 0 .. NumThreads
  /\ terminated \in BOOLEAN
  /\ aborted \in BOOLEAN
  /\ visited \subseteq Int

\* The thread runs between its wait on threadc and the barrier: it reads
\* the iterator, the interval table or the rows of the state table.
Working(t) == pc[t] \in {"load", "begin", "end", "loop"}

\* While the schedule thread deletes the old iterator, builds the next one
\* and rewrites the interval table (obtain_iterator up to the broadcast), no
\* execute thread works on the table: the two sides share no lock, only the
\* protocol of waits keeps them apart.
ScheduleExclusive ==
  sp \notin {"park", "wait"} => \A t \in Threads : ~Working(t)

\* The broadcast on threadc, made after threadm is released, finds every
\* execute thread blocked: nobody misses the round.
NotifyReachesAll == sp = "notify" => threadc = Threads

\* The iterator an execute thread copied out of *it2_address is not deleted
\* while the thread still calls it.
NoUseAfterFree ==
  \A t \in Threads : pc[t] \in {"begin", "end", "loop"} => ref[t] = "live"

\* The position a thread is about to process is its alone: nobody has
\* processed it in this round and nobody is about to.
ExclusivePositions ==
  \A t \in Threads : pc[t] = "loop" /\ pos[t] <= last[t] =>
    /\ pos[t] \in Positions \ visited
    /\ \A u \in Threads \ {t} : pc[u] = "loop" /\ pos[u] <= last[u] =>
         pos[u] # pos[t]

\* When the schedule thread goes on to delete the iterator, every position
\* it scheduled was processed.
RoundComplete == sp = "delete" => visited = Positions

\* The thread was woken for the round and is held by it: it works, is about
\* to, or waits at the barrier for the others.
InRound(t) ==
  \/ pc[t] = "wait" /\ t \notin threadc
  \/ Working(t)
  \/ pc[t] = "barrier" /\ t \in arrived

\* Once main is past the join of the schedule thread (and destroys the locks
\* and dumps the table) no execute thread will touch the table again; and if
\* there was a schedule thread to join, every execute thread is blocked for
\* good and none uses what main destroys.
DumpQuiescent ==
  mp \in {"destroy", "dump", "exit", "hung"} =>
    /\ \A t \in Threads : ~InRound(t)
    /\ sp = "new" \/ threadc = Threads

-----------------------------------------------------------------------------
(* The inductive invariant behind them, proved in Rounds_proofs.           *)

Mine(t) == IntervalPositions(size, NumThreads, t)

\* Who is blocked where, and what count_wait counts.
Blocking ==
  /\ \A t \in threadc : pc[t] = "wait"
  /\ \A t \in arrived : pc[t] = "barrier"
  /\ sp # "notify" => count_wait = Cardinality(threadc)
  /\ sp = "notify" => count_wait = 0 /\ threadc = Threads
  /\ sp = "exit" => threadc = Threads

\* Threads are created in order, the schedule thread after them; main does not
\* get past the join of a schedule thread that runs.
Creation ==
  /\ mp \in {"create", "register"} => sp = "new"
  /\ mp = "create" => \A t \in Threads : t >= created => pc[t] = "new"
  /\ mp = "register" =>
       /\ created < NumThreads
       /\ \A t \in Threads : t > created => pc[t] = "new"
  /\ mp \in {"destroy", "dump", "exit", "hung"} => sp \in {"exit", "new"}

\* A round holds all threads or none, and none unless it was broadcast; the
\* schedule thread is woken by a thread the round no longer holds.
AllOrNone ==
  /\ \A t \in Threads : pc[t] # "exit"
  /\ sp \notin {"park", "wait"} => \A t \in Threads : ~InRound(t)
  /\ \/ \A t \in Threads : InRound(t)
     \/ \A t \in Threads : ~InRound(t)
  /\ sp = "wait" /\ ~schedulec => \A t \in Threads : ~InRound(t)

IteratorLives ==
  /\ it2 = "live" <=> sp \in {"gather", "notify", "park", "wait", "delete"}
  /\ NoUseAfterFree

\* How far a thread is with its interval.
HowFar(t) ==
  /\ InRound(t) /\ pc[t] \in {"wait", "load", "begin", "end"} =>
       visited \cap Mine(t) = {}
  /\ pc[t] = "end" => pos[t] = IntervalFirst(size, NumThreads, t)
  /\ pc[t] = "loop" =>
       /\ last[t] = IntervalLast(size, NumThreads, t)
       /\ pos[t] \in IntervalFirst(size, NumThreads, t) .. last[t] + 1
       /\ visited \cap Mine(t) =
            IntervalFirst(size, NumThreads, t) .. pos[t] - 1
  /\ sp \in {"park", "wait"} /\ (InRound(t) => pc[t] = "barrier") =>
       Mine(t) \subseteq visited

\* The interval table is the one of the iterator, and the threads together
\* have processed what their intervals say.
Progress ==
  /\ visited \subseteq Positions
  /\ sp \in {"gather", "notify"} => visited = {}
  /\ sp \in {"new", "get", "build", "delete", "drain", "exit"} =>
       visited = Positions
  /\ sp \in {"gather", "notify", "park", "wait", "delete"} =>
       \A t \in Threads :
         thread_interval[t] = [first |-> IntervalFirst(size, NumThreads, t),
                               last  |-> IntervalLast(size, NumThreads, t)]
  /\ \A t \in Threads : HowFar(t)

\* Every conjunct is needed to show that another one is preserved.
RoundsInv ==
  /\ TypeOK /\ Blocking /\ Creation /\ AllOrNone /\ IteratorLives
  /\ Progress

-----------------------------------------------------------------------------
(* The abstract specification this module implements.                      *)

\* The phase of the promised rounds, read off the schedule thread.
Phase == CASE sp \in {"drain", "exit"} -> "dump"
           [] sp \in {"gather", "notify", "park", "wait", "delete"} -> "work"
           [] OTHER -> "plan"

Promise == INSTANCE BulkRounds WITH phase <- Phase, todo <- Positions \ visited

\* The threads of the second phase work in rounds: positions are planned,
\* each is processed exactly once, and a round is over before the next one
\* is planned or the result is dumped.
ImplementsBulkRounds == Promise!Spec

-----------------------------------------------------------------------------
(* Liveness, under FairSpec.                                               *)

\* A round that was broadcast is processed to its last position.
RoundEnds == sp = "park" ~> visited = Positions \/ aborted

\* The broadcast on schedulec came before the schedule thread blocked.
LostWakeup ==
  sp = "wait" /\ schedulec /\ threadc = Threads /\ visited = Positions

\* The schedule thread polls for an execute thread that could not be created.
PollsForEver == sp \in {"gather", "drain"} /\ \E t \in Threads : pc[t] = "new"

\* The program comes to its end, or to one of the ways this code has of not
\* doing so: a fatal line that throws, a call of main on a condition variable
\* still waited on or on a thread that was never created (which may kill the
\* process or not return), a lost wakeup, or an execute thread that is missing
\* because its fatal line did not throw.  There is no other if the check
\* succeeds at some time and no wait returns without a broadcast.
Finishes ==
  <>(mp \in {"exit", "hung"} \/ aborted \/ LostWakeup \/ PollsForEver)

-----------------------------------------------------------------------------
(* What the code says of itself and does not keep: see the README.         *)

\* The schedule thread waits for the execute threads, whose last act in a
\* round is "send to schedule thread": the wait always ends.
ScheduleThreadWoken == sp = "wait" ~> sp # "wait"

\* A registered thread never gets the end -1 that the fatal line "create
\* end fail" reports.
EndIsNeverFatal == \A t \in Threads : pc[t] = "loop" => last[t] # -1

\* When main, having logged "over excute threads" and joined the schedule
\* thread, destroys the condition variables, no execute thread waits on them.
NoWaiterAtDestroy == mp = "destroy" /\ sp = "exit" => threadc = {}

=============================================================================
