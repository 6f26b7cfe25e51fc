# Maiter-P in TLA+

Maiter-P runs asynchronous accumulative graph computations (PageRank, Katz,
adsorption, shortest paths) in one process with several POSIX threads. A row of
an in-memory *state table* belongs to each vertex and holds its value `v2`, its
delta `v1`, its links and a scheduling priority. Updating a vertex adds the
delta to the value, sends a share of the delta over the links and resets the
delta. This directory models that program, checks the models with TLC and proves
theorems about them with TLAPS.

## 1. The system

| component | state | operations | who it talks to |
|---|---|---|---|
| Round protocol, `kernel.h` `MaiterKernel2` | `Arg` (condition variables `threadc`, `schedulec`, the barrier, `count_wait`), `*it2_address`, the global `thread_interval`, `terminated_` | main: create threads, `TermCheck`, join, destroy; schedule thread: `obtain_iterator`; execute threads: `run_loop` | waits and broadcasts; the iterator pointer and the interval table are shared without a lock |
| Vertex update, `run_iter`, `vertexlock-manager.h` | rows, one mutex per vertex, an output buffer per thread | `accumulateF2`, `g_func`, `updateF1`, `accumulateF1` | execute threads write each other's vertices |
| State table, `statetable.h` | `buckets_`, `size_`, `entries_` | `put`, `get`, `resize`, `clear`, `contains`, `bucket_for_key`, `update*`, `accumulate*` | loading fills it, threads change its rows |
| Iterators, `statetable.h` | scheduled positions, `thread_interval` | constructors of `Iterator`, `ScheduledIterator`, `EntirePassIterator`; `is_in_use`, `key(pos)` | built by the schedule thread, read by the execute threads |
| Termination check, `globaltable.h`, `table.h` | `Diff::last`, `terminated_` | `termcheck`, `estimate_prog`, `terminate` | main sums up values the threads are changing |
| Loading, `MaiterKernel1` and `read_data` | the table | a line becomes a `put` | one thread, before the others exist |
| Dump, `MaiterKernel3` | the result file | a pass over the table: a line for each row | after the schedule thread was joined |
| Algorithms, `examples/` | none | `accumulate`, `g_func`, `priority`, `init_c`, `init_v` | called under the vertex lock |
| Logger, `logger.h` | a shared level, a buffer per thread | `<<`, `endl`; a fatal line throws | all threads |
| Configuration, `configfile.h`, `cmdopts.h`, constructor of `MaiterKernel` | a map from options to texts | `loadconfig`, `get_config_option_*` | once, at the start; THREADS and NODES decide what the phases can do |

What is hard in it, and what makes it correct:

* **Rounds.** The schedule thread rewrites the iterator and the interval table
  with no lock that the execute threads take. Only the order of two waits, two
  kinds of broadcast, a counter and a barrier keeps the sides apart. Correct means: no
  thread reads what is being rewritten or was deleted, no thread misses a
  round, every scheduled position is processed once and in its round, the
  result is dumped when nobody writes any more.
* **Vertex updates.** Threads write rows of vertices other threads update. Correct
  means: no delta is lost, none is spread twice, locks cannot be waited for in a
  circle, priorities belong to the values beside them.
* **Table.** Linear probing, with an expansion that comes one entry too late.
  Correct means: rows stay reachable and current; as long as keys fit, the table
  is a map.
* **Phases.** What the configuration and the input say reaches the threads through
  the table, and their results reach the file through it. Correct means: a
  well-formed input is loaded as it stands and begins where the algorithm says,
  no thread comes to a row or a mutex that is not there, the file has the values
  last written.
* **Termination.** A sum is taken without locks over values that change meanwhile.

## 2. Modules

| module | models | extends / instances |
|---|---|---|
| `Intervals` | the division of positions between threads (end of both iterator constructors) | |
| `BulkRounds` | abstract: rounds that plan, apply and end | |
| `Rounds` | `runexcutethread`, `obtain_iterator`, `run_loop` | extends `Intervals`, implements `BulkRounds` |
| `DeltaSpec` | abstract: atomic vertex updates, asynchronous messages | |
| `VertexUpdate` | `run_iter` with its locks, step by step, for any algorithm | implements `DeltaSpec` |
| `Shortestpath` | the algorithm of shortestpath.cpp, on any graph; reference: the lengths of shortest paths | extends `VertexUpdate` |
| `RowMap` | abstract: a map from keys to rows, and what was asked of it | |
| `StateTable` | `put`, `get`, `resize`, `bucket_for_key`, row changes | implements `RowMap` while the keys fit |
| `Configuration` | `loadconfig`, the options and their defaults, what `MaiterKernel` takes from them | |
| `Loading` | `maiter_init`, `read_file`, `read_data` and `init_c` of the four programs, `Vertexlock(line)`, the rows and mutexes the threads come to | extends `StateTable`, `Configuration` |
| `Kernel` | the three phases: loading, changing rows, `dump` | extends `Loading` |
| `Scheduling` | the constructors of `Iterator` and `ScheduledIterator`, `is_in_use`, `key(pos)` | |
| `TermCheck` | `TermCheck`, `termcheck`, `estimate_prog`, `TermCheckers::Diff` | extends `DeltaSpec` |
| `Logger` | `logstream`: level, buffers, `endl`, throw | |
| `MC*` | instances for TLC; `MCShortestpath` brings a graph, `MCPagerank` a graph and the algorithm | |
| `*_proofs` | theorems and proofs | |

### How state and actions correspond to the code

**Rounds.** `pc[t]` is the place of an execute thread in `run_loop`, `sp` the
place of the schedule thread in `obtain_iterator`, `mp` the place of main in
`runexcutethread`. A condition variable is the set of threads blocked on it
(`threadc`; `schedulec` is TRUE while the schedule thread is blocked): a
broadcast empties it and does nothing for a thread that is not in it. `arrived`
holds the threads the barrier holds back. Sections of `threadm` and `schedulem`
touch nothing else that is shared, so each of them is one action. Updating one
vertex is one action (`Process`); its inside is `VertexUpdate`. The history
variable `visited` records the positions processed in the round. When `TermCheck`
succeeds is left open: it may at any time. `CreateFails` is a thread that cannot be created: the
fatal line ends the process, or, when a thread that just starts overwrites the shared log level,
main goes on and the missing thread stays `"new"` for good.

**VertexUpdate.** One action per read or write of shared data: `accumulateF2`,
`g_func`, `updateF1` are actions of their own under the lock of the vertex, and
`accumulateF1` is three (read the delta, write it, recompute the priority) under
the lock of the target. Which vertices a round schedules is a choice from
`Schedules`; which thread takes which vertex is left open too. That allows more than
`Rounds`, where a thread takes the positions of its interval in order; `Rounds`
shows (`ExclusivePositions`, `RoundComplete`) that a vertex is taken once per
round and that rounds do not overlap.

**StateTable.** The table is a record `[size, entries, buckets]`, and the code's
functions are operators from tables to tables; `resize` is a fold of `put` over
the old buckets, written as a recursive function. Calls that change the layout
are made by a single thread (loading), so that one call is one action; the changes of
a row by several threads are atomic under its lock (`VertexUpdate`). `phase` says how far the
program is, from the call of `resize` with NODES to the dump; the ways it may end early are
`"exit"` (no input file) and `"dead"` (a failed assertion, an exception nobody catches, a
division by zero). `written` is a history of what was put or changed under each key; it is what `RowMap`
was asked for, so that the refinement ties each step of the table to the call that made it: a row that is lost, or
lands under another key, is no step of the map.

**Configuration.** A line of the file is whether it is a comment, and its tokens between
equality signs. `loadconfig` is a fold over the lines. A text is a word and the number `atof`
finds in it, so that the conversions `atoi`, `atol` (towards zero) and `atof` differ as in the code.

**Loading.** A line is a record of its vertex, whether a tab follows it, and the pieces
between blanks (a piece may be empty). `read_data(l)` is the set of results
the running program may find in a line: more than one where it uses an
uninitialized variable, none where a conversion throws. `ReadLine` is one turn of
the loop of `read_file`, with the `Put` of `StateTable`. A row is its links, whether the
vertex begins with a delta (`init_c`), and whether a thread has changed it. `Locked` are the vertices that
`run_iter` will lock; `Touch` and `TouchBeyond` say what happens there.

**Kernel.** `Dump` writes a line for each bucket in use, or none if the file cannot be
opened. That no row changes meanwhile is `DumpQuiescent` of `Rounds`.

**Scheduling.** Building an iterator is one action, since `Rounds` shows that no
execute thread runs meanwhile (`ScheduleExclusive`). The random sample is a
choice among all sorted samples. A position of the round is skipped or processed,
and positions are mapped to buckets as `key(pos)` and `is_in_use(pos)` do it: not in
the same way.

**TermCheck.** The values change by the steps of `DeltaSpec`, which `VertexUpdate`
implements; one action reads one row. History variables keep the values at the
ends of the passes.

**Logger.** A statement `logstream(level) << text << endl` is up to four actions
(`StartStream`, `Say`, `Flush`, then `GoOn` or `Throw`), since the shared level may change
between any two of them.

## 3. Runs

| run | asks |
|---|---|
| `rounds` | Three execute threads, rounds of 0, 2, 3 and 5 positions: `ScheduleExclusive`, `NotifyReachesAll`, `NoUseAfterFree`, `ExclusivePositions`, `RoundComplete`, `DumpQuiescent`, the inductive invariant `RoundsInv`, the refinement `ImplementsBulkRounds`, and, under fairness, `RoundEnds`, `Finishes`, which names every way of not getting to the end. |
| `rounds_lost_wakeup` | violated: the schedule thread may wait for ever (section 6). |
| `rounds_fatal_interval` | violated: an empty interval looks like an unknown thread. |
| `rounds_destroy_waited` | violated: condition variables are destroyed with waiters. |
| `shortestpath` | Two threads and min-plus on a graph with a cycle: priorities, soundness of the values, rounds drain, distances are reached. |
| `pagerank` | Two threads and addition on a graph with a double link: `LockDiscipline`, `NoLostMessage`, `LedgerHolds`, the refinement of `DeltaSpec`, the inductive invariant, ranks are reached. |
| `kernel` | From the configuration to the result: inputs of up to five lines for a table of three buckets, read by each program. Rows reachable and current, `entries_` at most one too high, exact while keys fit, the refinement of `RowMap` while keys fit; well-formed inputs are loaded as listed and begin where the algorithm does (`WellLoaded`); with a usable configuration they lead no thread to a missing row or mutex (`NeverDies`); the file has what was last written (`ResultRight`). |
| `statetable_forgotten` | violated: a put into a full table overwrites a row. |
| `scheduling` | Tables of four buckets, any rows, deltas and priorities: the most urgent row is scheduled whatever the sample (`MostUrgentScheduled`), no less urgent row before a more urgent one (`PriorityOrder`), rounds process what is scheduled (`ScheduledRuns`), deltas drain (`Drains`). |
| `scheduling_skipped` | violated: scheduled rows are skipped in a table with free buckets below the number of positions. |
| `termcheck` | Passes over a changing table: each sum is bracketed (`SumBracketed` in `CheckInv`), sums grow (`SumsGrow`), the values stood nearly still when the check ends (`QuietBetweenPasses`), it does end (`Stops`). |
| `logger` | Three threads, ordinary and fatal lines, some left open: `NothingLost`, `FatalThrows` and the inductive `LoggerInv`. |

**Bounds.** Three threads are the least number for which one thread can be
released from the barrier while another is about to broadcast and a third is
already counted. Sizes 0, 2, 3, 5 give empty intervals, fewer positions than
threads, as many, and a remainder for the last thread. Rounds are not bounded:
the state does not grow with them. In `VertexUpdate` two threads and three
vertices suffice for two messages to the same target, a message to a vertex that
is being updated, and (in `MCShortestpath`) a cycle of links along which lock
waits could close. Schedules are all sets of vertices, so rounds may leave any
vertex out. The amounts of `MCPagerank` and the lengths of `MCShortestpath` are
bounded by `Most` and `imax`, which no sum of these graphs reaches; so are the amounts of `MCTermCheck`. In `Kernel` five
keys for three buckets make the table full, overwrite rows and expand it to 7
buckets; the lines include one without a tab, without a last blank, with a double blank
and without links; an uninitialized variable holds 4 (`Leftovers`), a number beyond the
mutexes of a well-formed input; one row is changed by the threads (`MaxChanges`). The configuration
files are one like those in conf/ (with a replaced setting, a comment, an empty line and a blank value), one
whose THREADS is a word, one whose THREADS is negative, one whose NODES is blanked by a later line, and none at all. In
`Scheduling` a sample of two of up to four rows can miss any two rows, and three priorities allow
a row above, at and below the threshold; after the first deltas one message
(`MaxMessages`) makes a row urgent again. `TermCheck` has a free bucket, a vertex that gets
messages from two others, and a threshold of 1, so that the check may end while
a value still changes. In `Logger` two lines per thread (`MaxLines`) let a line left open be
followed by another one.

**Deadlock** is checked for the runs of `VertexUpdate`. It is switched off where
the system really stops: `Rounds` ends (main exits, a fatal line throws) or hangs
(a lost wakeup, a destroyed condition variable, polling for a thread that was never created); `Kernel` ends with the result file, a failed
assertion or an exception; `TermCheck` ends the
computation; `Logger` ends with an exception or after `MaxLines`.

**Fairness.** Weak fairness of every thread: the operating system runs every
thread that can go on. A blocked thread has no enabled action, so nothing is
assumed about it. In `VertexUpdate` weak fairness also covers a thread that
waits for a vertex lock, which POSIX does not promise to hand over fairly;
TLC shows that the properties hold all the same because a round has finitely many
messages, so that the competition for a lock ends. `Finishes` also takes
the termination check to succeed at some time (fairness of main). `Scheduling` takes rounds to go on (`RoundEnds`), `TermCheck` main and the
execute threads together to go on. That each vertex
goes on being scheduled is a premise of `DistancesReached` and `RanksReached`, not
a fairness condition.

**Mutants.** The operators commented as "faulty variant" are plausible bugs of the
definition they precede; exchanging them one by one makes each property fail, as
`PROJECT.json` lists.

## 4. Proofs

`Rounds_proofs`: for any size and any number of threads the intervals are
disjoint (`IntervalsDisjoint`) and cover the positions (`IntervalsCover`);
the work is in two arithmetical lemmas about `\div` (`ShareFits`, `Monotonic`).
For any number of threads and any sizes, `RoundsInv` is an
invariant (`Invariance`), and with it `TypeOK`, `ScheduleExclusive`,
`NotifyReachesAll`, `NoUseAfterFree`, `ExclusivePositions`, `RoundComplete`,
`DumpQuiescent`; `Rounds` implements `BulkRounds`
(`RoundsImplementBulkRounds`). None of the safety properties is inductive.
The heart of the invariant is `AllOrNone`: a round holds all threads or none. It
needs `Blocking` (`count_wait` is the number of blocked threads, except between
the reset of the counter and the broadcast), since the schedule thread decides by the
counter; `Creation`, since threads run before all of them exist; and `Progress`,
which says how much of its interval a thread has processed at each place, so that
the barrier opens only when all positions are visited. Assumed are only
`NumThreads \in Nat \ {0}` and `Sizes \subseteq Nat`.

`VertexUpdate_proofs`: for any algorithm, graph and number of threads,
`VertexInv` is an invariant, and with it `LockDiscipline`, `NoLostMessage` and
`PriorityFresh`. The invariant adds `Locals` (what local variables hold where they
are used) and `PriorityOwed` (only the holder of a lock leaves a stale
priority behind). Assumed are the closure of the algorithm's operators over its values,
one lock per vertex, links that lead to vertices, and `PriorityAssumption`: a vertex
whose delta is the default has priority 0, which `updateF1` itself assumes
(statetable.h:805).

The same module proves that `VertexUpdate` implements `DeltaSpec`
(`VertexUpdateImplementsDeltaSpec`), by showing that each action of a thread maps to a step of `DeltaSpec`
or to none: `AccumulateF2` is the update (what the thread then still has to spread counts as under way,
and the delta it has still to reset counts as the default), `WriteDelta` is the arrival of a message, the rest
are stutters. `HeldDelta` is the fact it rests on: while a thread holds a vertex, nobody
changes the delta it has read. The abstract bag
`mail` counts threads and places in their sequences (`Unsent`); `MailOfMore` and
`MailOfLess` say what a sequence that begins, or loses its first message, does to that count. Assumed is also that
vertices and threads are finitely many (`FiniteAssumption`).

Last, it proves the ledger (`LedgerIsKept`): the value, the delta and the messages under way of a vertex make what its first delta
and the gains over its links make. Both sides are folds of `accumulate` over a finite set. Since the
induction theorems are out of reach, everything about folds (`FoldsExist`, `FoldTakes`, `FoldAcc`, `FoldUnion`,
`FoldImage`) argues by a subset that is a counterexample while no subset one
element smaller is (`LeastSet`). A receipt takes one copy out of the fold of
messages and adds it to the delta (`LedgerReceive`); an update adds one copy for each link
(`NewCopies`) and the same gains to the other side (`LedgerUpdate`). Assumed
of the algorithm is `AlgebraAssumption`: `accumulate` is commutative and associative, the default is
neutral, and the gain on a link distributes over `accumulate` (the four programs have it with `min` and `+`, up to
the rounding of floating point). Without it the result of the program would
depend on the order in which messages arrive.

`Shortestpath_proofs`: for any graph, whole weights from 0 on, source and number of threads, no
value is ever below the shortest distance, and all values are the distances when the threads are idle and no
delta is better than the value beside it (`DistancesAreSound`). A *potential* is an assignment of
lengths that exceeds neither `init_c` nor, over any link, the length before plus the weight.
`DistanceIs`: the lengths of paths with as many arcs as there are vertices are the greatest potential. If n
arcs reached the greatest potential at no more vertices than n - 1 did, the others could all be raised
by one (`ReachedGrows`); so n arcs reach it at n vertices at least (`AllReached`). Nothing in the program
falls below a potential (`NotBelowStep`, over the steps of `DeltaSpec`), and at rest the ledger makes
the values one (`QuietValues`). `AlgorithmAssumption` says that the operators
of `VertexUpdate` are those of shortestpath.cpp, with sums capped at `imax`.

`Scheduling_proofs`: for any table, sample and cut, `TypeOK` holds (`SchedulingTypes`), a
round processes what it scheduled as far as `is_in_use` lets it (`ScheduledRowsRun`), the most urgent
waiting row is scheduled (`MostUrgentIsScheduled`) and the sample prefers no less urgent row
(`PriorityIsRespected`). The last two follow from `TableOK` (`TableCorrect`) and from
the sample being sorted: its first row is the most urgent of the sample. The first two need that
`scheduled_pos` counts through the rows, each position standing for a bucket of its own.

`StateTable_proofs`: for any set of keys, contents, NODES and order of calls, rows are reachable
(`TableRowsReachable`) and current (`TableRowsCurrent`), the entries are never counted too
low, never by more than one too high and, while the keys fit, exactly (`TableCountRight`), and while they fit the table
implements `RowMap` (`TableImplementsRowMap`): the row under each key is the one last put or changed there. The heart is `PlaceReachable`: a row put where its probe
ends is reachable and stops no other probe, whether the bucket was free, held the key or, in a full
table, lost the row of another key. `resize` puts row after row; since its length is
not bounded, `FillExists` and `ResizedGood` argue by the least step that would go wrong. `FitsInv` adds
what holds while the keys fit: the rows are those of the keys written (`Exact`), the size is NODES,
and there is always a free bucket for a new key, so that the table is never expanded (`NoExpansion`).
`DriftInv` is the upper bound: a put counts an entry without adding a row only
when it overwrites one in a full table with `entries_` = `size_` (`PlaceTakes`), and the next new key expands the
table; `resize` counts every row once (`ResizedTallied`), and the put after it counts just its own row twice
(`ExpandedDrifts`).
Assumed is that keys are finitely many natural numbers.

`Kernel_proofs`: every step of the phases is a step of the state table or leaves it alone
(`KernelUsesTable`), so that all of the above holds for them (`KernelKeepsRows`,
`KernelImplementsRowMap`), besides their types (`KernelTypes`). For any well-formed input that fits, in any
order of lines, the table has its rows with the links listed and the first deltas of the algorithm
(`KernelWellLoaded`), and the result file has a line for each vertex with the value last written
(`KernelResultRight`). `SourceInv` is the invariant behind them: each row comes from a line that was read, each
line with a tab has left a row for its vertex, and there are no more different lines than
lines read. In a well-formed input n lines name n vertices, so that no two lines name the same one
(`OneLineEach`). With a usable configuration no such input leads to a missing row or mutex, a failed assertion or an
exception: the program ends early only when it has more threads than lines (`KernelNeverDies`). That needs
what `loadconfig` yields: its fold over the lines exists for any number of them (`FoldedExists`, by the least number for which it would not),
so that the lines are read one after the other (`LinesRead`) and the last setting of a key stays
(`LastSettingStays`). Assumed is that `Rows` holds every row read_data can find and that the configuration files are lines
that give numbers.

`TermCheck_proofs`: for any table, graph and threshold, and any additive algorithm, each sum lies between the totals of
the values when its pass began and when it ended (`SumsAreBracketed`), no sum is less than the one before
(`SumsNeverFall`), and when the check ends the computation all values together have grown by no more than the threshold
from the end of the pass before to the start of the last one (`ChecksAreRight`). `TermInv` brackets the partial sum in the midst of a pass
between sums over the buckets passed so far, of the values at its start (`atStart`) and of those now; a
row that changes behind the iterator, or before it, keeps both bounds. `SumTo` is a recursive function over
the buckets: its lemmas (`SumsExist`, `SumsCompare`, `SumOverFree`) argue by the least bucket at which they
would fail. Assumed is that values are natural numbers, that `Acc` never makes one
less, and that the default is 0 (`ValuesAssumption`), as in pagerank, katz and adsorption; with
min they fall (section 6).

`Logger_proofs`: for any number of threads and lines, `LoggerInv` is an invariant
(`LoggerInvariance`), and with it `NothingLost` and `FatalThrows`. Its
heart is `LevelKept`: the shared level is that of a line which no other
thread has begun a line after.

**Only model-checked:** all liveness, which is out of the prover's reach: that rounds end and
the program does (`RoundEnds`, `Finishes`), that values become distances or ranks, that rounds drain (`RoundDrains`, `Drains`), that the termination check stops
the computation in the end (`Stops`). Every invariant and every action property of a run is proved, and
so are the three refinements.

## 5. Not modelled, and why

* Floating point: values are small whole numbers; rounding, infinite and NaN sums (a vertex
  without links divides by 0 in pagerank) are out of TLC's reach. So is a value read while
  another thread writes half of it.
* Spurious wakeups. POSIX allows `pthread_cond_wait` to return without a
  broadcast, and neither wait of kernel.h tests a condition again: any such return lets a
  thread run outside a round. All results assume there are none.
* `total_updates`, lost updates included: it is only logged.
* The conversion of text to numbers (a text is given with its number), lines of the configuration
  longer than the buffer of 4096 characters, and the weights beside the links.
* The rounding of `sample_size * schedule_portion` in floating point: portions are in hundredths.
* The log file, `_log` and `_logbuf`, which nothing uses.
* The unused part of the interface (sharders, marshals, `try_lock`, options that assert).
* `common`, `hash.h`, `timer.h`, `tuple.h`, `stringpiece`, `static-initializers`: helpers
  without state the kernel depends on.

## 6. Findings

* **Lost wakeup** (kernel.h:171). The schedule thread broadcasts, and only then locks
  `schedulem` and waits, testing nothing. If the threads finish a short round first,
  all their broadcasts are lost and the schedule thread, and then main, wait for ever.
* **Empty interval taken for an error** (kernel.h:246). With fewer scheduled positions
  than threads the first interval is `[0, -1]`, and -1 means "unknown thread"; the
  fatal line throws.
* **Destroyed while waited on** (kernel.h:324). The schedule thread leaves without a last
  broadcast; all execute threads are blocked on `threadc` when main destroys it
  and deletes `Arg`.
* **Full table overwrites a row** (statetable.h:884). `entries_ > size_` tests one
  entry too late.
* **Scheduled rows are skipped** (statetable.h:333). `ScheduledIterator::is_in_use(pos)` looks at
  bucket `pos` instead of bucket `scheduled_pos[pos]`. In a table whose free buckets lie below the
  number of scheduled positions, the rows scheduled at the positions with these numbers are never
  processed. That takes vertex numbers with gaps, or numbers that start above 0. (Such numbers also
  reach beyond the mutexes of `Vertexlock`, one for each line, unless the input has lines to spare.)
  The input in src/input/pagerank does not show it: its keys 0 to 916427 fill the first buckets of
  `NODES=1000000`, and the free ones lie behind them. `ScheduledRuns` and
  `Drains` therefore speak of positions that happen to be in use.

Not findings, but limits of the properties that hold: `SumsGrow` is false with min as
`accumulate` (shortestpath): values fall when shorter paths are found, although
kernel.h:222 expects sums to grow. `WellFormed` of `Loading` asks for what input/pagerank has: a tab,
single blanks, a blank at the end (only pagerank adds one), vertices numbered
from 0. pagerank cannot read a vertex without links, and takes an uninitialized number
for its only link. NODES must be at least the number of lines and
THREADS at most: `NeverDies` and `WellLoaded` say what holds then, `statetable_forgotten` what happens
otherwise. `katz_beta` is read with `get_config_option_long`, so that a factor below 1 becomes 0
(katz.cpp:90), and `adsorption_starts` is never assigned (adsorption.cpp:63), so that adsorption has no vertex
to begin at: `Beginning` of `Loading` says so. `THREADS=0` is not refused; the schedule thread divides by it
unless the termination check ends the computation before. Neither is a negative number, with which main has an array of
negative length and the last interval is written beyond an empty table: `NoThreads` lets the program
die or go on in both cases.

A thread that cannot be created is to end the program (kernel.h:296, 309), but its fatal line throws only if
the shared level is still fatal at its end (logger.h:178), and the threads created before write that
level with their first line (kernel.h:225). Otherwise main goes on: without one of the execute threads
the schedule thread polls `count_wait` for ever and main never returns from `pthread_join`; without
the schedule thread main joins an id that was never written. `Finishes` names the first
(`PollsForEver`); the second is an action of its own (`JoinUncreated`).

## 7. What could follow

The inventory, the core (rounds, vertex updates, table, scheduling, termination check, logger), the
composition of the phases and the proofs of section 4 are done. What a next step would add:

1. Infinite and NaN values as model values, for the sums of the termination check.
