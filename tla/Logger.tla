------------------------------- MODULE Logger -------------------------------
(***************************************************************************)
(* logstream(level) << ... << endl, as all threads use it.  The text of a  *)
(* line is gathered in a buffer of its thread; the level of the line is in *)
(* a variable of the one logger, which every thread writes without a lock. *)
(* At endl a thread throws if that level is LOG_FATAL; nobody catches it.  *)
(*                                                                         *)
(* log_level is LOG_DEBUG and never changes, so every line is active.      *)
(***************************************************************************)
EXTENDS Integers, Sequences

CONSTANTS
  Threads,    (* main, schedule and execute threads                        *)
  NoThread,   (* no thread                                                 *)
  Lines,      (* lines [level, endl]: some lines are not ended by endl     *)
  MaxLines    (* bound: lines a thread writes                              *)

LOG_DEBUG == 0
LOG_INFO == 1
LOG_FATAL == 4
Levels == {LOG_DEBUG, LOG_INFO, LOG_FATAL}

ASSUME LinesAssumption == Lines \subseteq [level : Levels, endl : BOOLEAN]
ASSUME ThreadsAssumption == NoThread \notin Threads
ASSUME MaxLinesAssumption == MaxLines \in Nat

VARIABLES
  streamloglevel,  (* of the logger                                        *)
  streambuffer,    (* of each thread: the lines in it                      *)
  pc,              (* "out", "open", "text" or, after a flush, "flushed"   *)
  current,         (* the line a thread is writing                         *)
  output,          (* what each thread has written to stderr               *)
  said,            (* history: the lines a thread has given to the logger  *)
  overtaken,       (* history: others began a line since a thread did      *)
  thrown           (* the thread that threw and ended the program          *)

vars == <<streamloglevel, streambuffer, pc, current, output, said, overtaken, thrown>>

\* The logger is a static object, zero before it is constructed.
Init ==
  /\ streamloglevel = LOG_DEBUG
  /\ streambuffer = [t \in Threads |-> << >>]
  /\ pc = [t \in Threads |-> "out"]
  /\ current \in [Threads -> Lines]
  /\ output = [t \in Threads |-> << >>]
  /\ said = [t \in Threads |-> << >>]
  /\ overtaken = [t \in Threads |-> FALSE]
  /\ thrown = NoThread

Step(t, from, to) ==
  /\ thrown = NoThread
  /\ pc[t] = from /\ pc' = [pc EXCEPT ![t] = to]

\* Faulty variant of StartStream: the level is only ever raised.
StartStreamRaises(t, line) ==
  /\ Len(said[t]) < MaxLines
  /\ Step(t, "out", "open")
  /\ current' = [current EXCEPT ![t] = line]
  /\ streamloglevel' = IF line.level > streamloglevel THEN line.level ELSE streamloglevel
  /\ overtaken' = [u \in Threads |-> u # t]
  /\ UNCHANGED <<streambuffer, output, said, thrown>>

\* start_stream.
StartStream(t, line) ==
  /\ Len(said[t]) < MaxLines
  /\ Step(t, "out", "open")
  /\ current' = [current EXCEPT ![t] = line]
  /\ streamloglevel' = line.level
  /\ overtaken' = [u \in Threads |-> u # t]
  /\ UNCHANGED <<streambuffer, output, said, thrown>>

\* Faulty variant of Say: a new line replaces one that was not ended.
SayOver(t) ==
  /\ Step(t, "open", "text")
  /\ streambuffer' = [streambuffer EXCEPT ![t] = <<current[t]>>]
  /\ said' = [said EXCEPT ![t] = Append(@, current[t])]
  /\ UNCHANGED <<streamloglevel, current, output, overtaken, thrown>>

\* operator<<: the text of the line.
Say(t) ==
  /\ Step(t, "open", "text")
  /\ streambuffer' = [streambuffer EXCEPT ![t] = Append(@, current[t])]
  /\ said' = [said EXCEPT ![t] = Append(@, current[t])]
  /\ UNCHANGED <<streamloglevel, current, output, overtaken, thrown>>

\* The statement ends without endl; the text stays in the buffer.
LeaveOpen(t) ==
  /\ ~current[t].endl
  /\ Step(t, "text", "out")
  /\ UNCHANGED <<streamloglevel, streambuffer, current, output, said, overtaken, thrown>>

\* endl: stream_flush writes the buffer and clears it.
Flush(t) ==
  /\ current[t].endl
  /\ Step(t, "text", "flushed")
  /\ output' = [output EXCEPT ![t] = @ \o streambuffer[t]]
  /\ streambuffer' = [streambuffer EXCEPT ![t] = << >>]
  /\ UNCHANGED <<streamloglevel, current, said, overtaken, thrown>>

\* ... then the level is looked at.
GoOn(t) ==
  /\ streamloglevel # LOG_FATAL
  /\ Step(t, "flushed", "out")
  /\ UNCHANGED <<streamloglevel, streambuffer, current, output, said, overtaken, thrown>>

Throw(t) ==
  /\ streamloglevel = LOG_FATAL
  /\ Step(t, "flushed", "out")
  /\ thrown' = t
  /\ UNCHANGED <<streamloglevel, streambuffer, current, output, said, overtaken>>

Next ==
  \E t \in Threads :
    \/ \E line \in Lines : StartStream(t, line)
    \/ Say(t) \/ LeaveOpen(t) \/ Flush(t) \/ GoOn(t) \/ Throw(t)

Spec == Init /\ [][Next]_vars

-----------------------------------------------------------------------------
(* Properties.                                                             *)

TypeOK ==
  /\ streamloglevel \in Levels
  /\ streambuffer \in [Threads -> Seq(Lines)]
  /\ pc \in [Threads -> {"out", "open", "text", "flushed"}]
  /\ current \in [Threads -> Lines]
  /\ output \in [Threads -> Seq(Lines)]
  /\ said \in [Threads -> Seq(Lines)]
  /\ overtaken \in [Threads -> BOOLEAN]
  /\ thrown \in Threads \cup {NoThread}

\* What a thread has said is what it has written and then what is in its
\* buffer: no text is lost, doubled, or mixed up with another thread's,
\* whatever the interleaving and also after lines without endl.
NothingLost == \A t \in Threads : output[t] \o streambuffer[t] = said[t]

\* The shared level is that of a line which no other thread has begun a line
\* after: such a line ends the program exactly if it is fatal.
LevelKept ==
  \A t \in Threads :
    pc[t] # "out" /\ ~overtaken[t] => streamloglevel = current[t].level

\* The inductive invariant.
LoggerInv == TypeOK /\ NothingLost /\ LevelKept

\* A thread goes on after its own fatal line, or throws at an ordinary one,
\* only if another thread began a line meanwhile.
FatalThrows ==
  [][\A t \in Threads : pc[t] = "flushed" /\ pc'[t] = "out" /\ ~overtaken[t] =>
       (thrown' = t <=> current[t].level = LOG_FATAL)]_vars

=============================================================================
