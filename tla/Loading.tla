------------------------------ MODULE Loading -------------------------------
(***************************************************************************)
(* The first phase and what the second takes from it: the configuration is *)
(* read; lines of the input are parsed by read_data of the running program *)
(* and put into the state table; then one mutex per line is created, and   *)
(* the execute threads lock and change the rows of vertices and of the     *)
(* vertices they link to.                                                  *)
(*                                                                         *)
(* A line is a vertex, a tab or a blank, and the rest; the rest is given   *)
(* by its pieces between blanks, of which there is at least one.  A piece  *)
(* is a number (for shortestpath and adsorption also a weight, left out    *)
(* here) or a Gap, when it is empty: "1 2 " has the pieces <<1, 2, Gap>>.  *)
(* A line without a tab and with the pieces <<Gap>> is a number alone.     *)
(***************************************************************************)
EXTENDS StateTable, Configuration

CONSTANTS
  Programs,      (* "pagerank", "katz", "adsorption", "shortestpath"       *)
  Gap,           (* an empty piece                                         *)
  TextLines,     (* lines [tab, key, pieces] the input may have            *)
  Leftovers,     (* bound: values of an uninitialized variable             *)
  ConfFiles,     (* contents the configuration file may have               *)
  NoFile,        (* a file that does not exist or cannot be opened         *)
  MaxLines,      (* bound: lines of the input                              *)
  MaxChanges     (* bound: keys whose rows the threads change              *)

ASSUME ProgramsAssumption ==
  Programs \subseteq {"pagerank", "katz", "adsorption", "shortestpath"}
ASSUME LeftoversAssumption == Leftovers \subseteq Keys
ASSUME LinesAssumption ==
  /\ Gap \notin Keys
  /\ \A l \in TextLines :
       /\ l.tab \in BOOLEAN /\ l.key \in Keys
       /\ l.pieces \in Seq(Keys \cup {Gap}) /\ l.pieces # << >>
ASSUME ConfigurationsAssumption ==
  \A file \in ConfFiles :
    LET maiter == MaiterKernel(loadconfig(file))
    IN  maiter.num_nodes \in NodeCounts /\ maiter.num_threads \in Int
\* ... which are sequences of lines as Configuration describes them.
ASSUME FilesAssumption ==
  \A file \in ConfFiles :
    file \in Seq([comment : BOOLEAN,
                 tokens : Seq([text : [word : STRING, number : Int],
                               blanks : BOOLEAN])])
ASSUME BoundsAssumption == MaxLines \in Nat

VARIABLES
  program,      (* the program that runs                                   *)
  conf_file,    (* its configuration file                                  *)
  num_threads,  (* THREADS of its configuration                            *)
  line,         (* lines read                                              *)
  vertexlocks,  (* mutexes of Vertexlock                                   *)
  read          (* history: the lines read, as a set                       *)

loading == <<program, conf_file, num_threads, line, vertexlocks, read>>
allVars == <<vars, loading>>

-----------------------------------------------------------------------------
(* read_data of the four programs.                                         *)

\* What pieces may be taken for: a Gap leaves the variable of the loop as it
\* was declared.
Targets(pieces, declared) ==
  {s \in [DOMAIN pieces -> Keys] :
     \A i \in DOMAIN pieces :
       IF pieces[i] = Gap THEN s[i] \in declared ELSE s[i] = pieces[i]}

\* Faulty variant of Closed: a line without a last blank loses a piece.
ClosedNot(pieces) == Front(pieces)

\* pagerank closes the line with a blank if there is none; so it does with
\* an empty rest.  The loops take the pieces that are followed by a blank.
Closed(pieces) ==
  IF Last(pieces) # Gap \/ pieces = <<Gap>> THEN pieces ELSE Front(pieces)

\* The vertex and the links read_data finds, where several are possible; none
\* if a conversion throws.  pagerank returns from a line without a tab and
\* leaves the vertex uninitialized.
pagerank_read(l) ==
  IF l.tab THEN {l.key} \X Targets(Closed(l.pieces), Leftovers)
  ELSE Leftovers \X {<< >>}

\* The others convert a line without a tab to a number, and find no links.
Unlinked(l) == IF l.pieces = <<Gap>> THEN {<<l.key, << >>>>} ELSE {}

katz_read(l) ==
  IF l.tab THEN {l.key} \X Targets(Front(l.pieces), Leftovers) ELSE Unlinked(l)

\* The variable is declared as Link(0, 0).
shortestpath_read(l) ==
  IF l.tab THEN {l.key} \X Targets(Front(l.pieces), {0}) ELSE Unlinked(l)

adsorption_read(l) ==
  IF l.tab THEN {l.key} \X Targets(Front(l.pieces), {0}) ELSE Unlinked(l)

read_data(l) ==
  CASE program = "pagerank"     -> pagerank_read(l)
    [] program = "katz"         -> katz_read(l)
    [] program = "shortestpath" -> shortestpath_read(l)
    [] program = "adsorption"   -> adsorption_read(l)

\* Rows with all the links a program may find in a line, and no others.
ASSUME LinkedRowsAssumption ==
  /\ \A r \in Rows :
       /\ r = [links |-> r.links, begins |-> r.begins, changed |-> r.changed]
       /\ r.links \in Seq(Keys) /\ r.begins \in BOOLEAN /\ r.changed \in BOOLEAN
       /\ [r EXCEPT !.changed = TRUE] \in Rows
  /\ \A l \in TextLines :
       \A found \in pagerank_read(l) \cup katz_read(l)
                    \cup shortestpath_read(l) \cup adsorption_read(l) :
         \A begins \in BOOLEAN :
           [links |-> found[2], begins |-> begins, changed |-> FALSE] \in Rows

-----------------------------------------------------------------------------
(* init_c of the four programs, and the option each reads for it.          *)

maiter == MaiterKernel(loadconfig(conf_file))

Source(name) == get_config_option_long(loadconfig(conf_file), name, 0)

\* Whether the first delta of a vertex is another than the default, so that
\* there is something to add to its value and to spread.
pagerank_init_c(k) == TRUE
shortestpath_init_c(k) == k = Source("SHORTESTPATH")
katz_init_c(k) == k = Source("katz_source")

\* Nobody assigns adsorption_starts: it is 0.
adsorption_init_c(k) == k < 0

init_c(k) ==
  CASE program = "pagerank"     -> pagerank_init_c(k)
    [] program = "katz"         -> katz_init_c(k)
    [] program = "shortestpath" -> shortestpath_init_c(k)
    [] program = "adsorption"   -> adsorption_init_c(k)

\* A row after init_v and init_c; changed when a thread has written to it.
NewRow(k, links) == [links |-> links, begins |-> init_c(k), changed |-> FALSE]

-----------------------------------------------------------------------------
LoadingInit ==
  /\ Init
  /\ program \in Programs
  /\ conf_file \in ConfFiles \cup {NoFile}
  /\ num_threads = 0 /\ line = 0 /\ vertexlocks = 0 /\ read = {}

\* maiter_init and the constructor of MaiterKernel.
Configure ==
  /\ conf_file # NoFile
  /\ Configured(maiter.num_nodes)
  /\ num_threads' = maiter.num_threads
  /\ UNCHANGED <<program, conf_file, line, vertexlocks, read>>

Die == Ended("dead") /\ UNCHANGED loading

\* assert(f != NULL) of loadconfig fails.
ConfigureFails == phase = "start" /\ conf_file = NoFile /\ Die

Prepare == (InitTable \/ InitTableFails) /\ UNCHANGED loading

put(k, row) == Put(k, row) \/ PutExpanding(k, row)

\* A line of read_file.
ReadLine(l) ==
  /\ line < MaxLines
  /\ \E found \in read_data(l) : put(found[1], NewRow(found[1], found[2]))
  /\ line' = line + 1
  /\ read' = read \cup {l}
  /\ UNCHANGED <<program, conf_file, num_threads, vertexlocks>>

\* exit(1) without an input file.
CannotOpen ==
  /\ phase = "load" /\ line = 0
  /\ Ended("exit")
  /\ UNCHANGED loading

\* lexical_cast throws and nobody catches it.
ReadFails(l) ==
  /\ phase = "load" /\ line < MaxLines
  /\ read_data(l) = {}
  /\ Ended("dead")
  /\ read' = read \cup {l}
  /\ UNCHANGED <<program, conf_file, num_threads, line, vertexlocks>>

\* A fatal log line, which throws.
TooManyThreads ==
  /\ phase = "load" /\ num_threads > line
  /\ Die

\* A mutex for each of the first n vertices.
Vertexlock(n) == vertexlocks' = n

\* The second phase begins.
Start ==
  /\ num_threads <= line
  /\ Loaded
  /\ Vertexlock(line)
  /\ UNCHANGED <<program, conf_file, num_threads, line, read>>

\* The vertices run_iter locks, for any row: the vertex and its links.
Locked ==
  UNION {{table.buckets[b].k} \cup ToSet(table.buckets[b].v.links) :
           b \in {c \in Positions(table) : table.buckets[c] # Free}}

Changed == {k \in Keys : Found[k] # NoRow /\ Found[k].changed}

\* Without execute threads the schedule thread divides the positions by 0.  A
\* negative number of them is not refused either: an array of that length is
\* declared, and the empty interval table is written far beyond its end.  The
\* process dies of it unless the computation is over before.
NoThreads == phase = "run" /\ num_threads <= 0 /\ Die

\* Under the lock a thread changes the row, but not its links, or fails when
\* there is no such row.
Touch(k) ==
  /\ phase = "run" /\ num_threads > 0 /\ k < vertexlocks
  /\ Cardinality(Changed \cup {k}) <= MaxChanges
  /\ \/ contains(table, k)
        /\ Modify(k, [get(table, k) EXCEPT !.changed = TRUE])
     \/ ModifyMissing(k)
  /\ UNCHANGED loading

\* There is no such mutex: what is locked lies behind the array.
TouchBeyond(k) ==
  /\ phase = "run" /\ num_threads > 0 /\ k >= vertexlocks
  /\ Die

LoadingNext ==
  \/ Configure \/ ConfigureFails \/ Prepare
  \/ CannotOpen \/ TooManyThreads \/ Start \/ NoThreads
  \/ \E l \in TextLines : ReadLine(l) \/ ReadFails(l)
  \/ \E k \in Locked : Touch(k) \/ TouchBeyond(k)

-----------------------------------------------------------------------------
(* Properties.                                                             *)

LoadingTypeOK ==
  /\ TypeOK
  /\ program \in Programs /\ conf_file \in ConfFiles \cup {NoFile}
  /\ num_threads \in Int
  /\ line \in 0 .. MaxLines
  /\ vertexlocks \in 0 .. MaxLines
  /\ read \subseteq TextLines

\* The links a line lists, without the blank at its end.
Listed(l) == IF Last(l.pieces) = Gap THEN Front(l.pieces) ELSE l.pieces

\* A line whose links the program reads as they are listed: a tab, no double
\* blanks, a blank at the end (which pagerank does without).
Proper(l) ==
  /\ l.tab
  /\ Gap \notin ToSet(Listed(l))
  /\ IF program = "pagerank" THEN Listed(l) # << >> ELSE Last(l.pieces) = Gap

\* The input is as in input/pagerank: the vertices have the numbers from 0
\* on, in any order, one proper line each, and link to one another.
WellFormed ==
  /\ \A l \in read : Proper(l) /\ ToSet(Listed(l)) \subseteq 0 .. line - 1
  /\ {l.key : l \in read} = 0 .. line - 1

\* The vertices where the computation begins: everywhere in pagerank, nowhere
\* in adsorption, at the source the configuration names in the others.
Beginning ==
  {k \in 0 .. line - 1 :
     \/ program = "pagerank"
     \/ program = "katz" /\ k = Source("katz_source")
     \/ program = "shortestpath" /\ k = Source("SHORTESTPATH")}

\* If such an input has no more vertices than NODES says, the table has just
\* its rows, and the computation begins where it should: what no blank, tab,
\* collision or order of lines may change.
WellLoaded ==
  phase = "run" /\ WellFormed /\ Fits =>
    /\ \A l \in read : Found[l.key] # NoRow /\ Found[l.key].links = Listed(l)
    /\ {k \in Keys : Found[k] # NoRow /\ Found[k].begins} = Beginning
    /\ Cardinality(InUse) = line

\* The configuration file gives a setting with a number of at least 1, which
\* no later setting replaces.
Sets(l, name) ==
  ~l.comment /\ Len(l.tokens) > 1 /\ l.tokens[1].text.word = name

Gives(name) ==
  \E i \in DOMAIN conf_file :
    /\ Sets(conf_file[i], name)
    /\ conf_file[i].tokens[2].text.number >= 100
    /\ \A j \in i + 1 .. Len(conf_file) : ~Sets(conf_file[j], name)

WellConfigured == conf_file # NoFile /\ Gives("THREADS") /\ Gives("NODES")

\* ... the threads find a mutex and a row wherever the links lead; if also the
\* configuration has the two numbers without which nothing works, the program
\* ends early only when it has more threads than lines.
NeverDies ==
  phase = "dead" /\ WellConfigured /\ WellFormed /\ Fits => num_threads > line

=============================================================================
