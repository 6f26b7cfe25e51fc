---------------------------- MODULE Kernel_proofs ----------------------------
(***************************************************************************)
(* For every set of keys, lines, configurations and programs: the phases   *)
(* use the state table as its specification says, a well-formed input is   *)
(* loaded as it stands and leads no thread to a row or mutex that is not   *)
(* there, and the result file has what was last written.                   *)
(***************************************************************************)
EXTENDS Kernel, StateTable_proofs

-----------------------------------------------------------------------------
(* What read_data finds.                                                   *)

\* A vertex, and links such that a row with them can be put.
LEMMA FindsRows ==
  ASSUME program \in Programs, NEW l \in TextLines, NEW found \in read_data(l)
  PROVE  found[1] \in Keys /\ NewRow(found[1], found[2]) \in Rows
<1>1. found \in pagerank_read(l) \cup katz_read(l)
                \cup shortestpath_read(l) \cup adsorption_read(l)
  BY ProgramsAssumption DEF read_data
<1>2. l.key \in Keys
  BY LinesAssumption
<1>3. found[1] \in Keys
  BY <1>1, <1>2, LeftoversAssumption
     DEF pagerank_read, katz_read, shortestpath_read, adsorption_read, Unlinked
<1>4. init_c(found[1]) \in BOOLEAN
  <2>1. /\ pagerank_init_c(found[1]) \in BOOLEAN
        /\ katz_init_c(found[1]) \in BOOLEAN
        /\ shortestpath_init_c(found[1]) \in BOOLEAN
        /\ adsorption_init_c(found[1]) \in BOOLEAN
    BY DEF pagerank_init_c, katz_init_c, shortestpath_init_c, adsorption_init_c
  <2>. QED
    BY <2>1, ProgramsAssumption DEF init_c
<1>. QED
  BY <1>1, <1>3, <1>4, LinkedRowsAssumption DEF NewRow

-----------------------------------------------------------------------------
(* Every step of the phases is a step of the state table.                  *)

PhasesInv ==
  /\ FitsInv
  /\ program \in Programs /\ conf_file \in ConfFiles \cup {NoFile}
  /\ num_threads \in Int
  /\ line \in 0 .. MaxLines
  /\ vertexlocks \in 0 .. MaxLines
  /\ read \subseteq TextLines
  /\ result # NoFile => phase = "done" /\ result = Dumped(table)

\* The constructor of MaiterKernel takes numbers from the configuration.
LEMMA ConfiguredWell ==
  ASSUME conf_file \in ConfFiles \cup {NoFile}, Configure
  PROVE  maiter.num_nodes \in NodeCounts /\ maiter.num_threads \in Int
BY ConfigurationsAssumption DEF Configure, maiter

\* A row of the table is the one last written under its key.
LEMMA RowsUsed ==
  ASSUME TableInv, NEW b \in UsedIn(table)
  PROVE  /\ table.buckets[b].k \in Keys /\ table.buckets[b].v \in Rows
         /\ table.buckets[b].v = written[table.buckets[b].k]
BY RowTypes DEF TableInv, GoodTable, Current, UsedIn

\* What get returns for a row that is there.
LEMMA Got ==
  ASSUME TableInv, NEW k \in Keys, contains(table, k)
  PROVE  get(table, k) \in Rows /\ get(table, k) = written[k]
<1>1. table.size \in Nat \ {0} /\ k \in Nat
  BY KeysAssumption DEF TableInv, GoodTable, IsTable
<1> DEFINE b == ProbeEnd(table, k)
<1>2. bucket_for_key(table, k) = b /\ Holds(table, b, k) /\ b \in Positions(table)
  BY <1>1, ProbePosition DEF contains, bucket_for_key
<1>3. b \in UsedIn(table) /\ table.buckets[b].k = k
  BY <1>2 DEF Holds, UsedIn
<1>. QED
  BY <1>2, <1>3, RowsUsed DEF get

\* Threads lock vertices.
LEMMA LockedAreKeys ==
  ASSUME TableInv
  PROVE  Locked \subseteq Keys
<1>1. ASSUME NEW b \in Positions(table), table.buckets[b] # Free
      PROVE  {table.buckets[b].k} \cup ToSet(table.buckets[b].v.links) \subseteq Keys
  <2>1. table.buckets[b].k \in Keys /\ table.buckets[b].v \in Rows
    BY <1>1, RowsUsed DEF UsedIn
  <2>2. table.buckets[b].v.links \in Seq(Keys)
    BY <2>1, LinkedRowsAssumption
  <2>. QED
    BY <2>1, <2>2 DEF ToSet
<1>. QED
  BY <1>1 DEF Locked

\* Each action of the phases maps to a step of the table.
LEMMA StepOfTable ==
  ASSUME PhasesInv, [KernelNext]_kernelVars
  PROVE  [Next]_vars
<1>1. CASE Configure
  BY <1>1, ConfiguredWell DEF PhasesInv, Configure, Next
<1>2. CASE ConfigureFails \/ TooManyThreads \/ NoThreads \/ CannotOpen
  BY <1>2 DEF ConfigureFails, TooManyThreads, NoThreads, CannotOpen, Die, Next
<1>3. CASE Prepare \/ Start
  BY <1>3 DEF Prepare, Start, Next
<1>4. ASSUME NEW l \in TextLines, ReadLine(l) PROVE Next
  <2>1. PICK found \in read_data(l) : put(found[1], NewRow(found[1], found[2]))
    BY <1>4 DEF ReadLine
  <2>2. found[1] \in Keys /\ NewRow(found[1], found[2]) \in Rows
    BY FindsRows DEF PhasesInv
  <2>. QED
    BY <2>1, <2>2 DEF put, Next
<1>5. ASSUME NEW l \in TextLines, ReadFails(l) PROVE Next
  BY <1>5 DEF ReadFails, Next
<1>6. ASSUME NEW k \in Locked, Touch(k) PROVE Next
  <2>1. TableInv /\ k \in Keys
    BY LockedAreKeys DEF PhasesInv, FitsInv
  <2>2. ASSUME contains(table, k) PROVE [get(table, k) EXCEPT !.changed = TRUE] \in Rows
    BY <2>1, <2>2, Got, LinkedRowsAssumption
  <2>. QED
    BY <1>6, <2>1, <2>2 DEF Touch, Next
<1>7. ASSUME NEW k \in Locked, TouchBeyond(k) PROVE Next
  BY <1>7 DEF TouchBeyond, Die, Next
<1>8. CASE Dump
  BY <1>8 DEF Dump, Next
<1>9. CASE UNCHANGED kernelVars
  BY <1>9 DEF kernelVars, allVars, vars
<1>. QED
  BY <1>1, <1>2, <1>3, <1>4, <1>5, <1>6, <1>7, <1>8, <1>9 DEF KernelNext, LoadingNext

\* Nothing happens when the program has ended.
LEMMA NothingAfterTheEnd ==
  ASSUME phase \in {"done", "exit", "dead"}
  PROVE  ~KernelNext
<1>1. ~Configure /\ ~ConfigureFails /\ ~CannotOpen /\ ~TooManyThreads /\ ~NoThreads
  BY DEF Configure, Configured, ConfigureFails, CannotOpen, TooManyThreads, NoThreads
<1>2. ~Prepare /\ ~Start /\ ~Dump
  BY DEF Prepare, InitTable, InitTableFails, Start, Loaded, Dump, Finished
<1>3. \A l \in TextLines : ~ReadLine(l) /\ ~ReadFails(l)
  BY DEF ReadLine, put, Put, PutExpanding, ReadFails
<1>4. \A k \in Locked : ~Touch(k) /\ ~TouchBeyond(k)
  BY DEF Touch, TouchBeyond
<1>. QED
  BY <1>1, <1>2, <1>3, <1>4 DEF KernelNext, LoadingNext

\* PhasesInv holds at first.
LEMMA PhasesInvInit == KernelInit => PhasesInv
<1> SUFFICES ASSUME KernelInit PROVE PhasesInv
  OBVIOUS
<1>1. FitsInv
  BY FitsInvInit DEF KernelInit, LoadingInit
<1>. QED
  BY <1>1, BoundsAssumption DEF KernelInit, LoadingInit, PhasesInv

\* Every step keeps PhasesInv.
LEMMA PhasesInvNext == PhasesInv /\ [KernelNext]_kernelVars => PhasesInv'
<1> SUFFICES ASSUME PhasesInv, [KernelNext]_kernelVars PROVE PhasesInv'
  OBVIOUS
<1>1. FitsInv'
  BY StepOfTable, FitsInvNext DEF PhasesInv
<1>2. CASE Configure /\ UNCHANGED result
  BY <1>1, <1>2, ConfiguredWell, NothingAfterTheEnd
     DEF PhasesInv, Configure, Configured
<1>3. ASSUME UNCHANGED <<loading, result>>, phase # "done" PROVE PhasesInv'
  BY <1>1, <1>3 DEF PhasesInv, loading
<1>4. CASE KernelNext /\ ~Dump /\ UNCHANGED loading
  BY <1>3, <1>4, NothingAfterTheEnd DEF KernelNext
<1>5. CASE Start /\ UNCHANGED result
  BY <1>1, <1>5 DEF PhasesInv, Start, Loaded, Vertexlock
<1>6. ASSUME NEW l \in TextLines, ReadLine(l), UNCHANGED result PROVE PhasesInv'
  <2>1. phase = "load"
    BY <1>6 DEF ReadLine, put, Put, PutExpanding
  <2>2. line' \in 0 .. MaxLines
    BY <1>6, BoundsAssumption DEF PhasesInv, ReadLine
  <2>. QED
    BY <1>1, <1>6, <2>1, <2>2 DEF PhasesInv, ReadLine
<1>7. ASSUME NEW l \in TextLines, ReadFails(l), UNCHANGED result PROVE PhasesInv'
  BY <1>1, <1>7 DEF PhasesInv, ReadFails
<1>8. CASE Dump
  BY <1>1, <1>8 DEF PhasesInv, Dump, Finished, loading
<1>9. CASE UNCHANGED kernelVars
  BY <1>1, <1>9 DEF PhasesInv, kernelVars, allVars, vars, loading
<1>10. ~Dump /\ KernelNext =>
         \/ (Configure \/ Start) /\ UNCHANGED result
         \/ \E l \in TextLines : (ReadLine(l) \/ ReadFails(l)) /\ UNCHANGED result
         \/ UNCHANGED loading
  BY DEF KernelNext, LoadingNext, ConfigureFails, Prepare, CannotOpen, TooManyThreads,
         NoThreads, Touch, TouchBeyond, Die
<1>. QED
  BY <1>2, <1>4, <1>5, <1>6, <1>7, <1>8, <1>9, <1>10

\* PhasesInv is an invariant.
LEMMA PhasesInvariance == KernelSpec => []PhasesInv
BY PhasesInvInit, PhasesInvNext, PTL DEF KernelSpec

\* MaiterKernel1, 2 and 3 use the table as its interface allows: whatever the
\* input, the configuration and the program, what they do to it is a behaviour
\* of the state table.
THEOREM KernelUsesTable == KernelSpec => Spec
<1>1. KernelInit => Init
  BY DEF KernelInit, LoadingInit
<1>2. PhasesInv /\ [KernelNext]_kernelVars => [Next]_vars
  BY StepOfTable
<1>. QED
  BY <1>1, <1>2, PhasesInvariance, PTL DEF KernelSpec, Spec

\* ... so that rows stay reachable, current and counted during the phases,
THEOREM KernelKeepsRows == KernelSpec => []RowsReachable /\ []RowsCurrent /\ []CountRight
BY KernelUsesTable, TableRowsReachable, TableRowsCurrent, TableCountRight

\* ... and the phases, too, find the rows of a map as long as the keys fit.
THEOREM KernelImplementsRowMap == KernelSpec => ImplementsRowMap
BY KernelUsesTable, TableImplementsRowMap

-----------------------------------------------------------------------------
(* Types.                                                                  *)

\* kernel.h, MaiterKernel1 to 3: the variables of the phases keep their types;
\* no more mutexes are created than there are lines, and the result file has
\* keys and values of buckets of the table.
THEOREM KernelTypes == KernelSpec => []KernelTypeOK
<1>1. TableInv => TypeOK
  BY DEF TableInv, TypeOK, GoodTable, IsTable
<1>2. ASSUME TableInv, result = Dumped(table)
      PROVE  /\ DOMAIN result \subseteq Positions(table)
             /\ \A b \in DOMAIN result : result[b] \in Keys \X BOOLEAN
  <2>1. DOMAIN result = UsedIn(table)
    BY <1>2 DEF Dumped, UsedIn
  <2>2. ASSUME NEW b \in UsedIn(table) PROVE result[b] \in Keys \X BOOLEAN
    <3>1. table.buckets[b].k \in Keys /\ table.buckets[b].v \in Rows
      BY <1>2, RowsUsed
    <3>2. table.buckets[b].v.changed \in BOOLEAN
      BY <3>1, LinkedRowsAssumption
    <3>3. result[b] = <<table.buckets[b].k, table.buckets[b].v.changed>>
      BY <1>2 DEF Dumped, UsedIn
    <3>. QED
      BY <3>1, <3>2, <3>3
  <2>. QED
    BY <2>1, <2>2 DEF UsedIn
<1>3. PhasesInv => KernelTypeOK
  BY <1>1, <1>2 DEF PhasesInv, FitsInv, KernelTypeOK, LoadingTypeOK
<1>. QED
  BY <1>3, PhasesInvariance, PTL

-----------------------------------------------------------------------------
(* Where the rows come from: each from a line, with the links found in it  *)
(* and the first delta of its vertex, whatever the threads have changed.   *)

ComesFrom(k, row, l) ==
  \E found \in read_data(l) :
    found[1] = k /\ row.links = found[2] /\ row.begins = init_c(k)

SourceInv ==
  /\ PhasesInv
  /\ \A k \in WrittenKeys(written) : \E l \in read : ComesFrom(k, written[k], l)
  /\ phase # "dead" =>
       /\ \A l \in read : l.tab => l.key \in WrittenKeys(written)
       /\ IsFiniteSet(read) /\ Cardinality(read) <= line

\* SourceInv holds at first.
LEMMA SourceInvInit == KernelInit => SourceInv
<1> SUFFICES ASSUME KernelInit PROVE SourceInv
  OBVIOUS
<1>1. WrittenKeys(written) = {}
  BY DEF KernelInit, LoadingInit, Init, WrittenKeys
<1>2. read = {} /\ line = 0
  BY DEF KernelInit, LoadingInit
<1>. QED
  BY <1>1, <1>2, PhasesInvInit, FS_EmptySet DEF SourceInv

\* A line with a tab is about the vertex it names.
LEMMA VertexOfLine ==
  ASSUME program \in Programs, NEW l \in TextLines, l.tab, NEW found \in read_data(l)
  PROVE  found[1] = l.key
<1>1. found \in pagerank_read(l) \cup katz_read(l)
                \cup shortestpath_read(l) \cup adsorption_read(l)
  BY ProgramsAssumption DEF read_data
<1>. QED
  BY <1>1 DEF pagerank_read, katz_read, shortestpath_read, adsorption_read

\* A row written is the only change of what is written.
LEMMA WrittenAfter ==
  ASSUME TableInv, NEW k \in Keys, NEW v \in Rows, Wrote(k, v)
  PROVE  /\ WrittenKeys(written') = WrittenKeys(written) \cup {k}
         /\ written'[k] = v
         /\ \A j \in Keys : j # k => written'[j] = written[j]
<1>1. v # NoRow
  BY RowsAssumption
<1>. QED
  BY <1>1 DEF TableInv, Wrote, WrittenKeys

\* Where a row comes from depends only on the program and its configuration.
LEMMA StillComesFrom ==
  ASSUME UNCHANGED <<program, conf_file>>
  PROVE  \A k, row, l : ComesFrom(k, row, l) => ComesFrom(k, row, l)'
<1>1. \A l : read_data(l)' = read_data(l)
  BY DEF read_data
<1>2. \A k : init_c(k)' = init_c(k)
  BY DEF init_c, katz_init_c, shortestpath_init_c, Source
<1>. QED
  BY <1>1, <1>2 DEF ComesFrom

\* A line that is read is where its row comes from.
LEMMA SourceInvReadLine ==
  ASSUME SourceInv, PhasesInv', NEW l \in TextLines, ReadLine(l)
  PROVE  SourceInv'
<1>1. PICK found \in read_data(l) : put(found[1], NewRow(found[1], found[2]))
  BY DEF ReadLine
<1>0. PICK k, row : k = found[1] /\ row = NewRow(k, found[2])
  OBVIOUS
<1>2. program \in Programs /\ TableInv
  BY DEF SourceInv, PhasesInv, FitsInv
<1>3. k \in Keys /\ row \in Rows
  BY <1>0, <1>2, FindsRows
<1>4. Wrote(k, row) /\ phase = "load" /\ phase' = "load"
  BY <1>0, <1>1 DEF put, Put, PutExpanding
<1>5. row.links = found[2] /\ row.begins = init_c(k)
  BY <1>0 DEF NewRow
<1>6. /\ read' = read \cup {l} /\ line' = line + 1
      /\ UNCHANGED <<program, conf_file>>
  BY DEF ReadLine
<1>7. l.tab => k = l.key
  BY <1>0, <1>2, VertexOfLine
<1>8. /\ WrittenKeys(written') = WrittenKeys(written) \cup {k}
      /\ written'[k] = row
      /\ \A j \in Keys : j # k => written'[j] = written[j]
  BY <1>2, <1>3, <1>4, WrittenAfter
<1>9. ComesFrom(k, row, l)
  BY <1>0, <1>1, <1>5 DEF ComesFrom
<1>10. \A j, r, m : ComesFrom(j, r, m) => ComesFrom(j, r, m)'
  BY <1>6, StillComesFrom
<1>11. \A j \in WrittenKeys(written') : \E m \in read' : ComesFrom(j, written[j], m)'
  <2> SUFFICES ASSUME NEW j \in WrittenKeys(written')
               PROVE  \E m \in read' : ComesFrom(j, written[j], m)'
    OBVIOUS
  <2>1. CASE j = k
    <3>1. ComesFrom(k, row, l)'
      BY <1>9, <1>10
    <3>. QED
      BY <1>6, <1>8, <2>1, <3>1 DEF ComesFrom
  <2>2. CASE j # k
    <3>1. j \in WrittenKeys(written) /\ j \in Keys
      BY <1>8, <2>2 DEF WrittenKeys
    <3>2. PICK m \in read : ComesFrom(j, written[j], m)
      BY <3>1 DEF SourceInv
    <3>3. written'[j] = written[j]
      BY <1>8, <2>2, <3>1
    <3>. QED
      BY <1>6, <1>10, <3>2, <3>3 DEF ComesFrom
  <2>. QED
    BY <2>1, <2>2
<1>12. \A m \in read' : m.tab => m.key \in WrittenKeys(written')
  BY <1>4, <1>6, <1>7, <1>8 DEF SourceInv
<1>13. IsFiniteSet(read') /\ Cardinality(read') <= line'
  <2>1. IsFiniteSet(read) /\ Cardinality(read) <= line /\ line \in Nat
    BY <1>4, BoundsAssumption DEF SourceInv, PhasesInv
  <2>2. Cardinality(read) \in Nat
    BY <2>1, FS_CardinalityType
  <2>3. /\ IsFiniteSet(read \cup {l})
        /\ \/ Cardinality(read \cup {l}) = Cardinality(read)
           \/ Cardinality(read \cup {l}) = Cardinality(read) + 1
    BY <2>1, FS_AddElement
  <2>. QED
    BY <1>6, <2>1, <2>2, <2>3
<1>. QED
  BY <1>11, <1>12, <1>13 DEF SourceInv

\* A thread changes neither the links of a row nor its first delta.
LEMMA SourceInvTouch ==
  ASSUME SourceInv, PhasesInv', NEW k \in Keys, contains(table, k),
         Modify(k, [get(table, k) EXCEPT !.changed = TRUE]),
         UNCHANGED <<program, conf_file, line, read>>
  PROVE  SourceInv'
<1>0. PICK row : row = [get(table, k) EXCEPT !.changed = TRUE]
  OBVIOUS
<1>1. TableInv
  BY DEF SourceInv, PhasesInv, FitsInv
<1>2. get(table, k) \in Rows /\ get(table, k) = written[k]
  BY <1>1, Got
<1>3. k \in WrittenKeys(written)
  BY <1>2, RowsAssumption DEF WrittenKeys
<1>4. row \in Rows /\ row.links = written[k].links /\ row.begins = written[k].begins
  <2>1. /\ written[k] \in Rows
        /\ written[k] = [links |-> written[k].links, begins |-> written[k].begins,
                         changed |-> written[k].changed]
    BY <1>2, LinkedRowsAssumption
  <2>. QED
    BY <1>0, <1>2, <2>1, LinkedRowsAssumption
<1>5. Wrote(k, row) /\ phase = "run" /\ phase' = "run"
  BY <1>0 DEF Modify
<1>6. /\ WrittenKeys(written') = WrittenKeys(written)
      /\ written'[k] = row
      /\ \A j \in Keys : j # k => written'[j] = written[j]
  BY <1>1, <1>3, <1>4, <1>5, WrittenAfter
<1>7. \A j, r, m : ComesFrom(j, r, m) => ComesFrom(j, r, m)'
  BY StillComesFrom
<1>8. \A j \in WrittenKeys(written') : \E m \in read' : ComesFrom(j, written[j], m)'
  <2> SUFFICES ASSUME NEW j \in WrittenKeys(written')
               PROVE  \E m \in read' : ComesFrom(j, written[j], m)'
    OBVIOUS
  <2>1. PICK m \in read : ComesFrom(j, written[j], m)
    BY <1>6 DEF SourceInv
  <2>2. /\ written'[j].links = written[j].links
        /\ written'[j].begins = written[j].begins
    BY <1>4, <1>6 DEF WrittenKeys
  <2>3. ComesFrom(j, written[j], m)'
    <3>1. \A r : ComesFrom(j, r, m)' <=>
            \E found \in read_data(m)' :
              found[1] = j /\ r.links = found[2] /\ r.begins = init_c(j)'
      BY DEF ComesFrom
    <3>2. PICK r : r = written[j]
      OBVIOUS
    <3>3. ComesFrom(j, r, m)'
      BY <1>7, <2>1, <3>2
    <3>. QED
      BY <2>2, <3>2, <3>3 DEF ComesFrom
  <2>. QED
    BY <2>3
<1>9. \A m \in read' : m.tab => m.key \in WrittenKeys(written')
  BY <1>5, <1>6 DEF SourceInv
<1>10. IsFiniteSet(read') /\ Cardinality(read') <= line'
  BY <1>5 DEF SourceInv
<1>. QED
  BY <1>8, <1>9, <1>10 DEF SourceInv

\* Every step keeps SourceInv.
LEMMA SourceInvNext == SourceInv /\ [KernelNext]_kernelVars => SourceInv'
<1> SUFFICES ASSUME SourceInv, [KernelNext]_kernelVars PROVE SourceInv'
  OBVIOUS
<1>1. PhasesInv'
  BY PhasesInvNext DEF SourceInv
<1>2. ASSUME NEW l \in TextLines, ReadLine(l) PROVE SourceInv'
  BY <1>1, <1>2, SourceInvReadLine
<1>3. ASSUME NEW k \in Locked, Touch(k), ~UNCHANGED written PROVE SourceInv'
  <2>1. k \in Keys
    BY LockedAreKeys DEF SourceInv, PhasesInv, FitsInv
  <2>2. /\ contains(table, k)
        /\ Modify(k, [get(table, k) EXCEPT !.changed = TRUE])
        /\ UNCHANGED <<program, conf_file, line, read>>
    BY <1>3 DEF Touch, ModifyMissing, loading
  <2>. QED
    BY <1>1, <2>1, <2>2, SourceInvTouch
<1>4. ASSUME UNCHANGED <<written, program, conf_file, line>>, read \subseteq read',
             phase' # "dead" => phase # "dead" /\ UNCHANGED read
      PROVE  SourceInv'
  <2>1. \A j \in WrittenKeys(written') : \E m \in read' : ComesFrom(j, written[j], m)'
    <3> SUFFICES ASSUME NEW j \in WrittenKeys(written')
                 PROVE  \E m \in read' : ComesFrom(j, written[j], m)'
      OBVIOUS
    <3>1. PICK m \in read : ComesFrom(j, written[j], m)
      BY <1>4 DEF SourceInv
    <3>2. PICK r : r = written[j]
      OBVIOUS
    <3>3. ComesFrom(j, r, m)'
      BY <1>4, <3>1, <3>2, StillComesFrom
    <3>. QED
      BY <1>4, <3>1, <3>2, <3>3 DEF ComesFrom
  <2>. QED
    BY <1>1, <1>4, <2>1 DEF SourceInv
<1>5. CASE UNCHANGED kernelVars
  BY <1>4, <1>5 DEF kernelVars, allVars, vars, loading
<1>6. phase # "dead" \/ UNCHANGED kernelVars
  BY NothingAfterTheEnd
<1>7. CASE Configure \/ ConfigureFails \/ Prepare \/ Start
  BY <1>4, <1>7
     DEF Configure, Configured, ConfigureFails, Prepare, InitTable, InitTableFails,
         Start, Loaded, Die, Ended, loading
<1>8. CASE CannotOpen \/ TooManyThreads \/ NoThreads \/ Dump
  BY <1>4, <1>8
     DEF CannotOpen, TooManyThreads, NoThreads, Dump, Finished, Die, Ended, loading
<1>9. ASSUME NEW l \in TextLines, ReadFails(l) PROVE SourceInv'
  BY <1>4, <1>9 DEF ReadFails, Ended
<1>10. ASSUME NEW k \in Locked, Touch(k) \/ TouchBeyond(k), UNCHANGED written
       PROVE  SourceInv'
  <2>1. phase = "run" /\ UNCHANGED loading
    BY <1>10 DEF Touch, TouchBeyond, Die
  <2>. QED
    BY <1>4, <1>10, <2>1 DEF loading
<1>11. ASSUME NEW k \in Locked, TouchBeyond(k) PROVE UNCHANGED written
  BY <1>11 DEF TouchBeyond, Die, Ended
<1>. QED
  BY <1>2, <1>3, <1>5, <1>7, <1>8, <1>9, <1>10, <1>11 DEF KernelNext, LoadingNext

\* SourceInv is an invariant.
LEMMA SourceInvariance == KernelSpec => []SourceInv
BY SourceInvInit, SourceInvNext, PTL DEF KernelSpec

-----------------------------------------------------------------------------
(* A well-formed input.                                                    *)

\* Between numbers no variable keeps the value it had.
LEMMA NumbersOnly ==
  ASSUME NEW s \in Seq(Keys \cup {Gap}), Gap \notin ToSet(s), NEW declared,
         NEW links \in Targets(s, declared)
  PROVE  links = s
<1>1. \A i \in DOMAIN s : links[i] = s[i]
  BY DEF Targets, ToSet
<1>2. links \in [DOMAIN s -> Keys] /\ s \in [DOMAIN s -> Keys \cup {Gap}]
  BY DEF Targets
<1>. QED
  BY <1>1, <1>2

\* The links found in a proper line are those listed.
LEMMA LinksOfLine ==
  ASSUME program \in Programs, NEW l \in TextLines, Proper(l), NEW found \in read_data(l)
  PROVE  found[2] = Listed(l)
<1>1. l.pieces \in Seq(Keys \cup {Gap}) /\ l.pieces # << >> /\ l.tab
  BY LinesAssumption DEF Proper
<1>2. Front(l.pieces) \in Seq(Keys \cup {Gap})
  BY <1>1 DEF Front
<1>3. Listed(l) \in Seq(Keys \cup {Gap}) /\ Gap \notin ToSet(Listed(l))
  BY <1>1, <1>2 DEF Listed, Proper
<1>4. CASE program = "pagerank"
  <2>1. l.pieces = <<Gap>> => Listed(l) = << >>
    BY DEF Listed, Last, Front
  <2>2. Closed(l.pieces) = Listed(l)
    BY <1>4, <2>1 DEF Proper, Closed, Listed
  <2>3. found[2] \in Targets(Listed(l), Leftovers)
    BY <1>1, <1>4, <2>2 DEF read_data, pagerank_read
  <2>. QED
    BY <1>3, <2>3, NumbersOnly
<1>5. CASE program # "pagerank"
  <2>1. Front(l.pieces) = Listed(l)
    BY <1>5 DEF Proper, Listed
  <2>2. \E declared : found[2] \in Targets(Listed(l), declared)
    BY <1>1, <1>5, <2>1, ProgramsAssumption
       DEF read_data, katz_read, shortestpath_read, adsorption_read
  <2>. QED
    BY <1>3, <2>2, NumbersOnly
<1>. QED
  BY <1>4, <1>5

\* No two lines of a well-formed input are about one vertex.
LEMMA OneLineEach ==
  ASSUME SourceInv, phase # "dead", WellFormed
  PROVE  /\ WrittenKeys(written) = 0 .. line - 1
         /\ \A l \in read, m \in read : l.key = m.key => l = m
<1>1. line \in Nat /\ program \in Programs /\ read \subseteq TextLines
  BY BoundsAssumption DEF SourceInv, PhasesInv
<1>2. \A l \in read : l.tab /\ l.key \in 0 .. line - 1
  BY DEF WellFormed, Proper
<1>3. \A k \in 0 .. line - 1 : \E l \in read : l.key = k
  BY DEF WellFormed
<1>4. 0 .. line - 1 \subseteq WrittenKeys(written)
  BY <1>2, <1>3 DEF SourceInv
<1>5. ASSUME NEW k \in WrittenKeys(written) PROVE k \in 0 .. line - 1
  <2>1. PICK l \in read : ComesFrom(k, written[k], l)
    BY DEF SourceInv
  <2>2. l.key = k
    BY <1>1, <1>2, <2>1, VertexOfLine DEF ComesFrom
  <2>. QED
    BY <1>2, <2>2
<1> DEFINE f == [l \in read |-> l.key]
<1>6. f \in Surjection(read, 0 .. line - 1)
  BY <1>2, <1>3 DEF Surjection
<1>7. IsFiniteSet(read) /\ Cardinality(read) <= line
  BY DEF SourceInv
<1>8. Cardinality(0 .. line - 1) = line
  <2>1. Cardinality(0 .. line - 1) = IF 0 > line - 1 THEN 0 ELSE (line - 1) - 0 + 1
    BY <1>1, FS_Interval
  <2>. QED
    BY <1>1, <2>1
<1>9. f \in Injection(read, 0 .. line - 1)
  <2> HIDE DEF f
  <2>1. /\ Cardinality(0 .. line - 1) <= Cardinality(read)
        /\ Cardinality(0 .. line - 1) = Cardinality(read)
             <=> f \in Injection(read, 0 .. line - 1)
    BY <1>6, <1>7, FS_Surjection
  <2>2. Cardinality(read) \in Nat
    BY <1>7, FS_CardinalityType
  <2>. QED
    BY <1>1, <1>7, <1>8, <2>1, <2>2
<1>10. \A l \in read, m \in read : f[l] = f[m] => l = m
  BY <1>9 DEF Injection, IsInjective
<1>. QED
  BY <1>4, <1>5, <1>10

\* As many rows as lines.
LEMMA RowsCounted ==
  ASSUME SourceInv, phase # "dead", WellFormed, Fits
  PROVE  Cardinality(UsedIn(table)) = line
<1>1. FitsInv /\ TableInv /\ line \in Nat
  BY BoundsAssumption DEF SourceInv, PhasesInv, FitsInv
<1>2. KeysOf(table) = 0 .. line - 1
  BY <1>1, OneLineEach DEF FitsInv, Exact
<1>3. Cardinality(0 .. line - 1) = IF 0 > line - 1 THEN 0 ELSE (line - 1) - 0 + 1
  BY <1>1, FS_Interval
<1>4. Cardinality(KeysOf(table)) = Cardinality(UsedIn(table))
  BY <1>1, KeysCounted DEF TableInv
<1>. QED
  BY <1>1, <1>2, <1>3, <1>4

\* MaiterKernel1 and read_data: whatever the order of the lines and however
\* the keys collide, the table has the rows of a well-formed input that fits,
\* and the computation begins at the vertices of the algorithm.
THEOREM KernelWellLoaded == KernelSpec => []WellLoaded
<1>1. SourceInv => WellLoaded
  <2> SUFFICES ASSUME SourceInv, phase = "run", WellFormed, Fits
               PROVE  /\ \A l \in read : /\ Found[l.key] # NoRow
                                         /\ Found[l.key].links = Listed(l)
                      /\ {k \in Keys : Found[k] # NoRow /\ Found[k].begins} = Beginning
                      /\ Cardinality(InUse) = line
    BY DEF WellLoaded
  <2>1. /\ FitsInv /\ TableInv /\ program \in Programs
        /\ read \subseteq TextLines
    BY DEF SourceInv, PhasesInv, FitsInv
  <2>2. Found = written
    BY <2>1, FoundIsWritten DEF FitsInv
  <2>3. /\ WrittenKeys(written) = 0 .. line - 1
        /\ \A l \in read, m \in read : l.key = m.key => l = m
    BY OneLineEach
  <2>4. Cardinality(InUse) = line
    <3>1. InUse = UsedIn(table)
      BY DEF InUse, UsedIn
    <3>. QED
      BY <3>1, RowsCounted
  <2>5. ASSUME NEW l \in read PROVE Found[l.key] # NoRow /\ Found[l.key].links = Listed(l)
    <3>1. Proper(l) /\ l.tab /\ l.key \in WrittenKeys(written)
      BY <2>3 DEF WellFormed, Proper
    <3>2. PICK m \in read : ComesFrom(l.key, written[l.key], m)
      BY <3>1 DEF SourceInv
    <3>3. Proper(m) /\ m.tab
      BY DEF WellFormed, Proper
    <3>4. PICK found \in read_data(m) :
            found[1] = l.key /\ written[l.key].links = found[2]
      BY <3>2 DEF ComesFrom
    <3>5. m.key = l.key
      BY <2>1, <3>3, <3>4, VertexOfLine
    <3>6. written[l.key].links = Listed(l)
      BY <2>1, <2>3, <3>3, <3>4, <3>5, LinksOfLine
    <3>. QED
      BY <2>2, <3>1, <3>6 DEF WrittenKeys
  <2>6. ASSUME NEW k \in 0 .. line - 1 PROVE written[k].begins <=> k \in Beginning
    <3>1. written[k].begins = init_c(k)
      BY <2>3 DEF SourceInv, ComesFrom
    <3>2. ~adsorption_init_c(k)
      BY DEF adsorption_init_c
    <3>. QED
      BY <2>1, <3>1, <3>2, ProgramsAssumption
         DEF Beginning, init_c, pagerank_init_c, katz_init_c, shortestpath_init_c
  <2>7. \A k \in Keys : Found[k] # NoRow <=> k \in 0 .. line - 1
    BY <2>2, <2>3 DEF WrittenKeys
  <2>8. Beginning \subseteq 0 .. line - 1 /\ 0 .. line - 1 \subseteq Keys
    BY <2>3 DEF Beginning, WrittenKeys
  <2>9. {k \in Keys : Found[k] # NoRow /\ Found[k].begins} = Beginning
    BY <2>2, <2>6, <2>7, <2>8
  <2>. QED
    BY <2>4, <2>5, <2>9
<1>. QED
  BY <1>1, SourceInvariance, PTL

\* MaiterKernel3 and dump: the result file has a line for each line of a
\* well-formed input that fits, with the value last written for its vertex.
THEOREM KernelResultRight == KernelSpec => []ResultRight
<1>1. SourceInv => ResultRight
  <2> SUFFICES ASSUME SourceInv, phase = "done", result # NoFile, WellFormed, Fits
               PROVE  /\ Cardinality(DOMAIN result) = line
                      /\ \A k \in 0 .. line - 1 :
                           \E b \in DOMAIN result : result[b] = <<k, written[k].changed>>
    BY DEF ResultRight
  <2>1. TableInv /\ FitsInv /\ result = Dumped(table)
    BY DEF SourceInv, PhasesInv, FitsInv
  <2>2. /\ DOMAIN result = UsedIn(table)
        /\ \A b \in UsedIn(table) :
             result[b] = <<table.buckets[b].k, table.buckets[b].v.changed>>
    BY <2>1 DEF Dumped, UsedIn
  <2>3. ASSUME NEW k \in 0 .. line - 1
        PROVE  \E b \in DOMAIN result : result[b] = <<k, written[k].changed>>
    <3>1. k \in KeysOf(table)
      BY <2>1, OneLineEach DEF FitsInv, Exact
    <3>2. PICK b \in UsedIn(table) : table.buckets[b].k = k
      BY <3>1 DEF KeysOf
    <3>3. table.buckets[b].v = written[k]
      BY <2>1, <3>2, RowsUsed
    <3>. QED
      BY <2>2, <3>2, <3>3
  <2>. QED
    BY <2>2, <2>3, RowsCounted
<1>. QED
  BY <1>1, SourceInvariance, PTL

-----------------------------------------------------------------------------
(* What loadconfig finds in a file.                                        *)

\* A configuration after one more line.
After(conf, l) ==
  IF IsSetting(l)
  THEN Assigned(conf, trim(l.tokens[1]).word, trim(l.tokens[2]))
  ELSE conf

\* What the fold over the first n lines computes, for sets of their positions.
Folded(lines, n, g) ==
  g = [S \in SUBSET (1 .. n) |->
         IF S = {} THEN << >> ELSE After(g[S \ {Max(S)}], lines[Max(S)])]

\* There is such a fold for any number of lines.
LEMMA FoldedExists ==
  ASSUME NEW lines, NEW n \in Nat
  PROVE  \E g : Folded(lines, n, g)
<1> DEFINE Bad == {m \in Nat : ~ \E g : Folded(lines, m, g)}
<1> SUFFICES ASSUME Bad # {} PROVE FALSE
  OBVIOUS
<1>1. PICK m \in Bad : \A y \in Bad : m <= y
  <2>1. Bad \subseteq Nat
    OBVIOUS
  <2> HIDE DEF Bad
  <2>. QED
    BY <2>1, Least
<1>2. m \in Nat /\ ~ \E g : Folded(lines, m, g)
  BY <1>1
<1>3. CASE m = 0
  <2> DEFINE g == [S \in SUBSET (1 .. 0) |-> << >>]
  <2>1. \A S \in SUBSET (1 .. 0) : S = {}
    OBVIOUS
  <2>2. Folded(lines, 0, g)
    BY <2>1 DEF Folded
  <2>. QED
    BY <1>2, <1>3, <2>2
<1>4. CASE m # 0
  <2>1. m - 1 \in Nat /\ m - 1 \notin Bad
    BY <1>1, <1>2, <1>4
  <2>2. PICK g : Folded(lines, m - 1, g)
    BY <2>1
  <2> DEFINE h == [S \in SUBSET (1 .. m) |->
                     IF m \in S THEN After(g[S \ {m}], lines[m]) ELSE g[S]]
  <2>3. ASSUME NEW S \in SUBSET (1 .. m)
        PROVE  h[S] = IF S = {} THEN << >>
                      ELSE After(h[S \ {Max(S)}], lines[Max(S)])
    <3>1. CASE m \in S
      <4>1. Max(S) = m
        <5>1. \A y \in S : m >= y
          BY <1>2
        <5>2. \A x \in S : (\A y \in S : x >= y) => x = m
          BY <1>2, <3>1
        <5>. QED
          BY <3>1, <5>1, <5>2 DEF Max
      <4>2. S \ {m} \in SUBSET (1 .. m) /\ m \notin S \ {m}
        OBVIOUS
      <4>3. h[S \ {m}] = g[S \ {m}]
        BY <4>2
      <4>. QED
        BY <3>1, <4>1, <4>3
    <3>2. CASE m \notin S
      <4>1. S \in SUBSET (1 .. m - 1)
        BY <1>2, <3>2
      <4>2. g[S] = IF S = {} THEN << >>
                   ELSE After(g[S \ {Max(S)}], lines[Max(S)])
        BY <2>2, <4>1 DEF Folded
      <4>3. h[S] = g[S] /\ h[S \ {Max(S)}] = g[S \ {Max(S)}]
        BY <3>2
      <4>. QED
        BY <4>2, <4>3
    <3>. QED
      BY <3>1, <3>2
  <2>4. h = [S \in SUBSET (1 .. m) |-> h[S]]
    OBVIOUS
  <2> HIDE DEF h
  <2>5. Folded(lines, m, h)
    BY <2>3, <2>4 DEF Folded
  <2>. QED
    BY <1>2, <2>5
<1>. QED
  BY <1>3, <1>4

\* The configuration after each line, from none to all.
Reads(lines, c) ==
  /\ c[0] = << >>
  /\ \A n \in 1 .. Len(lines) : c[n] = After(c[n - 1], lines[n])
  /\ c[Len(lines)] = loadconfig(lines)

\* loadconfig reads one line after the other.
LEMMA LinesRead ==
  ASSUME NEW L, NEW lines \in Seq(L)
  PROVE  \E c : Reads(lines, c)
<1> DEFINE n == Len(lines)
           g == CHOOSE f : Folded(lines, n, f)
           c == [i \in 0 .. n |-> g[1 .. i]]
<1>1. n \in Nat /\ DOMAIN lines = 1 .. n
  OBVIOUS
<1>2. loadconfig(lines) = g[1 .. n]
  BY <1>1 DEF loadconfig, FoldLeft, MapThenFoldSet, Folded, After
<1>3. Folded(lines, n, g)
  BY <1>1, FoldedExists
<1> HIDE DEF g
<1>4. g[{}] = << >>
  BY <1>3 DEF Folded
<1>5. ASSUME NEW i \in 1 .. n
      PROVE  g[1 .. i] = After(g[1 .. i - 1], lines[i])
  <2>1. 1 .. i \in SUBSET (1 .. n) /\ i \in 1 .. i /\ (1 .. i) \ {i} = 1 .. i - 1
    BY <1>1
  <2>2. Max(1 .. i) = i
    <3>1. \A y \in 1 .. i : i >= y
      BY <1>1
    <3>2. \A x \in 1 .. i : (\A y \in 1 .. i : x >= y) => x = i
      BY <1>1, <2>1
    <3>. QED
      BY <2>1, <3>1, <3>2 DEF Max
  <2>. QED
    BY <1>3, <2>1, <2>2 DEF Folded
<1>6. 1 .. 0 = {}
  OBVIOUS
<1>7. /\ c[0] = g[{}] /\ c[n] = g[1 .. n]
      /\ \A i \in 1 .. n : c[i] = g[1 .. i] /\ c[i - 1] = g[1 .. i - 1]
  BY <1>1, <1>6
<1> HIDE DEF c
<1>. QED
  BY <1>2, <1>4, <1>5, <1>7 DEF Reads

\* The last setting of a name is what the loaded configuration gives for it.
LEMMA LastSettingStays ==
  ASSUME NEW file \in ConfFiles, NEW name, NEW i \in DOMAIN file,
         Sets(file[i], name), \A j \in i + 1 .. Len(file) : ~Sets(file[j], name)
  PROVE  /\ name \in DOMAIN loadconfig(file)
         /\ loadconfig(file)[name] = file[i].tokens[2].text
<1>1. /\ Len(file) \in Nat /\ DOMAIN file = 1 .. Len(file) /\ i \in 1 .. Len(file)
      /\ \A j \in DOMAIN file : Len(file[j].tokens) \in Nat
  BY FilesAssumption
<1>2. PICK c : Reads(file, c)
  BY FilesAssumption, LinesRead
<1> DEFINE Fine(m) == name \in DOMAIN c[m] /\ c[m][name] = file[i].tokens[2].text
           Bad == {m \in i .. Len(file) : ~Fine(m)}
<1>3. \A j \in DOMAIN file : Sets(file[j], name) <=>
        IsSetting(file[j]) /\ trim(file[j].tokens[1]).word = name
  BY <1>1 DEF Sets, IsSetting, trim
<1>4. Fine(i)
  <2>1. c[i] = Assigned(c[i - 1], name, file[i].tokens[2].text)
    BY <1>1, <1>2, <1>3 DEF Reads, After, trim
  <2>. QED
    BY <2>1 DEF Assigned
<1>5. ASSUME NEW m \in i + 1 .. Len(file), Fine(m - 1) PROVE Fine(m)
  <2>1. m \in DOMAIN file /\ m \in 1 .. Len(file) /\ ~Sets(file[m], name)
    BY <1>1
  <2>2. \/ c[m] = c[m - 1]
        \/ \E key, value : key # name /\ c[m] = Assigned(c[m - 1], key, value)
    BY <1>2, <1>3, <2>1 DEF Reads, After
  <2>3. CASE c[m] = c[m - 1]
    BY <1>5, <2>3
  <2>4. ASSUME NEW key, NEW value, key # name, c[m] = Assigned(c[m - 1], key, value)
        PROVE  Fine(m)
    BY <1>5, <2>4 DEF Assigned
  <2>. QED
    BY <2>2, <2>3, <2>4
<1> SUFFICES ASSUME Bad # {} PROVE FALSE
  <2>1. Bad = {} => Fine(Len(file))
    BY <1>1
  <2>. QED
    BY <1>2, <2>1 DEF Reads
<1> HIDE DEF Fine
<1>6. PICK m \in Bad : \A y \in Bad : m <= y
  <2>1. Bad \subseteq Nat
    BY <1>1
  <2> HIDE DEF Bad
  <2>. QED
    BY <2>1, Least
<1>7. m \in i + 1 .. Len(file)
  BY <1>1, <1>4, <1>6
<1>8. m - 1 \in i .. Len(file) /\ m - 1 \notin Bad
  BY <1>1, <1>6, <1>7
<1>. QED
  BY <1>5, <1>6, <1>7, <1>8

\* A number of at least 1 that is given becomes a number of at least 1.
LEMMA GivenNumber ==
  ASSUME NEW file \in ConfFiles, NEW name, NEW i \in DOMAIN file,
         Sets(file[i], name), file[i].tokens[2].text.number >= 100,
         \A j \in i + 1 .. Len(file) : ~Sets(file[j], name)
  PROVE  /\ get_config_option_int(loadconfig(file), name, 0) \in Nat \ {0}
         /\ get_config_option_long(loadconfig(file), name, 0) \in Nat \ {0}
<1> DEFINE n == file[i].tokens[2].text.number
<1>1. n \in Int
  <2> DEFINE T == [text : [word : STRING, number : Int], blanks : BOOLEAN]
             L == [comment : BOOLEAN, tokens : Seq(T)]
  <2>1. file \in Seq(L) /\ Len(file[i].tokens) > 1
    BY FilesAssumption DEF Sets
  <2> HIDE DEF L
  <2>2. file[i] \in L
    BY <2>1
  <2>3. file[i].tokens \in Seq(T)
    BY <2>2 DEF L
  <2> HIDE DEF T
  <2>4. file[i].tokens[2] \in T
    BY <2>1, <2>3
  <2>. QED
    BY <2>4 DEF T
<1>2. /\ name \in DOMAIN loadconfig(file)
      /\ loadconfig(file)[name].number = n
  BY LastSettingStays
<1>3. Whole(n) \in Nat \ {0}
  <2> HIDE DEF n
  <2>1. n \in Int /\ n >= 100
    BY <1>1 DEF n
  <2>2. n \div 100 \in Nat \ {0}
    BY <2>1
  <2>. QED
    BY <2>1, <2>2 DEF Whole
<1>. QED
  BY <1>2, <1>3 DEF get_config_option_int, get_config_option_long

-----------------------------------------------------------------------------
(* How the program dies.                                                   *)

\* The numbers of the configuration and of mutexes in each phase.
NumbersInv ==
  /\ phase \in {"new", "load", "run"} =>
       conf_file \in ConfFiles /\ num_threads = maiter.num_threads
  /\ phase = "new" => num_nodes = maiter.num_nodes
  /\ phase = "run" => vertexlocks = line

DeathInv == SourceInv /\ NumbersInv /\ NeverDies

\* With a usable configuration there are threads, and nodes.
LEMMA WellConfiguredNumbers ==
  ASSUME conf_file \in ConfFiles, WellConfigured
  PROVE  maiter.num_threads \in Nat \ {0} /\ maiter.num_nodes \in Nat \ {0}
<1>1. PICK i \in DOMAIN conf_file :
        /\ Sets(conf_file[i], "THREADS")
        /\ conf_file[i].tokens[2].text.number >= 100
        /\ \A j \in i + 1 .. Len(conf_file) : ~Sets(conf_file[j], "THREADS")
  BY DEF WellConfigured, Gives
<1>2. PICK n \in DOMAIN conf_file :
        /\ Sets(conf_file[n], "NODES")
        /\ conf_file[n].tokens[2].text.number >= 100
        /\ \A j \in n + 1 .. Len(conf_file) : ~Sets(conf_file[j], "NODES")
  BY DEF WellConfigured, Gives
<1>3. get_config_option_int(loadconfig(conf_file), "THREADS", 0) \in Nat \ {0}
  BY <1>1, GivenNumber
<1>4. get_config_option_long(loadconfig(conf_file), "NODES", 0) \in Nat \ {0}
  BY <1>2, GivenNumber
<1>. QED
  BY <1>3, <1>4 DEF maiter, MaiterKernel

\* No conversion of a proper line throws.
LEMMA ProperIsRead ==
  ASSUME program \in Programs, NEW l \in TextLines, Proper(l)
  PROVE  read_data(l) # {}
<1>1. l.pieces \in Seq(Keys \cup {Gap}) /\ l.pieces # << >> /\ l.tab
  BY LinesAssumption DEF Proper
<1>2. Front(l.pieces) \in Seq(Keys \cup {Gap})
  BY <1>1 DEF Front
<1>3. Listed(l) \in Seq(Keys \cup {Gap}) /\ Gap \notin ToSet(Listed(l))
  BY <1>1, <1>2 DEF Listed, Proper
<1>4. \A declared : Listed(l) \in Targets(Listed(l), declared)
  <2>1. \A i \in DOMAIN Listed(l) : Listed(l)[i] \in Keys /\ Listed(l)[i] # Gap
    BY <1>3 DEF ToSet
  <2>2. Listed(l) = [i \in DOMAIN Listed(l) |-> Listed(l)[i]]
    BY <1>3
  <2>3. Listed(l) \in [DOMAIN Listed(l) -> Keys]
    BY <2>1, <2>2
  <2>. QED
    BY <2>1, <2>3 DEF Targets
<1>5. CASE program = "pagerank"
  <2>1. l.pieces = <<Gap>> => Listed(l) = << >>
    BY DEF Listed, Last, Front
  <2>2. Closed(l.pieces) = Listed(l)
    BY <1>5, <2>1 DEF Proper, Closed, Listed
  <2>3. <<l.key, Listed(l)>> \in pagerank_read(l)
    BY <1>1, <1>4, <2>2 DEF pagerank_read
  <2>. QED
    BY <1>5, <2>3 DEF read_data
<1>6. CASE program # "pagerank"
  <2>1. Front(l.pieces) = Listed(l)
    BY <1>6 DEF Proper, Listed
  <2>2. /\ <<l.key, Listed(l)>> \in katz_read(l)
        /\ <<l.key, Listed(l)>> \in shortestpath_read(l)
        /\ <<l.key, Listed(l)>> \in adsorption_read(l)
    BY <1>1, <1>4, <2>1 DEF katz_read, shortestpath_read, adsorption_read
  <2>. QED
    BY <1>6, <2>2, ProgramsAssumption DEF read_data
<1>. QED
  BY <1>5, <1>6

\* A vertex with a row is found.
LEMMA RowIsThere ==
  ASSUME TableInv, NEW k \in KeysOf(table)
  PROVE  contains(table, k)
<1>1. PICK b \in UsedIn(table) : table.buckets[b].k = k
  BY DEF KeysOf
<1>2. bucket_for_key(table, k) = b /\ b \in Nat
  BY <1>1 DEF TableInv, GoodTable, IsTable, Reachable, UsedIn, Positions
<1>. QED
  BY <1>2 DEF contains

\* With a well-formed input that fits, there are a row and a mutex for every
\* vertex the threads lock.
LEMMA LockedAreThere ==
  ASSUME SourceInv, phase # "dead", WellFormed, Fits, NEW k \in Locked
  PROVE  k \in 0 .. line - 1 /\ contains(table, k)
<1>1. FitsInv /\ TableInv /\ program \in Programs /\ read \subseteq TextLines
  BY DEF SourceInv, PhasesInv, FitsInv
<1>2. WrittenKeys(written) = 0 .. line - 1 /\ KeysOf(table) = 0 .. line - 1
  BY <1>1, OneLineEach DEF FitsInv, Exact
<1>3. PICK b \in UsedIn(table) :
        k \in {table.buckets[b].k} \cup ToSet(table.buckets[b].v.links)
  BY DEF Locked, UsedIn
<1>4. /\ table.buckets[b].k \in KeysOf(table)
      /\ table.buckets[b].v = written[table.buckets[b].k]
  BY <1>1, RowsUsed DEF KeysOf
<1>5. PICK l \in read : ComesFrom(table.buckets[b].k, written[table.buckets[b].k], l)
  BY <1>2, <1>4 DEF SourceInv
<1>6. PICK found \in read_data(l) : table.buckets[b].v.links = found[2]
  BY <1>4, <1>5 DEF ComesFrom
<1>7. Proper(l) /\ ToSet(Listed(l)) \subseteq 0 .. line - 1
  BY DEF WellFormed
<1>8. found[2] = Listed(l)
  BY <1>1, <1>7, LinksOfLine
<1>9. k \in 0 .. line - 1
  BY <1>2, <1>3, <1>4, <1>6, <1>7, <1>8
<1>. QED
  BY <1>1, <1>2, <1>9, RowIsThere

\* The numbers stay what the configuration and the input made them.
LEMMA NumbersNext ==
  ASSUME PhasesInv, NumbersInv, [KernelNext]_kernelVars
  PROVE  NumbersInv'
<1>1. CASE UNCHANGED kernelVars
  BY <1>1 DEF NumbersInv, kernelVars, allVars, vars, loading, maiter
<1>2. CASE Configure
  BY <1>2 DEF PhasesInv, NumbersInv, Configure, Configured, maiter
<1>3. CASE Prepare
  BY <1>3 DEF NumbersInv, Prepare, InitTable, InitTableFails, loading, maiter
<1>4. CASE Start
  BY <1>4 DEF NumbersInv, Start, Loaded, Vertexlock, maiter
<1>5. ASSUME phase' \in {"dead", "exit", "done"} PROVE NumbersInv'
  BY <1>5 DEF NumbersInv
<1>6. ASSUME NEW l \in TextLines, ReadLine(l) PROVE NumbersInv'
  <2>1. phase = "load" /\ phase' = "load"
    BY <1>6 DEF ReadLine, put, Put, PutExpanding
  <2>. QED
    BY <1>6, <2>1 DEF NumbersInv, ReadLine, maiter
<1>7. ASSUME NEW k \in Locked, Touch(k), phase' # "dead" PROVE NumbersInv'
  <2>1. phase = "run" /\ phase' = "run" /\ UNCHANGED loading
    BY <1>7 DEF Touch, Modify, ModifyMissing
  <2>. QED
    BY <2>1 DEF NumbersInv, loading, maiter
<1>8. CASE ConfigureFails \/ CannotOpen \/ TooManyThreads \/ NoThreads \/ Dump
  BY <1>5, <1>8 DEF ConfigureFails, CannotOpen, TooManyThreads, NoThreads, Die,
                    Ended, Dump, Finished
<1>9. ASSUME NEW l \in TextLines, ReadFails(l) PROVE NumbersInv'
  BY <1>5, <1>9 DEF ReadFails, Ended
<1>10. ASSUME NEW k \in Locked, TouchBeyond(k) PROVE NumbersInv'
  BY <1>5, <1>10 DEF TouchBeyond, Die, Ended
<1>. QED
  BY <1>1, <1>2, <1>3, <1>4, <1>5, <1>6, <1>7, <1>8, <1>9, <1>10
     DEF KernelNext, LoadingNext

\* The steps of a program that dies.
LEMMA Deaths ==
  ASSUME KernelNext, phase # "dead", phase' = "dead"
  PROVE  \/ ConfigureFails \/ Prepare \/ TooManyThreads \/ NoThreads
         \/ \E l \in TextLines : ReadFails(l)
         \/ \E k \in Locked : Touch(k) \/ TouchBeyond(k)
<1>1. ~Configure /\ ~CannotOpen /\ ~Start /\ ~Dump
  BY DEF Configure, Configured, CannotOpen, Ended, Start, Loaded, Dump, Finished
<1>2. \A l \in TextLines : ~ReadLine(l)
  BY DEF ReadLine, put, Put, PutExpanding
<1>. QED
  BY <1>1, <1>2 DEF KernelNext, LoadingNext

\* A step with which the program dies needs more threads than lines.
LEMMA DeathStep ==
  ASSUME SourceInv, NumbersInv, KernelNext, phase # "dead", phase' = "dead",
         WellConfigured', WellFormed', Fits'
  PROVE  num_threads' > line'
<1>1. /\ UNCHANGED <<table, num_nodes, written, program, conf_file, num_threads,
                     line, vertexlocks>>
      /\ read \subseteq read' /\ Fits
      /\ phase \in {"new", "load", "run"} =>
           maiter.num_threads \in Nat \ {0} /\ maiter.num_nodes \in Nat \ {0}
  <2>1. /\ UNCHANGED <<table, num_nodes, written, program, conf_file, num_threads,
                       line, vertexlocks>>
        /\ read \subseteq read'
    BY Deaths DEF ConfigureFails, Prepare, InitTable, InitTableFails, TooManyThreads,
       NoThreads, ReadFails, Touch, Modify, ModifyMissing, TouchBeyond, Die,
       Ended, loading
  <2>2. Fits /\ WellConfigured
    BY <2>1 DEF Fits, WellConfigured, Gives
  <2>. QED
    BY <2>1, <2>2, WellConfiguredNumbers DEF NumbersInv
<1>2. CASE ConfigureFails
  BY <1>1, <1>2 DEF ConfigureFails, WellConfigured
<1>3. CASE Prepare
  BY <1>1, <1>3 DEF Prepare, InitTable, InitTableFails, NumbersInv
<1>4. CASE TooManyThreads
  BY <1>1, <1>4 DEF TooManyThreads
<1>5. CASE NoThreads
  BY <1>1, <1>5 DEF NoThreads, NumbersInv
<1>6. ASSUME NEW l \in TextLines, ReadFails(l) PROVE FALSE
  <2>1. l \in read' /\ read_data(l) = {} /\ program \in Programs
    BY <1>6 DEF ReadFails, SourceInv, PhasesInv
  <2>2. Proper(l)
    BY <1>1, <2>1 DEF WellFormed, Proper
  <2>. QED
    BY <2>1, <2>2, ProperIsRead
<1>7. ASSUME NEW k \in Locked, Touch(k) \/ TouchBeyond(k) PROVE FALSE
  <2>1. phase = "run" /\ read' = read /\ (contains(table, k) => k >= vertexlocks)
    BY <1>7 DEF Touch, Modify, ModifyMissing, TouchBeyond, Die, loading
  <2>2. WellFormed
    BY <1>1, <2>1 DEF WellFormed, Proper
  <2>3. k \in 0 .. line - 1 /\ contains(table, k)
    BY <1>1, <2>1, <2>2, LockedAreThere
  <2>. QED
    BY <2>1, <2>3, BoundsAssumption DEF NumbersInv, SourceInv, PhasesInv
<1>. QED
  BY <1>2, <1>3, <1>4, <1>5, <1>6, <1>7, Deaths

\* kernel.h, run_iter and the phases: whatever the order and the links of a
\* well-formed input that fits, and whatever a usable configuration says, every
\* conversion, row and mutex the program relies on is there; it ends early only
\* when it has more threads than lines.
THEOREM KernelNeverDies == KernelSpec => []NeverDies
<1>1. KernelInit => DeathInv
  BY SourceInvInit DEF KernelInit, LoadingInit, Init, DeathInv, NumbersInv, NeverDies
<1>2. DeathInv /\ [KernelNext]_kernelVars => DeathInv'
  <2> SUFFICES ASSUME DeathInv, [KernelNext]_kernelVars PROVE DeathInv'
    OBVIOUS
  <2>1. SourceInv' /\ NumbersInv'
    BY SourceInvNext, NumbersNext DEF DeathInv, SourceInv
  <2>2. CASE UNCHANGED kernelVars
    <3>1. NeverDies'
      BY <2>2 DEF DeathInv, NeverDies, WellConfigured, Gives, WellFormed, Proper, Fits,
                  kernelVars, allVars, vars, loading
    <3>. QED
      BY <2>1, <3>1 DEF DeathInv
  <2>3. CASE KernelNext
    <3>1. phase # "dead"
      BY <2>3, NothingAfterTheEnd
    <3>2. NeverDies'
      BY <2>3, <3>1, DeathStep DEF DeathInv, NeverDies
    <3>. QED
      BY <2>1, <3>2 DEF DeathInv
  <2>. QED
    BY <2>2, <2>3
<1>. QED
  BY <1>1, <1>2, PTL DEF KernelSpec, DeathInv

=============================================================================
