----------------------------- MODULE MCKernel -------------------------------
(***************************************************************************)
(* The phases with five vertices for a table of three buckets.  The lines  *)
(* are those of a well-formed input, and lines without a tab, without a    *)
(* last blank, with a double blank and without links.                      *)
(***************************************************************************)
EXTENDS Kernel

FiveKeys == 0 .. 4

Line(k, pieces) == [tab |-> TRUE, key |-> k, pieces |-> pieces]
NoTab(k, pieces) == [tab |-> FALSE, key |-> k, pieces |-> pieces]

SomeLines ==
  {Line(0, <<1, 2, Gap>>), Line(0, <<1, Gap, 0, Gap>>),
   Line(1, <<0, Gap>>), Line(1, <<2>>), NoTab(1, <<Gap>>),
   Line(2, <<0, 1, Gap>>), Line(2, <<Gap>>),
   Line(3, <<1, Gap>>), NoTab(3, <<1, Gap>>),
   Line(4, <<3, Gap>>)}

LinkLists ==
  {<<1, 2>>, <<0>>, <<2>>, <<0, 1>>, <<1>>, <<3>>, << >>, <<4>>} \cup
  {<<1, 4, 0>>, <<1, 0, 0>>}
SomeRows == [links : LinkLists, begins : BOOLEAN, changed : BOOLEAN]

Text(word, number) ==
  [text |-> [word |-> word, number |-> number], blanks |-> word = ""]
Padded(word, number) ==
  [text |-> [word |-> word, number |-> number], blanks |-> TRUE]
Setting(tokens) == [comment |-> FALSE, tokens |-> tokens]
Comment(tokens) == [comment |-> TRUE, tokens |-> tokens]
Name(word) == Text(word, 0)

\* As in conf/, with an empty line, blanks, a setting that is replaced, one
\* without a value and one that is commented out.
GoodFile ==
  <<Setting(<<Padded("THREADS", 0), Padded("0", 0)>>),
    Setting(<<Name("NODES"), Text("3.5", 350)>>),
    Setting(<<Name("PORTION"), Text("0.2", 20)>>),
    Setting(<< >>),
    Setting(<<Name("THREADS"), Text("2", 200)>>),
    Comment(<<Name("#THREADS"), Text("16", 1600)>>),
    Setting(<<Name("SHORTESTPATH"), Text("1", 100)>>),
    Setting(<<Name("NODES")>>)>>

\* The number of threads is no number, or is negative; the number of nodes is
\* blank.
ThreadsWord ==
  <<Setting(<<Name("THREADS"), Name("all")>>),
    Setting(<<Name("NODES"), Text("3", 300)>>)>>
NodesBlank ==
  <<Setting(<<Name("NODES"), Text("3", 300)>>),
    Setting(<<Name("NODES"), Name("")>>)>>

ThreadsNegative ==
  <<Setting(<<Name("THREADS"), Text("-1", -100)>>),
    Setting(<<Name("NODES"), Text("3", 300)>>)>>

SomeFiles == {GoodFile, ThreadsWord, ThreadsNegative, NodesBlank}
SomeCounts == {0, 3}

=============================================================================
