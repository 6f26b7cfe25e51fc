----------------------------- MODULE TermCheck ------------------------------
(***************************************************************************)
(* The termination check of the main thread.  Now and then it adds up the  *)
(* values of the state table, row by row and without a lock, while the     *)
(* execute threads update vertices; it ends the computation when two sums  *)
(* that follow one another differ by no more than a threshold.             *)
(*                                                                         *)
(* The execute threads take the steps of DeltaSpec, which module           *)
(* VertexUpdate shows run_iter to implement.                               *)
(***************************************************************************)
EXTENDS DeltaSpec, Integers, FiniteSetsExt

CONSTANTS
  TableSize,   (* size_ of the table; vertex k is in bucket k              *)
  Values,      (* what values, deltas and messages may be                  *)
  Threshold,   (* termcheck_threshold                                      *)
  Never        (* -numeric_limits<double>::max(), the first value of last: *)
               (* no sum is within the threshold of it                     *)

ASSUME TableSizeAssumption == TableSize \in Nat /\ Keys \subseteq 0 .. TableSize - 1
ASSUME ThresholdAssumption == Threshold \in Nat
ASSUME NeverAssumption == Never \notin Nat
ASSUME LinksAssumption == Links \in [Keys -> Seq(Keys)]
\* An additive algorithm: the default counts nothing, and no value falls.
ASSUME ValuesAssumption ==
  /\ Values \subseteq Nat /\ Default \in Values /\ Default = 0
  /\ InitDelta \in [Keys -> Values]
  /\ \A a, b \in Values : Acc(a, b) \in Values /\ a <= Acc(a, b)
  /\ \A k \in Keys : \A i \in DOMAIN Links[k] :
       \A d \in Values : Gain(k, i, d) \in Values

VARIABLES
  phase,         (* "wait" for the interval, "pass" in estimate_prog, "end" *)
  cpos,          (* pos of the EntirePassIterator                          *)
  partial_curr,  (* what estimate_prog has added up                        *)
  curr, last,    (* of TermCheckers::Diff                                  *)
  atEnd,         (* history: the values when the last pass ended           *)
  atStart        (* history: the values when the present pass began        *)

check == <<phase, cpos, partial_curr, curr, last, atEnd, atStart>>
allVars == <<vars, check>>

CheckInit ==
  /\ Init
  /\ phase = "wait"
  /\ cpos = -1
  /\ partial_curr = 0
  /\ curr = 0 /\ last = Never
  /\ atEnd = v2 /\ atStart = v2

-----------------------------------------------------------------------------
(* EntirePassIterator.                                                     *)

\* Faulty variant of Left: the last row counts as done.
LeftButLast == {k \in Keys : k > cpos /\ k # Max(Keys)}

\* The rows Next has not come to.
Left == {k \in Keys : k > cpos}

-----------------------------------------------------------------------------
(* TypedGlobalTable::TermCheck, termcheck and TermCheckers::Diff.          *)

\* The interval has passed: a new iterator, and a sum of 0.
StartPass ==
  /\ phase = "wait" /\ phase' = "pass"
  /\ cpos' = -1
  /\ partial_curr' = 0
  /\ atStart' = v2
  /\ UNCHANGED <<vars, curr, last, atEnd>>

\* Faulty variant of AddRow: deltas are added up instead of values.
AddRowDelta ==
  /\ phase = "pass" /\ Left # {}
  /\ cpos' = Min(Left)
  /\ partial_curr' = partial_curr + v1[Min(Left)]
  /\ UNCHANGED <<vars, phase, curr, last, atEnd, atStart>>

\* The next row in use; the default value does not count.
AddRow ==
  LET k == Min(Left) IN
  /\ phase = "pass" /\ Left # {}
  /\ cpos' = k
  /\ partial_curr' = IF v2[k] # Default THEN partial_curr + v2[k] ELSE partial_curr
  /\ UNCHANGED <<vars, phase, curr, last, atEnd, atStart>>

Distance(a, b) == IF a < b THEN b - a ELSE a - b

Close(sum) == last # Never /\ Distance(sum, last) <= Threshold

\* Faulty variant of EndPass: last keeps its value.
EndPassForgets ==
  /\ phase = "pass" /\ Left = {}
  /\ curr' = partial_curr
  /\ phase' = IF Close(curr') THEN "end" ELSE "wait"
  /\ atEnd' = IF Close(curr') THEN atEnd ELSE v2
  /\ UNCHANGED <<vars, cpos, partial_curr, last, atStart>>

\* terminate: the computation is over, or this sum is the next one's last.
EndPass ==
  /\ phase = "pass" /\ Left = {}
  /\ curr' = partial_curr
  /\ IF Close(curr')
     THEN phase' = "end" /\ UNCHANGED <<last, atEnd>>
     ELSE phase' = "wait" /\ last' = curr' /\ atEnd' = v2
  /\ UNCHANGED <<vars, cpos, partial_curr, atStart>>

-----------------------------------------------------------------------------
\* Updating a vertex whose delta is the default changes no value and sends
\* nothing that does; such updates are left out.
Work ==
  /\ \/ \E k \in Keys : v1[k] # Default /\ Update(k)
     \/ \E m \in BagToSet(mail) : Receive(m)
  /\ UNCHANGED check

Check == StartPass \/ AddRow \/ EndPass

CheckNext == Work \/ Check

CheckSpec == CheckInit /\ [][CheckNext]_allVars

\* The main thread and the execute threads keep running.
FairCheckSpec == CheckSpec /\ WF_allVars(Work) /\ WF_allVars(Check)

-----------------------------------------------------------------------------
(* Properties.                                                             *)

\* The sums of the first n buckets, a free one counting nothing.
SumTo(values) ==
  LET sum[n \in 0 .. TableSize] ==
        IF n = 0 THEN 0
        ELSE sum[n - 1] + (IF n - 1 \in Keys THEN values[n - 1] ELSE 0)
  IN  sum

Total(values) == SumTo(values)[TableSize]

TypeOK ==
  /\ phase \in {"wait", "pass", "end"}
  /\ cpos \in -1 .. TableSize - 1
  /\ partial_curr \in Nat /\ curr \in Nat
  /\ last \in Nat \cup {Never}

\* "The sum of v, it should be larger and larger as iterations go on":
\* although a sum mixes values of different moments, no sum is less than the
\* one before.
SumsGrow == [][last # Never => curr' >= last]_curr

\* Every sum lies between the totals of the values when its pass began and
\* when it ended.
SumBracketed ==
  phase = "pass" /\ Left = {} =>
    Total(atStart) <= partial_curr /\ partial_curr <= Total(v2)

CheckInv == TypeOK /\ SumBracketed

\* When the check ends the computation, the values together have grown by no
\* more than the threshold in the whole interval between the two passes.
QuietBetweenPasses ==
  phase = "end" => Total(atStart) - Total(atEnd) <= Threshold

\* The check does not miss the end of the computation.
Stops == <>(phase = "end")

=============================================================================
