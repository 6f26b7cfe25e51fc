----------------------------- MODULE DeltaSpec ------------------------------
(***************************************************************************)
(* Asynchronous accumulative computation: what the execute threads promise *)
(* to the algorithms of examples/.  Updating a vertex adds its delta to    *)
(* its value, resets the delta and sends its gain over the links, all at   *)
(* once; a message that was sent is added to the delta of its target once, *)
(* at any later time.                                                      *)
(***************************************************************************)
EXTENDS Naturals, Sequences, FiniteSets, Bags, Folds

CONSTANTS
  Keys,           (* the vertices                                          *)
  Links,          (* Links[k]: the targets of vertex k, in order           *)
  InitDelta,      (* init_c: the first delta of each vertex                *)
  Default,        (* default_v: the neutral element of Acc                 *)
  Acc(_, _),      (* accumulate                                            *)
  Gain(_, _, _)   (* g_func: what vertex k sends on its i-th link of a     *)
                  (* delta d, Gain(k, i, d)                                *)

VARIABLES
  v1, v2,         (* the delta and the value of each vertex                *)
  mail            (* bag of the messages sent and not yet received         *)

vars == <<v1, v2, mail>>

\* The bag of the messages in a sequence.
BagOf(messages) ==
  [m \in {messages[i] : i \in DOMAIN messages} |->
     Cardinality({i \in DOMAIN messages : messages[i] = m})]

Init ==
  /\ v1 = InitDelta
  /\ v2 = [k \in Keys |-> Default]
  /\ mail = EmptyBag

Update(k) ==
  /\ v2' = [v2 EXCEPT ![k] = Acc(@, v1[k])]
  /\ v1' = [v1 EXCEPT ![k] = Default]
  /\ mail' = mail (+) BagOf([i \in DOMAIN Links[k] |->
                               [to |-> Links[k][i], v |-> Gain(k, i, v1[k])]])

Receive(m) ==
  /\ v1' = [v1 EXCEPT ![m.to] = Acc(@, m.v)]
  /\ mail' = mail (-) SetToBag({m})
  /\ UNCHANGED v2

Next == \/ \E k \in Keys : Update(k)
        \/ \E m \in BagToSet(mail) : Receive(m)

Spec == Init /\ [][Next]_vars

-----------------------------------------------------------------------------
\* Acc of the numbers num(x), x \in S, and of base.
AccAll(base, num(_), S) ==
  MapThenFoldSet(Acc, base, num, LAMBDA T : CHOOSE x \in T : TRUE, S)

\* The links that end at vertex j.
Into(j) == UNION {{<<k, i>> : i \in {n \in DOMAIN Links[k] :
                                        Links[k][n] = j}} : k \in Keys}

\* What a vertex was given so far: its first delta, and the gain of all that
\* its neighbours have added to their values.
Given(j) ==
  AccAll(InitDelta[j], LAMBDA l : Gain(l[1], l[2], v2[l[1]]), Into(j))

\* What it has: its value, its delta, and the mail on its way to it.
Has(j) ==
  AccAll(Acc(v2[j], v1[j]), LAMBDA copy : copy[1].v,
         UNION {{<<m, c>> : c \in 1 .. mail[m]} :
                m \in {n \in BagToSet(mail) : n.to = j}})

\* Nothing is lost and nothing counts twice.
Ledger == \A j \in Keys : Has(j) = Given(j)

=============================================================================
