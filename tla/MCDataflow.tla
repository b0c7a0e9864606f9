----------------------------- MODULE MCDataflow -----------------------------
(***************************************************************************)
(* Instances of Dataflow for TLC.                                          *)
(***************************************************************************)
EXTENDS Dataflow, TLC

CONSTANTS a, b,             \* sessions
          f1, f2, f3        \* calls

\* x1 := ..; x2 := g(x1); x3 := h(x1, x2, x2), where x1 and x2 die: two
\* producers of one instruction, a variable used twice, and one read before it is
\* freed, so the wakeup lists hold duplicates.  They are as DataflowGraph has them.
ChainWakeup == << <<2, 3>>, <<3, 3, 3>>, <<>> >>
SingleWakeup == << <<>> >>
PairWakeup == << <<>>, <<>> >>

\* Two sessions; that of f1 runs two instructions that do not wait for each other.
TwoFlows == {f1, f2}
TwoClients == f1 :> a @@ f2 :> b
TwoHosts == f1 :> NoItem @@ f2 :> NoItem
TwoStarts == f1 :> 1 @@ f2 :> 1
TwoWakeups == f1 :> PairWakeup @@ f2 :> SingleWakeup

\* Session a runs f1 from a function it called, session b runs f2 and f3.
UnboundClients == f1 :> a @@ f2 :> b @@ f3 :> b
UnboundWakeups == f1 :> SingleWakeup @@ f2 :> SingleWakeup @@ f3 :> SingleWakeup

\* Session a runs f1, whose first instruction makes the recursive call f2;
\* session b runs f3, an empty block.
NestedFlows == {f1, f2, f3}
NestedClients == f1 :> a @@ f2 :> a @@ f3 :> b
NestedHosts == f1 :> NoItem @@ f2 :> <<f1, 1>> @@ f3 :> NoItem
NestedStarts == f1 :> 1 @@ f2 :> 5 @@ f3 :> 1
NestedWakeups == f1 :> ChainWakeup @@ f2 :> SingleWakeup @@ f3 :> <<>>

AllItems == Items

\* The two instructions of f1 are in each other's way, and one may fail; what
\* f2 executes, perhaps forever, claims nothing.
LiveClaims == {<<f1, 1>>, <<f1, 2>>}
LiveFaulty == {<<f1, 1>>}

ThreeHosts == f1 :> NoItem @@ f2 :> NoItem @@ f3 :> NoItem
=============================================================================
