--------------------------- MODULE DataflowGraph ---------------------------
(***************************************************************************)
(* The dependency graph of a MAL dataflow block, as DFLOWinitBlk           *)
(* (mal_dataflow.c) builds it, edge by edge.                               *)
(*                                                                         *)
(* A block is a sequence of instructions [rets |-> <<vars>>, args |->      *)
(* <<vars>>] and the instruction that ends the life of each variable.      *)
(* Constant arguments are left out of args: the code skips them in both of *)
(* its tests.  Instructions are numbered from 1 where the code numbers     *)
(* them from 0; a variable that lives on has an eolife outside the block.  *)
(***************************************************************************)
EXTENDS Naturals, Sequences, FiniteSets

CONSTANTS Vars,       \* the variables of a MAL block
          Inputs      \* the dataflow blocks

\* getEndOfLife: no instruction reads a variable after the end of its life
\* (the assertion at 609).
ASSUME InputsAssumption == \A b \in Inputs :
    /\ b.instrs \in Seq([rets : Seq(Vars), args : Seq(Vars)])
    /\ b.eolife \in [Vars -> Nat]
    /\ \A n \in 1..Len(b.instrs) : \A j \in 1..Len(b.instrs[n].args) :
          b.eolife[b.instrs[n].args[j]] \in 1..Len(b.instrs) => n <= b.eolife[b.instrs[n].args[j]]

VARIABLES
    block,      \* the block
    pc, arg,    \* the instruction and the argument that is looked at
    side,       \* which of the two edges of the argument is next
    assign,     \* for each variable the latest instruction that assigned it
    wake,       \* flow->nodes, flow->edges: per instruction those it wakes
    blocks      \* flow->status[n].blocks

vars == <<block, pc, arg, side, assign, wake, blocks>>

Instrs == 1..Len(block.instrs)
Args(n) == block.instrs[n].args
Rets(n) == {block.instrs[n].rets[j] : j \in 1..Len(block.instrs[n].rets)}

Init ==
    /\ block \in Inputs
    /\ pc = 1 /\ arg = 1 /\ side = "use"
    /\ assign = [v \in Vars |-> 0]
    /\ wake = [n \in Instrs |-> <<>>]
    /\ blocks = [n \in Instrs |-> 0]

\* Mutant: the instruction that has the list is blocked.
AddEdgeSwapped(from, to) ==
    /\ wake' = [wake EXCEPT ![from] = Append(@, to)]
    /\ blocks' = [blocks EXCEPT ![from] = @ + 1]

\* An edge is added to the tail of the list, and counted at the other end.  A
\* list is empty when its node is 0: no edge leads to the first instruction.
AddEdge(from, to) ==
    /\ wake' = [wake EXCEPT ![from] = Append(@, to)]
    /\ blocks' = [blocks EXCEPT ![to] = @ + 1]

NoEdge == UNCHANGED <<wake, blocks>>

Looking(s) == pc \in Instrs /\ arg <= Len(Args(pc)) /\ side = s

\* The instruction of the block that assigned the argument wakes this one.
UseEdge ==
    /\ Looking("use")
    /\ LET k == assign[Args(pc)[arg]]
       IN  IF k # 0 THEN AddEdge(k, pc) ELSE NoEdge
    /\ side' = "free"
    /\ UNCHANGED <<block, pc, arg, assign>>

\* This one wakes the instruction of the block that ends the life of the
\* argument, if it is another one.
FreeEdge ==
    /\ Looking("free")
    /\ LET l == block.eolife[Args(pc)[arg]]
       IN  IF l # pc /\ l <= Len(block.instrs) /\ l > 1 THEN AddEdge(pc, l) ELSE NoEdge
    /\ side' = "use" /\ arg' = arg + 1
    /\ UNCHANGED <<block, pc, assign>>

\* Mutant: the first assignment of a variable is remembered.
AssignFirst ==
    /\ pc \in Instrs /\ arg > Len(Args(pc))
    /\ assign' = [v \in Vars |-> IF v \in Rets(pc) /\ assign[v] = 0 THEN pc ELSE assign[v]]
    /\ pc' = pc + 1 /\ arg' = 1
    /\ UNCHANGED <<block, side, wake, blocks>>

\* What it assigns is remembered for the instructions after it.
Assign ==
    /\ pc \in Instrs /\ arg > Len(Args(pc))
    /\ assign' = [v \in Vars |-> IF v \in Rets(pc) THEN pc ELSE assign[v]]
    /\ pc' = pc + 1 /\ arg' = 1
    /\ UNCHANGED <<block, side, wake, blocks>>

Next == UseEdge \/ FreeEdge \/ Assign

Spec == Init /\ [][Next]_vars

(***************************************************************************)
(* Properties.                                                             *)
(***************************************************************************)
\* m reads the value that n gave to v.
ReadsFrom(m, n, v) ==
    /\ n < m /\ v \in Rets(n)
    /\ \A k \in Instrs : n < k /\ k < m => v \notin Rets(k)

\* m must not start before n is finished: it reads what n assigned, or it
\* frees a variable that n reads.
MustFollow(n, m) ==
    \/ \E j \in 1..Len(Args(m)) : ReadsFrom(m, n, Args(m)[j])
    \/ \E j \in 1..Len(Args(n)) : n # m /\ block.eolife[Args(n)[j]] = m

Wakes(n) == {wake[n][k] : k \in 1..Len(wake[n])}

\* The wakeup lists of the finished graph are exact: an instruction wakes
\* those that must follow it and no others, so nothing reads a variable too
\* early or frees one that is still to be read (DFLOWinitBlk).
WakeupsExact ==
    pc \notin Instrs => \A n, m \in Instrs : m \in Wakes(n) <=> MustFollow(n, m)

\* The entries of the lists that wake m.
Entries(m) == {e \in UNION {{n} \X (1..Len(wake[n])) : n \in Instrs} : wake[e[1]][e[2]] = m}

\* Each entry of a wakeup list is counted once in blocks, repeated ones
\* included, and leads forward: what the scheduler's countdown relies on
\* (DFLOWinitBlk, and WakeupAssumption of Dataflow).
BlocksMatchWakeups ==
    /\ \A m \in Instrs : blocks[m] = Cardinality(Entries(m))
    /\ \A n \in Instrs : \A m \in Wakes(n) : n < m
=============================================================================
