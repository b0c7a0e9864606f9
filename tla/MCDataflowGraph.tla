-------------------------- MODULE MCDataflowGraph --------------------------
(***************************************************************************)
(* All small blocks, for TLC.                                              *)
(***************************************************************************)
EXTENDS DataflowGraph, Functions

CONSTANTS x, y,        \* the variables
          Size,        \* the number of instructions of a block
          MaxArgs      \* bound on the arguments of an instruction

Returns == {<<x>>, <<y>>, <<x, y>>}

Instructions == [rets : Returns, args : UNION {[1..k -> Vars] : k \in 0..MaxArgs}]

\* The last use of v in a block: the instruction that ends its life, unless it
\* lives on.
LastUse(instrs, v) ==
    LET users == {n \in DOMAIN instrs : v \in Range(instrs[n].args) \cup Range(instrs[n].rets)}
    IN  IF users = {} THEN 0 ELSE CHOOSE n \in users : \A m \in users : m <= n

SmallBlocks ==
    {[instrs |-> instrs,
      eolife |-> [v \in Vars |-> IF v \in kept THEN Size + 1 ELSE LastUse(instrs, v)]] :
        instrs \in [1..Size -> Instructions], kept \in SUBSET Vars}
=============================================================================
