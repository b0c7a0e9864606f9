----------------------------- MODULE Checkpoint -----------------------------
(***************************************************************************)
(* What TMcommit and TMsubcommit promise: a new checkpoint that reflects   *)
(* the current state of the BATs that are committed and equals the         *)
(* previous checkpoint for all others, taken in one step; a restart finds  *)
(* the last checkpoint.  A state of a BAT is a number, 0 for a BAT that    *)
(* does not exist.                                                         *)
(***************************************************************************)
EXTENDS Naturals

CONSTANT Bats

VARIABLES ckpt,     \* the checkpoint on disk
          current   \* the state of the running server

Init == /\ ckpt = [b \in Bats |-> 0]
        /\ current = [b \in Bats |-> 0]

\* Users change the state of one BAT.
Change(b) ==
    /\ current'[b] \in Nat
    /\ current' = [current EXCEPT ![b] = current'[b]]
    /\ UNCHANGED ckpt

Commit(S) ==
    /\ ckpt' = [b \in Bats |-> IF b \in S THEN current[b] ELSE ckpt[b]]
    /\ UNCHANGED current

Restart == current' = ckpt /\ UNCHANGED ckpt

Next == \/ \E b \in Bats : Change(b)
        \/ \E S \in SUBSET Bats : Commit(S)
        \/ Restart

Spec == Init /\ [][Next]_<<ckpt, current>>
=============================================================================
