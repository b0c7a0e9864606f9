---------------------------- MODULE DataflowSpec ----------------------------
(***************************************************************************)
(* What running a dataflow block promises its caller, without threads,     *)
(* queues or counters: the instructions of the block are executed one at a *)
(* time in some order that respects the dependencies, none twice, none     *)
(* after the caller got its answer; the answer is success only when every  *)
(* instruction succeeded and an error only when one failed or the block    *)
(* could not be started.                                                   *)
(***************************************************************************)
EXTENDS Naturals, Sequences

CONSTANTS Flows,    \* the executions of dataflow blocks
          Wakeup    \* Wakeup[f][n]: the instructions that wait for n, as a list

VARIABLES stk,      \* stk[f][n]: "none", "ok" or "err", the result of n
          ret       \* ret[f]: "none" until the call answers "ok" or "error"

Instrs(f) == 1..Len(Wakeup[f])

\* The instructions whose results n waits for.
Producers(f, n) ==
    {p \in Instrs(f) : \E e \in 1..Len(Wakeup[f][p]) : Wakeup[f][p][e] = n}

Init == /\ stk = [f \in Flows |-> [n \in Instrs(f) |-> "none"]]
        /\ ret = [f \in Flows |-> "none"]

Execute(f, n) ==
    /\ ret[f] = "none"
    /\ stk[f][n] = "none"
    /\ \A p \in Producers(f, n) : stk[f][p] = "ok"
    /\ \E r \in {"ok", "err"} : stk' = [stk EXCEPT ![f][n] = r]
    /\ UNCHANGED ret

\* The block runs in the caller's own thread, in program order up to the
\* first error, and answers at once.
RunSerially(f) ==
    /\ ret[f] = "none"
    /\ \A n \in Instrs(f) : stk[f][n] = "none"
    /\ \E k \in 0..Len(Wakeup[f]) :
         /\ stk' = [stk EXCEPT ![f] = [n \in Instrs(f) |->
                       IF n <= k THEN "ok" ELSE IF n = k + 1 THEN "err" ELSE "none"]]
         /\ ret' = [ret EXCEPT ![f] = IF k = Len(Wakeup[f]) THEN "ok" ELSE "error"]

Answer(f) ==
    /\ ret[f] = "none"
    /\ \/ /\ \A n \in Instrs(f) : stk[f][n] = "ok"
          /\ Instrs(f) # {}
          /\ ret' = [ret EXCEPT ![f] = "ok"]
       \/ /\ \/ \E n \in Instrs(f) : stk[f][n] = "err"
             \/ \A n \in Instrs(f) : stk[f][n] = "none"
          /\ ret' = [ret EXCEPT ![f] = "error"]
    /\ UNCHANGED stk

Next == \E f \in Flows : \/ \E n \in Instrs(f) : Execute(f, n)
                         \/ RunSerially(f)
                         \/ Answer(f)

Spec == Init /\ [][Next]_<<stk, ret>>
=============================================================================
