------------------------------ MODULE MCLogger ------------------------------
(***************************************************************************)
(* The instances of Logger that TLC checks.                                *)
(***************************************************************************)
EXTENDS Logger

CONSTANTS a, b

\* A column with changes of every kind, and one that is only created and
\* filled.
AllOps == [n \in Names |-> IF n = a THEN Kinds ELSE {"none", "create", "insert"}]
=============================================================================
