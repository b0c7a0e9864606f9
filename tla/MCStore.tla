------------------------------ MODULE MCStore -------------------------------
(* Instances of Store for TLC. *)
EXTENDS Store, TLC

CONSTANTS s1, s2, t, u, a, c

TwoTables == [x \in {a, c} |-> IF x = a THEN t ELSE u]
Symmetric == Permutations(Sessions) \cup {t :> u @@ u :> t @@ a :> c @@ c :> a}
=============================================================================
