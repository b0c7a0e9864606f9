------------------------------ MODULE MCBBPrefs ------------------------------
(* BATs that are persistent or transient, and a view v on p.              *)
EXTENDS BBPrefs, TLC
CONSTANTS p, v, t1, t2, tr
TheParent == v :> p
Sessions == Permutations({t1, t2})
==============================================================================
