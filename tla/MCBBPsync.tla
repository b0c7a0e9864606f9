----------------------------- MODULE MCBBPsync -----------------------------
(***************************************************************************)
(* Instances of BBPsync for TLC.                                           *)
(***************************************************************************)
EXTENDS BBPsync

CONSTANTS b1, b2
=============================================================================
