---------------------------- MODULE MCObservers -----------------------------
(***************************************************************************)
(* A small instance of Observers for TLC.                                   *)
(***************************************************************************)
EXTENDS Observers

CONSTANTS o1, o2, u1, u2, j1, j2
=============================================================================
