--------------------------- MODULE MCCalmCallers ----------------------------
(***************************************************************************)
(* Small instances of CalmCallers for TLC.                                  *)
(***************************************************************************)
EXTENDS CalmCallers, MCSugoHub
=============================================================================
