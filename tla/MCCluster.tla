----------------------------- MODULE MCCluster ------------------------------
(***************************************************************************)
(* A small instance of Cluster for TLC: up to two local actors.             *)
(***************************************************************************)
EXTENDS Cluster

CONSTANTS a1, a2, w
=============================================================================
