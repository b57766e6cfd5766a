---------------------------- MODULE MCDagEngine ----------------------------
(* A small instance of DagEngine for TLC. *)
EXTENDS DagEngine
=============================================================================
