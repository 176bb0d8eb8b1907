---------------------------- MODULE MCTaskGroup ----------------------------
(* Instances of TaskGroup for TLC. *)
EXTENDS TaskGroup

CONSTANTS t1, t2, t3
=============================================================================
