---------------------------- MODULE MCListCache ----------------------------
(* Instances of ListCache for TLC. *)
EXTENDS ListCache

CONSTANTS IntVals, DoubleVals, Boxed

MCCells == {[tag |-> "int", val |-> v] : v \in IntVals}
             \cup {[tag |-> "double", val |-> v] : v \in DoubleVals}
             \cup (IF Boxed THEN {[tag |-> "other", val |-> 0]} ELSE {})
=============================================================================
