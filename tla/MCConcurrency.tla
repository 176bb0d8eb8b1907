--------------------------- MODULE MCConcurrency ---------------------------
(* Instances of Concurrency for TLC. *)
EXTENDS Concurrency

CONSTANTS t1, t2, t3, s1, s2, r1, r2, c1

\* The second message of s1 is a None.
MCNone == {<<s1, 2>>}
=============================================================================
