--------------------------- MODULE MCMatrixCache ---------------------------
(* Instances of MatrixCache for TLC. *)
EXTENDS MatrixCache, TLC

CONSTANTS va, vb, m1, m2, m3

MCCells == {[int |-> TRUE, val |-> 1], [int |-> FALSE, val |-> 2]}
Vectors == {<<1, 3>>, <<3, 1>>}
Square == {<<2, 2>>}
Interchangeable == Permutations({va, vb}) \cup Permutations({m1, m2, m3})
=============================================================================
