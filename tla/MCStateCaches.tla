--------------------------- MODULE MCStateCaches ---------------------------
(* Instances of StateCaches for TLC. *)
EXTENDS StateCaches, TLC

CONSTANTS va, vb, m1, m2, m3, xv, pv, qv

\* One cell of each kind, so that every plan of a list occurs.
ListCells == {[tag |-> "int", val |-> 1], [tag |-> "double", val |-> 2],
              [tag |-> "other", val |-> 0]}
NumberCells == {[int |-> TRUE, val |-> 1], [int |-> FALSE, val |-> 2]}
Vectors == {<<1, 3>>, <<3, 1>>}

Stage(word, args) == [name |-> word, args |-> args]
Amount(v) == <<[tag |-> "int", val |-> v]>>
Zipping == <<[tag |-> "list", items |-> <<[tag |-> "double", val |-> 3]>>]>>
\* Every stage and every form of the loop, a chain that is a method, one refused.
MCChains ==
    {<<Stage("map_add", Amount(1))>>, <<Stage("map_mul", Amount(2))>>,
     <<Stage("map_mul", Amount(2)), Stage("reduce_sum", <<>>)>>,
     <<Stage("map_add", Amount(1)), Stage("map_mul", Amount(2)), Stage("sum", <<>>)>>,
     <<Stage("map_add", Amount(1)), Stage("filter_lt", Amount(3)), Stage("filter_nonzero", <<>>),
       Stage("sum", <<>>)>>,
     <<Stage("zip_add", Zipping), Stage("filter_gt", Amount(3)), Stage("scan_sum", <<>>)>>,
     <<Stage("to_list", <<>>), Stage("sum", <<>>)>>}

\* xv is captured, pv is a parameter and a captured variable, qv is neither.
Statements ==
    {[kind |-> "assign", target |-> n, source |-> pv] : n \in {xv, qv}}
      \cup {[kind |-> k, target |-> xv, source |-> xv] : k \in {"bind", "index"}}
\* va and vb are two variables of matrices or two threads.
Interchangeable == Permutations({va, vb}) \cup Permutations({m1, m2, m3})
=============================================================================
