--------------------------- MODULE MCExecutorPool ---------------------------
(***************************************************************************)
(* Small instances of ExecutorPool for TLC.  A weight of 10 stands for     *)
(* max_capacity, the weight 1.0 of a whole domain.                         *)
(***************************************************************************)
EXTENDS ExecutorPool

CONSTANTS w1, w2

(* Concurrent.map submits every element with weight 1.0. *)
WholeDomains == {[e \in Elems |-> 10]}

(* Whole domains; one with a weight that is not in 0.0..1.0 among them;    *)
(* and two jobs that share a domain, though they exceed it together.       *)
AnyWeights == {<<10, 10, 10>>, <<10, 11, 10>>, <<10, 6, 5>>}
=============================================================================
