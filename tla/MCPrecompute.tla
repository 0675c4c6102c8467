--------------------------- MODULE MCPrecompute ---------------------------
(* Precompute on a model of three states with two workers.                 *)
EXTENDS Precompute

CONSTANTS w1, w2

MCWorkers == {w1, w2}
=============================================================================
