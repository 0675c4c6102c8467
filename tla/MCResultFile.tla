---------------------------- MODULE MCResultFile ----------------------------
(***************************************************************************)
(* ResultFile with two models of the same size and a larger one, and       *)
(* configs that differ in topk or only in what the file does not tell.     *)
(***************************************************************************)
EXTENDS ResultFile

CONSTANTS m1, m2, large, p, q

MCModels == {m1, m2, large}
MCNumStates == [m \in MCModels |-> IF m = large THEN 3 ELSE 2]
MCConfigs == {[topk |-> 1, rest |-> p], [topk |-> 1, rest |-> q], [topk |-> 2, rest |-> p]}
=============================================================================
