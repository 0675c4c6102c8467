---------------------------- MODULE MCCompletion ----------------------------
(***************************************************************************)
(* Completion on bigram models: the empty context u and the context x of   *)
(* the token a, with queries that have no candidate but the empty one,     *)
(* candidates of different lengths, and a token that the model lacks.      *)
(***************************************************************************)
EXTENDS Completion

CONSTANTS u, x, a, b, lost

MCStates == {u, x}
MCTokens == {a, b, lost, Unk}

Target == [t \in MCTokens |-> IF t = a THEN x ELSE u]
Weighted(S, W) == {[t \in S |-> [w |-> f[t], to |-> Target[t]]] : f \in [S -> W]}

Bare ==
  {[arcs |-> [s \in MCStates |-> IF s = u THEN au ELSE ax],
    backoff |-> [s \in MCStates |-> IF s = u THEN {} ELSE {[w |-> bx, to |-> u]}],
    final |-> [s \in MCStates |-> IF s = u THEN {fu} ELSE {}]] :
   au \in Weighted({a, b, Unk}, {1, 2}) \cup Weighted({a, b}, {1}),
   ax \in Weighted({a}, {0, 3}) \cup Weighted({b}, {0}), bx \in {0, 2}, fu \in {0, 3}}

MCModels == {WithTables(MCStates, 1, m) : m \in Bare}

MCQueries ==
  {[stable |-> <<a>>, seqs |-> << <<>> >>],
   [stable |-> <<>>, seqs |-> << <<a>>, <<b, a>>, <<b, b>> >>],
   [stable |-> <<>>, seqs |-> << <<a>>, <<b>> >>],
   [stable |-> <<b>>, seqs |-> << <<lost>>, <<a>> >>]}
=============================================================================
