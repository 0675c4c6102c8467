---------------------------- MODULE MCTreeSearch ----------------------------
(***************************************************************************)
(* TreeSearch on bigram models: the empty context u and the context x of   *)
(* the token a, where tokens may be cheaper or dearer than after a backoff.*)
(***************************************************************************)
EXTENDS TreeSearch, Ngram

CONSTANTS u, x, a, b

MCStates == {u, x}
MCTokens == {a, b, Unk}

Target == [t \in MCTokens |-> IF t = a THEN x ELSE u]
Weighted(S, W) == {[t \in S |-> [w |-> f[t], to |-> Target[t]]] : f \in [S -> W]}

Bare ==
  {[arcs |-> [s \in MCStates |-> IF s = u THEN au ELSE ax],
    backoff |-> [s \in MCStates |-> IF s = u THEN {} ELSE {[w |-> bx, to |-> u]}],
    final |-> [s \in MCStates |-> IF s = u THEN {fu} ELSE {}]] :
   au \in Weighted(MCTokens, {1, 2}) \cup Weighted({a, b}, {1, 2}),
   ax \in Weighted({a}, {0, 3}) \cup Weighted({b}, {0, 3}), bx \in {0, 2}, fu \in {0, 3}}

MCModels == {WithTables(MCStates, 1, m) : m \in Bare}
=============================================================================
