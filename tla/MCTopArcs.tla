----------------------------- MODULE MCTopArcs -----------------------------
(***************************************************************************)
(* TopArcs on trigram-like models: the empty context u has all the tokens, *)
(* the contexts x and xx have some of them and back off to u and to x.     *)
(***************************************************************************)
EXTENDS TopArcs

CONSTANTS u, x, xx, a, b, c

MCStates == {u, x, xx}
MCTokens == {a, b, c}

\* Where an arc leads plays no part in choosing it: one target per token.
Target == [t \in MCTokens |-> IF t = a THEN x ELSE u]
Weighted(T, W) == UNION {{[t \in S |-> [w |-> f[t], to |-> Target[t]]] : f \in [S -> W]} : S \in T}

Bare ==
  {[arcs |-> [s \in MCStates |-> IF s = u THEN au ELSE IF s = x THEN ax ELSE axx],
    backoff |-> [s \in MCStates |-> IF s = u THEN {} ELSE IF s = x THEN {[w |-> bx, to |-> u]}
                                    ELSE {[w |-> bxx, to |-> x]}],
    final |-> [s \in MCStates |-> IF s = u THEN {0} ELSE {}]] :
   au \in Weighted({{a, b, c}, {a, b}}, {0, 2}), ax \in Weighted({{}, {a}, {a, b}}, {0, 1}),
   axx \in Weighted({{}, {a}, {c}}, {0, 3}), bx \in {0, 1}, bxx \in {0, 1, 2}}

MCModels == {WithTables(MCStates, 2, m) : m \in Bare}
=============================================================================
