------------------------------- MODULE Ngram -------------------------------
(***************************************************************************)
(* The n-gram language model as QueryBlazer reads it: a deterministic FST  *)
(* whose states are contexts, with one arc per token seen in the context   *)
(* and at most one phi (backoff) arc to a shorter context.  A model is a   *)
(* record of                                                               *)
(*   arcs[s]     function from the tokens with an arc at s to [w, to]      *)
(*   backoff[s]  {} or the singleton of s's phi arc [w, to]                *)
(*   final[s]    {} or the singleton of s's final cost                     *)
(* and of two tables that follow from these along the phi arcs:            *)
(*   find[s]     what PhiMatcher::Find returns at s, per token             *)
(*   exit[s]     what MakeExitTransitions returns at s (src/transition.h)  *)
(* Costs are natural numbers: a negative log probability, scaled.          *)
(***************************************************************************)
EXTENDS Naturals, Sequences

\* MakeExitTransitions: the state's final cost, or the cost of its phi arc and
\* of what follows; {} where the code asserts ("transitions not found").
ExitOf(m, exit, s) ==
  IF m.final[s] # {}
    THEN m.final[s]
    ELSE UNION {{b.w + c : c \in exit[b.to]} : b \in m.backoff[s]}

\* PhiMatcher::Find: the arc of the first state along the phi arcs that has
\* one for the token, with the costs of the phi arcs added.
FindOf(m, find, s) ==
  LET ViaPhi(t) == {[w |-> b.w + find[b.to][t].w, to |-> find[b.to][t].to] :
                      b \in {b \in m.backoff[s] : t \in DOMAIN find[b.to]}}
  IN [t \in DOMAIN m.arcs[s] \cup UNION {DOMAIN find[b.to] : b \in m.backoff[s]} |->
        IF t \in DOMAIN m.arcs[s] THEN m.arcs[s][t] ELSE CHOOSE a \in ViaPhi(t) : TRUE]

\* One token further: by unk's arc if the model does not have the token.
Follow(m, at, token, unk) ==
  LET find == m.find[at.state]
      arc == find[IF token \in DOMAIN find THEN token ELSE unk]
  IN [state |-> arc.to, cost |-> at.cost + arc.w]

\* The states and costs along a path of tokens from s, the n-th entry after n
\* tokens.
Walk(m, s, path, unk) ==
  LET at[n \in 0 .. Len(path)] ==
        IF n = 0 THEN [state |-> s, cost |-> 0] ELSE Follow(m, at[n - 1], path[n], unk)
  IN at

\* The record completed by its tables; no phi path is longer than `depth`.
WithTables(States, depth, m) ==
  LET exit[n \in 0 .. depth] ==
        IF n = 0 THEN m.final ELSE [s \in States |-> ExitOf(m, exit[n - 1], s)]
      find[n \in 0 .. depth] ==
        IF n = 0 THEN m.arcs ELSE [s \in States |-> FindOf(m, find[n - 1], s)]
  IN [arcs |-> m.arcs, backoff |-> m.backoff, final |-> m.final,
      exit |-> exit[depth], find |-> find[depth]]

\* What build_fst_model.sh makes of an ARPA file: phi arcs lead to the state
\* of the empty context, which is final, so the tables exist.
IsModel(States, Tokens, m) ==
  LET Arcs == [w : Nat, to : States] IN
  \A s \in States :
    /\ DOMAIN m.arcs[s] \subseteq Tokens
    /\ \A t \in DOMAIN m.arcs[s] : m.arcs[s][t] \in Arcs
    /\ m.backoff[s] \subseteq Arcs
    /\ \A a, b \in m.backoff[s] : a = b
    /\ DOMAIN m.find[s] \subseteq Tokens
    /\ \A t \in DOMAIN m.find[s] : m.find[s][t] \in Arcs
    /\ m.find[s] = FindOf(m, m.find, s)
    /\ m.exit[s] = ExitOf(m, m.exit, s)
    /\ m.exit[s] # {} /\ m.exit[s] \subseteq Nat
    /\ \A c, d \in m.exit[s] : c = d
=============================================================================
