------------------------------ MODULE Ranking ------------------------------
(***************************************************************************)
(* Choosing the cheapest of several costs: what the class TopK             *)
(* (src/common.h) decides, and what std::partial_sort followed by erase    *)
(* leaves.  TopK.tla shows that the class decides WithinTopK; the searches *)
(* use it instead of carrying a second copy of the costs in a heap.        *)
(***************************************************************************)
EXTENDS Integers, Sequences, FiniteSets

\* TopK::WillInsert(v) after the costs in the sequence `costs` were offered:
\* fewer than k of them are at most v.
WithinTopK(k, costs, v) == Cardinality({i \in DOMAIN costs : costs[i] <= v}) < k

MinOf(n, m) == IF n <= m THEN n ELSE m

\* The sets of n members of S that partial_sort may put first, all of S if it
\* has fewer; which of several equal costs it takes is not specified.
Cheapest(n, S, cost) ==
  {T \in SUBSET S : /\ Cardinality(T) = MinOf(n, Cardinality(S))
                    /\ \A x \in T, y \in S \ T : cost[x] <= cost[y]}

\* Its result as a sequence: the orders in which partial_sort may leave the
\* indices of the n cheapest elements of the sequence `costs`.
SortedCheapest(n, costs) ==
  LET m == MinOf(n, Len(costs)) IN
  {p \in [1 .. m -> DOMAIN costs] :
     /\ \A i, j \in 1 .. m : i < j => p[i] # p[j] /\ costs[p[i]] <= costs[p[j]]
     /\ m > 0 => \A x \in DOMAIN costs : costs[x] < costs[p[m]] => \E i \in 1 .. m : p[i] = x}
=============================================================================
