-------------------------------- MODULE TopK --------------------------------
(***************************************************************************)
(* class TopK<float> (src/common.h): a priority queue with at most k       *)
(* values that its clients ask, before they do any work on a hypothesis,   *)
(* whether its cost is still within the k best.  BeamSearch, InitBeams and *)
(* Complete break out of a loop or skip a beam on its answer.              *)
(*                                                                         *)
(* `offered` is a history variable: every value Insert was called with.    *)
(* heap, the member `queue`, holds positions of `offered`, so that equal   *)
(* costs stay apart; which of several equal largest values pop() removes   *)
(* is open.                                                                *)
(***************************************************************************)
EXTENDS Integers, Sequences, FiniteSets, Ranking

CONSTANTS K,          \* k
          Costs,      \* the values offered
          MaxOffers   \* bound on the number of calls, for model checking

ASSUME TopKAssumption ==
  /\ K \in Nat \ {0}       \* QBZ_ASSERT(k >= 1, ...)
  /\ Costs \subseteq Int
  /\ MaxOffers \in Nat

VARIABLES offered, heap

TopKVars == <<offered, heap>>

TopKInit == offered = <<>> /\ heap = {}

\* Mutant: the smallest value is on top.
IsBottom(q, log, t) == t \in q /\ \A i \in q : log[i] >= log[t]
\* queue.top()
IsTop(q, log, t) == t \in q /\ \A i \in q : log[i] <= log[t]

\* Mutant: equal costs are let in.
WillInsertEqual(v) ==
  \/ Cardinality(heap) < K
  \/ \E t \in heap : IsTop(heap, offered, t) /\ v <= offered[t]

\* queue.size() < k || compare(value, queue.top())
WillInsert(v) ==
  \/ Cardinality(heap) < K
  \/ \E t \in heap : IsTop(heap, offered, t) /\ v < offered[t]

\* Mutant: the value that evicts another one is not kept itself.
PushForgotten(i, log) ==
  IF Cardinality(heap) < K
    THEN heap' = heap \cup {i}
    ELSE \E t \in heap : IsTop(heap, log, t) /\ heap' = heap \ {t}

\* queue.push(value); if (queue.size() > k) queue.pop();
Push(i, log) ==
  IF Cardinality(heap) < K
    THEN heap' = heap \cup {i}
    ELSE \E t \in heap \cup {i} : /\ IsTop(heap \cup {i}, log, t)
                                  /\ heap' = (heap \cup {i}) \ {t}

Insert(v) ==
  /\ Len(offered) < MaxOffers
  /\ offered' = Append(offered, v)
  /\ IF WillInsert(v) THEN Push(Len(offered'), offered') ELSE UNCHANGED heap

TopKNext == \E v \in Costs : Insert(v)

TopKSpec == TopKInit /\ [][TopKNext]_TopKVars
-----------------------------------------------------------------------------
TopKTypeOK ==
  /\ offered \in Seq(Costs)
  /\ heap \subseteq DOMAIN offered /\ Cardinality(heap) <= K

(* The heap holds k of the smallest  values ever offered, all of them while *)
(* there are at most k.                                                     *)
KeepsSmallest ==
  /\ Cardinality(heap) = MinOf(K, Len(offered))
  /\ \A i \in heap, j \in DOMAIN offered \ heap : offered[i] <= offered[j]

(* WillInsert answers exactly whether the value would rank among the k best *)
(* of everything offered, earlier offers winning ties: what the loops of    *)
(* BeamSearch, InitBeams and Complete take it for.                          *)
WillInsertExact == \A v \in Costs : WillInsert(v) <=> WithinTopK(K, offered, v)

(* A cost once refused is refused for ever: a beam that was skipped or a    *)
(* loop that was left needs no second look.                                 *)
RefusalIsFinal == [][\A v \in Costs : WillInsert(v)' => WillInsert(v)]_TopKVars
=============================================================================
