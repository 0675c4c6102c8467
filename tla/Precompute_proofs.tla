------------------------- MODULE Precompute_proofs -------------------------
(***************************************************************************)
(* Proofs about the precomputation.  First the two classes that keep the   *)
(* cheapest of what they see: TopK, for every k and any set of integer     *)
(* costs, and TopArcs, for every well-formed model with costs that are not *)
(* negative and for every branch factor.  Then Precompute, for any number  *)
(* of states and any set of workers: its safety properties follow from one *)
(* inductive invariant, and its steps implement those of PrecomputeAbs.    *)
(***************************************************************************)
EXTENDS Precompute, TopK, TopArcs, FiniteSetTheorems, SequenceTheorems, TLAPS

(* TopK *)

\* Any values offered have a largest one: what makes top() defined.
HaveTop ==
  \A S \in SUBSET DOMAIN offered : S # {} => \E t \in S : IsTop(S, offered, t)

HeapInv == TopKTypeOK /\ KeepsSmallest /\ HaveTop

LEMMA OfferedFacts ==
  ASSUME TopKTypeOK
  PROVE  /\ Len(offered) \in Nat /\ DOMAIN offered = 1 .. Len(offered)
         /\ \A i \in DOMAIN offered : offered[i] \in Costs /\ offered[i] \in Int
         /\ IsFiniteSet(DOMAIN offered) /\ Cardinality(DOMAIN offered) = Len(offered)
         /\ IsFiniteSet(heap) /\ Cardinality(heap) \in Nat
<1>1. Len(offered) \in Nat /\ DOMAIN offered = 1 .. Len(offered)
  BY DEF TopKTypeOK
<1>2. \A i \in DOMAIN offered : offered[i] \in Costs /\ offered[i] \in Int
  <2>1. \A i \in DOMAIN offered : offered[i] \in Costs
    BY <1>1 DEF TopKTypeOK
  <2> QED
    BY <2>1, TopKAssumption
<1>3. IsFiniteSet(DOMAIN offered) /\ Cardinality(DOMAIN offered) = Len(offered)
  <2>1. /\ IsFiniteSet(1 .. Len(offered))
        /\ Cardinality(1 .. Len(offered)) =
             IF 1 > Len(offered) THEN 0 ELSE Len(offered) - 1 + 1
    BY <1>1, FS_Interval
  <2> QED
    BY <1>1, <2>1
<1>4. IsFiniteSet(heap) /\ Cardinality(heap) \in Nat
  BY <1>3, FS_Subset, FS_CardinalityType DEF TopKTypeOK
<1> QED
  BY <1>1, <1>2, <1>3, <1>4

(* While the heap is not full it holds everything offered. *)
LEMMA NotFull ==
  ASSUME HeapInv, Cardinality(heap) < K
  PROVE  heap = DOMAIN offered
<1>1. Cardinality(heap) = Len(offered)
  <2>1. Len(offered) \in Nat /\ Cardinality(heap) \in Nat
    BY OfferedFacts DEF HeapInv
  <2> QED
    BY <2>1, TopKAssumption DEF HeapInv, KeepsSmallest, MinOf
<1> QED
  BY <1>1, OfferedFacts, FS_Subset DEF HeapInv, TopKTypeOK

LEMMA WithinIsExact == HeapInv => WillInsertExact
<1> SUFFICES ASSUME HeapInv, NEW v \in Costs
             PROVE  WillInsert(v) <=> WithinTopK(K, offered, v)
  BY DEF WillInsertExact
<1> DEFINE Below == {i \in DOMAIN offered : offered[i] <= v}
<1>1. v \in Int
  BY TopKAssumption
<1>2. IsFiniteSet(Below) /\ Cardinality(Below) \in Nat
  <2>1. Below \in SUBSET DOMAIN offered
    OBVIOUS
  <2> QED
    BY <2>1, OfferedFacts, FS_Subset, FS_CardinalityType DEF HeapInv
<1>3. CASE Cardinality(heap) < K
  <2>1. Below \in SUBSET heap
    BY <1>3, NotFull
  <2>2. Cardinality(Below) <= Cardinality(heap)
    BY <2>1, OfferedFacts, FS_Subset DEF HeapInv
  <2> QED
    BY <1>3, <2>2, <1>2, OfferedFacts, TopKAssumption DEF WillInsert, WithinTopK, HeapInv
<1>4. CASE ~(Cardinality(heap) < K)
  <2>1. heap # {}
    BY <1>4, TopKAssumption, FS_EmptySet
  <2>2. PICK t \in heap : IsTop(heap, offered, t)
    BY <2>1 DEF HeapInv, HaveTop, TopKTypeOK
  <2>3. /\ t \in DOMAIN offered /\ offered[t] \in Int
        /\ \A i \in heap : offered[i] <= offered[t]
    BY <2>2, OfferedFacts DEF HeapInv, TopKTypeOK, IsTop
  <2>4. WillInsert(v) <=> v < offered[t]
    <3>1. \A u \in heap : IsTop(heap, offered, u) => offered[u] = offered[t]
      BY <2>2, <2>3, OfferedFacts DEF HeapInv, TopKTypeOK, IsTop
    <3> QED
      BY <1>4, <2>2, <3>1 DEF WillInsert
  <2>5. ASSUME v < offered[t] PROVE Cardinality(Below) < K
    <3>1. \A j \in DOMAIN offered \ heap : offered[t] <= offered[j]
      BY <2>3 DEF HeapInv, KeepsSmallest
    <3>2. Below \in SUBSET (heap \ {t})
      BY <2>5, <3>1, <2>3, <1>1, OfferedFacts DEF HeapInv
    <3>3. IsFiniteSet(heap \ {t}) /\ Cardinality(heap \ {t}) = Cardinality(heap) - 1
      BY <2>2, OfferedFacts, FS_RemoveElement DEF HeapInv
    <3>4. Cardinality(Below) <= Cardinality(heap \ {t})
      BY <3>2, <3>3, FS_Subset
    <3>5. Cardinality(heap) <= K
      BY OfferedFacts, TopKAssumption DEF HeapInv, KeepsSmallest, MinOf
    <3> QED
      BY <3>3, <3>4, <3>5, <1>2, OfferedFacts, TopKAssumption DEF HeapInv
  <2>6. ASSUME ~(v < offered[t]) PROVE ~(Cardinality(Below) < K)
    <3>1. heap \in SUBSET Below
      BY <2>6, <2>3, <1>1, OfferedFacts DEF HeapInv, TopKTypeOK
    <3>2. Cardinality(heap) <= Cardinality(Below)
      BY <3>1, <1>2, FS_Subset
    <3> QED
      BY <3>2, <1>4, <1>2, OfferedFacts, TopKAssumption DEF HeapInv
  <2> QED
    BY <2>4, <2>5, <2>6 DEF WithinTopK
<1> QED
  BY <1>3, <1>4
-----------------------------------------------------------------------------
LEMMA HeapInvInit == TopKInit => HeapInv
<1> SUFFICES ASSUME TopKInit PROVE HeapInv
  OBVIOUS
<1>1. offered \in Seq(Costs) /\ DOMAIN offered = {} /\ Len(offered) = 0
  BY DEF TopKInit
<1>2. Cardinality(heap) = 0
  BY FS_EmptySet DEF TopKInit
<1> QED
  BY <1>1, <1>2, TopKAssumption DEF TopKInit, HeapInv, TopKTypeOK, KeepsSmallest, HaveTop, MinOf

LEMMA HeapInvNext == HeapInv /\ [TopKNext]_TopKVars => HeapInv'
<1>1. ASSUME HeapInv, NEW v \in Costs, Insert(v) PROVE HeapInv'
  <2> DEFINE n == Len(offered) + 1
  <2> USE <1>1, OfferedFacts DEF HeapInv
  <2>1. /\ offered' \in Seq(Costs) /\ Len(offered') = n
        /\ DOMAIN offered' = DOMAIN offered \cup {n} /\ n \notin DOMAIN offered
        /\ \A i \in DOMAIN offered : offered'[i] = offered[i]
        /\ offered'[n] = v /\ v \in Int
    BY TopKAssumption DEF Insert, TopKTypeOK
  <2>2. \A i \in DOMAIN offered' : offered'[i] \in Int
    BY <2>1
  <2>3. HaveTop'
    <3>1. ASSUME NEW S \in SUBSET DOMAIN offered', S # {}
          PROVE  \E t \in S : \A i \in S : offered'[i] <= offered'[t]
      <4>1. CASE S \ {n} = {}
        BY <2>1, <3>1, <4>1
      <4>2. CASE S \ {n} # {}
        <5>1. S \ {n} \in SUBSET DOMAIN offered
          BY <2>1
        <5>2. PICK t \in S \ {n} : \A i \in S \ {n} : offered[i] <= offered[t]
          BY <4>2, <5>1 DEF HaveTop, IsTop
        <5>3. \A i \in S \ {n} : offered'[i] <= offered'[t] /\ t \in DOMAIN offered'
          BY <5>1, <5>2, <2>1
        <5>4. CASE offered'[n] <= offered'[t]
          BY <5>3, <5>4
        <5>5. CASE ~(offered'[n] <= offered'[t])
          <6>1. offered'[n] \in Int /\ offered'[t] \in Int /\ n \in DOMAIN offered'
            BY <5>3, <2>1, <2>2
          <6>2. \A i \in S : i \in DOMAIN offered' /\ offered'[i] \in Int
            BY <2>2, <3>1
          <6>3. \A i \in S \ {n} : offered'[i] <= offered'[n]
            BY <5>3, <5>5, <6>1, <6>2
          <6>4. CASE n \in S
            <7>1. offered'[n] <= offered'[n]
              BY <6>1
            <7> QED
              BY <6>3, <6>4, <7>1
          <6>5. CASE n \notin S
            BY <5>3, <6>5
          <6> QED
            BY <6>4, <6>5
        <5> QED
          BY <5>4, <5>5
      <4> QED
        BY <4>1, <4>2
    <3> QED
      BY <3>1 DEF HaveTop, IsTop
  <2>4. CASE ~WillInsert(v)
    <3>1. UNCHANGED heap /\ ~(Cardinality(heap) < K)
      BY <2>4 DEF Insert, WillInsert
    <3>2. heap # {}
      BY <3>1, TopKAssumption, FS_EmptySet
    <3>3. PICK t \in heap : IsTop(heap, offered, t)
      BY <3>2 DEF HaveTop, TopKTypeOK
    <3>4. \A i \in heap : offered[i] <= v /\ i \in DOMAIN offered
      <4>1. offered[t] \in Int /\ ~(v < offered[t])
        BY <3>3, <2>4 DEF WillInsert, TopKTypeOK
      <4>2. \A i \in heap : i \in DOMAIN offered /\ offered[i] \in Int /\ offered[i] <= offered[t]
        BY <3>3 DEF IsTop, TopKTypeOK
      <4> QED
        BY <4>1, <4>2, <2>1
    <3>5. Cardinality(heap') = MinOf(K, Len(offered'))
      BY <3>1, <2>1, TopKAssumption DEF KeepsSmallest, MinOf
    <3>6. \A i \in heap', j \in DOMAIN offered' \ heap' : offered'[i] <= offered'[j]
      BY <3>1, <3>4, <2>1 DEF KeepsSmallest
    <3> QED
      BY <2>1, <2>3, <3>1, <3>5, <3>6 DEF TopKTypeOK, KeepsSmallest
  <2>5. CASE WillInsert(v) /\ Cardinality(heap) < K
    <3>1. heap' = heap \cup {n} /\ heap = DOMAIN offered
      BY <2>5, <2>1, NotFull DEF Insert, Push
    <3>2. Cardinality(heap') = Cardinality(heap) + 1
      BY <3>1, <2>1, FS_AddElement DEF TopKTypeOK
    <3>3. Cardinality(heap') = MinOf(K, Len(offered'))
      BY <3>1, <3>2, <2>1, <2>5, TopKAssumption DEF MinOf
    <3>4. Cardinality(heap') <= K
      BY <3>3, <2>1, TopKAssumption DEF MinOf, TopKTypeOK
    <3> QED
      BY <2>1, <2>3, <3>1, <3>3, <3>4 DEF TopKTypeOK, KeepsSmallest
  <2>6. CASE WillInsert(v) /\ ~(Cardinality(heap) < K)
    <3> DEFINE Q == heap \cup {n}
    <3>1. PICK t \in Q : IsTop(Q, offered', t) /\ heap' = Q \ {t}
      BY <2>6, <2>1 DEF Insert, Push
    <3>2. IsFiniteSet(Q) /\ Cardinality(Q) = Cardinality(heap) + 1
      BY <2>1, FS_AddElement DEF TopKTypeOK
    <3>3. Cardinality(heap') = Cardinality(heap)
      <4>1. Cardinality(Q \ {t}) = Cardinality(Q) - 1
        BY <3>1, <3>2, FS_RemoveElement
      <4> QED
        BY <4>1, <3>1, <3>2
    <3>4. Cardinality(heap') = MinOf(K, Len(offered'))
      BY <3>3, <2>1, <2>6, TopKAssumption DEF KeepsSmallest, MinOf
    <3>5. PICK s \in heap : v < offered[s] /\ \A i \in heap : offered[i] <= offered[s]
      BY <2>6 DEF WillInsert, IsTop
    <3>6. \A j \in DOMAIN offered \ heap : offered[s] <= offered[j] /\ v <= offered[j]
      BY <3>5, <2>1 DEF KeepsSmallest, TopKTypeOK
    <3>7. t # n
      BY <3>1, <3>5, <2>1 DEF IsTop, TopKTypeOK
    <3>8. \A i \in Q, j \in DOMAIN offered' \ Q : offered'[i] <= offered'[j]
      BY <3>6, <2>1 DEF KeepsSmallest, TopKTypeOK
    <3>9. \A i \in heap', j \in DOMAIN offered' \ heap' : offered'[i] <= offered'[j]
      BY <3>1, <3>8 DEF IsTop
    <3>10. Cardinality(heap') <= K
      BY <3>3 DEF TopKTypeOK
    <3> QED
      BY <2>1, <2>3, <3>1, <3>4, <3>9, <3>10 DEF TopKTypeOK, KeepsSmallest
  <2> QED
    BY <2>4, <2>5, <2>6
<1>2. ASSUME HeapInv, UNCHANGED TopKVars PROVE HeapInv'
  BY <1>2 DEF TopKVars, HeapInv, TopKTypeOK, KeepsSmallest, HaveTop, IsTop
<1> QED
  BY <1>1, <1>2 DEF TopKNext

LEMMA HeapInvAlways == TopKSpec => []HeapInv
  BY HeapInvInit, HeapInvNext, PTL DEF TopKSpec
-----------------------------------------------------------------------------
(* The heap refers to values that were offered, and never to more than k.  *)
THEOREM HeapTyped == TopKSpec => []TopKTypeOK
<1>1. HeapInv => TopKTypeOK
  BY DEF HeapInv
<1> QED
  BY <1>1, HeapInvAlways, PTL

(* The heap always holds k of the smallest values offered. *)
THEOREM SmallestKept == TopKSpec => []KeepsSmallest
<1>1. HeapInv => KeepsSmallest
  BY DEF HeapInv
<1> QED
  BY <1>1, HeapInvAlways, PTL

(* WillInsert decides whether a value ranks among the k best. *)
THEOREM WillInsertCorrect == TopKSpec => []WillInsertExact
<1>1. HeapInv => WillInsertExact
  BY WithinIsExact
<1> QED
  BY <1>1, HeapInvAlways, PTL

(* A cost once refused stays refused. *)
THEOREM RefusalFinal == TopKSpec => RefusalIsFinal
<1>0. HeapInv' => WillInsertExact'
  BY WithinIsExact, PTL
<1>1. ASSUME HeapInv, HeapInv', [TopKNext]_TopKVars, NEW v \in Costs, WillInsert(v)'
      PROVE  WillInsert(v)
  <2>1. CASE UNCHANGED TopKVars
    BY <1>1, <2>1 DEF TopKVars, WillInsert, IsTop
  <2>2. ASSUME NEW c \in Costs, Insert(c) PROVE WillInsert(v)
    <3> DEFINE Below == {i \in DOMAIN offered : offered[i] <= v}
               Below1 == {i \in DOMAIN offered' : offered'[i] <= v}
    <3>1. Below \in SUBSET Below1
      BY <1>1, <2>2 DEF Insert, HeapInv, TopKTypeOK
    <3>2. IsFiniteSet(DOMAIN offered')
      BY <1>1, <2>2, OfferedFacts, FS_Interval DEF Insert, HeapInv, TopKTypeOK
    <3>3. Below1 \in SUBSET DOMAIN offered'
      OBVIOUS
    <3>4. IsFiniteSet(Below1) /\ Cardinality(Below) <= Cardinality(Below1)
      BY <3>1, <3>2, <3>3, FS_Subset
    <3>5. Cardinality(Below) \in Nat /\ Cardinality(Below1) \in Nat
      BY <3>1, <3>4, FS_Subset, FS_CardinalityType
    <3>6. Cardinality(Below1) < K
      BY <1>0, <1>1 DEF WillInsertExact, WithinTopK
    <3>7. Cardinality(Below) < K
      BY <3>4, <3>5, <3>6, TopKAssumption
    <3> QED
      BY <1>1, <3>7, WithinIsExact DEF WillInsertExact, WithinTopK
  <2> QED
    BY <1>1, <2>1, <2>2 DEF TopKNext
<1>2. HeapInv /\ HeapInv' /\ [TopKNext]_TopKVars => [\A v \in Costs : WillInsert(v)' => WillInsert(v)]_TopKVars
  BY <1>1
<1> QED
  BY <1>2, HeapInvAlways, PTL DEF TopKSpec, RefusalIsFinal
-----------------------------------------------------------------------------
(* TopArcs *)

Arc == [w : Nat, to : ModelStates]
All == model.find[state]

\* While the loop runs, exactly one state is queued, and what is not yet
\* collected is what PhiMatcher finds there, at the cost of coming there.
Progress ==
  LET here == queue[1] IN
  /\ queue \in Seq([state : ModelStates, cost : Nat]) /\ Len(queue) = 1
  /\ here \in [state : ModelStates, cost : Nat]
  /\ DOMAIN arcs \subseteq Tokens
  /\ \A t \in DOMAIN arcs : t \in DOMAIN All /\ arcs[t] = All[t]
  /\ \A t \in Tokens \ DOMAIN arcs :
       /\ t \in DOMAIN All <=> t \in DOMAIN model.find[here.state]
       /\ t \in DOMAIN All =>
            All[t] = [w |-> here.cost + model.find[here.state][t].w,
                      to |-> model.find[here.state][t].to]

ArcsInv ==
  /\ model \in Models /\ state \in ModelStates
  /\ loop \in {"run", "done", "failed"}
  /\ loop = "run" => Progress
  /\ KeepsCheapest
  /\ FailsOnlyIfFew

(* What the tables of a well-formed model say of a state without and with   *)
(* a phi arc.                                                               *)
LEMMA ModelFacts ==
  ASSUME NEW m \in Models, NEW s \in ModelStates
  PROVE  /\ DOMAIN m.arcs[s] \subseteq Tokens
         /\ \A t \in DOMAIN m.arcs[s] : m.arcs[s][t] \in Arc
         /\ m.backoff[s] \subseteq Arc
         /\ \A a, b \in m.backoff[s] : a = b
         /\ DOMAIN m.find[s] \subseteq Tokens
         /\ \A t \in DOMAIN m.find[s] : m.find[s][t] \in Arc
         /\ m.find[s] = FindOf(m, m.find, s)
  BY TopArcsAssumption DEF IsModel, Arc

LEMMA FindFacts ==
  ASSUME NEW m \in Models, NEW s \in ModelStates
  PROVE  /\ \A t \in DOMAIN m.arcs[s] : t \in DOMAIN m.find[s] /\ m.find[s][t] = m.arcs[s][t]
         /\ m.backoff[s] = {} => DOMAIN m.find[s] = DOMAIN m.arcs[s]
         /\ \A b \in m.backoff[s] :
              /\ DOMAIN m.find[s] = DOMAIN m.arcs[s] \cup DOMAIN m.find[b.to]
              /\ \A t \in DOMAIN m.find[b.to] \ DOMAIN m.arcs[s] :
                   m.find[s][t] = [w |-> b.w + m.find[b.to][t].w, to |-> m.find[b.to][t].to]
<1> DEFINE ViaPhi(t) == {[w |-> b.w + m.find[b.to][t].w, to |-> m.find[b.to][t].to] :
                           b \in {b \in m.backoff[s] : t \in DOMAIN m.find[b.to]}}
           D == DOMAIN m.arcs[s] \cup UNION {DOMAIN m.find[b.to] : b \in m.backoff[s]}
<1>1. m.find[s] = [t \in D |-> IF t \in DOMAIN m.arcs[s] THEN m.arcs[s][t]
                               ELSE CHOOSE a \in ViaPhi(t) : TRUE]
  BY ModelFacts DEF FindOf
<1>2. \A t \in DOMAIN m.arcs[s] : t \in DOMAIN m.find[s] /\ m.find[s][t] = m.arcs[s][t]
  BY <1>1
<1>3. m.backoff[s] = {} => DOMAIN m.find[s] = DOMAIN m.arcs[s]
  BY <1>1
<1>4. ASSUME NEW b \in m.backoff[s]
      PROVE  /\ DOMAIN m.find[s] = DOMAIN m.arcs[s] \cup DOMAIN m.find[b.to]
             /\ \A t \in DOMAIN m.find[b.to] \ DOMAIN m.arcs[s] :
                  m.find[s][t] = [w |-> b.w + m.find[b.to][t].w, to |-> m.find[b.to][t].to]
  <2>1. m.backoff[s] = {b}
    BY <1>4, ModelFacts
  <2>2. D = DOMAIN m.arcs[s] \cup DOMAIN m.find[b.to]
    BY <2>1
  <2>3. ASSUME NEW t \in DOMAIN m.find[b.to]
        PROVE  ViaPhi(t) = {[w |-> b.w + m.find[b.to][t].w, to |-> m.find[b.to][t].to]}
    BY <2>1, <2>3
  <2>4. DOMAIN m.find[s] = D
    BY <1>1
  <2> HIDE DEF ViaPhi, D
  <2>5. ASSUME NEW t \in DOMAIN m.find[b.to] \ DOMAIN m.arcs[s]
        PROVE  m.find[s][t] = [w |-> b.w + m.find[b.to][t].w, to |-> m.find[b.to][t].to]
    <3>1. t \in D
      BY <2>2, <2>5
    <3>2. m.find[s][t] = CHOOSE a \in ViaPhi(t) : TRUE
      BY <1>1, <2>5, <3>1
    <3> QED
      BY <3>2, <2>3, <2>5
  <2> QED
    BY <2>2, <2>4, <2>5
<1> QED
  BY <1>2, <1>3, <1>4

(* What is collected at the queued state: every token's arc as PhiMatcher   *)
(* gives it, and the cost below which nothing is left behind the phi arc.   *)
LEMMA CollectedFacts ==
  ASSUME ArcsInv, loop = "run"
  PROVE  LET here == queue[1] IN
         /\ Head(queue) = here /\ here.state \in ModelStates /\ here.cost \in Nat
         /\ \A t \in DOMAIN Collected \ {Phi} :
              t \in Tokens /\ t \in DOMAIN All /\ Collected[t] = All[t]
         /\ Phi \in DOMAIN Collected <=> model.backoff[here.state] # {}
         /\ \A b \in model.backoff[here.state] :
              /\ Collected[Phi].w = here.cost + b.w
              /\ \A t \in Tokens \ DOMAIN Collected :
                   /\ t \in DOMAIN All <=> t \in DOMAIN model.find[b.to]
                   /\ t \in DOMAIN All =>
                        All[t] = [w |-> (here.cost + b.w) + model.find[b.to][t].w,
                                  to |-> model.find[b.to][t].to]
         /\ model.backoff[here.state] = {} => DOMAIN All \subseteq DOMAIN Collected
         /\ IsFiniteSet(DOMAIN Collected) /\ IsFiniteSet(DOMAIN All)
         /\ DOMAIN All \subseteq Tokens
<1> DEFINE here == queue[1]
           own == model.arcs[here.state]
           back == model.backoff[here.state]
           find == model.find[here.state]
           Plus(a) == [w |-> a.w + here.cost, to |-> a.to]
           D == DOMAIN arcs \cup DOMAIN own \cup {Phi : b \in back}
<1>1. /\ Progress
      /\ model \in Models /\ state \in ModelStates
      /\ Head(queue) = here
      /\ here.state \in ModelStates /\ here.cost \in Nat
  BY DEF ArcsInv, Progress
<1>2. Collected = [t \in D |-> IF t \in DOMAIN arcs THEN arcs[t]
                              ELSE IF t = Phi THEN Plus(CHOOSE b \in back : TRUE)
                              ELSE Plus(own[t])]
  BY <1>1 DEF Collected, Seen
<1>3. /\ DOMAIN arcs \subseteq Tokens
      /\ DOMAIN own \subseteq Tokens
      /\ DOMAIN All \subseteq Tokens
      /\ Phi \notin Tokens /\ IsFiniteSet(Tokens)
  BY <1>1, ModelFacts, TopArcsAssumption DEF Progress, All
<1>4. ASSUME NEW t \in DOMAIN Collected \ {Phi}
      PROVE  t \in Tokens /\ t \in DOMAIN All /\ Collected[t] = All[t]
  <2>1. CASE t \in DOMAIN arcs
    BY <2>1, <1>1, <1>2, <1>3 DEF Progress
  <2>2. CASE t \notin DOMAIN arcs
    <3>1. t \in DOMAIN own
      BY <2>2, <1>2, <1>4
    <3>2. t \in DOMAIN find /\ find[t] = own[t] /\ own[t] \in Arc
      BY <3>1, <1>1, FindFacts, ModelFacts
    <3>3. t \in Tokens /\ t \in DOMAIN All
          /\ All[t] = [w |-> here.cost + own[t].w, to |-> own[t].to]
      BY <3>1, <3>2, <2>2, <1>1, <1>3 DEF Progress
    <3>4. Collected[t] = [w |-> own[t].w + here.cost, to |-> own[t].to]
      BY <3>1, <2>2, <1>2, <1>4
    <3> HIDE DEF own, here
    <3>5. here.cost + own[t].w = own[t].w + here.cost
      BY <3>2, <1>1 DEF Arc
    <3> QED
      BY <3>3, <3>4, <3>5
  <2> QED
    BY <2>1, <2>2
<1>5. Phi \in DOMAIN Collected <=> back # {}
  BY <1>2, <1>3
<1>6. ASSUME NEW b \in back
      PROVE  /\ Collected[Phi].w = here.cost + b.w
             /\ \A t \in Tokens \ DOMAIN Collected :
                  /\ t \in DOMAIN All <=> t \in DOMAIN model.find[b.to]
                  /\ t \in DOMAIN All =>
                       All[t] = [w |-> (here.cost + b.w) + model.find[b.to][t].w,
                                 to |-> model.find[b.to][t].to]
  <2>1. back = {b} /\ b \in Arc
    BY <1>6, <1>1, ModelFacts
  <2>2. Collected[Phi] = [w |-> b.w + here.cost, to |-> b.to]
    <3>1. (CHOOSE c \in back : TRUE) = b
      BY <2>1
    <3>2. Phi \in D /\ Phi \notin DOMAIN arcs
      BY <1>3, <1>6
    <3> QED
      BY <3>1, <3>2, <1>2
  <2>3. Collected[Phi].w = here.cost + b.w
    BY <2>1, <2>2, <1>1 DEF Arc
  <2>4. ASSUME NEW t \in Tokens \ DOMAIN Collected
        PROVE  /\ t \in DOMAIN All <=> t \in DOMAIN model.find[b.to]
               /\ t \in DOMAIN All =>
                    All[t] = [w |-> (here.cost + b.w) + model.find[b.to][t].w,
                              to |-> model.find[b.to][t].to]
    <3>1. t \notin DOMAIN arcs /\ t \notin DOMAIN own
      BY <1>2, <2>4
    <3>2. /\ t \in DOMAIN find <=> t \in DOMAIN model.find[b.to]
          /\ t \in DOMAIN find =>
               find[t] = [w |-> b.w + model.find[b.to][t].w, to |-> model.find[b.to][t].to]
      <4>1. /\ DOMAIN find = DOMAIN own \cup DOMAIN model.find[b.to]
            /\ \A u \in DOMAIN model.find[b.to] \ DOMAIN own :
                 find[u] = [w |-> b.w + model.find[b.to][u].w, to |-> model.find[b.to][u].to]
        <5>1. model \in Models /\ here.state \in ModelStates /\ b \in model.backoff[here.state]
          BY <1>1, <1>6
        <5> HIDE DEF here
        <5>2. DOMAIN find = DOMAIN own \cup DOMAIN model.find[b.to]
          BY <5>1, FindFacts
        <5>3. \A u \in DOMAIN model.find[b.to] \ DOMAIN own :
                find[u] = [w |-> b.w + model.find[b.to][u].w, to |-> model.find[b.to][u].to]
          BY <5>1, FindFacts
        <5> QED
          BY <5>2, <5>3
      <4> HIDE DEF find, own
      <4> QED
        BY <4>1, <3>1
    <3>3. /\ t \in DOMAIN All <=> t \in DOMAIN find
          /\ t \in DOMAIN All =>
               All[t] = [w |-> here.cost + find[t].w, to |-> find[t].to]
      BY <3>1, <1>1, <2>4 DEF Progress
    <3>4. t \in DOMAIN find => model.find[b.to][t].w \in Nat
      BY <3>2, <2>1, <1>1, ModelFacts DEF Arc
    <3>5. t \in DOMAIN find =>
            here.cost + (b.w + model.find[b.to][t].w) = (here.cost + b.w) + model.find[b.to][t].w
      <4> HIDE DEF here
      <4> QED
        BY <3>4, <2>1, <1>1 DEF Arc
    <3> HIDE DEF here, find
    <3> QED
      BY <3>2, <3>3, <3>5
  <2> QED
    BY <2>3, <2>4
<1>7. back = {} => DOMAIN All \subseteq DOMAIN Collected
  <2> SUFFICES ASSUME back = {}, NEW t \in DOMAIN All, t \notin DOMAIN arcs
               PROVE  t \in DOMAIN own
    BY <1>2
  <2>1. t \in DOMAIN find
    BY <1>1, <1>3 DEF Progress
  <2> QED
    BY <2>1, <1>1, FindFacts
<1>8. IsFiniteSet(DOMAIN Collected) /\ IsFiniteSet(DOMAIN All)
  <2>1. IsFiniteSet(Tokens \cup {Phi})
    BY <1>3, FS_AddElement
  <2>2. DOMAIN Collected \subseteq Tokens \cup {Phi}
    BY <1>2, <1>3
  <2> QED
    BY <2>1, <2>2, <1>3, FS_Subset
<1> HIDE DEF own, back, find, Plus, D
<1> QED
  BY <1>1, <1>3, <1>4, <1>5, <1>6, <1>7, <1>8 DEF own, back

LEMMA ArcsInvInit == ArcsInit => ArcsInv
<1> SUFFICES ASSUME ArcsInit PROVE ArcsInv
  OBVIOUS
<1> USE DEF ArcsInit
<1>1. /\ queue \in Seq([state : ModelStates, cost : Nat]) /\ Len(queue) = 1
      /\ queue[1] = [state |-> state, cost |-> 0]
  OBVIOUS
<1>2. ASSUME NEW t \in DOMAIN All
      PROVE  All[t] = [w |-> 0 + All[t].w, to |-> All[t].to]
  <2>1. All[t] \in [w : Nat, to : ModelStates]
    BY ModelFacts DEF All, Arc
  <2> QED
    BY <2>1
<1>3. DOMAIN arcs = {}
  OBVIOUS
<1>4. Progress
  BY <1>1, <1>2, <1>3 DEF Progress, All
<1> QED
  BY <1>4 DEF ArcsInv, KeepsCheapest, FailsOnlyIfFew

(* Enough: what was not collected costs at least as much as the phi arc,    *)
(* which is not among the branch_factor cheapest.                           *)
LEMMA EnoughKeeps ==
  ASSUME ArcsInv, Enough
  PROVE  ArcsInv'
<1> DEFINE C == Collected
           here == queue[1]
<1>0. loop = "run" /\ loop' = "done" /\ model' = model /\ state' = state
  BY DEF Enough
<1>1. PICK top \in Cheapest(BranchFactor, DOMAIN C, Cost(C)) :
        Phi \notin top /\ kept' = Only(C, top)
  BY DEF Enough, PhiBehind
<1>2. BranchFactor \in Nat /\ IsFiniteSet(DOMAIN C) /\ IsFiniteSet(DOMAIN All)
  BY <1>0, CollectedFacts, TopArcsAssumption
<1>3. /\ top \subseteq DOMAIN C
      /\ Cardinality(top) = MinOf(BranchFactor, Cardinality(DOMAIN C))
      /\ \A i \in top, j \in DOMAIN C \ top : C[i].w <= C[j].w
  BY <1>1 DEF Cheapest, Cost
<1>4. Cardinality(top) = BranchFactor
  <2>1. Cardinality(DOMAIN C) \in Nat
    BY <1>2, FS_CardinalityType
  <2>2. Cardinality(DOMAIN C) > BranchFactor
    BY DEF Enough, More
  <2> QED
    BY <2>1, <2>2, <1>2, <1>3 DEF MinOf
<1>5. \A t \in top : t \in DOMAIN All /\ C[t] = All[t]
  BY <1>0, <1>1, <1>3, CollectedFacts
<1>6. DOMAIN kept' = top /\ \A t \in top : kept'[t] = All[t]
  BY <1>1, <1>5 DEF Only
<1>7. MinOf(BranchFactor, Cardinality(DOMAIN All)) = BranchFactor
  <2>1. Cardinality(top) <= Cardinality(DOMAIN All) /\ Cardinality(DOMAIN All) \in Nat
    BY <1>2, <1>5, FS_Subset, FS_CardinalityType
  <2> QED
    BY <2>1, <1>2, <1>4 DEF MinOf
<1>8. ASSUME NEW i \in top, NEW j \in DOMAIN All \ top
      PROVE  All[i].w <= All[j].w
  <2>1. j \in Tokens /\ j # Phi
    BY <1>0, CollectedFacts, TopArcsAssumption
  <2>2. CASE j \in DOMAIN C
    <3>1. C[j] = All[j] /\ C[i] = All[i]
      BY <1>0, <1>5, <2>1, <2>2, CollectedFacts
    <3> QED
      BY <3>1, <2>2, <1>3
  <2>3. CASE j \notin DOMAIN C
    <3>1. here.state \in ModelStates /\ here.cost \in Nat /\ model \in Models /\ state \in ModelStates
      BY <1>0, CollectedFacts DEF ArcsInv
    <3>2. PICK b \in model.backoff[here.state] : TRUE
      BY <1>0, <2>3, CollectedFacts
    <3>3. Phi \in DOMAIN C /\ C[Phi].w = here.cost + b.w
      BY <1>0, CollectedFacts
    <3>4. /\ j \in DOMAIN model.find[b.to]
          /\ All[j] = [w |-> (here.cost + b.w) + model.find[b.to][j].w,
                       to |-> model.find[b.to][j].to]
      BY <1>0, <2>1, <2>3, CollectedFacts
    <3>5. b \in Arc
      BY <3>1, ModelFacts
    <3>6. b.w \in Nat /\ b.to \in ModelStates
      BY <3>5 DEF Arc
    <3>7. model.find[b.to][j] \in Arc
      BY <3>1, <3>4, <3>6, ModelFacts
    <3>8. model.find[b.to][j].w \in Nat
      BY <3>7 DEF Arc
    <3>9. C[i].w <= C[Phi].w /\ C[i] = All[i]
      BY <1>1, <1>3, <1>5, <3>3
    <3>10. All[i] \in Arc
      BY <1>5, <3>1, ModelFacts DEF All
    <3>11. All[i].w \in Nat /\ All[j].w = (here.cost + b.w) + model.find[b.to][j].w
      BY <3>4, <3>10 DEF Arc
    <3> HIDE DEF C, here
    <3> QED
      BY <3>1, <3>3, <3>6, <3>8, <3>9, <3>11
  <2> QED
    BY <2>2, <2>3
<1>9. top \in Cheapest(BranchFactor, DOMAIN All, Cost(All))
  BY <1>4, <1>5, <1>7, <1>8 DEF Cheapest, Cost
<1>10. All' = All
  BY <1>0 DEF All
<1>11. KeepsCheapest'
  BY <1>4, <1>5, <1>6, <1>9, <1>0 DEF KeepsCheapest, All, Cost
<1> QED
  BY <1>0, <1>11 DEF ArcsInv, FailsOnlyIfFew

(* A queue with one element stays one when the element is replaced.         *)
LEMMA ReplacedSingle ==
  ASSUME NEW Item, NEW q \in Seq(Item), Len(q) = 1, NEW n \in Item
  PROVE  /\ q # <<>>
         /\ Append(Tail(q), n) \in Seq(Item)
         /\ Len(Append(Tail(q), n)) = 1
         /\ Append(Tail(q), n)[1] = n
<1>1. q # <<>>
  BY EmptySeq
<1>2. Tail(q) \in Seq(Item) /\ Len(Tail(q)) = 0
  BY <1>1, HeadTailProperties
<1> QED
  BY <1>1, <1>2, AppendProperties

(* Continue: the state behind the phi arc takes the place of the one seen.  *)
LEMMA ContinueKeeps ==
  ASSUME ArcsInv, Continue
  PROVE  ArcsInv'
<1> DEFINE C == Collected
           here == queue[1]
<1>0. /\ loop = "run" /\ loop' = "run" /\ model' = model /\ state' = state
      /\ model \in Models /\ state \in ModelStates
      /\ queue \in Seq([state : ModelStates, cost : Nat]) /\ Len(queue) = 1
      /\ Head(queue) = here /\ here.state \in ModelStates /\ here.cost \in Nat
  BY CollectedFacts DEF Continue, ArcsInv, Progress
<1>1. model.backoff[here.state] # {}
  BY <1>0, CollectedFacts DEF Continue
<1>2. PICK b \in model.backoff[here.state] : b = CHOOSE c \in model.backoff[here.state] : TRUE
  BY <1>1
<1>3. b \in Arc /\ b.w \in Nat /\ b.to \in ModelStates
  <2>1. b \in Arc
    BY <1>0, ModelFacts
  <2> QED
    BY <2>1 DEF Arc
<1> DEFINE next == [state |-> b.to, cost |-> here.cost + b.w]
<1>4. queue' = Append(Tail(queue), next)
  BY <1>0, <1>1, <1>2 DEF Continue, Queued
<1>5. next \in [state : ModelStates, cost : Nat]
  <2> HIDE DEF here
  <2> QED
    BY <1>0, <1>3
<1>6. /\ queue' \in Seq([state : ModelStates, cost : Nat]) /\ Len(queue') = 1
      /\ queue'[1] = next
  <2> DEFINE Item == [state : ModelStates, cost : Nat]
  <2> HIDE DEF next, Item
  <2>1. queue \in Seq(Item) /\ next \in Item /\ Len(queue) = 1
    BY <1>0, <1>5 DEF Item
  <2>2. queue' \in Seq(Item) /\ Len(queue') = 1 /\ queue'[1] = next
    BY <1>4, <2>1, ReplacedSingle
  <2> QED
    BY <2>2 DEF Item
<1>7. DOMAIN arcs' = DOMAIN C \ {Phi} /\ \A t \in DOMAIN arcs' : arcs'[t] = C[t]
  BY DEF Continue, Only
<1>8. /\ DOMAIN arcs' \subseteq Tokens
      /\ \A t \in DOMAIN arcs' : t \in DOMAIN All /\ arcs'[t] = All[t]
  BY <1>0, <1>7, CollectedFacts
<1>9. \A t \in Tokens \ DOMAIN arcs' :
        /\ t \in DOMAIN All <=> t \in DOMAIN model.find[b.to]
        /\ t \in DOMAIN All =>
             All[t] = [w |-> (here.cost + b.w) + model.find[b.to][t].w,
                       to |-> model.find[b.to][t].to]
  <2> SUFFICES ASSUME NEW t \in Tokens \ DOMAIN arcs'
               PROVE  /\ t \in DOMAIN All <=> t \in DOMAIN model.find[b.to]
                      /\ t \in DOMAIN All =>
                           All[t] = [w |-> (here.cost + b.w) + model.find[b.to][t].w,
                                     to |-> model.find[b.to][t].to]
    OBVIOUS
  <2>1. t \in Tokens \ DOMAIN C
    BY <1>7, TopArcsAssumption
  <2> QED
    BY <1>0, <2>1, CollectedFacts
<1>10. next.state = b.to /\ next.cost = here.cost + b.w
  OBVIOUS
<1>11. All' = All
  BY <1>0 DEF All
<1>12. Progress'
  <2> HIDE DEF C, here, next
  <2> QED
    BY <1>0, <1>5, <1>6, <1>8, <1>9, <1>10, <1>11 DEF Progress
<1> QED
  BY <1>0, <1>12 DEF ArcsInv, KeepsCheapest, FailsOnlyIfFew

(* NoPhiLeft: without a phi arc everything is collected.                    *)
LEMMA NoPhiLeftKeeps ==
  ASSUME ArcsInv, NoPhiLeft
  PROVE  ArcsInv'
<1>1. /\ loop = "run" /\ loop' = "failed" /\ model' = model /\ state' = state
      /\ ~More(Collected)
      /\ DOMAIN All \subseteq DOMAIN Collected
      /\ IsFiniteSet(DOMAIN Collected)
  BY CollectedFacts DEF NoPhiLeft
<1>2. Cardinality(DOMAIN All) <= Cardinality(DOMAIN Collected)
  BY <1>1, FS_Subset
<1>3. Cardinality(DOMAIN All) \in Nat /\ Cardinality(DOMAIN Collected) \in Nat
  BY <1>1, FS_Subset, FS_CardinalityType
<1>4. Cardinality(DOMAIN All) <= BranchFactor
  BY <1>1, <1>2, <1>3, TopArcsAssumption DEF More
<1> QED
  BY <1>1, <1>4 DEF ArcsInv, KeepsCheapest, FailsOnlyIfFew, All

LEMMA ArcsInvNext == ArcsInv /\ [ArcsNext]_arcsVars => ArcsInv'
<1>1. CASE arcsVars' = arcsVars
  BY <1>1 DEF arcsVars, ArcsInv, Progress, All, KeepsCheapest, FailsOnlyIfFew, Cost
<1> QED
  BY <1>1, EnoughKeeps, ContinueKeeps, NoPhiLeftKeeps DEF ArcsNext

LEMMA Invariance == ArcsSpec => []ArcsInv
  BY ArcsInvInit, ArcsInvNext, PTL DEF ArcsSpec

(* Whenever GetTopArcs returns, its arcs are branch_factor cheapest of all  *)
(* that the model can emit: for every model with non-negative costs.        *)
THEOREM CheapestKept == ArcsSpec => []KeepsCheapest
<1>1. ArcsInv => KeepsCheapest
  BY DEF ArcsInv
<1> QED
  BY <1>1, Invariance, PTL

(* The assertion behind the loop is never reached.                          *)
THEOREM LoopLeftInside == ArcsSpec => []EndNotReached
<1>1. ArcsInv => EndNotReached
  <2>1. Progress => queue # <<>>
    <3>1. Progress => Len(queue) = 1
      BY DEF Progress
    <3>2. Len(<<>>) = 0
      OBVIOUS
    <3>3. queue = <<>> => Len(queue) = 0
      BY <3>2, Zenon
    <3> QED
      BY <3>1, <3>3
  <2> QED
    BY <2>1 DEF ArcsInv, EndNotReached
<1> QED
  BY <1>1, Invariance, PTL

(* The other assertion fails only for a model with too few tokens.          *)
THEOREM FailureExplained == ArcsSpec => []FailsOnlyIfFew
<1>1. ArcsInv => FailsOnlyIfFew
  BY DEF ArcsInv
<1> QED
  BY <1>1, Invariance, PTL
-----------------------------------------------------------------------------
(* Precompute *)

USE DEF GetEnd, NextFuture, Rethrow, AllJoined, NoMoreTasks

Busy(w) == wpc[w] \notin {"idle", "exited"}
Returning == pc \in {"stop", "join", "done"} /\ ~thrown

\* Where the constructing thread is when it has seen an exception.
Control ==
  /\ thrown => pc \in {"stop", "join", "thrown"}
  /\ pc = "thrown" => thrown
  /\ pc \in {"clear", "done"} \/ Returning => phase = "result"
  /\ stop => pc \in {"join", "done", "thrown"}
  /\ pc \in {"done", "thrown"} => \A w \in Workers : wpc[w] = "exited"
  /\ \A w \in Workers : wpc[w] = "exited" => stop /\ tasks = <<>>

\* A task in the queue or on a worker is of the current phase, no two are of
\* the same state, and the future of each is pending.
Outstanding ==
  /\ \A i \in 1 .. Len(tasks) :
       tasks[i].kind = phase /\ results[tasks[i].state] = "pending"
  /\ \A w \in Workers :
       Busy(w) => task[w].kind = phase /\ results[task[w].state] = "pending"
  /\ \A i, j \in 1 .. Len(tasks) : i # j => tasks[i].state # tasks[j].state
  /\ \A i \in 1 .. Len(tasks), w \in Workers :
       Busy(w) => tasks[i].state # task[w].state
  /\ \A v, w \in Workers :
       v # w /\ Busy(v) /\ Busy(w) => task[v].state # task[w].state

\* The futures that are not yet set, and those that get() has consumed.
Futures ==
  /\ pc = "enqueue" => \A s \in States : s >= idx => results[s] = "none"
  /\ pc = "get" => \A s \in States : s < idx => results[s] = "none"
  /\ pc = "clear" \/ Returning => \A s \in States : results[s] = "none"
  /\ \A t \in failed : thrown \/ results[t.state] = "error"

\* What a worker's place in its task says of the task.
Places ==
  \A w \in Workers :
    /\ wpc[w] \in {"check", "beam", "store"} => task[w].kind = "result"
    /\ wpc[w] = "fill" => task[w].kind = "arcs" /\ topArcs[cur[w]] = "empty"
    /\ Busy(w) /\ task[w].kind = "arcs" => cur[w] = task[w].state
    /\ wpc[w] \in {"get", "beam", "store"} /\ task[w].kind = "result"
         => topResults[task[w].state] = "empty"

\* A future that is ready, or that get() has consumed, has filled its element.
Filled ==
  /\ phase = "arcs" =>
       \A s \in States : /\ results[s] = "ready" => topArcs[s] = "full"
                         /\ pc = "get" /\ s < idx => topArcs[s] = "full"
                         /\ topArcs[s] # "gone"
  /\ phase = "result" =>
       \A s \in States : /\ results[s] = "ready" => topResults[s] = "full"
                         /\ pc = "get" /\ s < idx => topResults[s] = "full"
                         /\ ~Returning => topArcs[s] = "full"
  /\ pc = "clear" \/ Returning => \A s \in States : topResults[s] = "full"
  /\ Returning => \A s \in States : topArcs[s] = "gone"

IndInv == TypeOK /\ Control /\ Outstanding /\ Futures /\ Places /\ Filled
-----------------------------------------------------------------------------
(* Types are kept by every step. *)

LEMMA TaskTypes ==
  ASSUME TypeOK
  PROVE  /\ \A w \in Workers : task[w].state \in States /\ task[w].kind \in Kinds
         /\ \A i \in 1 .. Len(tasks) :
              tasks[i].state \in States /\ tasks[i].kind \in Kinds
         /\ \A t \in failed : t.state \in States
         /\ Len(tasks) \in Nat
<1>1. \A t \in Tasks : t.state \in States /\ t.kind \in Kinds
  BY DEF Tasks
<1>2. \A i \in 1 .. Len(tasks) : tasks[i] \in Tasks
  BY DEF TypeOK
<1> QED
  BY <1>1, <1>2 DEF TypeOK

LEMMA TypeOKInit == Init => TypeOK
<1> SUFFICES ASSUME Init PROVE TypeOK
  OBVIOUS
<1>1. 0 \in States
  BY PrecomputeAssumption DEF States
<1>2. [kind |-> "arcs", state |-> 0] \in Tasks
  BY <1>1 DEF Tasks, Kinds
<1>3. tasks \in Seq(Tasks)
  BY DEF Init
<1> QED
  BY <1>1, <1>2, <1>3 DEF Init, TypeOK, Kinds

LEMMA TypeOKNext == TypeOK /\ [Next]_vars => TypeOK'
<1> SUFFICES ASSUME TypeOK, [Next]_vars PROVE TypeOK'
  OBVIOUS
<1> USE DEF TypeOK, mainVars, poolVars, workerVars, dataVars
<1>1. CASE Enqueue
  <2>1. [kind |-> phase, state |-> idx] \in Tasks
    BY DEF Tasks
  <2> QED
    BY <1>1, <2>1, PrecomputeAssumption DEF Enqueue, States, Kinds
<1>2. CASE GetReady
  BY <1>2, PrecomputeAssumption DEF GetReady, NextPhase, States, Kinds
<1>3. CASE GetError
  BY <1>3 DEF GetError
<1>4. CASE ClearArcs
  BY <1>4 DEF ClearArcs
<1>5. CASE StopPool
  BY <1>5 DEF StopPool
<1>6. CASE JoinPool
  BY <1>6 DEF JoinPool
<1>7. ASSUME NEW w \in Workers, TakeTask(w) PROVE TypeOK'
  <2>0. Head(tasks) \in Tasks /\ Tail(tasks) \in Seq(Tasks)
    BY <1>7 DEF TakeTask
  <2>1. Head(tasks) \in Tasks /\ Head(tasks).state \in States /\ Tail(tasks) \in Seq(Tasks)
    BY <2>0 DEF Tasks
  <2> QED
    BY <1>7, <2>1 DEF TakeTask
<1>8. ASSUME NEW w \in Workers, ExitWorker(w) PROVE TypeOK'
  BY <1>8 DEF ExitWorker
<1>9. ASSUME NEW w \in Workers, ReuseArcs(w) PROVE TypeOK'
  BY <1>9, TaskTypes DEF ReuseArcs, ReturnArcs, Finish
<1>10. ASSUME NEW w \in Workers, ComputeArcs(w) PROVE TypeOK'
  BY <1>10 DEF ComputeArcs
<1>11. ASSUME NEW w \in Workers, StoreArcs(w) PROVE TypeOK'
  BY <1>11, TaskTypes DEF StoreArcs, ReturnArcs, Finish
<1>12. ASSUME NEW w \in Workers, ThrowArcs(w) PROVE TypeOK'
  BY <1>12, TaskTypes DEF ThrowArcs, Finish
<1>13. ASSUME NEW w \in Workers, CheckResult(w) PROVE TypeOK'
  BY <1>13, TaskTypes DEF CheckResult, Finish
<1>14. ASSUME NEW w \in Workers, ThrowSearch(w) PROVE TypeOK'
  BY <1>14, TaskTypes DEF ThrowSearch, Finish
<1>15. ASSUME NEW w \in Workers, EndSearch(w) PROVE TypeOK'
  BY <1>15 DEF EndSearch
<1>16. ASSUME NEW w \in Workers, StoreResult(w) PROVE TypeOK'
  BY <1>16, TaskTypes DEF StoreResult, Finish
<1>17. ASSUME NEW w \in Workers, NEW t \in States, VisitState(w, t) PROVE TypeOK'
  BY <1>17 DEF VisitState
<1>18. CASE UNCHANGED vars
  BY <1>18 DEF vars
<1> QED
  BY <1>1, <1>2, <1>3, <1>4, <1>5, <1>6, <1>7, <1>8, <1>9, <1>10, <1>11, <1>12, <1>13, <1>14, <1>15, <1>16, <1>17, <1>18 DEF Next, Main, Worker
-----------------------------------------------------------------------------
(* IndInv is inductive. *)

LEMMA IndInvInit == Init => IndInv
  BY TypeOKInit
  DEF IndInv, Init, Control, Outstanding, Futures, Places, Filled, Busy, Returning, States

LEMMA IndInvNext == IndInv /\ [Next]_vars => IndInv'
<1> SUFFICES ASSUME IndInv, [Next]_vars PROVE IndInv'
  OBVIOUS
<1>0. TypeOK'
  BY TypeOKNext DEF IndInv
<1> USE PrecomputeAssumption, TaskTypes DEF IndInv, mainVars, poolVars, workerVars, dataVars
<1>1. CASE Enqueue
  <2>0. /\ tasks' = Append(tasks, [kind |-> phase, state |-> idx])
        /\ results[idx] = "none" /\ results' = [results EXCEPT ![idx] = "pending"]
        /\ UNCHANGED <<wpc, task, phase>>
    BY <1>1 DEF Enqueue, TypeOK, Futures, States
  <2>1. Control'
    BY <1>1 DEF Enqueue, Control, Returning, States
  <2>2. Outstanding'
    <3>1. /\ Len(tasks') = Len(tasks) + 1
          /\ \A i \in 1 .. Len(tasks) : tasks'[i] = tasks[i]
          /\ tasks'[Len(tasks) + 1].kind = phase
          /\ tasks'[Len(tasks) + 1].state = idx
      BY <2>0 DEF TypeOK
    <3>2. \A i \in 1 .. Len(tasks) : tasks[i].state # idx
      BY <2>0 DEF Outstanding
    <3>3. \A w \in Workers : Busy(w) => task[w].state # idx
      BY <2>0 DEF Outstanding
    <3>4. \A i \in 1 .. Len(tasks') : i \in 1 .. Len(tasks) \/ i = Len(tasks) + 1
      BY <3>1 DEF TypeOK
    <3> QED
      BY <2>0, <3>1, <3>2, <3>3, <3>4 DEF TypeOK, Outstanding, Busy
  <2>3. Futures'
    BY <1>1 DEF Enqueue, TypeOK, Futures, Returning, States
  <2>4. Places'
    BY <1>1 DEF Enqueue, Places, Busy, States
  <2>5. Filled'
    BY <1>1 DEF Enqueue, Filled, Returning, States
  <2> QED
    BY <2>1, <2>2, <2>3, <2>4, <2>5, <1>0
<1>2. CASE GetReady
  <2>0. /\ results[idx] = "ready" /\ results' = [results EXCEPT ![idx] = "none"]
        /\ UNCHANGED <<tasks, wpc, task>>
        /\ \A s \in States : s < idx + 1 => s < idx \/ s = idx
        /\ idx + 1 >= NumStates => \A s \in States : s < idx \/ s = idx
        /\ phase \in Kinds /\ ~thrown
    BY <1>2 DEF GetReady, TypeOK, States, Control
  <2>1. Control'
    BY <1>2, <2>0 DEF GetReady, NextPhase, Control, Returning, Kinds, States
  <2>2. Outstanding'
    <3>1. phase' # phase => \A s \in States : results[s] # "pending"
      BY <1>2 DEF GetReady, NextPhase, TypeOK, Futures, States
    <3>2. phase' # phase =>
            /\ \A i \in 1 .. Len(tasks) : FALSE
            /\ \A v \in Workers : ~Busy(v)
      BY <3>1 DEF Outstanding
    <3> QED
      BY <2>0, <3>2, SMTT(30) DEF TypeOK, Outstanding, Busy
  <2>3. Futures'
    BY <1>2, <2>0 DEF GetReady, NextPhase, TypeOK, Futures, Returning, Kinds, States
  <2>4. Places'
    BY <1>2, <2>0 DEF GetReady, NextPhase, Places, Busy, Kinds, States
  <2>5. Filled'
    BY <1>2, <2>0 DEF GetReady, NextPhase, TypeOK, Futures, Filled, Returning, Kinds, States
  <2> QED
    BY <2>1, <2>2, <2>3, <2>4, <2>5, <1>0
<1>3. CASE GetError
  <2>1. Control'
    BY <1>3 DEF GetError, Control, Returning
  <2>2. Outstanding'
    BY <1>3 DEF GetError, Outstanding, Busy
  <2>3. Futures'
    BY <1>3 DEF GetError, Futures, Returning
  <2>4. Places'
    BY <1>3 DEF GetError, Places, Busy
  <2>5. Filled'
    BY <1>3 DEF GetError, Filled, Returning
  <2> QED
    BY <2>1, <2>2, <2>3, <2>4, <2>5, <1>0
<1>4. CASE ClearArcs
  <2>1. Control'
    BY <1>4 DEF ClearArcs, Control
  <2>2. Outstanding'
    BY <1>4 DEF ClearArcs, Outstanding, Busy
  <2>3. Futures'
    BY <1>4 DEF ClearArcs, Futures
  <2>4. Places'
    BY <1>4 DEF ClearArcs, Outstanding, Futures, Places, Busy
  <2>5. Filled'
    BY <1>4 DEF ClearArcs, Control, Filled, Returning
  <2> QED
    BY <2>1, <2>2, <2>3, <2>4, <2>5, <1>0
<1>5. CASE StopPool
  <2>1. Control'
    BY <1>5 DEF StopPool, Control, Returning
  <2>2. Outstanding'
    BY <1>5 DEF StopPool, Outstanding, Busy
  <2>3. Futures'
    BY <1>5 DEF StopPool, Futures, Returning
  <2>4. Places'
    BY <1>5 DEF StopPool, Places, Busy
  <2>5. Filled'
    BY <1>5 DEF StopPool, Filled, Returning
  <2> QED
    BY <2>1, <2>2, <2>3, <2>4, <2>5, <1>0
<1>6. CASE JoinPool
  <2>1. Control'
    BY <1>6 DEF JoinPool, Control, Returning
  <2>2. Outstanding'
    BY <1>6 DEF JoinPool, Outstanding, Busy
  <2>3. Futures'
    BY <1>6 DEF JoinPool, Futures, Returning
  <2>4. Places'
    BY <1>6 DEF JoinPool, Places, Busy
  <2>5. Filled'
    BY <1>6 DEF JoinPool, Filled, Returning
  <2> QED
    BY <2>1, <2>2, <2>3, <2>4, <2>5, <1>0
<1>7. ASSUME NEW w \in Workers, TakeTask(w) PROVE IndInv'
  <2>0. /\ Head(tasks) = tasks[1] /\ 1 \in 1 .. Len(tasks)
        /\ Len(tasks') = Len(tasks) - 1
        /\ \A i \in 1 .. Len(tasks') : tasks'[i] = tasks[i + 1] /\ i + 1 \in 1 .. Len(tasks)
        /\ Head(tasks).kind \in Kinds /\ Head(tasks).kind = phase
        /\ Head(tasks).state \in States
    BY <1>7 DEF TakeTask, TypeOK, Outstanding
  <2>1. Control'
    BY <1>7, <2>0 DEF TakeTask, Control, Returning
  <2>2. Outstanding'
    BY <1>7, <2>0 DEF TakeTask, TypeOK, Outstanding, Busy
  <2>3. Futures'
    BY <1>7, <2>0 DEF TakeTask, Futures, Returning
  <2>4. Places'
    <3>1. /\ task' = [task EXCEPT ![w] = Head(tasks)]
          /\ cur' = [cur EXCEPT ![w] = Head(tasks).state]
          /\ wpc' = [wpc EXCEPT ![w] = IF Head(tasks).kind = "arcs" THEN "get" ELSE "check"]
          /\ UNCHANGED <<topArcs, topResults>>
      BY <1>7 DEF TakeTask
    <3>2. ASSUME NEW v \in Workers, v # w
          PROVE  task'[v] = task[v] /\ cur'[v] = cur[v] /\ wpc'[v] = wpc[v]
      BY <3>1, <3>2 DEF TypeOK
    <3>3. /\ task'[w] = Head(tasks) /\ cur'[w] = Head(tasks).state
          /\ wpc'[w] \in {"get", "check"}
          /\ wpc'[w] = "get" <=> Head(tasks).kind = "arcs"
      BY <3>1, <2>0 DEF TypeOK
    <3> QED
      BY <3>1, <3>2, <3>3, <2>0 DEF Places, Busy, Kinds
  <2>5. Filled'
    BY <1>7, <2>0 DEF TakeTask, Filled, Returning
  <2> QED
    BY <2>1, <2>2, <2>3, <2>4, <2>5, <1>0
<1>8. ASSUME NEW w \in Workers, ExitWorker(w) PROVE IndInv'
  <2>1. Control'
    BY <1>8 DEF ExitWorker, Control, Returning
  <2>2. Outstanding'
    BY <1>8 DEF ExitWorker, Outstanding, Busy
  <2>3. Futures'
    BY <1>8 DEF ExitWorker, Futures, Returning
  <2>4. Places'
    BY <1>8 DEF ExitWorker, Places, Busy
  <2>5. Filled'
    BY <1>8 DEF ExitWorker, Filled, Returning
  <2> QED
    BY <2>1, <2>2, <2>3, <2>4, <2>5, <1>0
<1>9. ASSUME NEW w \in Workers, ReuseArcs(w) PROVE IndInv'
  <2>0. /\ task[w].state \in States /\ task[w].kind = phase /\ phase \in Kinds
        /\ results[task[w].state] = "pending"
    BY <1>9 DEF ReuseArcs, TypeOK, Outstanding, Busy
  <2>1. CASE task[w].kind = "arcs"
    <3>1. Control'
      BY <1>9, <2>0, <2>1 DEF ReuseArcs, ReturnArcs, Finish, TypeOK, Control, Returning
    <3>2. Outstanding'
      BY <1>9, <2>0, <2>1 DEF ReuseArcs, ReturnArcs, Finish, TypeOK, Control, Outstanding, Busy
    <3>3. Futures'
      BY <1>9, <2>0, <2>1 DEF ReuseArcs, ReturnArcs, Finish, TypeOK, Futures, Returning
    <3>4. Places'
      BY <1>9, <2>0, <2>1 DEF ReuseArcs, ReturnArcs, Finish, TypeOK, Places, Busy
    <3>5. Filled'
      BY <1>9, <2>0, <2>1 DEF ReuseArcs, ReturnArcs, Finish, TypeOK, Places, Filled, Busy, Returning
    <3> QED
      BY <3>1, <3>2, <3>3, <3>4, <3>5, <1>0
  <2>2. CASE task[w].kind = "result"
    <3>1. Control'
      BY <1>9, <2>0, <2>2 DEF ReuseArcs, ReturnArcs, Finish, TypeOK, Control
    <3>2. Outstanding'
      BY <1>9, <2>0, <2>2 DEF ReuseArcs, ReturnArcs, Finish, TypeOK, Control, Outstanding, Busy
    <3>3. Futures'
      BY <1>9, <2>0, <2>2 DEF ReuseArcs, ReturnArcs, Finish, Futures, Returning
    <3>4. Places'
      BY <1>9, <2>0, <2>2 DEF ReuseArcs, ReturnArcs, Finish, TypeOK, Places, Busy
    <3>5. Filled'
      BY <1>9, <2>0, <2>2 DEF ReuseArcs, ReturnArcs, Finish, Filled, Returning
    <3> QED
      BY <3>1, <3>2, <3>3, <3>4, <3>5, <1>0
  <2> QED
    BY <2>0, <2>1, <2>2 DEF Kinds
<1>10. ASSUME NEW w \in Workers, ComputeArcs(w) PROVE IndInv'
  <2>0. task[w].kind = "arcs"
    BY <1>10 DEF ComputeArcs, TypeOK, Outstanding, Futures, Filled, Busy, Returning, Kinds
  <2>1. Control'
    BY <1>10, <2>0 DEF ComputeArcs, Control, Returning
  <2>2. Outstanding'
    BY <1>10, <2>0 DEF ComputeArcs, Outstanding, Busy
  <2>3. Futures'
    BY <1>10, <2>0 DEF ComputeArcs, Futures, Returning
  <2>4. Places'
    BY <1>10, <2>0 DEF ComputeArcs, Places, Busy
  <2>5. Filled'
    BY <1>10, <2>0 DEF ComputeArcs, Filled, Returning
  <2> QED
    BY <2>1, <2>2, <2>3, <2>4, <2>5, <1>0
<1>11. ASSUME NEW w \in Workers, StoreArcs(w) PROVE IndInv'
  <2>0. /\ task[w].state \in States /\ task[w].kind = phase /\ phase \in Kinds
        /\ results[task[w].state] = "pending"
    BY <1>11 DEF StoreArcs, TypeOK, Outstanding, Busy
  <2>1. Control'
    BY <1>11, <2>0 DEF StoreArcs, ReturnArcs, Finish, TypeOK, Control, Returning
  <2>2. Outstanding'
    BY <1>11, <2>0 DEF StoreArcs, ReturnArcs, Finish, TypeOK, Control, Outstanding, Futures, Filled, Busy
  <2>3. Futures'
    BY <1>11, <2>0 DEF StoreArcs, ReturnArcs, Finish, TypeOK, Futures, Returning
  <2>4. Places'
    BY <1>11, <2>0 DEF StoreArcs, ReturnArcs, Finish, TypeOK, Outstanding, Places, Busy
  <2>5. Filled'
    BY <1>11, <2>0 DEF StoreArcs, ReturnArcs, Finish, TypeOK, Places, Filled, Busy, Returning
  <2> QED
    BY <2>1, <2>2, <2>3, <2>4, <2>5, <1>0
<1>12. ASSUME NEW w \in Workers, ThrowArcs(w) PROVE IndInv'
  <2>0. /\ task[w].state \in States /\ task[w].kind = phase /\ phase \in Kinds
        /\ results[task[w].state] = "pending"
    BY <1>12 DEF ThrowArcs, TypeOK, Outstanding, Busy
  <2>1. Control'
    BY <1>12, <2>0 DEF ThrowArcs, Finish, Control, Returning
  <2>2. Outstanding'
    BY <1>12, <2>0 DEF ThrowArcs, Finish, TypeOK, Outstanding, Busy
  <2>3. Futures'
    BY <1>12, <2>0 DEF ThrowArcs, Finish, TypeOK, Futures, Returning
  <2>4. Places'
    BY <1>12, <2>0 DEF ThrowArcs, Finish, Places, Busy
  <2>5. Filled'
    BY <1>12, <2>0 DEF ThrowArcs, Finish, Filled, Returning
  <2> QED
    BY <2>1, <2>2, <2>3, <2>4, <2>5, <1>0
<1>13. ASSUME NEW w \in Workers, CheckResult(w) PROVE IndInv'
  <2>0. /\ task[w].state \in States /\ task[w].kind = phase /\ phase \in Kinds
        /\ results[task[w].state] = "pending"
    BY <1>13 DEF CheckResult, TypeOK, Outstanding, Busy
  <2>1. CASE topResults[task[w].state] = "full"
    <3>1. Control'
      BY <1>13, <2>0, <2>1 DEF CheckResult, Finish, TypeOK, Control, Returning
    <3>2. Outstanding'
      BY <1>13, <2>0, <2>1 DEF CheckResult, Finish, TypeOK, Outstanding, Futures, Filled, Busy
    <3>3. Futures'
      BY <1>13, <2>0, <2>1 DEF CheckResult, Finish, TypeOK, Futures, Returning
    <3>4. Places'
      BY <1>13, <2>0, <2>1 DEF CheckResult, Finish, TypeOK, Places, Busy
    <3>5. Filled'
      BY <1>13, <2>0, <2>1 DEF CheckResult, Finish, TypeOK, Places, Filled, Returning
    <3> QED
      BY <3>1, <3>2, <3>3, <3>4, <3>5, <1>0
  <2>2. CASE topResults[task[w].state] # "full"
    <3>0. UNCHANGED <<tasks, task, results, phase>> /\ \A v \in Workers : Busy(v)' <=> Busy(v)
      BY <1>13, <2>0, <2>2 DEF CheckResult, TypeOK, Busy, mainVars, poolVars
    <3>1. Control'
      BY <1>13, <2>0, <2>2 DEF CheckResult, Finish, TypeOK, Control, Returning
    <3>2. Outstanding'
      BY <1>13, <3>0 DEF Outstanding
    <3>3. Futures'
      BY <1>13, <2>0, <2>2 DEF CheckResult, Finish, Futures, Returning
    <3>4. Places'
      BY <1>13, <2>0, <2>2 DEF CheckResult, Finish, TypeOK, Places, Busy
    <3>5. Filled'
      BY <1>13, <2>0, <2>2 DEF CheckResult, Finish, Filled, Returning
    <3> QED
      BY <3>1, <3>2, <3>3, <3>4, <3>5, <1>0
  <2> QED
    BY <2>0, <2>1, <2>2 DEF Kinds
<1>14. ASSUME NEW w \in Workers, ThrowSearch(w) PROVE IndInv'
  <2>0. /\ task[w].state \in States /\ task[w].kind = phase /\ phase \in Kinds
        /\ results[task[w].state] = "pending"
    BY <1>14 DEF ThrowSearch, TypeOK, Outstanding, Busy
  <2>1. Control'
    BY <1>14, <2>0 DEF ThrowSearch, Finish, Control, Returning
  <2>2. Outstanding'
    BY <1>14, <2>0 DEF ThrowSearch, Finish, TypeOK, Outstanding, Busy
  <2>3. Futures'
    BY <1>14, <2>0 DEF ThrowSearch, Finish, TypeOK, Futures, Returning
  <2>4. Places'
    BY <1>14, <2>0 DEF ThrowSearch, Finish, Places, Busy
  <2>5. Filled'
    BY <1>14, <2>0 DEF ThrowSearch, Finish, Filled, Returning
  <2> QED
    BY <2>1, <2>2, <2>3, <2>4, <2>5, <1>0
<1>15. ASSUME NEW w \in Workers, EndSearch(w) PROVE IndInv'
  <2>1. Control'
    BY <1>15 DEF EndSearch, Control, Returning
  <2>2. Outstanding'
    BY <1>15 DEF EndSearch, Outstanding, Busy
  <2>3. Futures'
    BY <1>15 DEF EndSearch, Futures, Returning
  <2>4. Places'
    BY <1>15 DEF EndSearch, Places, Busy
  <2>5. Filled'
    BY <1>15 DEF EndSearch, Filled, Returning
  <2> QED
    BY <2>1, <2>2, <2>3, <2>4, <2>5, <1>0
<1>16. ASSUME NEW w \in Workers, StoreResult(w) PROVE IndInv'
  <2>0. /\ task[w].state \in States /\ task[w].kind = phase /\ phase \in Kinds
        /\ results[task[w].state] = "pending"
    BY <1>16 DEF StoreResult, TypeOK, Outstanding, Busy
  <2>1. Control'
    BY <1>16, <2>0 DEF StoreResult, Finish, Control, Returning
  <2>2. Outstanding'
    BY <1>16, <2>0 DEF StoreResult, Finish, TypeOK, Outstanding, Busy
  <2>3. Futures'
    BY <1>16, <2>0 DEF StoreResult, Finish, Futures, Returning
  <2>4. Places'
    BY <1>16, <2>0 DEF StoreResult, Finish, TypeOK, Outstanding, Places, Busy
  <2>5. Filled'
    BY <1>16, <2>0 DEF StoreResult, Finish, TypeOK, Places, Filled, Returning
  <2> QED
    BY <2>1, <2>2, <2>3, <2>4, <2>5, <1>0
<1>17. ASSUME NEW w \in Workers, NEW t \in States, VisitState(w, t) PROVE IndInv'
  <2>1. Control'
    BY <1>17 DEF VisitState, Control, Returning
  <2>2. Outstanding'
    BY <1>17 DEF VisitState, Outstanding, Busy
  <2>3. Futures'
    BY <1>17 DEF VisitState, Futures, Returning
  <2>4. Places'
    BY <1>17 DEF VisitState, Places, Busy
  <2>5. Filled'
    BY <1>17 DEF VisitState, Filled, Returning
  <2> QED
    BY <2>1, <2>2, <2>3, <2>4, <2>5, <1>0
<1>18. CASE UNCHANGED vars
  <2>1. Control'
    BY <1>18 DEF vars, Control, Returning
  <2>2. Outstanding'
    BY <1>18 DEF vars, Outstanding, Busy
  <2>3. Futures'
    BY <1>18 DEF vars, Futures, Returning
  <2>4. Places'
    BY <1>18 DEF vars, Places, Busy
  <2>5. Filled'
    BY <1>18 DEF vars, Filled, Returning
  <2> QED
    BY <2>1, <2>2, <2>3, <2>4, <2>5, <1>0
<1> QED
  BY <1>1, <1>2, <1>3, <1>4, <1>5, <1>6, <1>7, <1>8, <1>9, <1>10, <1>11, <1>12, <1>13, <1>14, <1>15, <1>16, <1>17, <1>18 DEF Next, Main, Worker

LEMMA IndInvAlways == Spec => []IndInv
<1>1. Init => IndInv
  BY IndInvInit
<1>2. IndInv /\ [Next]_vars => IndInv'
  BY IndInvNext
<1> QED
  BY <1>1, <1>2, PTL DEF Spec
-----------------------------------------------------------------------------
(* The results. *)

(* Every variable of the construction keeps its type. *)
THEOREM TypeCorrect == Spec => []TypeOK
<1>1. IndInv => TypeOK
  BY DEF IndInv
<1> QED
  BY <1>1, IndInvAlways, PTL

(* With any number of threads and states, no two threads meet at an element *)
(* of topArcs or topResults with one of them writing it.                    *)
THEOREM RaceFree == Spec => []NoDataRace
<1>1. ASSUME IndInv PROVE NoDataRace
  <2> USE DEF IndInv
  <2>1. \A w \in Workers : Busy(w) => pc # "clear"
    BY <1>1, TaskTypes DEF Outstanding, Futures
  <2>2. ASSUME NEW v \in Workers, NEW w \in Workers, v # w
        PROVE  Writes(v) \cap (Reads(w) \cup Writes(w)) = {}
    <3>1. CASE wpc[v] = "fill"
      <4>1. cur[v] = task[v].state /\ phase = "arcs"
        BY <1>1, <3>1 DEF Places, Outstanding, Busy
      <4>2. Busy(w) => cur[w] = task[w].state /\ task[w].kind = "arcs"
        BY <1>1, <4>1 DEF Places, Outstanding
      <4>3. Busy(w) => cur[w] # cur[v]
        BY <1>1, <2>2, <3>1, <4>1, <4>2 DEF Outstanding, Busy
      <4>4. wpc[w] # "beam" /\ wpc[w] # "check" /\ wpc[w] # "store"
        BY <1>1, <4>2 DEF Places, Busy
      <4> QED
        BY <3>1, <4>3, <4>4 DEF Writes, Reads, Busy
    <3>2. CASE wpc[v] = "store"
      <4>1. Busy(w) => task[w].state # task[v].state
        BY <1>1, <2>2, <3>2 DEF Outstanding, Busy
      <4> QED
        BY <3>2, <4>1 DEF Writes, Reads, Busy
    <3> QED
      BY <3>1, <3>2 DEF Writes
  <2>3. ASSUME NEW w \in Workers
        PROVE  MainWrites \cap (Reads(w) \cup Writes(w)) = {}
    BY <2>1 DEF MainWrites, Reads, Writes, Busy
  <2> QED
    BY <2>2, <2>3 DEF NoDataRace
<1> QED
  BY <1>1, IndInvAlways, PTL

(* However PrecomputeTopResults ends, the pool is empty and every worker has *)
(* ended.                                                                    *)
THEOREM PoolDrained == Spec => []NoThreadLeft
<1>1. IndInv => NoThreadLeft
  BY PrecomputeAssumption DEF IndInv, Control, NoThreadLeft
<1> QED
  BY <1>1, IndInvAlways, PTL

(* A construction that returns had no task that threw.                       *)
THEOREM ErrorsReported == Spec => []NoErrorLost
<1>1. ASSUME IndInv, pc = "done" PROVE failed = {}
  <2>1. Returning
    BY <1>1 DEF IndInv, TypeOK, Control, Returning
  <2>2. \A t \in failed : FALSE
    BY <1>1, <2>1, TaskTypes DEF IndInv, Futures, Returning
  <2> QED
    BY <2>2
<1>2. IndInv => NoErrorLost
  BY <1>1 DEF NoErrorLost
<1> QED
  BY <1>2, IndInvAlways, PTL

(* The threads implement the two-phase promise of PrecomputeAbs: every write *)
(* to the vectors is a step of the promise, every other step a stutter.      *)
THEOREM Refines == Spec => RefinesAbs
<1>1. Init => Abs!Init
  BY DEF Init, Abs!Init
<1>2. ASSUME IndInv, IndInv', [Next]_vars PROVE [Abs!Next]_Abs!vars
  <2> USE <1>2, PrecomputeAssumption, TaskTypes DEF IndInv, Abs!vars, Abs!Next
  <2> DEFINE Outcome == IF pc \in {"done", "thrown"} THEN pc ELSE "running"
  <2>1. CASE UNCHANGED <<topArcs, topResults>> /\ UNCHANGED Outcome
    BY <2>1
  <2>2. CASE Enqueue \/ GetReady \/ GetError \/ StopPool
    BY <2>1, <2>2 DEF Enqueue, GetReady, NextPhase, GetError, StopPool, dataVars
  <2>3. CASE ClearArcs
    <3>1. Abs!DropArcs
      BY <2>3 DEF ClearArcs, Filled, Control, Returning, Abs!DropArcs
    <3> QED
      BY <3>1
  <2>4. CASE JoinPool
    <3>1. CASE thrown
      <4>1. \E s \in States : topArcs[s] # "gone"
        BY <2>4, <3>1 DEF JoinPool, TypeOK, Filled, Returning, States, Kinds
      <4>2. Abs!Throw
        BY <2>4, <3>1, <4>1 DEF JoinPool, Abs!Throw, dataVars
      <4> QED
        BY <4>2
    <3>2. CASE ~thrown
      <4>1. Abs!Return
        BY <2>4, <3>2 DEF JoinPool, Filled, Returning, Abs!Return, dataVars
      <4> QED
        BY <4>1
    <3> QED
      BY <3>1, <3>2
  <2>5. ASSUME NEW w \in Workers, Worker(w)
        PROVE  [Abs!Next]_Abs!vars
    <3>1. (Outcome = "running" /\ Outcome' = "running") \/ ExitWorker(w)
      BY <2>5 DEF Worker, Control, TakeTask, ReuseArcs, ComputeArcs, StoreArcs,
         ThrowArcs, CheckResult, ThrowSearch, EndSearch, StoreResult, VisitState, mainVars
    <3>2. CASE StoreArcs(w)
      <4>1. Abs!FillArcs(cur[w])
        BY <3>1, <3>2 DEF StoreArcs, ExitWorker, Places, TypeOK, Abs!FillArcs
      <4> QED
        BY <4>1 DEF TypeOK
    <3>3. CASE StoreResult(w)
      <4>1. Abs!FillResult(task[w].state)
        BY <3>1, <3>3 DEF StoreResult, ExitWorker, Places, Outstanding, Filled, Futures,
           Busy, Returning, TypeOK, Abs!FillResult
      <4> QED
        BY <4>1
    <3>4. CASE ~StoreArcs(w) /\ ~StoreResult(w)
      BY <2>5, <2>1, <3>4 DEF Worker, TakeTask, ExitWorker, ReuseArcs, ComputeArcs,
         ThrowArcs, CheckResult, ThrowSearch, EndSearch, VisitState, mainVars, dataVars
    <3> QED
      BY <3>2, <3>3, <3>4
  <2>6. CASE UNCHANGED vars
    BY <2>1, <2>6 DEF vars, mainVars, dataVars
  <2> QED
    BY <2>2, <2>3, <2>4, <2>5, <2>6 DEF Next, Main
<1> QED
  BY <1>1, <1>2, IndInvAlways, PTL DEF Spec, RefinesAbs, Abs!Spec
=============================================================================
