------------------------- MODULE Completion_proofs -------------------------
(***************************************************************************)
(* Proofs about Completion, for every model, Config and set of queries:    *)
(* what is answered, and what is kept for later queries, costs what the    *)
(* model says; leaving the loops early loses nothing from sorted lists;    *)
(* and a query throws only where the model is poor.                        *)
(*                                                                         *)
(* What a search keeps is known from BeamSearch_proofs, instantiated as    *)
(* Completion instantiates BeamSearch; the first lemmas say that both      *)
(* instances are the same.                                                 *)
(***************************************************************************)
EXTENDS Completion, SequenceTheorems, FiniteSetTheorems, NaturalsInduction, TLAPS

SearchP == INSTANCE BeamSearch_proofs

LEMMA SameConfig == SearchP!ConfigOK
  BY CompletionAssumption
  DEF Search!ConfigOK, Search!IsModel, Search!FindOf, Search!ExitOf, Search!IsFiniteSet,
      SearchP!ConfigOK, SearchP!IsModel, SearchP!FindOf, SearchP!ExitOf, SearchP!IsFiniteSet

LEMMA ConfigFacts ==
  /\ TopKSize \in Nat \ {0} /\ BeamSize \in Nat \ {0} /\ LengthLimit \in Nat
  /\ \A m \in Models : SearchP!IsModel(States, Tokens, m)
  BY SameConfig DEF SearchP!ConfigOK

LEMMA SameWalk == \A m, s, path : Walk(m, s, path, Unk) = SearchP!Walk(m, s, path, Unk)
  BY DEF Walk, Follow, SearchP!Walk, SearchP!Follow

LEMMA SameTopK == \A k, costs, c : WithinTopK(k, costs, c) <=> SearchP!WithinTopK(k, costs, c)
  BY DEF WithinTopK, Cardinality, SearchP!WithinTopK, SearchP!Cardinality

LEMMA SameBegin == Search!Init => SearchP!Init
  BY DEF Search!Init, Search!Root, Search!NoArcs, SearchP!Init, SearchP!Root, SearchP!NoArcs

LEMMA SameTake == \A p : Search!Take(p) => SearchP!Take(p)
  BY DEF Search!Take, Search!BeamLeft, Search!Taken, Search!Front, Search!WillInsert, Search!Accepted,
         Search!Costs, Search!WithinTopK, Search!Cardinality,
         SearchP!Take, SearchP!BeamLeft, SearchP!Taken, SearchP!Front, SearchP!WillInsert, SearchP!Accepted,
         SearchP!Costs, SearchP!WithinTopK, SearchP!Cardinality

LEMMA SameEnded == \A p : Search!Ended(p) = SearchP!Ended(p)
  BY DEF Search!Ended, Search!WillInsert, Search!Accepted, Search!Costs, Search!WithinTopK, Search!Cardinality,
         SearchP!Ended, SearchP!WillInsert, SearchP!Accepted, SearchP!Costs, SearchP!WithinTopK,
         SearchP!Cardinality

LEMMA SamePastLimit == \A p : Search!PastLimit(p) => SearchP!PastLimit(p)
  BY SameTake DEF Search!PastLimit, Search!WithinLimit, SearchP!PastLimit, SearchP!WithinLimit

LEMMA SameSelected == \A s : Search!Selected(s) = SearchP!Selected(s)
  BY DEF Search!Selected, Search!NoArcs, Search!Cheapest, Search!MinOf, Search!Cardinality,
         SearchP!Selected, SearchP!NoArcs, SearchP!Cheapest, SearchP!MinOf, SearchP!Cardinality

LEMMA SameChildren == \A p, arcs, costs : Search!Children(p, arcs, costs) = SearchP!Children(p, arcs, costs)
  BY DEF Search!Children, Search!Weight, Search!Accepted, Search!WithinTopK, Search!Cardinality,
         SearchP!Children, SearchP!Weight, SearchP!Accepted, SearchP!WithinTopK, SearchP!Cardinality

LEMMA SameExpand == \A p : Search!Expand(p) => SearchP!Expand(p)
<1> SUFFICES ASSUME NEW p, Search!Expand(p) PROVE SearchP!Expand(p)
  OBVIOUS
<1>1. /\ SearchP!Take(p) /\ SearchP!WithinLimit(p) /\ result' = SearchP!Ended(p) /\ UNCHANGED status
  BY SameTake, SameEnded DEF Search!Expand, Search!WithinLimit, SearchP!WithinLimit
<1>2. PICK arcs \in Search!Selected(tree[p].state) :
        /\ topArcs' = [topArcs EXCEPT ![tree[p].state] = arcs]
        /\ tree' = [q \in DOMAIN tree \cup DOMAIN Search!Children(p, arcs, Search!Costs(result')) |->
                      IF q \in DOMAIN tree THEN tree[q]
                      ELSE Search!Children(p, arcs, Search!Costs(result'))[q]]
  BY DEF Search!Expand
<1>3. arcs \in SearchP!Selected(tree[p].state)
  BY SameSelected
<1>4. Search!Children(p, arcs, Search!Costs(result')) = SearchP!Children(p, arcs, SearchP!Costs(result'))
  BY SameChildren DEF Search!Costs, SearchP!Costs
<1> QED
  BY <1>1, <1>2, <1>3, <1>4 DEF SearchP!Expand

LEMMA SameArcsMissing == \A p : Search!ArcsMissing(p) => SearchP!ArcsMissing(p)
  BY SameTake, SameEnded
  DEF Search!ArcsMissing, Search!WithinLimit, Search!MayMiss, Search!NoArcs, Search!Cardinality,
      SearchP!ArcsMissing, SearchP!WithinLimit, SearchP!MayMiss, SearchP!NoArcs, SearchP!Cardinality

LEMMA SameEndRound == Search!EndRound => SearchP!EndRound
  BY DEF Search!EndRound, Search!RoundOver, Search!BeamLeft, Search!Taken, Search!Front, Search!WillInsert,
         Search!Accepted, Search!Costs, Search!WithinTopK, Search!Cardinality, Search!Cut,
         SearchP!EndRound, SearchP!RoundOver, SearchP!BeamLeft, SearchP!Taken, SearchP!Front,
         SearchP!WillInsert, SearchP!Accepted, SearchP!Costs, SearchP!WithinTopK, SearchP!Cardinality,
         SearchP!Cut

LEMMA SameReturn == Search!Return => SearchP!Return
  BY DEF Search!Return, Search!Trimmed, Search!SortedCheapest, Search!MinOf, Search!Costs,
         SearchP!Return, SearchP!Trimmed, SearchP!SortedCheapest, SearchP!MinOf, SearchP!Costs

LEMMA SameNext == Search!Next => SearchP!Next
  BY SamePastLimit, SameExpand, SameArcsMissing, SameEndRound, SameReturn DEF Search!Next, SearchP!Next

\* From one search to the next, the arcs kept stay.
LEMMA SameSet ==
  ASSUME SearchP!IndInv, UNCHANGED <<model, topArcs>>, NEW s \in States, Search!Set(s, "search")
  PROVE  SearchP!Begun'
  BY DEF Search!Set, Search!Root, SearchP!IndInv, SearchP!TypeOK, SearchP!Begun, SearchP!ArcTable,
         SearchP!Kept, SearchP!Root

LEMMA BeginsNext == SearchP!Begun' => SearchP!IndInv'
<1>1. SearchP!Begun => SearchP!IndInv
  BY SameConfig, SearchP!BeginsOK
<1> QED
  BY <1>1, PTL
-----------------------------------------------------------------------------
(* Paths in the model *)

Hyp == [state : States, cost : Nat]
Results == [path : Seq(Tokens), cost : Nat]

LEMMA AtPrefix ==
  ASSUME NEW s, NEW path \in Seq(Tokens), NEW n \in 0 .. Len(path)
  PROVE  At(s, SubSeq(path, 1, n)) = SearchP!Walk(model, s, path, Unk)[n]
<1>1. SUFFICES ASSUME NEW q, q = SubSeq(path, 1, n)
               PROVE  At(s, q) = SearchP!Walk(model, s, path, Unk)[n]
  OBVIOUS
<1>2. n \in Nat /\ Len(path) \in Nat /\ q \in Seq(Tokens) /\ Len(q) = n /\ SearchP!Agree(q, path, n)
  BY <1>1 DEF SearchP!Agree
<1>3. SearchP!Walk(model, s, q, Unk)[n] = SearchP!Walk(model, s, path, Unk)[n]
  BY <1>2, SearchP!WalkPrefix
<1> QED
  BY <1>2, <1>3, SameWalk DEF At

LEMMA CanWalkIs ==
  ASSUME NEW s, NEW path \in Seq(Tokens)
  PROVE  CanWalk(s, path) <=> SearchP!Walkable(model, s, path, Unk)
<1>1. Len(path) \in Nat
  OBVIOUS
<1>2. \A n \in 1 .. Len(path) : At(s, SubSeq(path, 1, n - 1)) = SearchP!Walk(model, s, path, Unk)[n - 1]
  BY <1>1, AtPrefix
<1> QED
  BY <1>2 DEF CanWalk, SearchP!Walkable

LEMMA AtFacts ==
  ASSUME model \in Models, NEW s \in States, NEW path \in Seq(Tokens), CanWalk(s, path)
  PROVE  /\ At(s, path) \in Hyp /\ Len(path) \in Nat
         /\ \A n \in 0 .. Len(path) : SearchP!Walk(model, s, path, Unk)[n] \in Hyp
         /\ At(s, path) = SearchP!Walk(model, s, path, Unk)[Len(path)]
<1>1. SearchP!IsModel(States, Tokens, model) /\ Len(path) \in Nat
  BY ConfigFacts
<1>2. SearchP!Walkable(model, s, path, Unk)
  BY CanWalkIs
<1>3. \A n \in 0 .. Len(path) : SearchP!Walk(model, s, path, Unk)[n] \in Hyp
  BY <1>1, <1>2, SearchP!WalkType DEF Hyp
<1>4. At(s, path) = SearchP!Walk(model, s, path, Unk)[Len(path)]
  BY SameWalk DEF At
<1> QED
  BY <1>1, <1>3, <1>4

\* One token further from c more.
LEMMA FollowShift ==
  ASSUME model \in Models, NEW at, NEW bt \in Hyp, NEW c \in Nat, NEW t,
         at.state = bt.state, at.cost = c + bt.cost,
         {t, Unk} \cap DOMAIN model.find[bt.state] # {}
  PROVE  /\ SearchP!Follow(model, at, t, Unk).state = SearchP!Follow(model, bt, t, Unk).state
         /\ SearchP!Follow(model, at, t, Unk).cost = c + SearchP!Follow(model, bt, t, Unk).cost
<1> DEFINE find == model.find[bt.state]
           arc == find[IF t \in DOMAIN find THEN t ELSE Unk]
<1>1. arc.w \in Nat
  <2>1. \A u \in DOMAIN find : find[u].w \in Nat
    BY ConfigFacts DEF SearchP!IsModel, Hyp
  <2> QED
    BY <2>1
<1>2. bt.cost \in Nat
  BY DEF Hyp
<1>3. /\ SearchP!Follow(model, at, t, Unk).state = arc.to /\ SearchP!Follow(model, bt, t, Unk).state = arc.to
      /\ SearchP!Follow(model, at, t, Unk).cost = at.cost + arc.w
      /\ SearchP!Follow(model, bt, t, Unk).cost = bt.cost + arc.w
  BY DEF SearchP!Follow
<1> HIDE DEF arc
<1> QED
  BY <1>1, <1>2, <1>3

(* The walk along two paths, one after the other. *)
LEMMA WalkConcat ==
  ASSUME model \in Models, NEW s \in States, NEW p \in Seq(Tokens), NEW q \in Seq(Tokens),
         CanWalk(s, p), CanWalk(At(s, p).state, q)
  PROVE  /\ p \o q \in Seq(Tokens) /\ CanWalk(s, p \o q)
         /\ At(s, p \o q).state = At(At(s, p).state, q).state
         /\ At(s, p \o q).cost = At(s, p).cost + At(At(s, p).state, q).cost
<1>1. SUFFICES ASSUME NEW pq, pq = p \o q
               PROVE  /\ pq \in Seq(Tokens) /\ CanWalk(s, pq)
                      /\ At(s, pq).state = At(At(s, p).state, q).state
                      /\ At(s, pq).cost = At(s, p).cost + At(At(s, p).state, q).cost
  BY Zenon
<1>2. /\ Len(p) \in Nat /\ Len(q) \in Nat
      /\ pq \in Seq(Tokens) /\ Len(pq) = Len(p) + Len(q) /\ Len(pq) \in Nat
      /\ \A n \in 1 .. Len(p) : pq[n] = p[n]
      /\ \A n \in 1 .. Len(q) : pq[Len(p) + n] = q[n]
  BY <1>1
<1> DEFINE P == SearchP!Walk(model, s, p, Unk)
           W == SearchP!Walk(model, s, pq, Unk)
           end == At(s, p)
           V == SearchP!Walk(model, end.state, q, Unk)
<1>3. /\ end \in Hyp /\ end = P[Len(p)]
      /\ \A n \in 0 .. Len(p) : P[n] \in Hyp
  BY AtFacts
<1>4. end.state \in States /\ end.cost \in Nat
  BY <1>3 DEF Hyp
<1>5. /\ \A n \in 0 .. Len(q) : V[n] \in Hyp
      /\ At(end.state, q) = V[Len(q)]
  BY <1>4, AtFacts
<1>6. \A n \in 0 .. Len(p) : W[n] = P[n]
  <2>1. \A n \in 0 .. Len(p) : n \in Nat /\ SearchP!Agree(pq, p, n)
    BY <1>2 DEF SearchP!Agree
  <2> QED
    BY <1>2, <2>1, SearchP!WalkPrefix
<1>7. V[0] = SearchP!Origin(end.state)
      /\ \A n \in 1 .. Len(q) : V[n] = SearchP!Follow(model, V[n - 1], q[n], Unk)
  BY <1>2, SearchP!WalkDef
<1>8. \A n \in 1 .. Len(pq) : W[n] = SearchP!Follow(model, W[n - 1], pq[n], Unk)
  BY <1>2, SearchP!WalkDef
<1>9. /\ \A n \in 1 .. Len(p) : {p[n], Unk} \cap DOMAIN model.find[P[n - 1].state] # {}
      /\ \A n \in 1 .. Len(q) : {q[n], Unk} \cap DOMAIN model.find[V[n - 1].state] # {}
  BY CanWalkIs DEF SearchP!Walkable
<1> HIDE DEF P, W, V, end
<1> DEFINE S == {n \in Nat : n <= Len(q) => /\ W[Len(p) + n].state = V[n].state
                                            /\ W[Len(p) + n].cost = end.cost + V[n].cost}
<1>10. 0 \in S
  <2>1. V[0].state = end.state /\ V[0].cost = 0
    BY <1>7 DEF SearchP!Origin
  <2>2. W[Len(p)] = end
    BY <1>2, <1>3, <1>6
  <2>3. Len(p) + 0 = Len(p)
    BY <1>2
  <2>4. W[Len(p) + 0].state = V[0].state /\ W[Len(p) + 0].cost = end.cost + V[0].cost
    BY <1>4, <2>1, <2>2, <2>3
  <2> QED
    BY <2>4
<1>11. ASSUME NEW n \in Nat, n \in S PROVE n + 1 \in S
  <2> SUFFICES ASSUME n + 1 <= Len(q)
               PROVE  /\ W[Len(p) + (n + 1)].state = V[n + 1].state
                      /\ W[Len(p) + (n + 1)].cost = end.cost + V[n + 1].cost
    OBVIOUS
  <2>1. W[Len(p) + n].state = V[n].state /\ W[Len(p) + n].cost = end.cost + V[n].cost
    BY <1>2, <1>11
  <2>2. /\ n + 1 \in 1 .. Len(q) /\ (n + 1) - 1 = n /\ n \in 0 .. Len(q)
        /\ Len(p) + (n + 1) \in 1 .. Len(pq) /\ (Len(p) + (n + 1)) - 1 = Len(p) + n
    BY <1>2
  <2>3. V[n + 1] = SearchP!Follow(model, V[n], q[n + 1], Unk)
    BY <1>7, <2>2
  <2>4. W[Len(p) + (n + 1)] = SearchP!Follow(model, W[Len(p) + n], q[n + 1], Unk)
    BY <1>2, <1>8, <2>2
  <2>5. {q[n + 1], Unk} \cap DOMAIN model.find[V[n].state] # {} /\ V[n] \in Hyp
    BY <1>5, <1>9, <2>2
  <2>6. /\ SearchP!Follow(model, W[Len(p) + n], q[n + 1], Unk).state =
             SearchP!Follow(model, V[n], q[n + 1], Unk).state
        /\ SearchP!Follow(model, W[Len(p) + n], q[n + 1], Unk).cost =
             end.cost + SearchP!Follow(model, V[n], q[n + 1], Unk).cost
    <3> DEFINE at == W[Len(p) + n]
               bt == V[n]
    <3> HIDE DEF at, bt
    <3>1. bt \in Hyp /\ at.state = bt.state /\ at.cost = end.cost + bt.cost
          /\ {q[n + 1], Unk} \cap DOMAIN model.find[bt.state] # {}
      BY <2>1, <2>5 DEF at, bt
    <3>2. /\ SearchP!Follow(model, at, q[n + 1], Unk).state = SearchP!Follow(model, bt, q[n + 1], Unk).state
          /\ SearchP!Follow(model, at, q[n + 1], Unk).cost =
               end.cost + SearchP!Follow(model, bt, q[n + 1], Unk).cost
      BY <1>4, <3>1, FollowShift
    <3> QED
      BY <3>2 DEF at, bt
  <2> QED
    BY <2>3, <2>4, <2>6
<1>12. \A n \in 0 .. Len(q) : /\ W[Len(p) + n].state = V[n].state
                              /\ W[Len(p) + n].cost = end.cost + V[n].cost
  <2>1. Nat \subseteq S
    <3> HIDE DEF S
    <3> QED
      BY <1>10, <1>11, SearchP!SetInduction
  <2> QED
    BY <1>2, <2>1
<1>13. CanWalk(s, pq)
  <2>1. ASSUME NEW n \in 1 .. Len(pq) PROVE {pq[n], Unk} \cap DOMAIN model.find[W[n - 1].state] # {}
    <3>1. CASE n <= Len(p)
      <4>1. n \in 1 .. Len(p) /\ n - 1 \in 0 .. Len(p)
        BY <1>2, <3>1
      <4> QED
        BY <1>2, <1>6, <1>9, <4>1
    <3>2. CASE n > Len(p)
      <4>1. PICK k \in 1 .. Len(q) : n = Len(p) + k
        <5>1. n - Len(p) \in 1 .. Len(q) /\ n = Len(p) + (n - Len(p))
          BY <1>2, <3>2
        <5> QED
          BY <5>1
      <4>2. k - 1 \in 0 .. Len(q) /\ n - 1 = Len(p) + (k - 1) /\ pq[n] = q[k]
        BY <1>2, <4>1
      <4>3. W[n - 1].state = V[k - 1].state
        BY <1>12, <4>2
      <4> QED
        BY <1>9, <4>1, <4>2, <4>3
    <3> QED
      BY <1>2, <3>1, <3>2
  <2>2. SearchP!Walkable(model, s, pq, Unk)
    BY <2>1 DEF SearchP!Walkable, W
  <2> QED
    BY <1>2, <2>2, CanWalkIs
<1>14. At(s, pq) = W[Len(p) + Len(q)]
  BY <1>2, SameWalk DEF At, W
<1> QED
  BY <1>2, <1>5, <1>12, <1>13, <1>14 DEF end

LEMMA FullFacts ==
  ASSUME model \in Models, NEW s \in States, NEW path \in Seq(Tokens), CanWalk(s, path)
  PROVE  FullCost(s, path) \in Nat
<1>1. \A t \in States : (CHOOSE c \in model.exit[t] : TRUE) \in Nat
  BY SameConfig, SearchP!ModelFacts
<1>2. At(s, path).state \in States /\ At(s, path).cost \in Nat
  BY AtFacts DEF Hyp
<1> QED
  BY <1>1, <1>2 DEF FullCost

LEMMA FullConcat ==
  ASSUME model \in Models, NEW s \in States, NEW p \in Seq(Tokens), NEW q \in Seq(Tokens),
         CanWalk(s, p), CanWalk(At(s, p).state, q)
  PROVE  FullCost(s, p \o q) = At(s, p).cost + FullCost(At(s, p).state, q)
<1> DEFINE mid == At(s, p)
           end == At(mid.state, q)
           exit == CHOOSE c \in model.exit[end.state] : TRUE
<1>1. mid.cost \in Nat /\ mid.state \in States
  BY AtFacts DEF Hyp
<1>2. end.cost \in Nat /\ end.state \in States
  BY <1>1, AtFacts DEF Hyp
<1>3. exit \in Nat
  BY <1>2, SameConfig, SearchP!ModelFacts
<1>4. At(s, p \o q).state = end.state /\ At(s, p \o q).cost = mid.cost + end.cost
  BY WalkConcat
<1>5. FullCost(s, p \o q) = (mid.cost + end.cost) + exit
  BY <1>4 DEF FullCost
<1>6. FullCost(mid.state, q) = end.cost + exit
  BY DEF FullCost
<1> HIDE DEF mid, end, exit
<1>7. (mid.cost + end.cost) + exit = mid.cost + (end.cost + exit)
  BY <1>1, <1>2, <1>3
<1> QED
  BY <1>5, <1>6, <1>7 DEF mid

(* Where unk has an arc everywhere, every path can be walked. *)
LEMMA RichWalks ==
  ASSUME model \in Models, Rich, NEW s \in States, NEW path \in Seq(Tokens)
  PROVE  CanWalk(s, path)
<1> DEFINE W == SearchP!Walk(model, s, path, Unk)
           S == {n \in Nat : n <= Len(path) => W[n] \in [state : States, cost : Nat]}
<1>1. Len(path) \in Nat /\ SearchP!IsModel(States, Tokens, model)
  BY ConfigFacts
<1>2. W[0] = SearchP!Origin(s) /\ \A n \in 1 .. Len(path) : W[n] = SearchP!Follow(model, W[n - 1], path[n], Unk)
  BY <1>1, SearchP!WalkDef
<1> HIDE DEF W
<1>3. 0 \in S
  BY <1>2 DEF SearchP!Origin
<1>4. ASSUME NEW n \in Nat, n \in S PROVE n + 1 \in S
  <2> SUFFICES ASSUME n + 1 <= Len(path) PROVE W[n + 1] \in [state : States, cost : Nat]
    OBVIOUS
  <2>1. W[n] \in [state : States, cost : Nat] /\ n + 1 \in 1 .. Len(path) /\ (n + 1) - 1 = n
    BY <1>1, <1>4
  <2>2. {path[n + 1], Unk} \cap DOMAIN model.find[W[n].state] # {}
    BY <2>1 DEF Rich
  <2>3. W[n + 1] = SearchP!Follow(model, W[n], path[n + 1], Unk)
    BY <1>2, <2>1
  <2> DEFINE at == W[n]
  <2>4. at \in [state : States, cost : Nat] /\ {path[n + 1], Unk} \cap DOMAIN model.find[at.state] # {}
    BY <2>1, <2>2
  <2> HIDE DEF at
  <2>5. SearchP!Follow(model, at, path[n + 1], Unk) \in [state : States, cost : Nat]
    BY <1>1, <2>4, SearchP!FollowType
  <2> QED
    BY <2>3, <2>5 DEF at
<1>5. \A n \in 0 .. Len(path) : W[n] \in [state : States, cost : Nat]
  <2>1. Nat \subseteq S
    <3> HIDE DEF S
    <3> QED
      BY <1>3, <1>4, SearchP!SetInduction
  <2> QED
    BY <1>1, <2>1
<1>6. \A n \in 1 .. Len(path) : W[n - 1].state \in States
  BY <1>1, <1>5
<1>7. SearchP!Walkable(model, s, path, Unk)
  BY <1>6 DEF SearchP!Walkable, Rich, W
<1> QED
  BY <1>7, CanWalkIs

\* A completion of the state s that costs what the model says.
Own(s, r) == r \in Results /\ CanWalk(s, r.path) /\ r.cost = FullCost(s, r.path)

(* What a search that is done has found. *)
LEMMA SearchFound ==
  ASSUME SearchP!IndInv, status = "done"
  PROVE  /\ result \in Seq(Results)
         /\ \A i \in DOMAIN result : Own(start, result[i])
         /\ MinOf(TopKSize, LengthLimit) <= Len(result)
         /\ LengthLimit = 0 => result = <<>>
<1>1. result \in Seq(Results) /\ DOMAIN result = 1 .. Len(result) /\ Len(result) \in Nat
  BY DEF SearchP!IndInv, SearchP!TypeOK, Results
<1>2. \A i \in DOMAIN result : result[i] \in Results /\ result[i].path \in Seq(Tokens)
  <2>1. \A i \in DOMAIN result : result[i] \in Results
    BY <1>1, ElementOfSeq
  <2> QED
    BY <2>1 DEF Results
<1>3. ASSUME NEW i \in DOMAIN result PROVE Own(start, result[i])
  <2>1. SearchP!Walkable(model, start, result[i].path, Unk) /\ result[i].cost = SearchP!FullCost(result[i].path)
    BY <1>3 DEF SearchP!IndInv, SearchP!Priced
  <2>2. SearchP!FullCost(result[i].path) = FullCost(start, result[i].path)
    BY SameWalk DEF SearchP!FullCost, FullCost, At
  <2> QED
    BY <1>2, <1>3, <2>1, <2>2, CanWalkIs DEF Own
<1>4. MinOf(TopKSize, LengthLimit) <= Len(result)
  BY DEF SearchP!IndInv, SearchP!Answered, SearchP!MinOf, MinOf
<1>5. ASSUME LengthLimit = 0 PROVE result = <<>>
  <2>1. ASSUME NEW i \in DOMAIN result PROVE FALSE
    <3>1. Len(result[i].path) \in Nat
      BY <1>2
    <3>2. Len(result[i].path) < LengthLimit
      BY DEF SearchP!IndInv, SearchP!Priced
    <3> QED
      BY <1>5, <3>1, <3>2
  <2>2. DOMAIN result = {}
    BY <2>1
  <2> QED
    BY <1>1, <2>2
<1> QED
  BY <1>1, <1>3, <1>4, <1>5
-----------------------------------------------------------------------------
(* Sequences of costs, and the beams *)

LEMMA CostsFacts ==
  ASSUME NEW T, \A x \in T : x.cost \in Nat, NEW seq \in Seq(T)
  PROVE  /\ Costs(seq) \in Seq(Nat) /\ Len(Costs(seq)) = Len(seq) /\ Len(seq) \in Nat
         /\ DOMAIN seq = 1 .. Len(seq) /\ DOMAIN Costs(seq) = 1 .. Len(seq)
         /\ \A i \in 1 .. Len(seq) : Costs(seq)[i] = seq[i].cost /\ seq[i] \in T
<1>1. Len(seq) \in Nat /\ DOMAIN seq = 1 .. Len(seq)
  OBVIOUS
<1>2. \A i \in 1 .. Len(seq) : seq[i] \in T
  BY <1>1, ElementOfSeq
<1>3. \A i \in 1 .. Len(seq) : seq[i].cost \in Nat
  BY <1>2
<1> QED
  BY <1>1, <1>2, <1>3 DEF Costs

\* `new` is what the indices in `o` pick of `old`.
Picks(new, old, o) == new = [i \in DOMAIN o |-> old[o[i]]]

(* What partial_sort and erase leave. *)
LEMMA PickSorted ==
  ASSUME NEW T, \A x \in T : x.cost \in Nat, NEW old \in Seq(T), NEW n \in Nat,
         NEW o \in SortedCheapest(n, Costs(old)), NEW new, Picks(new, old, o)
  PROVE  /\ new \in Seq(T) /\ Len(new) = MinOf(n, Len(old)) /\ DOMAIN new = 1 .. Len(new)
         /\ \A i \in DOMAIN new : \E x \in DOMAIN old : new[i] = old[x]
         /\ Ascending(new)
         /\ \A x \in DOMAIN old : \/ \E i \in DOMAIN new : new[i] = old[x]
                                  \/ \A i \in DOMAIN new : new[i].cost <= old[x].cost
         /\ \A v \in Nat : n <= Len(old) /\ ~WithinTopK(n, Costs(old), v)
                             => \A i \in DOMAIN new : new[i].cost <= v
<1>1. /\ Costs(old) \in Seq(Nat) /\ Len(Costs(old)) = Len(old) /\ Len(old) \in Nat
      /\ DOMAIN old = 1 .. Len(old) /\ DOMAIN Costs(old) = 1 .. Len(old)
      /\ \A i \in 1 .. Len(old) : Costs(old)[i] = old[i].cost /\ old[i] \in T
  BY CostsFacts
<1> DEFINE m == MinOf(n, Len(Costs(old)))
<1>2. o \in SearchP!SortedCheapest(n, Costs(old)) /\ SearchP!MinOf(n, Len(Costs(old))) = m
  BY DEF SortedCheapest, MinOf, SearchP!SortedCheapest, SearchP!MinOf
<1> HIDE DEF m
<1>3. /\ DOMAIN o = 1 .. m /\ m \in Nat
      /\ \A i \in DOMAIN o : o[i] \in DOMAIN Costs(old)
      /\ \A i, j \in DOMAIN o : i < j => o[i] # o[j] /\ Costs(old)[o[i]] <= Costs(old)[o[j]]
      /\ \A x \in DOMAIN Costs(old) : \/ \E i \in DOMAIN o : o[i] = x
                                      \/ \A i \in DOMAIN o : Costs(old)[o[i]] <= Costs(old)[x]
      /\ \A v \in Nat : n <= Len(Costs(old)) /\ ~SearchP!WithinTopK(n, Costs(old), v)
                          => \A i \in DOMAIN o : Costs(old)[o[i]] <= v
  <2>1. /\ DOMAIN o = 1 .. SearchP!MinOf(n, Len(Costs(old))) /\ SearchP!MinOf(n, Len(Costs(old))) \in Nat
        /\ \A i \in DOMAIN o : o[i] \in DOMAIN Costs(old)
        /\ \A i, j \in DOMAIN o : i < j => o[i] # o[j] /\ Costs(old)[o[i]] <= Costs(old)[o[j]]
        /\ \A x \in DOMAIN Costs(old) : \/ \E i \in DOMAIN o : o[i] = x
                                        \/ \A i \in DOMAIN o : Costs(old)[o[i]] <= Costs(old)[x]
        /\ \A v \in Nat : n <= Len(Costs(old)) /\ ~SearchP!WithinTopK(n, Costs(old), v)
                            => \A i \in DOMAIN o : Costs(old)[o[i]] <= v
    BY <1>1, <1>2, SearchP!SortedKeeps
  <2> QED
    BY <1>2, <2>1
<1>4. /\ DOMAIN new = 1 .. m
      /\ \A i \in 1 .. m : /\ o[i] \in DOMAIN old /\ new[i] = old[o[i]]
                           /\ new[i] \in T /\ new[i].cost = Costs(old)[o[i]]
  BY <1>1, <1>3 DEF Picks
<1>5. new \in Seq(T) /\ Len(new) = m
  <2>1. new \in [1 .. m -> T]
    BY <1>3, <1>4 DEF Picks
  <2> QED
    BY <1>3, <2>1
<1>6. Len(new) = MinOf(n, Len(old))
  BY <1>1, <1>5 DEF m
<1>7. Ascending(new)
  BY <1>3, <1>4 DEF Ascending
<1>8. ASSUME NEW x \in DOMAIN old
      PROVE  \/ \E i \in DOMAIN new : new[i] = old[x]
             \/ \A i \in DOMAIN new : new[i].cost <= old[x].cost
  <2>1. x \in DOMAIN Costs(old) /\ Costs(old)[x] = old[x].cost
    BY <1>1
  <2>2. CASE \E i \in DOMAIN o : o[i] = x
    BY <1>3, <1>4, <2>2
  <2>3. CASE \A i \in DOMAIN o : Costs(old)[o[i]] <= Costs(old)[x]
    BY <1>3, <1>4, <2>1, <2>3
  <2> QED
    BY <1>3, <2>1, <2>2, <2>3
<1>9. ASSUME NEW v \in Nat, n <= Len(old), ~WithinTopK(n, Costs(old), v), NEW i \in DOMAIN new
      PROVE  new[i].cost <= v
  <2>1. ~SearchP!WithinTopK(n, Costs(old), v)
    BY <1>9, SameTopK
  <2> QED
    BY <1>1, <1>3, <1>4, <1>9, <2>1
<1> QED
  BY <1>4, <1>5, <1>6, <1>7, <1>8, <1>9

Beams == [path : Seq(Tokens), state : States, cost : Nat]

\* A beam below the state s, where its path leads.
IsBeam(s, b) ==
  /\ b \in Beams /\ CanWalk(s, b.path)
  /\ b.state = At(s, b.path).state /\ b.cost = At(s, b.path).cost

\* One sequence more.
WithSeq(s, path, kept) == IF Skipped(s, path, kept) THEN kept ELSE Append(kept, Beam(s, path))

IsKept(s, seqs, n, kept) ==
  kept = [i \in 0 .. n |-> IF i = 0 THEN <<>> ELSE WithSeq(s, seqs[i], kept[i - 1])]

LEMMA KeptDef ==
  ASSUME NEW s, NEW seqs, Len(seqs) \in Nat
  PROVE  /\ Kept(s, seqs)[0] = <<>>
         /\ \A n \in 1 .. Len(seqs) : Kept(s, seqs)[n] = WithSeq(s, seqs[n], Kept(s, seqs)[n - 1])
<1> DEFINE S == {n \in Nat : \E kept : IsKept(s, seqs, n, kept)}
<1>1. 0 \in S
  <2>1. IsKept(s, seqs, 0, [i \in 0 .. 0 |-> <<>>])
    BY DEF IsKept
  <2> QED
    BY <2>1
<1>2. ASSUME NEW n \in Nat, n \in S PROVE n + 1 \in S
  <2>1. PICK kept : IsKept(s, seqs, n, kept)
    BY <1>2
  <2> DEFINE new == [i \in 0 .. n + 1 |-> IF i = n + 1 THEN WithSeq(s, seqs[n + 1], kept[n]) ELSE kept[i]]
  <2>2. IsKept(s, seqs, n + 1, new)
    BY <2>1 DEF IsKept
  <2>3. n + 1 \in Nat
    OBVIOUS
  <2> HIDE DEF new
  <2> QED
    BY <2>2, <2>3
<1>3. Nat \subseteq S
  <2> HIDE DEF S
  <2> QED
    BY <1>1, <1>2, SearchP!SetInduction
<1> DEFINE N == Len(seqs)
<1>4. \E kept : IsKept(s, seqs, N, kept)
  BY <1>3
<1>5. IsKept(s, seqs, N, CHOOSE kept : IsKept(s, seqs, N, kept))
  <2> HIDE DEF N
  <2> QED
    BY <1>4, Zenon
<1>6. Kept(s, seqs) = CHOOSE kept : IsKept(s, seqs, N, kept)
  BY DEF Kept, IsKept, WithSeq
<1>7. IsKept(s, seqs, N, Kept(s, seqs))
  BY <1>5, <1>6, Zenon
<1> DEFINE kept == Kept(s, seqs)
<1> HIDE DEF kept
<1>8. kept = [i \in 0 .. N |-> IF i = 0 THEN <<>> ELSE WithSeq(s, seqs[i], kept[i - 1])]
  BY <1>7 DEF IsKept, kept
<1>9. kept[0] = <<>> /\ \A n \in 1 .. N : kept[n] = WithSeq(s, seqs[n], kept[n - 1])
  BY <1>8
<1> QED
  BY <1>9 DEF kept

\* The first beam is never skipped.
LEMMA FirstStays == ASSUME NEW s, NEW path PROVE ~Skipped(s, path, <<>>)
<1>1. \A c : {i \in DOMAIN Costs(<<>>) : Costs(<<>>)[i] <= c} = {}
  <2>1. DOMAIN Costs(<<>>) = {}
    BY DEF Costs
  <2> QED
    BY <2>1
<1>2. \A c : WithinTopK(BeamSize, Costs(<<>>), c)
  BY <1>1, ConfigFacts, FS_EmptySet DEF WithinTopK
<1> QED
  BY <1>2 DEF Skipped

LEMMA KeptFacts ==
  ASSUME model \in Models, NEW s \in States, NEW seqs \in Seq(Seq(Tokens)), seqs # <<>>, ~NoUnk(s, seqs)
  PROVE  LET kept == Kept(s, seqs)[Len(seqs)] IN
         /\ kept \in Seq(Beams) /\ 1 <= Len(kept)
         /\ \A i \in 1 .. Len(kept) : IsBeam(s, kept[i])
<1> DEFINE K == Kept(s, seqs)
           Good(n) == /\ K[n] \in Seq(Beams)
                      /\ n > 0 => 1 <= Len(K[n])
                      /\ \A i \in 1 .. Len(K[n]) : IsBeam(s, K[n][i])
           S == {n \in Nat : n <= Len(seqs) => Good(n)}
<1>1. Len(seqs) \in Nat /\ Len(seqs) > 0
  OBVIOUS
<1>2. K[0] = <<>> /\ \A n \in 1 .. Len(seqs) : K[n] = WithSeq(s, seqs[n], K[n - 1])
  BY <1>1, KeptDef
<1>3. \A n \in 1 .. Len(seqs) : seqs[n] \in Seq(Tokens)
  BY <1>1, ElementOfSeq
<1>4. \A n \in 1 .. Len(seqs) : CanWalk(s, seqs[n]) \/ Skipped(s, seqs[n], K[n - 1])
  BY DEF NoUnk
<1> HIDE DEF K
<1>5. 0 \in S
  <2>1. K[0] \in Seq(Beams) /\ Len(K[0]) = 0
    BY <1>2
  <2> QED
    BY <2>1
<1>6. ASSUME NEW n \in Nat, n \in S PROVE n + 1 \in S
  <2> SUFFICES ASSUME n + 1 <= Len(seqs) PROVE Good(n + 1)
    OBVIOUS
  <2>1. Good(n) /\ n + 1 \in 1 .. Len(seqs) /\ (n + 1) - 1 = n
    BY <1>1, <1>6
  <2> DEFINE path == seqs[n + 1]
             old == K[n]
             new == K[n + 1]
  <2>2. /\ path \in Seq(Tokens)
        /\ CanWalk(s, path) \/ Skipped(s, path, old)
        /\ new = WithSeq(s, path, old)
    BY <1>2, <1>3, <1>4, <2>1
  <2>3. /\ old \in Seq(Beams) /\ (n > 0 => 1 <= Len(old)) /\ (n = 0 => old = <<>>)
        /\ \A i \in 1 .. Len(old) : IsBeam(s, old[i])
    BY <1>2, <2>1
  <2>4. n + 1 > 0 /\ (n = 0 \/ n > 0)
    OBVIOUS
  <2> HIDE DEF path, old, new
  <2>5. CASE Skipped(s, path, old)
    <3>1. new = old
      BY <2>2, <2>5 DEF WithSeq
    <3>2. n # 0
      BY <2>3, <2>5, FirstStays
    <3>3. new \in Seq(Beams) /\ 1 <= Len(new) /\ \A i \in 1 .. Len(new) : IsBeam(s, new[i])
      BY <2>3, <2>4, <3>1, <3>2
    <3> QED
      BY <3>3 DEF new
  <2>6. CASE ~Skipped(s, path, old)
    <3> DEFINE beam == Beam(s, path)
    <3>1. CanWalk(s, path) /\ new = Append(old, beam)
      BY <2>2, <2>6 DEF WithSeq
    <3>2. At(s, path) \in Hyp
      BY <2>2, <3>1, AtFacts
    <3>3. IsBeam(s, beam)
      BY <2>2, <3>1, <3>2 DEF IsBeam, Beam, Beams, Hyp
    <3> HIDE DEF beam
    <3>4. beam \in Beams
      BY <3>3 DEF IsBeam
    <3>5. /\ new \in Seq(Beams) /\ Len(new) = Len(old) + 1 /\ Len(old) \in Nat
          /\ \A i \in 1 .. Len(old) : new[i] = old[i]
          /\ new[Len(old) + 1] = beam
      BY <2>3, <3>1, <3>4
    <3>6. ASSUME NEW i \in 1 .. Len(new) PROVE IsBeam(s, new[i])
      <4>1. i \in 1 .. Len(old) \/ i = Len(old) + 1
        BY <3>5
      <4>2. CASE i \in 1 .. Len(old)
        <5>1. new[i] = old[i] /\ IsBeam(s, old[i])
          BY <2>3, <3>5, <4>2
        <5> QED
          BY <5>1
      <4>3. CASE i = Len(old) + 1
        BY <3>3, <3>5, <4>3
      <4> QED
        BY <4>1, <4>2, <4>3
    <3>7. new \in Seq(Beams) /\ 1 <= Len(new)
      BY <3>5
    <3> QED
      BY <3>6, <3>7 DEF new
  <2> QED
    BY <2>5, <2>6
<1>7. Good(Len(seqs))
  <2>1. Nat \subseteq S
    <3> HIDE DEF S
    <3> QED
      BY <1>5, <1>6, SearchP!SetInduction
  <2> QED
    BY <1>1, <2>1
<1> QED
  BY <1>1, <1>7 DEF K

(* What InitBeams returns. *)
LEMMA BeamsFacts ==
  ASSUME model \in Models, NEW s \in States, NEW seqs \in Seq(Seq(Tokens)), seqs # <<>>, ~NoUnk(s, seqs),
         NEW bs \in InitBeams(s, seqs)
  PROVE  /\ bs \in Seq(Beams) /\ 1 <= Len(bs) /\ Ascending(bs)
         /\ \A i \in DOMAIN bs : IsBeam(s, bs[i])
<1> DEFINE kept == Kept(s, seqs)[Len(seqs)]
<1>1. kept \in Seq(Beams) /\ 1 <= Len(kept) /\ \A i \in 1 .. Len(kept) : IsBeam(s, kept[i])
  BY KeptFacts
<1>2. PICK o \in SortedCheapest(BeamSize, Costs(kept)) : Picks(bs, kept, o)
  BY DEF InitBeams, Picks
<1> HIDE DEF kept
<1>3. /\ bs \in Seq(Beams) /\ Len(bs) = MinOf(BeamSize, Len(kept)) /\ DOMAIN bs = 1 .. Len(bs)
      /\ \A i \in DOMAIN bs : \E x \in DOMAIN kept : bs[i] = kept[x]
      /\ Ascending(bs)
  <2>1. \A x \in Beams : x.cost \in Nat
    BY DEF Beams
  <2>2. BeamSize \in Nat
    BY ConfigFacts
  <2> QED
    BY <1>1, <1>2, <2>1, <2>2, PickSorted
<1>4. 1 <= Len(bs)
  <2>1. BeamSize \in Nat \ {0} /\ Len(kept) \in Nat
    BY <1>1, ConfigFacts
  <2>2. Len(bs) = MinOf(BeamSize, Len(kept)) /\ 1 <= Len(kept)
    BY <1>1, <1>3
  <2> QED
    BY <2>1, <2>2 DEF MinOf
<1>5. DOMAIN kept = 1 .. Len(kept)
  BY <1>1
<1> QED
  BY <1>1, <1>3, <1>4, <1>5
-----------------------------------------------------------------------------
(* Merging a beam's completions *)

LEMMA ResultCosts == \A r \in Results : r.cost \in Nat
  BY DEF Results

(* What is refused stays refused when it costs more, or more was accepted. *)
LEMMA StaysRefused ==
  ASSUME NEW cands \in Seq(Results), NEW more \in Seq(Results),
         Len(cands) <= Len(more), \A i \in 1 .. Len(cands) : more[i] = cands[i],
         NEW v \in Nat, NEW w \in Nat, v <= w, ~Accepted(cands, v)
  PROVE  ~Accepted(more, w)
<1>1. /\ Costs(cands) \in Seq(Nat) /\ Len(Costs(cands)) = Len(cands)
      /\ \A i \in 1 .. Len(cands) : Costs(cands)[i] = cands[i].cost
  BY CostsFacts, ResultCosts
<1>2. /\ Costs(more) \in Seq(Nat) /\ Len(Costs(more)) = Len(more)
      /\ \A i \in 1 .. Len(more) : Costs(more)[i] = more[i].cost
  BY CostsFacts, ResultCosts
<1>3. \A i \in 1 .. Len(Costs(cands)) : Costs(more)[i] = Costs(cands)[i]
  <2>1. Len(cands) \in Nat /\ Len(more) \in Nat
    OBVIOUS
  <2>2. \A i \in 1 .. Len(cands) : i \in 1 .. Len(more)
    BY <2>1
  <2> SUFFICES ASSUME NEW i \in 1 .. Len(cands) PROVE Costs(more)[i] = Costs(cands)[i]
    BY <1>1
  <2>3. Costs(more)[i] = more[i].cost /\ Costs(cands)[i] = cands[i].cost
    BY <1>1, <1>2, <2>2
  <2> QED
    BY <2>3
<1>4. ~SearchP!WithinTopK(TopKSize, Costs(cands), v)
  BY SameTopK DEF Accepted
<1>5. Len(Costs(cands)) <= Len(Costs(more)) /\ TopKSize \in Nat
  BY <1>1, <1>2, ConfigFacts
<1>6. ~SearchP!WithinTopK(TopKSize, Costs(more), w)
  BY <1>1, <1>2, <1>3, <1>4, <1>5, SearchP!RefusedStays
<1> QED
  BY <1>6, SameTopK DEF Accepted

LEMMA RefusedFull ==
  ASSUME NEW cands \in Seq(Results), NEW v, ~Accepted(cands, v)
  PROVE  TopKSize <= Len(cands)
<1>1. Costs(cands) \in Seq(Nat) /\ Len(Costs(cands)) = Len(cands) /\ Len(cands) \in Nat
  BY CostsFacts, ResultCosts
<1>2. ~SearchP!WithinTopK(TopKSize, Costs(cands), v)
  BY SameTopK DEF Accepted
<1>3. ~(Len(Costs(cands)) < TopKSize)
  BY <1>1, <1>2, ConfigFacts, SearchP!FewAccept
<1> QED
  BY <1>1, <1>3, ConfigFacts

\* TopK accepts the i-th of `new` when those before it were.
Fits(new, i) == Accepted(found \o SubSeq(new, 1, i - 1), new[i].cost)
IsTaken(new, n) == (\A i \in 1 .. n : Fits(new, i)) /\ (n < Len(new) => ~Fits(new, n + 1))

LEMMA TakenFacts ==
  ASSUME NEW new, Len(new) \in Nat
  PROVE  Taken(new) \in 0 .. Len(new) /\ IsTaken(new, Taken(new))
<1>1. \E n \in 0 .. Len(new) : IsTaken(new, n)
  <2>1. CASE \A i \in 1 .. Len(new) : Fits(new, i)
    <3>1. IsTaken(new, Len(new)) /\ Len(new) \in 0 .. Len(new)
      BY <2>1 DEF IsTaken
    <3> QED
      BY <3>1
  <2>2. CASE \E i \in 1 .. Len(new) : ~Fits(new, i)
    <3> DEFINE S == {i \in 1 .. Len(new) : ~Fits(new, i)}
    <3>1. S \in SUBSET Nat /\ S # {}
      BY <2>2
    <3>2. PICK i \in S : \A j \in S : i <= j
      <4> HIDE DEF S
      <4> QED
        BY <3>1, SearchP!Least
    <3>3. /\ i \in 1 .. Len(new) /\ i - 1 \in 0 .. Len(new) /\ (i - 1) + 1 = i
          /\ ~Fits(new, i)
          /\ \A j \in 1 .. Len(new) : j <= i - 1 => Fits(new, j)
      BY <3>2
    <3>4. \A j \in 1 .. i - 1 : Fits(new, j)
      BY <3>3
    <3>5. IsTaken(new, i - 1)
      BY <3>3, <3>4 DEF IsTaken
    <3> QED
      BY <3>3, <3>5
  <2> QED
    BY <2>1, <2>2
<1>2. Taken(new) = CHOOSE n \in 0 .. Len(new) : IsTaken(new, n)
  BY DEF Taken, IsTaken, Fits
<1> QED
  BY <1>1, <1>2

\* `more` are the candidates `cands` and those of `new` that count.
MergeOf(cands, new, more) ==
  /\ more \in Seq(Results) /\ Len(cands) <= Len(more)
  /\ \A i \in 1 .. Len(cands) : more[i] = cands[i]
  /\ \A i \in DOMAIN more : \/ \E x \in DOMAIN cands : more[i] = cands[x]
                            \/ \E x \in DOMAIN new : more[i] = new[x]
  /\ TopKSize <= Len(new) => TopKSize <= Len(more)
  /\ Ascending(new) =>
       \A j \in DOMAIN new : \/ \E i \in DOMAIN more : more[i] = new[j]
                             \/ ~Accepted(more, new[j].cost)

(* The completions of a beam are merged up to the first that TopK refuses. *)
LEMMA TakeFacts ==
  ASSUME found \in Seq(Results), NEW new \in Seq(Results),
         NEW more, more = found \o SubSeq(new, 1, Taken(new))
  PROVE  MergeOf(found, new, more)
<1>1. Len(new) \in Nat /\ DOMAIN new = 1 .. Len(new) /\ Len(found) \in Nat /\ DOMAIN found = 1 .. Len(found)
  OBVIOUS
<1>2. PICK n \in 0 .. Len(new) : n = Taken(new) /\ IsTaken(new, n)
  BY <1>1, TakenFacts
<1>10. n \in Nat /\ n <= Len(new) /\ Len(new) \in Nat /\ Len(found) \in Nat
  OBVIOUS
<1>3. /\ SubSeq(new, 1, n) \in Seq(Results) /\ Len(SubSeq(new, 1, n)) = n
      /\ \A i \in 1 .. n : SubSeq(new, 1, n)[i] = new[i]
  BY <1>1
<1>4. /\ more \in Seq(Results) /\ Len(more) = Len(found) + n /\ DOMAIN more = 1 .. Len(found) + n
      /\ \A i \in 1 .. Len(found) : more[i] = found[i]
      /\ \A i \in 1 .. n : more[Len(found) + i] = new[i]
  <2> DEFINE part == SubSeq(new, 1, n)
  <2> HIDE DEF part
  <2>1. more = found \o part /\ part \in Seq(Results) /\ Len(part) = n /\ \A i \in 1 .. n : part[i] = new[i]
    BY <1>2, <1>3 DEF part
  <2>2. /\ more \in Seq(Results) /\ Len(more) = Len(found) + Len(part)
        /\ \A i \in 1 .. Len(found) : more[i] = found[i]
        /\ \A i \in 1 .. Len(part) : more[Len(found) + i] = part[i]
    <3>1. /\ found \o part \in Seq(Results) /\ Len(found \o part) = Len(found) + Len(part)
          /\ \A i \in 1 .. Len(found) + Len(part) :
               (found \o part)[i] = IF i <= Len(found) THEN found[i] ELSE part[i - Len(found)]
      BY <2>1, ConcatProperties
    <3>2. \A i \in 1 .. Len(found) : i \in 1 .. Len(found) + Len(part) /\ i <= Len(found)
      BY <1>10, <2>1
    <3>3. \A i \in 1 .. Len(part) : /\ Len(found) + i \in 1 .. Len(found) + Len(part)
                                    /\ ~(Len(found) + i <= Len(found))
                                    /\ (Len(found) + i) - Len(found) = i
      BY <1>10, <2>1
    <3>4. \A i \in 1 .. Len(found) : (found \o part)[i] = found[i]
      BY <3>1, <3>2
    <3>5. \A i \in 1 .. Len(part) : (found \o part)[Len(found) + i] = part[i]
      <4>1. \A i \in 1 .. Len(part) : (found \o part)[Len(found) + i] = part[(Len(found) + i) - Len(found)]
        BY <3>1, <3>3
      <4> QED
        BY <3>3, <4>1
    <3> QED
      BY <2>1, <3>1, <3>4, <3>5
  <2> QED
    BY <1>1, <2>1, <2>2
<1>5. Len(found) <= Len(more)
  BY <1>1, <1>4
<1>6. ASSUME NEW i \in DOMAIN more
      PROVE  (\E x \in DOMAIN found : more[i] = found[x]) \/ (\E x \in DOMAIN new : more[i] = new[x])
  <2>1. CASE i <= Len(found)
    <3>1. i \in DOMAIN found /\ more[i] = found[i]
      BY <1>1, <1>4, <2>1
    <3> QED
      BY <3>1
  <2>2. CASE i > Len(found)
    <3> DEFINE x == i - Len(found)
    <3>1. x \in 1 .. n /\ x \in DOMAIN new /\ i = Len(found) + x
      BY <1>1, <1>4, <2>2
    <3> HIDE DEF x
    <3>2. more[i] = new[x]
      BY <1>4, <3>1
    <3> QED
      BY <3>1, <3>2
  <2>3. i \in Nat /\ Len(found) \in Nat
    BY <1>1, <1>4, <1>6
  <2>4. i <= Len(found) \/ i > Len(found)
    BY <2>3
  <2> QED
    BY <2>1, <2>2, <2>4
\* The first one left was refused.
<1>7. ASSUME n < Len(new) PROVE ~Accepted(more, new[n + 1].cost)
  <2>1. ~Fits(new, n + 1) /\ (n + 1) - 1 = n
    BY <1>2, <1>7 DEF IsTaken
  <2> QED
    BY <1>2, <2>1 DEF Fits
<1>8. ASSUME TopKSize <= Len(new) PROVE TopKSize <= Len(more)
  <2>1. CASE n < Len(new)
    BY <1>4, <1>7, <2>1, RefusedFull
  <2>2. CASE n = Len(new)
    BY <1>1, <1>4, <1>8, <2>2, ConfigFacts
  <2>3. n < Len(new) \/ n = Len(new)
    BY <1>10
  <2> QED
    BY <2>1, <2>2, <2>3
<1>9. ASSUME Ascending(new), NEW j \in DOMAIN new
      PROVE  (\E i \in DOMAIN more : more[i] = new[j]) \/ ~Accepted(more, new[j].cost)
  <2>1. CASE j <= n
    <3>1. j \in 1 .. n /\ Len(found) + j \in DOMAIN more
      BY <1>1, <1>4, <2>1
    <3> QED
      BY <1>4, <3>1
  <2>2. CASE j > n
    <3>1. n < Len(new) /\ n + 1 \in DOMAIN new /\ (j = n + 1 \/ n + 1 < j)
      BY <1>1, <2>2
    <3>2. new[n + 1].cost \in Nat /\ new[j].cost \in Nat
      BY <1>1, <3>1, CostsFacts, ResultCosts
    <3>3. new[n + 1].cost <= new[j].cost
      BY <1>9, <3>1, <3>2 DEF Ascending
    <3>4. ~Accepted(more, new[n + 1].cost)
      BY <1>7, <3>1
    <3> DEFINE v == new[n + 1].cost
               w == new[j].cost
    <3> HIDE DEF v, w
    <3>5. v \in Nat /\ w \in Nat /\ v <= w /\ ~Accepted(more, v)
      BY <3>2, <3>3, <3>4 DEF v, w
    <3>6. Len(more) <= Len(more) /\ more \in Seq(Results)
      BY <1>1, <1>4
    <3>7. ~Accepted(more, w)
      BY <3>5, <3>6, StaysRefused
    <3> QED
      BY <3>7 DEF w
  <2>3. j \in Nat
    BY <1>1
  <2>4. j <= n \/ j > n
    BY <1>10, <2>3
  <2> QED
    BY <2>1, <2>2, <2>4
<1> QED
  BY <1>4, <1>5, <1>6, <1>8, <1>9 DEF MergeOf

\* A completion of where the beam ends, seen from where the beam begins.
Joined(beam, r) == [path |-> beam.path \o r.path, cost |-> beam.cost + r.cost]
IsJoined(new, beam, list) == new = [i \in DOMAIN list |-> Joined(beam, list[i])]

LEMMA JoinedFacts ==
  ASSUME NEW beam \in Beams, NEW list \in Seq(Results), NEW new, IsJoined(new, beam, list)
  PROVE  /\ new \in Seq(Results) /\ Len(new) = Len(list) /\ DOMAIN new = DOMAIN list
         /\ \A i \in DOMAIN list : /\ new[i].path = beam.path \o list[i].path
                                   /\ new[i].cost = beam.cost + list[i].cost
                                   /\ new[i] = Joined(beam, list[i])
         /\ Ascending(list) => Ascending(new)
<1>1. Len(list) \in Nat /\ DOMAIN list = 1 .. Len(list)
  OBVIOUS
<1>2. \A i \in DOMAIN list : list[i].path \in Seq(Tokens) /\ list[i].cost \in Nat
  <2>1. \A i \in DOMAIN list : list[i] \in Results
    BY <1>1, ElementOfSeq
  <2> QED
    BY <2>1 DEF Results
<1>3. beam.path \in Seq(Tokens) /\ beam.cost \in Nat
  BY DEF Beams
<1>4. DOMAIN new = DOMAIN list /\ \A i \in DOMAIN list : new[i] = Joined(beam, list[i])
  BY DEF IsJoined
<1>10. \A r : Joined(beam, r).path = beam.path \o r.path /\ Joined(beam, r).cost = beam.cost + r.cost
  BY DEF Joined
<1>5. \A i \in DOMAIN list : new[i].path = beam.path \o list[i].path /\ new[i].cost = beam.cost + list[i].cost
  BY <1>4, <1>10
<1>6. ASSUME NEW i \in DOMAIN list PROVE new[i] \in Results
  <2>1. beam.path \o list[i].path \in Seq(Tokens)
    BY <1>2, <1>3, ConcatProperties
  <2>2. beam.cost + list[i].cost \in Nat
    BY <1>2, <1>3
  <2>3. Joined(beam, list[i]) \in Results
    BY <2>1, <2>2 DEF Joined, Results
  <2> QED
    BY <1>4, <2>3
<1>7. new \in Seq(Results) /\ Len(new) = Len(list)
  <2>1. new \in [1 .. Len(list) -> Results]
    BY <1>1, <1>4, <1>6 DEF IsJoined
  <2> QED
    BY <1>1, <2>1
<1>8. ASSUME Ascending(list), NEW i \in DOMAIN list, NEW j \in DOMAIN list, i < j
      PROVE  new[i].cost <= new[j].cost
  <2>1. list[i].cost <= list[j].cost
    BY <1>8 DEF Ascending
  <2>2. new[i].cost = beam.cost + list[i].cost /\ new[j].cost = beam.cost + list[j].cost
    BY <1>5
  <2>3. beam.cost \in Nat /\ list[i].cost \in Nat /\ list[j].cost \in Nat
    BY <1>2, <1>3
  <2> QED
    BY <2>1, <2>2, <2>3
<1>9. Ascending(list) => Ascending(new)
  BY <1>4, <1>8 DEF Ascending
<1> QED
  BY <1>4, <1>5, <1>7, <1>9

\* Each of the list's completions, joined to the beam, is a candidate, or TopK
\* refuses it, if the list is sorted.
Covers(cands, beam, list) ==
  Ascending(list) =>
    \A j \in DOMAIN list : \/ \E k \in DOMAIN cands : cands[k].path = beam.path \o list[j].path
                           \/ ~Accepted(cands, beam.cost + list[j].cost)

LEMMA CoversMore ==
  ASSUME NEW cands \in Seq(Results), NEW more \in Seq(Results), Len(cands) <= Len(more),
         \A i \in 1 .. Len(cands) : more[i] = cands[i],
         NEW beam \in Beams, NEW list \in Seq(Results), Covers(cands, beam, list)
  PROVE  Covers(more, beam, list)
<1> SUFFICES ASSUME Ascending(list), NEW j \in DOMAIN list
             PROVE  \/ \E k \in DOMAIN more : more[k].path = beam.path \o list[j].path
                    \/ ~Accepted(more, beam.cost + list[j].cost)
  BY DEF Covers
<1>1. beam.cost + list[j].cost \in Nat
  <2>1. list[j] \in Results
    BY ElementOfSeq
  <2> QED
    BY <2>1 DEF Results, Beams
<1>2. CASE \E k \in DOMAIN cands : cands[k].path = beam.path \o list[j].path
  <2>1. PICK k \in DOMAIN cands : cands[k].path = beam.path \o list[j].path
    BY <1>2
  <2>2. k \in 1 .. Len(cands) /\ k \in DOMAIN more
    OBVIOUS
  <2> QED
    BY <2>1, <2>2
<1>3. CASE ~Accepted(cands, beam.cost + list[j].cost)
  <2> DEFINE v == beam.cost + list[j].cost
  <2>1. v \in Nat /\ ~Accepted(cands, v)
    BY <1>1, <1>3
  <2> HIDE DEF v
  <2>2. v <= v
    BY <2>1
  <2>3. ~Accepted(more, v)
    BY <2>1, <2>2, StaysRefused
  <2> QED
    BY <2>3 DEF v
<1> QED
  BY <1>2, <1>3 DEF Covers
-----------------------------------------------------------------------------
(* The inductive invariant *)

List(s) == topResults[s].list

\* The search is one of BeamSearch_proofs, and finds what it needs.
Searched ==
  /\ SearchP!IndInv /\ Start \in States
  /\ Rich => status # "failed"

\* What is kept for a state is the state's, and enough of it.
Stored ==
  /\ DOMAIN topResults = States
  /\ \A s \in States :
       /\ List(s) \in Seq(Results) /\ \A i \in DOMAIN List(s) : Own(s, List(s)[i])
       /\ List(s) # <<>> => MinOf(TopKSize, LengthLimit) <= Len(List(s))
       /\ LengthLimit = 0 => List(s) = <<>>

\* Beams and candidates begin where the stable part of the query ends.
Base == At(Start, query.stable).state
CallOK ==
  /\ query.stable \in Seq(Tokens) /\ CanWalk(Start, query.stable)
  /\ initCost = At(Start, query.stable).cost
  /\ beams \in Seq(Beams) /\ 1 <= Len(beams) /\ Ascending(beams)
  /\ \A i \in DOMAIN beams : IsBeam(Base, beams[i])
  /\ found \in Seq(Results) /\ \A k \in DOMAIN found : Own(Base, found[k])
  /\ next \in Nat \ {0}

\* The beams before `next` are merged.
MergedOK ==
  /\ \A i \in DOMAIN beams : i < next =>
       /\ MinOf(TopKSize, LengthLimit) <= Len(List(beams[i].state))
       /\ Covers(found, beams[i], List(beams[i].state))
  /\ next > 1 /\ TopKSize <= LengthLimit => TopKSize <= Len(found)

Called == phase \in {"merge", "search", "take", "answered"} => CallOK /\ MergedOK

Phased ==
  /\ phase \in {"search", "take"} => next <= Len(beams)
  /\ phase = "search" => start = beams[next].state /\ List(start) = <<>>
  /\ phase = "take" => MinOf(TopKSize, LengthLimit) <= Len(List(beams[next].state))

IndInv ==
  /\ Searched /\ Stored /\ Called /\ Phased
  /\ AnswerPriced /\ AnswersTopIfSorted /\ ThrowsOnlyIfPoor

LEMMA SameModel ==
  ASSUME UNCHANGED model
  PROVE  /\ Rich' <=> Rich
         /\ \A s, path : /\ At(s, path)' = At(s, path) /\ CanWalk(s, path)' <=> CanWalk(s, path)
                         /\ FullCost(s, path)' = FullCost(s, path)
         /\ \A s, r : (Own(s, r)' <=> Own(s, r)) /\ (IsBeam(s, r)' <=> IsBeam(s, r))
<1>1. Rich' <=> Rich
  BY DEF Rich
<1>2. \A s, path : At(s, path)' = At(s, path)
  BY DEF At
<1>3. \A s, path : CanWalk(s, path)' <=> CanWalk(s, path)
  BY DEF CanWalk, At
<1>4. \A s, path : FullCost(s, path)' = FullCost(s, path)
  BY DEF FullCost, At
<1>5. \A s, r : Own(s, r)' <=> Own(s, r)
  BY <1>3, <1>4 DEF Own
<1>6. \A s, r : IsBeam(s, r)' <=> IsBeam(s, r)
  BY <1>2, <1>3 DEF IsBeam
<1> QED
  BY <1>1, <1>2, <1>3, <1>4, <1>5, <1>6
-----------------------------------------------------------------------------
(* What a step leaves alone stays true *)

LEMMA StoredStays == ASSUME Stored, UNCHANGED <<model, topResults>> PROVE Stored'
<1>1. \A s, r : Own(s, r)' <=> Own(s, r)
  BY SameModel
<1>2. \A s : List(s)' = List(s)
  BY DEF List
<1> QED
  BY <1>1, <1>2 DEF Stored

LEMMA CallStays == ASSUME CallOK, UNCHANGED <<model, callVars, mergeVars>> PROVE CallOK'
<1>1. \A s, path : At(s, path)' = At(s, path) /\ CanWalk(s, path)' <=> CanWalk(s, path)
  BY SameModel
<1>2. \A s, r : (Own(s, r)' <=> Own(s, r)) /\ (IsBeam(s, r)' <=> IsBeam(s, r))
  BY SameModel
<1>3. query' = query /\ initCost' = initCost /\ beams' = beams /\ found' = found /\ next' = next
  BY DEF callVars, mergeVars
<1>4. /\ Base' = Base
      /\ CanWalk(Start, query.stable)' <=> CanWalk(Start, query.stable)
      /\ At(Start, query.stable)' = At(Start, query.stable)
  BY <1>3 DEF Base, At, CanWalk
<1>5. \A r : (Own(Base, r)' <=> Own(Base, r)) /\ (IsBeam(Base, r)' <=> IsBeam(Base, r))
  BY <1>3 DEF Base, At, CanWalk, FullCost, Own, IsBeam
<1> QED
  BY <1>3, <1>4, <1>5 DEF CallOK

LEMMA MergedStays == ASSUME MergedOK, UNCHANGED <<topResults, callVars, mergeVars>> PROVE MergedOK'
<1>1. \A s : List(s)' = List(s)
  BY DEF List
<1> QED
  BY <1>1 DEF MergedOK, callVars, mergeVars

LEMMA AnswerStays == ASSUME AnswerPriced, UNCHANGED <<model, query, answer>> PROVE AnswerPriced'
<1>1. \A i : FullCost(Start, query.stable \o answer[i].path)' = FullCost(Start, query.stable \o answer[i].path)
  BY DEF FullCost, At
<1>2. \A i \in DOMAIN answer : answer[i].cost = FullCost(Start, query.stable \o answer[i].path)
  BY DEF AnswerPriced
<1>3. \A i \in DOMAIN answer' : answer'[i].cost = FullCost(Start, query.stable \o answer[i].path)'
  BY <1>1, <1>2
<1> QED
  BY <1>3 DEF AnswerPriced

LEMMA SearchedStays == ASSUME Searched, UNCHANGED <<model, topArcs, searchVars>> PROVE Searched'
<1>1. SearchP!IndInv'
  <2>1. UNCHANGED SearchP!vars
    BY DEF searchVars, SearchP!vars, SearchP!searchVars
  <2> QED
    BY <2>1, SameConfig, SearchP!StepKeeps DEF Searched
<1>2. Rich' <=> Rich
  BY SameModel
<1> QED
  BY <1>1, <1>2 DEF Searched, searchVars

(* A search begins. *)
LEMMA SearchedAnew ==
  ASSUME Searched, UNCHANGED <<model, topArcs>>, NEW s \in States, Search!Set(s, "search")
  PROVE  Searched' /\ start' = s
<1>1. SearchP!IndInv'
  BY SameSet, BeginsNext DEF Searched
<1>2. start' = s /\ status' = "search"
  BY DEF Search!Set
<1> QED
  BY <1>1, <1>2 DEF Searched

\* Where a beam leads.
LEMMA BeamFacts ==
  ASSUME Called, phase \in {"merge", "search", "take"}, next <= Len(beams)
  PROVE  /\ CallOK /\ MergedOK
         /\ next \in DOMAIN beams /\ beams[next] \in Beams /\ beams[next].state \in States
         /\ IsBeam(Base, beams[next])
<1>1. CallOK /\ MergedOK
  BY DEF Called
<1>2. next \in DOMAIN beams
  BY <1>1 DEF CallOK
<1>3. beams[next] \in Beams
  BY <1>1, <1>2, ElementOfSeq DEF CallOK
<1> QED
  BY <1>1, <1>2, <1>3 DEF CallOK, Beams
-----------------------------------------------------------------------------
(* The steps *)

LEMMA AskKeeps == ASSUME IndInv, NEW q \in Queries, Ask(q) PROVE IndInv'
<1>1. /\ UNCHANGED <<model, topArcs, searchVars, topResults>>
      /\ query' = q /\ answer' = <<>> /\ next' = 1 /\ found' = <<>>
      /\ phase' \in {"thrown", "merge"}
  BY DEF Ask
<1>2. Searched' /\ Stored'
  BY <1>1, SearchedStays, StoredStays DEF IndInv
<1>3. model \in Models /\ Start \in States
  BY DEF IndInv, Searched, SearchP!IndInv, SearchP!TypeOK
<1>4. q.stable \in Seq(Tokens) /\ q.seqs \in Seq(Seq(Tokens)) /\ q.seqs # <<>>
  BY QueriesAssumption
<1> DEFINE base == At(Start, q.stable).state
<1>5. CanWalk(Start, q.stable) => base \in States
  BY <1>3, <1>4, AtFacts DEF Hyp
<1>6. ASSUME phase' = "thrown" PROVE ~Rich'
  <2>1. ~CanWalk(Start, q.stable) \/ NoUnk(base, q.seqs)
    BY <1>6 DEF Ask
  <2>2. SUFFICES ASSUME Rich PROVE FALSE
    BY <1>1, SameModel
  <2>3. CanWalk(Start, q.stable)
    BY <1>3, <1>4, <2>2, RichWalks
  <2>4. \A n \in 1 .. Len(q.seqs) : CanWalk(base, q.seqs[n])
    <3>1. \A n \in 1 .. Len(q.seqs) : q.seqs[n] \in Seq(Tokens)
      BY <1>4, ElementOfSeq
    <3> QED
      BY <1>3, <1>5, <2>2, <2>3, <3>1, RichWalks
  <2> QED
    BY <2>1, <2>3, <2>4 DEF NoUnk
<1>7. ASSUME phase' = "merge" PROVE CallOK' /\ MergedOK'
  <2>1. /\ CanWalk(Start, q.stable) /\ ~NoUnk(base, q.seqs)
        /\ initCost' = At(Start, q.stable).cost
        /\ beams' \in InitBeams(base, q.seqs)
    BY <1>7 DEF Ask
  <2>2. /\ beams' \in Seq(Beams) /\ 1 <= Len(beams') /\ Ascending(beams')
        /\ \A i \in DOMAIN beams' : IsBeam(base, beams'[i])
    BY <1>3, <1>4, <1>5, <2>1, BeamsFacts
  <2>3. Base' = base /\ At(Start, query.stable)' = At(Start, q.stable)
        /\ (CanWalk(Start, query.stable)' <=> CanWalk(Start, q.stable))
    BY <1>1 DEF Base, At, CanWalk
  <2>4. \A i \in DOMAIN beams' : IsBeam(Base, beams[i])'
    <3> SUFFICES ASSUME NEW i \in DOMAIN beams' PROVE IsBeam(Base, beams[i])'
      OBVIOUS
    <3>1. IsBeam(base, beams'[i])
      BY <2>2
    <3>2. model' = model
      BY <1>1
    <3> QED
      BY <2>3, <3>1, <3>2 DEF IsBeam, At, CanWalk
  <2>5. found' \in Seq(Results) /\ DOMAIN found' = {}
    BY <1>1
  <2>6. CallOK'
    BY <1>1, <1>4, <2>1, <2>2, <2>3, <2>4, <2>5 DEF CallOK
  <2>7. \A i \in DOMAIN beams' : ~(i < next')
    BY <1>1, <2>2
  <2> QED
    BY <1>1, <2>6, <2>7 DEF MergedOK
<1>8. Called'
  BY <1>1, <1>7 DEF Called
<1>9. Phased' /\ AnswersTopIfSorted'
  BY <1>1 DEF Phased, AnswersTopIfSorted, AnswersTop
<1>10. AnswerPriced'
  BY <1>1 DEF AnswerPriced
<1>11. ThrowsOnlyIfPoor'
  BY <1>6 DEF ThrowsOnlyIfPoor
<1> QED
  BY <1>2, <1>8, <1>9, <1>10, <1>11 DEF IndInv

LEMMA HitKeeps == ASSUME IndInv, Hit PROVE IndInv'
<1>1. /\ UNCHANGED <<model, topArcs, searchVars, topResults, callVars, mergeVars, answer>>
      /\ phase = "merge" /\ phase' = "take" /\ next <= Len(beams)
      /\ List(beams[next].state) # <<>>
  BY DEF Hit, BeamLeft, List
<1>2. Searched' /\ Stored'
  BY <1>1, SearchedStays, StoredStays DEF IndInv
<1>3. CallOK /\ MergedOK /\ beams[next].state \in States
  BY <1>1, BeamFacts DEF IndInv
<1>4. Called'
  BY <1>1, <1>3, CallStays, MergedStays DEF Called
<1>5. Phased'
  <2>1. MinOf(TopKSize, LengthLimit) <= Len(List(beams[next].state))
    BY <1>1, <1>3 DEF IndInv, Stored
  <2> QED
    BY <1>1, <2>1 DEF Phased, List, callVars, mergeVars
<1>6. AnswerPriced'
  BY <1>1, AnswerStays DEF IndInv, callVars
<1>7. AnswersTopIfSorted' /\ ThrowsOnlyIfPoor'
  BY <1>1 DEF AnswersTopIfSorted, AnswersTop, ThrowsOnlyIfPoor
<1> QED
  BY <1>2, <1>4, <1>5, <1>6, <1>7 DEF IndInv

LEMMA MissKeeps == ASSUME IndInv, Miss PROVE IndInv'
<1>1. /\ UNCHANGED <<model, topArcs, topResults, callVars, mergeVars, answer>>
      /\ phase = "merge" /\ phase' = "search" /\ next <= Len(beams)
      /\ List(beams[next].state) = <<>>
      /\ Search!Set(beams[next].state, "search")
  BY DEF Miss, BeamLeft, List
<1>2. CallOK /\ MergedOK /\ beams[next].state \in States
  BY <1>1, BeamFacts DEF IndInv
<1>3. Searched' /\ start' = beams[next].state
  BY <1>1, <1>2, SearchedAnew DEF IndInv
<1>4. Stored'
  BY <1>1, StoredStays DEF IndInv
<1>5. Called'
  BY <1>1, <1>2, CallStays, MergedStays DEF Called
<1>6. Phased'
  BY <1>1, <1>3 DEF Phased, List, callVars, mergeVars
<1>7. AnswerPriced'
  BY <1>1, AnswerStays DEF IndInv, callVars
<1>8. AnswersTopIfSorted' /\ ThrowsOnlyIfPoor'
  BY <1>1 DEF AnswersTopIfSorted, AnswersTop, ThrowsOnlyIfPoor
<1> QED
  BY <1>3, <1>4, <1>5, <1>6, <1>7, <1>8 DEF IndInv

(* With a rich model no search fails. *)
LEMMA RichFinds == ASSUME SearchP!IndInv, Rich, status # "failed", Search!Next PROVE status' # "failed"
<1>1. ASSUME NEW p \in todo, Search!ArcsMissing(p) PROVE FALSE
  <2>1. tree[p].state \in States
    BY <1>1 DEF SearchP!IndInv, SearchP!TypeOK, SearchP!Hyp
  <2>2. Cardinality(DOMAIN model.find[tree[p].state]) <= BranchFactor
    BY <1>1 DEF Search!ArcsMissing, Search!MayMiss, Search!Cardinality, Cardinality
  <2>3. Cardinality(DOMAIN model.find[tree[p].state]) > BranchFactor
    BY <2>1 DEF Rich
  <2>4. /\ IsFiniteSet(DOMAIN model.find[tree[p].state])
        /\ BranchFactor \in Nat
    <3>1. SearchP!IsModel(States, Tokens, model) /\ SearchP!IsFiniteSet(Tokens) /\ BranchFactor \in Nat
      BY SameConfig DEF SearchP!ConfigOK, SearchP!IndInv, SearchP!TypeOK
    <3>2. IsFiniteSet(Tokens)
      BY <3>1 DEF SearchP!IsFiniteSet, IsFiniteSet
    <3> QED
      BY <2>1, <3>1, <3>2, FS_Subset DEF SearchP!IsModel
  <2>5. Cardinality(DOMAIN model.find[tree[p].state]) \in Nat
    BY <2>4, FS_CardinalityType
  <2> QED
    BY <2>2, <2>3, <2>4, <2>5
<1>2. ASSUME NEW p \in todo, Search!PastLimit(p) PROVE status' = status
  BY <1>2 DEF Search!PastLimit
<1>3. ASSUME NEW p \in todo, Search!Expand(p) PROVE status' = status
  BY <1>3 DEF Search!Expand
<1>4. Search!EndRound => status' = status
  BY DEF Search!EndRound
<1>5. Search!Return => status' = "done"
  BY DEF Search!Return
<1> QED
  BY <1>1, <1>2, <1>3, <1>4, <1>5 DEF Search!Next

LEMMA SameStart == Search!Next => UNCHANGED <<model, start>>
  BY DEF Search!Next, Search!PastLimit, Search!Expand, Search!ArcsMissing, Search!Take, Search!EndRound,
         Search!Return

LEMMA SearchStepKeeps == ASSUME IndInv, SearchStep PROVE IndInv'
<1>1. /\ UNCHANGED <<topResults, phase, callVars, mergeVars, answer>>
      /\ phase = "search" /\ Search!Next
  BY DEF SearchStep
<1>2. UNCHANGED <<model, start>>
  BY <1>1, SameStart
<1>3. Searched'
  <2>1. SearchP!IndInv'
    BY <1>1, SameNext, SameConfig, SearchP!StepKeeps DEF IndInv, Searched
  <2>2. Rich => status' # "failed"
    BY <1>1, RichFinds DEF IndInv, Searched
  <2>3. Rich' <=> Rich
    BY <1>2, SameModel
  <2> QED
    BY <2>1, <2>2, <2>3 DEF IndInv, Searched
<1>4. Stored'
  BY <1>1, <1>2, StoredStays DEF IndInv
<1>5. CallOK /\ MergedOK
  BY <1>1 DEF IndInv, Called
<1>6. Called'
  BY <1>1, <1>2, <1>5, CallStays, MergedStays DEF Called
<1>7. Phased'
  BY <1>1, <1>2 DEF IndInv, Phased, List, callVars, mergeVars
<1>8. AnswerPriced'
  BY <1>1, <1>2, AnswerStays DEF IndInv, callVars
<1>9. AnswersTopIfSorted' /\ ThrowsOnlyIfPoor'
  BY <1>1 DEF AnswersTopIfSorted, AnswersTop, ThrowsOnlyIfPoor
<1> QED
  BY <1>3, <1>4, <1>6, <1>7, <1>8, <1>9 DEF IndInv

(* The results of a search are kept for the state it began in. *)
LEMMA SearchDoneKeeps == ASSUME IndInv, SearchDone PROVE IndInv'
<1>1. /\ UNCHANGED <<model, topArcs, callVars, mergeVars, answer>>
      /\ phase = "search" /\ phase' = "take" /\ status = "done"
      /\ topResults' = [topResults EXCEPT ![start] = [list |-> result, dl |-> maxDl]]
      /\ Search!Set(Start, "search")
  BY DEF SearchDone, StoredAt
<1>2. CallOK /\ MergedOK /\ next <= Len(beams) /\ start = beams[next].state /\ List(start) = <<>>
  BY <1>1 DEF IndInv, Called, Phased
<1>3. next \in DOMAIN beams /\ start \in States
  BY <1>1, <1>2, BeamFacts DEF IndInv
<1>4. Searched'
  BY <1>1, SearchedAnew DEF IndInv, Searched
<1>5. /\ result \in Seq(Results) /\ \A i \in DOMAIN result : Own(start, result[i])
      /\ MinOf(TopKSize, LengthLimit) <= Len(result)
      /\ LengthLimit = 0 => result = <<>>
  BY <1>1, SearchFound DEF IndInv, Searched
<1>6. PICK at \in States : at = start
  BY <1>3
<1>7. /\ DOMAIN topResults' = States
      /\ List(at)' = result
      /\ \A s \in States : s # at => List(s)' = List(s)
  <2>1. /\ DOMAIN topResults' = DOMAIN topResults
        /\ topResults'[at].list = result
        /\ \A s \in States : s # at => topResults'[s].list = topResults[s].list
    BY <1>1, <1>6 DEF IndInv, Stored
  <2> QED
    BY <2>1 DEF IndInv, Stored, List
<1>8. \A s, r : Own(s, r)' <=> Own(s, r)
  BY <1>1, SameModel
<1>9. Stored'
  <2>1. ASSUME NEW s \in States
        PROVE  /\ List(s)' \in Seq(Results) /\ \A i \in DOMAIN List(s)' : Own(s, List(s)'[i])
               /\ List(s)' # <<>> => MinOf(TopKSize, LengthLimit) <= Len(List(s)')
               /\ LengthLimit = 0 => List(s)' = <<>>
    <3>1. CASE s = at
      BY <1>5, <1>6, <1>7, <3>1
    <3>2. CASE s # at
      BY <1>7, <3>2 DEF IndInv, Stored
    <3> QED
      BY <3>1, <3>2
  <2>2. \A s \in States : \A i \in DOMAIN List(s)' : Own(s, List(s)[i])'
    <3> SUFFICES ASSUME NEW s \in States, NEW i \in DOMAIN List(s)'
                 PROVE  Own(s, List(s)[i])'
      OBVIOUS
    <3>1. Own(s, List(s)'[i])
      BY <2>1
    <3>2. model' = model
      BY <1>1
    <3> QED
      BY <3>1, <3>2 DEF Own, FullCost, CanWalk, At
  <2> QED
    BY <1>7, <2>1, <2>2 DEF Stored
<1>10. CallOK'
  BY <1>1, <1>2, CallStays
\* A merged beam in this state has no completions, and gets none.
<1>11. \A i \in DOMAIN beams : i < next => List(beams[i].state)' = List(beams[i].state)
  <2> SUFFICES ASSUME NEW i \in DOMAIN beams, i < next PROVE List(beams[i].state)' = List(beams[i].state)
    OBVIOUS
  <2>1. beams' = beams /\ beams[i].state \in States
    <3>1. beams[i] \in Beams
      BY <1>2, ElementOfSeq DEF CallOK
    <3> QED
      BY <1>1, <3>1 DEF callVars, Beams
  <2>2. CASE beams[i].state = at
    <3>1. MinOf(TopKSize, LengthLimit) <= Len(List(at)) /\ Len(List(at)) = 0
      BY <1>2, <1>6, <2>2 DEF MergedOK
    <3>2. LengthLimit = 0
      BY <3>1, ConfigFacts DEF MinOf
    <3>3. result = List(at)
      BY <1>2, <1>5, <1>6, <3>2
    <3> QED
      BY <1>7, <2>1, <2>2, <3>3 DEF List
  <2>3. CASE beams[i].state # at
    BY <1>7, <2>1, <2>3 DEF List
  <2> QED
    BY <2>2, <2>3
<1>12. MergedOK'
  BY <1>1, <1>2, <1>11 DEF MergedOK, callVars, mergeVars
<1>13. Called'
  BY <1>10, <1>12 DEF Called
<1>14. Phased'
  <2>1. List(beams[next].state)' = result
    BY <1>1, <1>2, <1>6, <1>7 DEF List, callVars, mergeVars
  <2> QED
    BY <1>1, <1>2, <1>5, <2>1 DEF Phased, callVars, mergeVars
<1>15. AnswerPriced'
  BY <1>1, AnswerStays DEF IndInv, callVars
<1>16. AnswersTopIfSorted' /\ ThrowsOnlyIfPoor'
  BY <1>1 DEF AnswersTopIfSorted, AnswersTop, ThrowsOnlyIfPoor
<1> QED
  BY <1>4, <1>9, <1>13, <1>14, <1>15, <1>16 DEF IndInv

LEMMA SearchThrewKeeps == ASSUME IndInv, SearchThrew PROVE IndInv'
<1>1. /\ UNCHANGED <<model, topArcs, topResults, callVars, mergeVars, answer>>
      /\ phase = "search" /\ phase' = "thrown" /\ status = "failed"
      /\ Search!Set(Start, "search")
  BY DEF SearchThrew
<1>2. Searched'
  BY <1>1, SearchedAnew DEF IndInv, Searched
<1>3. Stored'
  BY <1>1, StoredStays DEF IndInv
<1>4. Called' /\ Phased' /\ AnswersTopIfSorted'
  BY <1>1 DEF Called, Phased, AnswersTopIfSorted, AnswersTop
<1>5. AnswerPriced'
  BY <1>1, AnswerStays DEF IndInv, callVars
<1>6. ThrowsOnlyIfPoor'
  <2>1. ~Rich
    BY <1>1 DEF IndInv, Searched
  <2> QED
    BY <1>1, <2>1, SameModel DEF ThrowsOnlyIfPoor
<1> QED
  BY <1>2, <1>3, <1>4, <1>5, <1>6 DEF IndInv

LEMMA TakeKeeps == ASSUME IndInv, Take PROVE IndInv'
<1> DEFINE beam == beams[next]
           list == List(beam.state)
<1>1. /\ UNCHANGED <<model, topArcs, searchVars, topResults, callVars, answer>>
      /\ phase = "take" /\ phase' = "merge" /\ next' = next + 1
      /\ \E new : IsJoined(new, beam, list) /\ found' = found \o SubSeq(new, 1, Taken(new))
  BY DEF Take, NextBeam, IsJoined, Joined, List
<1>2. PICK new : IsJoined(new, beam, list) /\ found' = found \o SubSeq(new, 1, Taken(new))
  BY <1>1
<1>3. Searched' /\ Stored'
  BY <1>1, SearchedStays, StoredStays DEF IndInv
<1>4. /\ CallOK /\ MergedOK /\ next \in DOMAIN beams /\ beam \in Beams /\ beam.state \in States
      /\ IsBeam(Base, beam) /\ next \in Nat
  <2>1. next <= Len(beams)
    BY <1>1 DEF IndInv, Phased
  <2>2. /\ CallOK /\ MergedOK /\ next \in DOMAIN beams /\ beam \in Beams /\ beam.state \in States
        /\ IsBeam(Base, beam)
    BY <1>1, <2>1, BeamFacts DEF IndInv
  <2> QED
    BY <2>2 DEF CallOK
<1>5. /\ list \in Seq(Results) /\ \A i \in DOMAIN list : Own(beam.state, list[i])
      /\ MinOf(TopKSize, LengthLimit) <= Len(list)
  BY <1>1, <1>4 DEF IndInv, Stored, Phased
<1>6. model \in Models /\ Start \in States /\ Base \in States
  <2>1. model \in Models /\ Start \in States
    BY DEF IndInv, Searched, SearchP!IndInv, SearchP!TypeOK
  <2> QED
    BY <1>4, <2>1, AtFacts DEF CallOK, Base, Hyp
<1> HIDE DEF beam, list
<1>7. /\ new \in Seq(Results) /\ Len(new) = Len(list) /\ DOMAIN new = DOMAIN list
      /\ \A i \in DOMAIN list : /\ new[i].path = beam.path \o list[i].path
                                /\ new[i].cost = beam.cost + list[i].cost
                                /\ new[i] = Joined(beam, list[i])
      /\ Ascending(list) => Ascending(new)
  BY <1>2, <1>4, <1>5, JoinedFacts
\* What is joined to the beam begins where the beam does.
<1>8. \A i \in DOMAIN new : Own(Base, new[i])
  <2> SUFFICES ASSUME NEW i \in DOMAIN list PROVE Own(Base, new[i])
    BY <1>7
  <2>1. list[i] \in Results /\ CanWalk(beam.state, list[i].path) /\ list[i].cost = FullCost(beam.state, list[i].path)
    BY <1>5 DEF Own
  <2>2. /\ list[i].path \in Seq(Tokens) /\ beam.path \in Seq(Tokens) /\ CanWalk(Base, beam.path)
        /\ beam.state = At(Base, beam.path).state /\ beam.cost = At(Base, beam.path).cost
    BY <1>4, <2>1 DEF Results, Beams, IsBeam
  <2>3. CanWalk(Base, beam.path \o list[i].path)
    BY <1>6, <2>1, <2>2, WalkConcat
  <2>4. FullCost(Base, beam.path \o list[i].path) = beam.cost + list[i].cost
    BY <1>6, <2>1, <2>2, FullConcat
  <2>5. new[i] \in Results
    BY <1>7, ElementOfSeq
  <2> QED
    BY <1>7, <2>3, <2>4, <2>5 DEF Own
<1>9. /\ found' \in Seq(Results) /\ Len(found) <= Len(found')
      /\ \A i \in 1 .. Len(found) : found'[i] = found[i]
      /\ \A i \in DOMAIN found' : \/ \E x \in DOMAIN found : found'[i] = found[x]
                                  \/ \E x \in DOMAIN new : found'[i] = new[x]
      /\ TopKSize <= Len(new) => TopKSize <= Len(found')
      /\ Ascending(new) =>
           \A j \in DOMAIN new : \/ \E i \in DOMAIN found' : found'[i] = new[j]
                                 \/ ~Accepted(found', new[j].cost)
  <2>1. found \in Seq(Results) /\ new \in Seq(Results)
    BY <1>4, <1>7 DEF CallOK
  <2>2. MergeOf(found, new, found')
    BY <1>2, <2>1, TakeFacts
  <2> QED
    BY <2>2 DEF MergeOf
<1>10. CallOK'
  <2>1. \A r : (Own(Base, r)' <=> Own(Base, r)) /\ (IsBeam(Base, r)' <=> IsBeam(Base, r))
    BY <1>1 DEF callVars, Base, At, CanWalk, FullCost, Own, IsBeam
  <2>2. \A k \in DOMAIN found' : Own(Base, found'[k])
    BY <1>4, <1>8, <1>9 DEF CallOK
  <2>3. /\ query' = query /\ initCost' = initCost /\ beams' = beams
        /\ At(Start, query.stable)' = At(Start, query.stable)
        /\ (CanWalk(Start, query.stable)' <=> CanWalk(Start, query.stable))
    BY <1>1 DEF callVars, At, CanWalk
  <2>4. \A k \in DOMAIN found' : Own(Base, found[k])'
    BY <1>1, <2>2 DEF callVars, Base, At, CanWalk, FullCost, Own
  <2>5. next' \in Nat \ {0}
    BY <1>1, <1>4
  <2>6. \A i \in DOMAIN beams' : IsBeam(Base, beams[i])'
    <3>1. \A i : IsBeam(Base, beams[i])' <=> IsBeam(Base, beams[i])
      BY <1>1 DEF callVars, Base, At, CanWalk, IsBeam
    <3>2. \A i \in DOMAIN beams : IsBeam(Base, beams[i])
      BY <1>4 DEF CallOK
    <3> QED
      BY <2>3, <3>1, <3>2
  <2> QED
    BY <1>4, <1>9, <2>3, <2>4, <2>5, <2>6 DEF CallOK
<1>11. Covers(found', beam, list)
  <2> SUFFICES ASSUME Ascending(list), NEW j \in DOMAIN list
               PROVE  \/ \E k \in DOMAIN found' : found'[k].path = beam.path \o list[j].path
                      \/ ~Accepted(found', beam.cost + list[j].cost)
    BY DEF Covers
  <2>1. (\E i \in DOMAIN found' : found'[i] = new[j]) \/ ~Accepted(found', new[j].cost)
    BY <1>7, <1>9
  <2> QED
    BY <1>7, <2>1
<1>12. MergedOK'
  <2>1. beams' = beams /\ topResults' = topResults
    BY <1>1 DEF callVars
  <2>2. ASSUME NEW i \in DOMAIN beams, i < next + 1
        PROVE  /\ MinOf(TopKSize, LengthLimit) <= Len(List(beams[i].state))
               /\ Covers(found', beams[i], List(beams[i].state))
    <3>1. CASE i = next
      BY <1>5, <1>11, <3>1 DEF beam, list
    <3>2. CASE i # next
      <4>1. i < next
        BY <1>4, <2>2, <3>2 DEF CallOK
      <4>2. beams[i] \in Beams
        BY <1>4, ElementOfSeq DEF CallOK
      <4>3. List(beams[i].state) \in Seq(Results)
        BY <4>2 DEF IndInv, Stored, Beams
      <4>4. /\ MinOf(TopKSize, LengthLimit) <= Len(List(beams[i].state))
            /\ Covers(found, beams[i], List(beams[i].state))
        BY <1>4, <4>1 DEF MergedOK
      <4>5. found \in Seq(Results)
        BY <1>4 DEF CallOK
      <4>6. Covers(found', beams[i], List(beams[i].state))
        BY <1>9, <4>2, <4>3, <4>4, <4>5, CoversMore
      <4> QED
        BY <4>4, <4>6
    <3> QED
      BY <3>1, <3>2
  <2>3. TopKSize <= LengthLimit => TopKSize <= Len(found')
    BY <1>5, <1>7, <1>9, ConfigFacts DEF MinOf
  <2>4. \A s : List(s)' = List(s)
    BY <2>1 DEF List
  <2> QED
    BY <1>1, <2>1, <2>2, <2>3, <2>4 DEF MergedOK
<1>13. Called' /\ Phased'
  BY <1>1, <1>10, <1>12 DEF Called, Phased
<1>14. AnswerPriced'
  BY <1>1, AnswerStays DEF IndInv, callVars
<1>15. AnswersTopIfSorted' /\ ThrowsOnlyIfPoor'
  BY <1>1 DEF AnswersTopIfSorted, AnswersTop, ThrowsOnlyIfPoor
<1> QED
  BY <1>3, <1>13, <1>14, <1>15 DEF IndInv

\* What Answer makes of the best candidates.
IsAnswer(new, best) == new = [i \in DOMAIN best |-> [best[i] EXCEPT !.cost = initCost + best[i].cost]]

\* The completion r of the beam is among the best, or none of them costs more.
Beaten(best, beam, r) ==
  /\ beam.cost \in Nat /\ r.cost \in Nat
  /\ \/ \E k \in DOMAIN best : best[k].path = beam.path \o r.path
     \/ \A k \in DOMAIN best : best[k].cost <= beam.cost + r.cost

LEMMA AnswerKeeps == ASSUME IndInv, Answer PROVE IndInv'
<1>1. /\ UNCHANGED <<model, topArcs, searchVars, topResults, callVars, mergeVars>>
      /\ phase = "merge" /\ ~(next <= Len(beams) /\ Accepted(found, beams[next].cost))
  BY DEF Answer, BeamLeft
<1>2. Searched' /\ Stored'
  BY <1>1, SearchedStays, StoredStays DEF IndInv
<1>3. CallOK /\ MergedOK
  BY <1>1 DEF IndInv, Called
<1>4. CallOK' /\ MergedOK'
  BY <1>1, <1>3, CallStays, MergedStays
<1>5. next \in Nat \ {0} /\ Len(beams) \in Nat /\ Len(found) \in Nat /\ found \in Seq(Results)
      /\ 1 <= Len(beams)
  BY <1>3 DEF CallOK
<1>6. CASE Len(found) < TopKSize
  <2>1. phase' = "thrown" /\ answer' = answer
    BY <1>6 DEF Answer
  <2>2. LengthLimit < TopKSize
    <3>1. CASE next <= Len(beams)
      <4>1. ~Accepted(found, beams[next].cost)
        BY <1>1, <3>1
      <4> QED
        BY <1>5, <1>6, <4>1, RefusedFull, ConfigFacts
    <3>2. CASE next > Len(beams)
      <4>1. next > 1
        BY <1>5, <3>2
      <4>2. TopKSize <= LengthLimit => TopKSize <= Len(found)
        BY <1>3, <4>1 DEF MergedOK
      <4> QED
        BY <1>5, <1>6, <4>2, ConfigFacts
    <3> QED
      BY <1>5, <3>1, <3>2
  <2>3. ThrowsOnlyIfPoor'
    BY <2>2 DEF ThrowsOnlyIfPoor
  <2>4. Called' /\ Phased' /\ AnswersTopIfSorted'
    BY <2>1 DEF Called, Phased, AnswersTopIfSorted, AnswersTop
  <2>5. AnswerPriced'
    BY <1>1, <2>1, AnswerStays DEF IndInv, callVars
  <2> QED
    BY <1>2, <2>3, <2>4, <2>5 DEF IndInv
<1>7. CASE ~(Len(found) < TopKSize)
  <2>1. phase' = "answered" /\ \E best \in Top(found) : IsAnswer(answer', best)
    BY <1>7 DEF Answer, IsAnswer
  <2>2. PICK best \in Top(found) : IsAnswer(answer', best)
    BY <2>1
  <2>3. PICK o \in SortedCheapest(TopKSize, Costs(found)) : Picks(best, found, o)
    BY DEF Top, Picks
  <2>4. /\ best \in Seq(Results) /\ DOMAIN best = 1 .. Len(best)
        /\ \A i \in DOMAIN best : \E x \in DOMAIN found : best[i] = found[x]
        /\ \A x \in DOMAIN found : \/ \E i \in DOMAIN best : best[i] = found[x]
                                   \/ \A i \in DOMAIN best : best[i].cost <= found[x].cost
        /\ \A v \in Nat : TopKSize <= Len(found) /\ ~WithinTopK(TopKSize, Costs(found), v)
                            => \A i \in DOMAIN best : best[i].cost <= v
    BY <1>5, <2>3, PickSorted, ResultCosts, ConfigFacts
  <2>5. DOMAIN answer' = DOMAIN best
        /\ \A i \in DOMAIN best : answer'[i] = [best[i] EXCEPT !.cost = initCost + best[i].cost]
    BY <2>2 DEF IsAnswer
  <2>6. \A i \in DOMAIN best : Own(Base, best[i]) /\ best[i] \in Results
    BY <1>3, <2>4 DEF CallOK, Own
  <2>7. \A i \in DOMAIN best : answer'[i].path = best[i].path /\ answer'[i].cost = initCost + best[i].cost
    BY <2>5, <2>6 DEF Results
  <2>8. /\ model \in Models /\ Start \in States /\ Base \in States /\ initCost \in Nat
        /\ query.stable \in Seq(Tokens) /\ CanWalk(Start, query.stable)
        /\ initCost = At(Start, query.stable).cost
    <3>1. model \in Models /\ Start \in States
      BY DEF IndInv, Searched, SearchP!IndInv, SearchP!TypeOK
    <3> QED
      BY <1>3, <3>1, AtFacts DEF CallOK, Base, Hyp
  <2>9. AnswerPriced'
    <3>1. ASSUME NEW i \in DOMAIN best
          PROVE  answer'[i].cost = FullCost(Start, query.stable \o answer'[i].path)
      <4>1. /\ best[i].path \in Seq(Tokens) /\ CanWalk(Base, best[i].path)
            /\ best[i].cost = FullCost(Base, best[i].path)
        BY <2>6 DEF Own, Results
      <4>2. FullCost(Start, query.stable \o best[i].path) = initCost + FullCost(Base, best[i].path)
        BY <2>8, <4>1, FullConcat DEF Base
      <4> QED
        BY <2>7, <4>1, <4>2
    <3>2. \A i : FullCost(Start, query.stable \o answer[i].path)' = FullCost(Start, query.stable \o answer'[i].path)
      BY <1>1 DEF FullCost, At, callVars
    <3> QED
      BY <2>5, <3>1, <3>2 DEF AnswerPriced
  <2>10. AnswersTopIfSorted'
    <3>1. ASSUME \A s \in States : Ascending(List(s)), NEW i \in DOMAIN beams, NEW j \in DOMAIN List(beams[i].state)
          PROVE  Beaten(best, beams[i], List(beams[i].state)[j])
      <4> DEFINE beam == beams[i]
                 r == List(beam.state)[j]
                 path == beam.path \o r.path
                 cost == beam.cost + r.cost
                 Said == (\E k \in DOMAIN best : best[k].path = path)
                         \/ (\A k \in DOMAIN best : best[k].cost <= cost)
      <4>1. /\ beam \in Beams /\ CanWalk(Base, beam.path) /\ beam.path \in Seq(Tokens)
            /\ beam.state = At(Base, beam.path).state /\ beam.state \in States
            /\ beam.cost = At(Base, beam.path).cost /\ beam.cost \in Nat
        BY <1>3 DEF CallOK, IsBeam, Beams
      <4>2. /\ CanWalk(beam.state, r.path) /\ r.path \in Seq(Tokens)
            /\ r.cost = FullCost(beam.state, r.path) /\ r.cost \in Nat
        BY <4>1 DEF IndInv, Stored, Own, Results
      <4>3. cost \in Nat /\ cost = beam.cost + r.cost
        BY <4>1, <4>2
      <4>4. FullCost(Base, path) = cost
        BY <2>8, <4>1, <4>2, FullConcat
      <4>9. Said => Beaten(best, beam, r)
        BY <4>1, <4>2 DEF Beaten
      <4> HIDE DEF r, path, cost
      <4>5. ASSUME \E k \in DOMAIN found : found[k].path = path PROVE Said
        <5>1. PICK k \in DOMAIN found : found[k].path = path
          BY <4>5
        <5>2. found[k].cost = cost
          BY <1>3, <4>4, <5>1 DEF CallOK, Own
        <5> QED
          BY <2>4, <5>1, <5>2
      <4>6. ASSUME ~Accepted(found, cost) PROVE Said
        <5>1. TopKSize <= Len(found) /\ ~WithinTopK(TopKSize, Costs(found), cost)
          BY <1>5, <4>6, RefusedFull DEF Accepted
        <5> QED
          BY <2>4, <4>3, <5>1
      <4>7. CASE i < next
        <5>1. Covers(found, beam, List(beam.state))
          BY <1>3, <4>7 DEF MergedOK
        <5>2. Ascending(List(beam.state))
          BY <3>1, <4>1
        <5>3. (\E k \in DOMAIN found : found[k].path = path) \/ ~Accepted(found, cost)
          BY <3>1, <5>1, <5>2 DEF Covers, path, cost, r
        <5>4. Said
          BY <4>5, <4>6, <5>3
        <5> QED
          BY <4>9, <5>4 DEF r
      <4>8. CASE ~(i < next)
        <5>1. i \in Nat /\ i <= Len(beams) /\ next \in DOMAIN beams /\ next <= Len(beams)
              /\ (i = next \/ next < i)
          BY <1>3, <1>5, <4>8 DEF CallOK
        <5>2. ~Accepted(found, beams[next].cost)
          BY <1>1, <5>1
        <5> DEFINE v == beams[next].cost
        <5>3. v \in Nat /\ v <= beam.cost
          <6>1. beams[next] \in Beams
            BY <1>3, <5>1, ElementOfSeq DEF CallOK
          <6> QED
            BY <1>3, <4>1, <5>1, <6>1 DEF CallOK, Ascending, Beams
        <5>4. ~Accepted(found, v)
          BY <5>2
        <5> HIDE DEF v
        <5>5. v <= cost /\ Len(found) <= Len(found)
          <6>1. beam.cost <= cost
            BY <4>1, <4>2, <4>3
          <6> QED
            BY <1>5, <4>1, <4>3, <5>3, <6>1
        <5>6. ~Accepted(found, cost)
          BY <1>5, <4>3, <5>3, <5>4, <5>5, StaysRefused
        <5>7. Said
          BY <4>6, <5>6
        <5> QED
          BY <4>9, <5>7 DEF r
      <4> QED
        BY <4>7, <4>8
    <3>2. /\ initCost' = initCost /\ beams' = beams /\ topResults' = topResults
          /\ \A s : List(s)' = List(s)
      BY <1>1 DEF callVars, List
    <3>3. Candidates' = Candidates
      BY <3>2 DEF Candidates
    <3>4. ASSUME \A s \in States : Ascending(List(s)), NEW c \in Candidates
          PROVE  \/ \E k \in DOMAIN answer' : answer'[k].path = c.path
                 \/ \A k \in DOMAIN answer' : answer'[k].cost <= c.cost
      <4>1. PICK i \in DOMAIN beams : \E j \in DOMAIN List(beams[i].state) :
              c = [path |-> beams[i].path \o List(beams[i].state)[j].path,
                   cost |-> initCost + beams[i].cost + List(beams[i].state)[j].cost]
        BY <3>4 DEF Candidates, List
      <4>2. PICK j \in DOMAIN List(beams[i].state) :
              c = [path |-> beams[i].path \o List(beams[i].state)[j].path,
                   cost |-> initCost + beams[i].cost + List(beams[i].state)[j].cost]
        BY <4>1
      <4> DEFINE beam == beams[i]
                 r == List(beam.state)[j]
                 path == beam.path \o r.path
                 cost == beam.cost + r.cost
      <4>7. Beaten(best, beam, r)
        BY <3>1, <3>4
      <4>8. c.path = beam.path \o r.path /\ c.cost = initCost + beam.cost + r.cost
        BY <4>2
      <4> HIDE DEF beam, r
      <4>3. /\ beam.cost \in Nat /\ r.cost \in Nat /\ cost \in Nat
            /\ \/ \E k \in DOMAIN best : best[k].path = path
               \/ \A k \in DOMAIN best : best[k].cost <= cost
        <5>1. beam.cost \in Nat /\ r.cost \in Nat
          BY <4>7 DEF Beaten
        <5>2. cost \in Nat
          BY <5>1
        <5>3. (\E k \in DOMAIN best : best[k].path = path) \/ \A k \in DOMAIN best : best[k].cost <= cost
          BY <4>7 DEF Beaten
        <5> QED
          BY <5>1, <5>2, <5>3
      <4>4. c.path = path /\ c.cost = initCost + cost
        BY <2>8, <4>3, <4>8
      <4> HIDE DEF path, cost
      <4>5. CASE \E k \in DOMAIN best : best[k].path = path
        BY <2>5, <2>7, <4>4, <4>5
      <4>6. CASE \A k \in DOMAIN best : best[k].cost <= cost
        <5>1. \A k \in DOMAIN best : best[k].cost \in Nat
          BY <2>6 DEF Results
        <5>2. \A k \in DOMAIN best : initCost + best[k].cost <= initCost + cost
          BY <2>8, <4>3, <4>6, <5>1
        <5> QED
          BY <2>5, <2>7, <4>4, <5>2
      <4> QED
        BY <4>3, <4>5, <4>6
    <3> QED
      BY <3>2, <3>3, <3>4 DEF AnswersTopIfSorted, AnswersTop, List
  <2>11. Called' /\ Phased' /\ ThrowsOnlyIfPoor'
    BY <1>4, <2>1 DEF Called, Phased, ThrowsOnlyIfPoor
  <2> QED
    BY <1>2, <2>9, <2>10, <2>11 DEF IndInv
<1> QED
  BY <1>6, <1>7
-----------------------------------------------------------------------------
(* The theorems *)

LEMMA StutterKeeps == ASSUME IndInv, UNCHANGED vars PROVE IndInv'
<1>1. /\ UNCHANGED <<model, topArcs, searchVars, topResults, callVars, mergeVars, answer>>
      /\ phase' = phase
  BY DEF vars
<1>2. Searched' /\ Stored'
  BY <1>1, SearchedStays, StoredStays DEF IndInv
<1>3. Called'
  BY <1>1, CallStays, MergedStays DEF IndInv, Called
<1>4. start' = start /\ next' = next /\ beams' = beams /\ topResults' = topResults
  BY <1>1 DEF searchVars, callVars, mergeVars
<1>5. Phased'
  BY <1>1, <1>4 DEF IndInv, Phased, List
<1>6. AnswerPriced'
  BY <1>1, AnswerStays DEF IndInv, callVars
<1>7. AnswersTopIfSorted'
  <2>1. initCost' = initCost /\ beams' = beams /\ topResults' = topResults /\ answer' = answer
    BY <1>1 DEF callVars
  <2>2. Candidates' = Candidates
    BY <2>1 DEF Candidates
  <2> QED
    BY <1>1, <2>1, <2>2 DEF IndInv, AnswersTopIfSorted, AnswersTop
<1>8. ThrowsOnlyIfPoor'
  BY <1>1, SameModel DEF IndInv, ThrowsOnlyIfPoor
<1> QED
  BY <1>2, <1>3, <1>5, <1>6, <1>7, <1>8 DEF IndInv

LEMMA InitOK == Init => IndInv
<1> SUFFICES ASSUME Init PROVE IndInv
  OBVIOUS
<1>1. /\ SearchP!Init /\ start = Start
      /\ topResults = [s \in States |-> [list |-> <<>>, dl |-> 0]]
      /\ phase = "idle" /\ answer = <<>>
  BY SameBegin DEF Init
<1>2. Searched
  <2>1. SearchP!Begun
    BY <1>1 DEF SearchP!Init, SearchP!Begun, SearchP!ArcTable
  <2> QED
    BY <1>1, <2>1, SameConfig, SearchP!BeginsOK DEF Searched, SearchP!Init
<1>3. Stored
  <2>1. DOMAIN topResults = States /\ \A s \in States : List(s) = <<>>
    BY <1>1 DEF List
  <2>2. <<>> \in Seq(Results) /\ DOMAIN <<>> = {}
    OBVIOUS
  <2> QED
    BY <2>1, <2>2 DEF Stored
<1> QED
  BY <1>1, <1>2, <1>3 DEF IndInv, Called, Phased, AnswerPriced, AnswersTopIfSorted, AnswersTop,
                          ThrowsOnlyIfPoor

LEMMA Invariant == Spec => []IndInv
<1>1. IndInv /\ [Next]_vars => IndInv'
  BY AskKeeps, HitKeeps, MissKeeps, SearchStepKeeps, SearchDoneKeeps, SearchThrewKeeps, TakeKeeps,
     AnswerKeeps, StutterKeeps DEF Next, Call
<1> QED
  BY <1>1, InitOK, PTL DEF Spec

(* A suggestion costs what the model says of the whole query, whether its   *)
(* completion was searched for this query or kept from an earlier one.      *)
THEOREM SuggestionsPriced == Spec => []AnswerPriced
<1>1. IndInv => AnswerPriced
  BY DEF IndInv
<1> QED
  BY <1>1, Invariant, PTL

(* GetTopResult keeps for every state only completions of that state, at    *)
(* the model's price, however the calls went before.                        *)
THEOREM CacheSound == Spec => []CacheHoldsOwn
<1>1. IndInv => CacheHoldsOwn
  BY DEF IndInv, Stored, List, Own, CacheHoldsOwn
<1> QED
  BY <1>1, Invariant, PTL

(* Complete may leave a beam's completions, and the beams, at the first one *)
(* that TopK refuses: if what is kept is in ascending order, nothing that   *)
(* is left out is cheaper than a suggestion.                                *)
THEOREM EarlyStopLosesNothing == Spec => []AnswersTopIfSorted
<1>1. IndInv => AnswersTopIfSorted
  BY DEF IndInv
<1> QED
  BY <1>1, Invariant, PTL

(* Where the model knows unk and enough tokens in every state, and topk is  *)
(* at most length_limit, no assertion that Complete runs into fails.        *)
THEOREM RichModelsAnswer == Spec => []ThrowsOnlyIfPoor
<1>1. IndInv => ThrowsOnlyIfPoor
  BY DEF IndInv
<1> QED
  BY <1>1, Invariant, PTL
=============================================================================
