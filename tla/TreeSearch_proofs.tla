------------------------- MODULE TreeSearch_proofs -------------------------
(***************************************************************************)
(* Proofs about TreeSearch: with the counts of PrefixTree and its handles  *)
(* every step of the three loops is one of BeamSearch or none, so what is  *)
(* proved of BeamSearch is true of the search on the tree.                 *)
(*                                                                         *)
(* What the search and the tree keep is known from BeamSearch_proofs and   *)
(* PrefixTree_proofs, which are instantiated as TreeSearch instantiates    *)
(* their modules; the first lemmas say that each instance is the same.     *)
(***************************************************************************)
EXTENDS TreeSearch, TLAPS

TreeP == INSTANCE PrefixTree_proofs
           WITH Keys <- Tokens, Values <- [state : States, cost : Nat],
                MaxDepth <- LengthLimit, MaxLeafs <- 2 * BeamSize * BranchFactor

AbsP == INSTANCE BeamSearch_proofs
          WITH tree <- Hypotheses,
               batch <- IF loop = "beams" THEN found ELSE DOMAIN Hypotheses,
               todo <- IF loop = "beams" THEN todo ELSE DOMAIN Hypotheses

LEMMA SameConfig == AbsP!ConfigOK
  BY TreeSearchAssumption
  DEF Abs!ConfigOK, Abs!IsModel, Abs!FindOf, Abs!ExitOf, Abs!IsFiniteSet,
      AbsP!ConfigOK, AbsP!IsModel, AbsP!FindOf, AbsP!ExitOf, AbsP!IsFiniteSet

LEMMA TreeAssumption == LengthLimit \in Nat /\ 2 * BeamSize * BranchFactor \in Nat
<1>1. LengthLimit \in Nat /\ BeamSize \in Nat /\ BranchFactor \in Nat
  BY TreeSearchAssumption DEF Abs!ConfigOK
<1>2. \A n, m \in Nat : 2 * n * m \in Nat
  OBVIOUS
<1> QED
  BY <1>1, <1>2

\* The tree's operations.
LEMMA SamePut == \A p, v : Tree!Put(p, v) => TreeP!Put(p, v)
  BY DEF Tree!Put, Tree!InBounds, Tree!Created, Tree!CountOf, Tree!Counted, Tree!PutValue,
         Tree!Ancestors, Tree!Paths, Tree!IsPrefix, Tree!Cardinality,
         TreeP!Put, TreeP!InBounds, TreeP!Created, TreeP!CountOf, TreeP!Counted, TreeP!PutValue,
         TreeP!Ancestors, TreeP!Paths, TreeP!IsPrefix, TreeP!Cardinality

LEMMA SameFindAll == \A p : Tree!FindAll(p) => TreeP!FindAll(p)
  BY DEF Tree!FindAll, Tree!LeafsBelow, Tree!Skipped, Tree!Root, Tree!Ancestors, Tree!Paths, Tree!IsPrefix,
         TreeP!FindAll, TreeP!LeafsBelow, TreeP!Skipped, TreeP!Root, TreeP!Ancestors, TreeP!Paths, TreeP!IsPrefix

LEMMA SameErase == \A p : Tree!Erase(p) => TreeP!Erase(p)
  BY DEF Tree!Erase, Tree!Counted, Tree!Ancestors, Tree!Paths, Tree!IsPrefix,
         TreeP!Erase, TreeP!Counted, TreeP!Ancestors, TreeP!Paths, TreeP!IsPrefix

LEMMA SamePaths == Tree!Paths = TreeP!Paths /\ Tree!Root = <<>> /\ TreeP!Root = <<>>
  BY DEF Tree!Paths, TreeP!Paths, Tree!Root, TreeP!Root

\* The steps of the search.
LEMMA SameBegin == Abs!Init => AbsP!Init
  BY DEF Abs!Init, Abs!Root, Abs!NoArcs, AbsP!Init, AbsP!Root, AbsP!NoArcs

LEMMA SameTake == \A p : Abs!Take(p) => AbsP!Take(p)
  BY DEF Abs!Take, Abs!BeamLeft, Abs!Taken, Abs!Front, Abs!WillInsert, Abs!Accepted, Abs!Costs,
         Abs!WithinTopK, Abs!Cardinality,
         AbsP!Take, AbsP!BeamLeft, AbsP!Taken, AbsP!Front, AbsP!WillInsert, AbsP!Accepted, AbsP!Costs,
         AbsP!WithinTopK, AbsP!Cardinality

LEMMA SameEnded == \A p : Abs!Ended(p) = AbsP!Ended(p)
  BY DEF Abs!Ended, Abs!WillInsert, Abs!Accepted, Abs!Costs, Abs!WithinTopK, Abs!Cardinality,
         AbsP!Ended, AbsP!WillInsert, AbsP!Accepted, AbsP!Costs, AbsP!WithinTopK, AbsP!Cardinality

LEMMA SamePastLimit == \A p : Abs!PastLimit(p) => AbsP!PastLimit(p)
  BY SameTake DEF Abs!PastLimit, Abs!WithinLimit, AbsP!PastLimit, AbsP!WithinLimit

LEMMA SameSelected == \A s : Abs!Selected(s) = AbsP!Selected(s)
  BY DEF Abs!Selected, Abs!NoArcs, Abs!Cheapest, Abs!MinOf, Abs!Cardinality,
         AbsP!Selected, AbsP!NoArcs, AbsP!Cheapest, AbsP!MinOf, AbsP!Cardinality

LEMMA SameChildren == \A p, arcs, costs : Abs!Children(p, arcs, costs) = AbsP!Children(p, arcs, costs)
  BY DEF Abs!Children, Abs!Weight, Abs!Accepted, Abs!WithinTopK, Abs!Cardinality,
         AbsP!Children, AbsP!Weight, AbsP!Accepted, AbsP!WithinTopK, AbsP!Cardinality

LEMMA SameExpand == \A p : Abs!Expand(p) => AbsP!Expand(p)
<1> SUFFICES ASSUME NEW p, Abs!Expand(p) PROVE AbsP!Expand(p)
  OBVIOUS
<1>1. /\ AbsP!Take(p) /\ AbsP!WithinLimit(p) /\ result' = AbsP!Ended(p) /\ UNCHANGED status
  BY SameTake, SameEnded DEF Abs!Expand, Abs!WithinLimit, AbsP!WithinLimit
<1>2. PICK arcs \in Abs!Selected(Hypotheses[p].state) :
        /\ topArcs' = [topArcs EXCEPT ![Hypotheses[p].state] = arcs]
        /\ Hypotheses' = [q \in DOMAIN Hypotheses \cup DOMAIN Abs!Children(p, arcs, Abs!Costs(result')) |->
                            IF q \in DOMAIN Hypotheses THEN Hypotheses[q]
                            ELSE Abs!Children(p, arcs, Abs!Costs(result'))[q]]
  BY DEF Abs!Expand
<1>3. arcs \in AbsP!Selected(Hypotheses[p].state)
  BY SameSelected
<1>4. Abs!Children(p, arcs, Abs!Costs(result')) = AbsP!Children(p, arcs, AbsP!Costs(result'))
  BY SameChildren DEF Abs!Costs, AbsP!Costs
<1> QED
  BY <1>1, <1>2, <1>3, <1>4 DEF AbsP!Expand

LEMMA SameArcsMissing == \A p : Abs!ArcsMissing(p) => AbsP!ArcsMissing(p)
  BY SameTake, SameEnded
  DEF Abs!ArcsMissing, Abs!WithinLimit, Abs!MayMiss, Abs!NoArcs, Abs!Cardinality,
      AbsP!ArcsMissing, AbsP!WithinLimit, AbsP!MayMiss, AbsP!NoArcs, AbsP!Cardinality

LEMMA SameEndRound == Abs!EndRound => AbsP!EndRound
  BY DEF Abs!EndRound, Abs!RoundOver, Abs!BeamLeft, Abs!Taken, Abs!Front, Abs!WillInsert, Abs!Accepted,
         Abs!Costs, Abs!WithinTopK, Abs!Cardinality, Abs!Cut,
         AbsP!EndRound, AbsP!RoundOver, AbsP!BeamLeft, AbsP!Taken, AbsP!Front, AbsP!WillInsert, AbsP!Accepted,
         AbsP!Costs, AbsP!WithinTopK, AbsP!Cardinality, AbsP!Cut

LEMMA SameReturn == Abs!Return => AbsP!Return
  BY DEF Abs!Return, Abs!Trimmed, Abs!SortedCheapest, Abs!MinOf, Abs!Costs,
         AbsP!Return, AbsP!Trimmed, AbsP!SortedCheapest, AbsP!MinOf, AbsP!Costs

LEMMA SameNext == [Abs!Next]_(Abs!vars) => [AbsP!Next]_(AbsP!vars)
<1>1. Abs!Next => AbsP!Next
  BY SamePastLimit, SameExpand, SameArcsMissing, SameEndRound, SameReturn DEF Abs!Next, AbsP!Next
<1>2. UNCHANGED Abs!vars => UNCHANGED AbsP!vars
  BY DEF Abs!vars, Abs!searchVars, AbsP!vars, AbsP!searchVars
<1> QED
  BY <1>1, <1>2

\* What is said of the search.
LEMMA SameLoses == AbsP!OnlyBeamSizeLoses => Abs!OnlyBeamSizeLoses
  BY DEF Abs!OnlyBeamSizeLoses, Abs!Hypotheses, Abs!NoArcs, Abs!Below, Abs!FullCost, Abs!Walk, Abs!Follow,
         AbsP!OnlyBeamSizeLoses, AbsP!Hypotheses, AbsP!NoArcs, AbsP!Below, AbsP!FullCost, AbsP!Walk, AbsP!Follow

LEMMA SamePrices == AbsP!ResultsPriced => Abs!ResultsPriced
  BY DEF Abs!ResultsPriced, Abs!FullCost, Abs!Walk, Abs!Follow,
         AbsP!ResultsPriced, AbsP!FullCost, AbsP!Walk, AbsP!Follow

LEMMA SameEnough == AbsP!EnoughResults => Abs!EnoughResults
  BY DEF Abs!EnoughResults, Abs!MinOf, AbsP!EnoughResults, AbsP!MinOf
-----------------------------------------------------------------------------
(* The inductive invariant: what BeamSearch and the tree keep, and what each *)
(* loop has done.                                                            *)

Hyp == [state : States, cost : Nat]

Loops ==
  /\ loop \in {"start", "beams", "erase"}
  /\ loop = "start" => DOMAIN data = {} /\ found = {} /\ pending = Abs!Root(start)
  /\ loop = "beams" => found # {} /\ todo \subseteq found
  /\ loop = "erase" => pending = Nothing
  /\ \A q \in DOMAIN pending : q \in Seq(Tokens) /\ pending[q] \in Hyp
  /\ loop = "beams" => \A q \in DOMAIN pending : q # <<>>

Inv == AbsP!IndInv /\ TreeP!IndInv /\ Loops

LEMMA EmptyPath == <<>> \in TreeP!Paths
<1>1. <<>> \in [1 .. 0 -> Tokens] /\ 0 \in 0 .. LengthLimit
  BY TreeAssumption
<1> QED
  BY <1>1 DEF TreeP!Paths

LEMMA BothSame ==
  ASSUME NEW f, NEW g, NEW d, NEW e, DOMAIN f \cup DOMAIN g = DOMAIN d \cup DOMAIN e,
         \A p \in DOMAIN f \cup DOMAIN g :
           (IF p \in DOMAIN f THEN f[p] ELSE g[p]) = (IF p \in DOMAIN d THEN d[p] ELSE e[p])
  PROVE  Both(f, g) = Both(d, e)
  BY DEF Both

LEMMA BothFacts ==
  ASSUME NEW f, NEW g
  PROVE  /\ DOMAIN Both(f, g) = DOMAIN f \cup DOMAIN g
         /\ \A p \in DOMAIN f : Both(f, g)[p] = f[p]
  BY DEF Both

LEMMA MinusFacts ==
  ASSUME NEW f, NEW S
  PROVE  DOMAIN Minus(f, S) = DOMAIN f \ S /\ \A p \in DOMAIN f \ S : Minus(f, S)[p] = f[p]
  BY DEF Minus

LEMMA NothingFacts == DOMAIN Nothing = {}
  BY DEF Nothing

\* Steps that BeamSearch does not see.
LEMMA Unseen ==
  ASSUME Hypotheses' = Hypotheses, UNCHANGED searchVars,
         (IF loop = "beams" THEN found ELSE DOMAIN Hypotheses)' =
           (IF loop = "beams" THEN found ELSE DOMAIN Hypotheses),
         (IF loop = "beams" THEN todo ELSE DOMAIN Hypotheses)' =
           (IF loop = "beams" THEN todo ELSE DOMAIN Hypotheses)
  PROVE  UNCHANGED Abs!vars
  BY DEF searchVars, Abs!vars, Abs!searchVars

LEMMA InsertRootStep ==
  ASSUME Inv, InsertRoot
  PROVE  UNCHANGED Abs!vars /\ TreeP!IndInv' /\ Loops'
<1> DEFINE root == pending[<<>>]
<1>1. /\ loop = "start" /\ loop' = "erase" /\ pending' = Nothing
      /\ UNCHANGED searchVars /\ Tree!Put(<<>>, root)
  BY DEF InsertRoot, Tree!Insert
<1>2. DOMAIN data = {} /\ found = {} /\ pending = Abs!Root(start) /\ start \in States
  BY <1>1 DEF Inv, Loops, AbsP!IndInv, AbsP!TypeOK
<1>3. DOMAIN pending = {<<>>} /\ root \in Hyp
  BY <1>2 DEF Abs!Root, Hyp
<1> HIDE DEF root
<1>4. DOMAIN data' = {<<>>} /\ data'[<<>>] = root /\ found' = {}
  BY <1>1, <1>2 DEF Tree!Put, Tree!PutValue
<1>5. Hypotheses' = Hypotheses
  <2>1. DOMAIN Minus(data, found) = {} /\ DOMAIN Minus(data', found') = {<<>>}
        /\ Minus(data', found')[<<>>] = root
    <3>1. /\ DOMAIN Minus(data, found) = DOMAIN data \ found
          /\ DOMAIN Minus(data', found') = DOMAIN data' \ found'
          /\ \A p \in DOMAIN data' \ found' : Minus(data', found')[p] = data'[p]
      BY MinusFacts
    <3> QED
      BY <1>2, <1>4, <3>1
  <2>2. Both(Minus(data', found'), Nothing) = Both(Minus(data, found), pending)
    BY <1>3, <2>1, BothSame, NothingFacts DEF root
  <2> QED
    BY <1>1, <2>2 DEF Hypotheses
<1>6. UNCHANGED Abs!vars
  BY <1>1, <1>5, Unseen
<1>7. TreeP!IndInv'
  <2>1. <<>> \in TreeP!Paths
    BY EmptyPath
  <2>2. TreeP!Put(<<>>, root)
    BY <1>1, SamePut
  <2> QED
    BY <1>3, <2>1, <2>2, TreeAssumption, TreeP!PutKeeps DEF Inv, Hyp
<1>8. Loops'
  BY <1>1, NothingFacts DEF Loops
<1> QED
  BY <1>6, <1>7, <1>8

LEMMA FindBeamsStep ==
  ASSUME Inv, FindBeams
  PROVE  UNCHANGED Abs!vars /\ TreeP!IndInv' /\ Loops'
<1>1. /\ loop = "erase" /\ loop' = "beams" /\ found = {} /\ todo' = found' /\ pending' = pending
      /\ pending = Nothing /\ UNCHANGED searchVars
      /\ Tree!FindAll(<<>>) /\ num_leafs[<<>>] # 0
  BY SamePaths DEF FindBeams, Inv, Loops
<1>2. TreeP!FindAll(<<>>) /\ <<>> \in TreeP!Paths
  BY <1>1, SameFindAll, EmptyPath
<1>3. TreeP!IndInv'
  BY <1>2, TreeAssumption, TreeP!FindKeeps DEF Inv
<1>4. found' = DOMAIN data /\ data' = data
  <2>1. TreeP!FindsAllLeafs
    BY TreeAssumption, TreeP!FindExact DEF Inv
  <2>2. found' = {p \in DOMAIN data : <<>> \in TreeP!Ancestors(p)}
    BY <1>2, <2>1 DEF TreeP!FindsAllLeafs, TreeP!FindAll
  <2>3. \A p \in DOMAIN data : <<>> \in TreeP!Ancestors(p)
    BY TreeAssumption, TreeP!AncestorFacts, SamePaths DEF Inv, TreeP!IndInv, TreeP!TypeOK
  <2> QED
    BY <1>2, <2>2, <2>3 DEF TreeP!FindAll
<1>5. DOMAIN data # {}
  BY <1>1, TreeAssumption, SamePaths, TreeP!NoneLeft DEF Inv
<1>6. Hypotheses' = Hypotheses /\ DOMAIN Hypotheses = DOMAIN data
  <2>1. DOMAIN Minus(data, found) = DOMAIN data /\ \A p \in DOMAIN data : Minus(data, found)[p] = data[p]
    <3>1. /\ DOMAIN Minus(data, found) = DOMAIN data \ found
          /\ \A p \in DOMAIN data \ found : Minus(data, found)[p] = data[p]
      BY MinusFacts
    <3> QED
      BY <1>1, <3>1
  <2>2. Both(Minus(data, found), pending) = Both(data', pending')
    BY <1>1, <1>4, <2>1, BothSame
  <2>3. DOMAIN Both(data', pending') = DOMAIN data
    <3>1. DOMAIN Both(data', pending') = DOMAIN data' \cup DOMAIN pending'
      BY BothFacts
    <3> QED
      BY <1>1, <1>4, <3>1, NothingFacts
  <2> QED
    BY <1>1, <2>2, <2>3 DEF Hypotheses
<1>7. UNCHANGED Abs!vars
  BY <1>1, <1>4, <1>6, Unseen
<1>8. Loops'
  BY <1>1, <1>4, <1>5, NothingFacts DEF Loops
<1> QED
  BY <1>3, <1>7, <1>8

(* What a step of the loop over the beams finds.                            *)
LEMMA BeamLoop ==
  ASSUME Inv, loop = "beams", pending = Nothing
  PROVE  /\ DOMAIN Hypotheses = DOMAIN data /\ \A p \in DOMAIN data : Hypotheses[p] = data[p]
         /\ todo \subseteq DOMAIN data /\ found \subseteq DOMAIN data
<1>1. Hypotheses = Both(data, pending)
  BY DEF Hypotheses
<1>2. DOMAIN Both(data, pending) = DOMAIN data \cup DOMAIN pending
      /\ \A p \in DOMAIN data : Both(data, pending)[p] = data[p]
  BY BothFacts
<1>3. found \subseteq DOMAIN data
  BY DEF Inv, TreeP!IndInv, TreeP!HandlesValid
<1>4. todo \subseteq found
  BY DEF Inv, Loops
<1>5. DOMAIN pending = {}
  BY NothingFacts
<1> QED
  BY <1>1, <1>2, <1>3, <1>4, <1>5

LEMMA TakeStep ==
  ASSUME Inv, NEW p \in todo, Take(p)
  PROVE  /\ Abs!Take(p) /\ AbsP!Take(p) /\ data[p] = Hypotheses[p] /\ Hypotheses[p] \in Hyp
         /\ loop = "beams" /\ loop' = "beams" /\ pending = Nothing /\ data' = data
         /\ found' = found /\ todo' \subseteq found' /\ found' # {}
         /\ TreeP!IndInv'
         /\ (IF loop = "beams" THEN todo ELSE DOMAIN Hypotheses) = todo
<1>1. /\ status = "search" /\ loop = "beams" /\ loop' = "beams" /\ pending = Nothing
      /\ Abs!BeamLeft /\ p \in Abs!Front /\ Abs!WillInsert(data[p].cost)
      /\ todo' = todo \ {p}
      /\ maxDl' = IF Len(p) > maxDl THEN Len(p) ELSE maxDl
      /\ UNCHANGED <<model, start, cut, nodes, data, num_leafs, inserted, found>>
  BY DEF Take, treeVars
<1>2. data[p] = Hypotheses[p] /\ p \in DOMAIN Hypotheses
  BY <1>1, BeamLoop
<1>3. Abs!Take(p)
  BY <1>1, <1>2 DEF Abs!Take
<1>4. Hypotheses[p] \in Hyp
  BY <1>2 DEF Inv, AbsP!IndInv, AbsP!TypeOK, AbsP!Hyp, Hyp
<1>5. TreeP!IndInv'
  <2>1. UNCHANGED TreeP!vars
    BY <1>1 DEF TreeP!vars
  <2> QED
    BY <2>1, TreeAssumption, TreeP!IndInvNext DEF Inv
<1>6. todo' \subseteq found' /\ found' # {}
  BY <1>1 DEF Inv, Loops
<1> QED
  BY <1>1, <1>2, <1>3, <1>4, <1>5, <1>6, SameTake

LEMMA PastLimitStep ==
  ASSUME Inv, NEW p \in todo, PastLimit(p)
  PROVE  Abs!PastLimit(p) /\ TreeP!IndInv' /\ Loops'
<1>1. Take(p) /\ ~Abs!WithinLimit(p) /\ UNCHANGED <<status, result, topArcs, pending>>
  BY DEF PastLimit
<1>2. /\ Abs!Take(p) /\ TreeP!IndInv' /\ loop = "beams" /\ loop' = "beams" /\ pending = Nothing
      /\ data' = data /\ todo' \subseteq found' /\ found' # {}
  BY <1>1, TakeStep
<1>3. Hypotheses' = Hypotheses
  BY <1>1, <1>2 DEF Hypotheses
<1>4. Loops'
  BY <1>1, <1>2, NothingFacts DEF Loops
<1> QED
  BY <1>1, <1>2, <1>3, <1>4 DEF Abs!PastLimit

LEMMA ArcsMissingStep ==
  ASSUME Inv, NEW p \in todo, ArcsMissing(p)
  PROVE  Abs!ArcsMissing(p) /\ TreeP!IndInv' /\ Loops'
<1>1. /\ Take(p) /\ Abs!WithinLimit(p) /\ Abs!MayMiss(data[p].state)
      /\ result' = Abs!Ended(p) /\ status' = "failed"
      /\ UNCHANGED <<topArcs, pending>>
  BY DEF ArcsMissing
<1>2. /\ Abs!Take(p) /\ TreeP!IndInv' /\ loop = "beams" /\ loop' = "beams" /\ pending = Nothing
      /\ data' = data /\ todo' \subseteq found' /\ found' # {} /\ data[p] = Hypotheses[p]
  BY <1>1, TakeStep
<1>3. Hypotheses' = Hypotheses
  BY <1>1, <1>2 DEF Hypotheses
<1>4. Loops'
  BY <1>1, <1>2, NothingFacts DEF Loops
<1> QED
  BY <1>1, <1>2, <1>3, <1>4 DEF Abs!ArcsMissing

LEMMA ExpandStep ==
  ASSUME Inv, NEW p \in todo, Expand(p)
  PROVE  Abs!Expand(p) /\ TreeP!IndInv' /\ Loops'
<1>1. Take(p) /\ Abs!WithinLimit(p) /\ result' = Abs!Ended(p) /\ status' = status
  BY DEF Expand
<1>2. /\ Abs!Take(p) /\ TreeP!IndInv' /\ loop = "beams" /\ loop' = "beams" /\ pending = Nothing
      /\ data' = data /\ todo' \subseteq found' /\ found' # {} /\ data[p] = Hypotheses[p]
      /\ Hypotheses[p] \in Hyp /\ AbsP!Take(p)
      /\ (IF loop = "beams" THEN todo ELSE DOMAIN Hypotheses) = todo
  BY <1>1, TakeStep
<1>3. PICK arcs \in Abs!Selected(Hypotheses[p].state) :
        /\ topArcs' = [topArcs EXCEPT ![Hypotheses[p].state] = arcs]
        /\ pending' = Abs!Children(p, arcs, Abs!Costs(result'))
  BY <1>2 DEF Expand
<1> DEFINE new == Abs!Children(p, arcs, Abs!Costs(result'))
<1> HIDE DEF new
<1>4. Hypotheses' = [q \in DOMAIN Hypotheses \cup DOMAIN new |->
                       IF q \in DOMAIN Hypotheses THEN Hypotheses[q] ELSE new[q]]
  <2>1. Hypotheses' = Both(data, new)
    BY <1>2, <1>3 DEF Hypotheses, new
  <2>2. Both(data, new) = Both(Hypotheses, new)
    <3>1. DOMAIN Hypotheses = DOMAIN data /\ \A q \in DOMAIN data : Hypotheses[q] = data[q]
      BY <1>2, BeamLoop
    <3> QED
      BY <3>1, BothSame
  <2> QED
    BY <2>1, <2>2 DEF Both
<1>5. Abs!Expand(p)
  BY <1>1, <1>2, <1>3, <1>4 DEF Abs!Expand, new
<1>6. \A q \in DOMAIN new : q \in Seq(Tokens) /\ new[q] \in Hyp /\ q # <<>>
  <2>1. AbsP!Kept(Hypotheses[p].state, arcs)
    BY <1>2, SameConfig, SameSelected, AbsP!SelectedFacts DEF Inv, AbsP!IndInv, Hyp
  <2>2. AbsP!Costs(result') \in Seq(Nat)
    <3>1. AbsP!Ended(p) \in Seq(AbsP!Results)
      BY <1>1, <1>2, SameConfig, AbsP!EndedFacts DEF Inv, Abs!WithinLimit, AbsP!WithinLimit
    <3>2. result' = AbsP!Ended(p)
      BY <1>1, SameEnded
    <3> QED
      BY <3>1, <3>2, AbsP!CostsFacts
  <2>3. new = AbsP!Children(p, arcs, AbsP!Costs(result'))
    BY SameChildren DEF new, Abs!Costs, AbsP!Costs
  <2>4. \A q \in DOMAIN AbsP!Children(p, arcs, AbsP!Costs(result')) :
          /\ q \in Seq(Tokens) /\ Len(q) = Len(p) + 1
          /\ AbsP!Children(p, arcs, AbsP!Costs(result'))[q] \in AbsP!Hyp
    BY <1>2, <2>1, <2>2, SameConfig, AbsP!ChildrenFacts DEF Inv
  <2>5. Len(p) \in Nat
    BY <1>2, SameConfig, AbsP!BeamFacts DEF Inv
  <2>6. \A q \in DOMAIN new : q \in Seq(Tokens) /\ new[q] \in Hyp /\ Len(q) = Len(p) + 1
    BY <2>3, <2>4 DEF AbsP!Hyp, Hyp
  <2> QED
    BY <2>5, <2>6
<1>7. Loops'
  BY <1>2, <1>3, <1>6 DEF Loops, new
<1> QED
  BY <1>2, <1>5, <1>7

LEMMA InsertChildStep ==
  ASSUME Inv, NEW q \in DOMAIN pending, InsertChild(q)
  PROVE  UNCHANGED Abs!vars /\ TreeP!IndInv' /\ Loops'
<1> DEFINE leaf == Front(q) \o <<Last(q)>>
<1>1. /\ loop = "beams" /\ loop' = "beams" /\ todo' = todo /\ UNCHANGED searchVars
      /\ pending' = Minus(pending, {q})
      /\ leaf \in TreeP!Paths /\ Tree!Put(leaf, pending[q])
  BY SamePaths DEF InsertChild, Tree!InsertBelow
<1>2. q \in Seq(Tokens) /\ q # <<>> /\ pending[q] \in Hyp
  BY <1>1 DEF Inv, Loops
<1>3. leaf = q
  BY <1>2 DEF Front, Last
<1> HIDE DEF leaf
<1>4. TreeP!IndInv'
  <2>1. TreeP!Put(q, pending[q])
    BY <1>1, <1>3, SamePut
  <2> QED
    BY <1>1, <1>2, <1>3, <2>1, TreeAssumption, TreeP!PutKeeps DEF Inv, Hyp
<1>5. /\ found' = found /\ DOMAIN data' = DOMAIN data \cup {q}
      /\ \A p \in DOMAIN data : data'[p] = data[p]
      /\ q \notin DOMAIN data => data'[q] = pending[q]
  <2>1. data' = IF q \in DOMAIN data THEN data
                ELSE [p \in DOMAIN data \cup {q} |-> IF p = q THEN pending[q] ELSE data[p]]
    BY <1>1, <1>3 DEF Tree!Put, Tree!PutValue
  <2>2. found' = found
    BY <1>1 DEF Tree!Put
  <2>3. CASE q \in DOMAIN data
    BY <2>1, <2>2, <2>3
  <2>4. CASE q \notin DOMAIN data
    BY <2>1, <2>2, <2>4
  <2> QED
    BY <2>3, <2>4
<1>6. DOMAIN pending' = DOMAIN pending \ {q} /\ \A p \in DOMAIN pending \ {q} : pending'[p] = pending[p]
  BY <1>1, MinusFacts
<1>7. Hypotheses' = Hypotheses
  <2>1. Both(data', pending') = Both(data, pending)
    BY <1>5, <1>6, BothSame
  <2> QED
    BY <1>1, <2>1 DEF Hypotheses
<1>8. UNCHANGED Abs!vars
  BY <1>1, <1>5, <1>7, Unseen
<1>9. Loops'
  BY <1>1, <1>5, <1>6 DEF Inv, Loops
<1> QED
  BY <1>4, <1>8, <1>9

LEMMA LeaveBeamsStep ==
  ASSUME Inv, LeaveBeams
  PROVE  Abs!EndRound /\ TreeP!IndInv' /\ Loops'
<1>1. /\ status = "search" /\ loop = "beams" /\ loop' = "erase" /\ pending = Nothing /\ pending' = pending
      /\ Abs!RoundOver /\ cut' = cut \cup Abs!Cut
      /\ UNCHANGED <<model, start, status, result, maxDl, topArcs>>
      /\ UNCHANGED <<nodes, data, num_leafs, inserted, found>>
  BY DEF LeaveBeams, treeVars
<1>2. /\ DOMAIN Hypotheses = DOMAIN data /\ \A p \in DOMAIN data : Hypotheses[p] = data[p]
      /\ found \subseteq DOMAIN data /\ found # {}
  BY <1>1, BeamLoop DEF Inv, Loops
<1>3. Hypotheses' = [p \in DOMAIN Hypotheses \ found |-> Hypotheses[p]]
  <2>1. Hypotheses' = Both(Minus(data, found), Nothing)
    BY <1>1 DEF Hypotheses
  <2>2. /\ DOMAIN Minus(data, found) = DOMAIN data \ found
        /\ \A p \in DOMAIN data \ found : Minus(data, found)[p] = data[p]
    BY MinusFacts
  <2>3. /\ DOMAIN Both(Minus(data, found), Nothing) = DOMAIN Minus(data, found) \cup DOMAIN Nothing
        /\ \A p \in DOMAIN Minus(data, found) : Both(Minus(data, found), Nothing)[p] = Minus(data, found)[p]
    BY BothFacts
  <2>4. Both(Minus(data, found), Nothing) =
          [p \in DOMAIN Minus(data, found) \cup DOMAIN Nothing |->
             IF p \in DOMAIN Minus(data, found) THEN Minus(data, found)[p] ELSE Nothing[p]]
    BY DEF Both
  <2> QED
    BY <1>2, <2>1, <2>2, <2>4, NothingFacts
<1>4. Abs!EndRound
  BY <1>1, <1>2, <1>3 DEF Abs!EndRound
<1>5. TreeP!IndInv'
  <2>1. UNCHANGED TreeP!vars
    BY <1>1 DEF TreeP!vars
  <2> QED
    BY <2>1, TreeAssumption, TreeP!IndInvNext DEF Inv
<1>6. Loops'
  BY <1>1, NothingFacts DEF Loops
<1> QED
  BY <1>4, <1>5, <1>6

LEMMA EraseBeamStep ==
  ASSUME Inv, EraseBeam
  PROVE  UNCHANGED Abs!vars /\ TreeP!IndInv' /\ Loops'
<1>1. /\ loop = "erase" /\ loop' = "erase" /\ pending = Nothing /\ pending' = Nothing
      /\ UNCHANGED searchVars
  BY DEF EraseBeam, Inv, Loops
<1>2. PICK leaf \in found : Tree!Erase(leaf)
  BY DEF EraseBeam, Handles
<1>3. TreeP!IndInv'
  <2>1. TreeP!Erase(leaf)
    BY <1>2, SameErase
  <2> QED
    BY <2>1, TreeAssumption, TreeP!EraseKeeps DEF Inv
<1>4. /\ data' = [q \in DOMAIN data \ {leaf} |-> data[q]] /\ found' = found \ {leaf}
      /\ leaf \in DOMAIN data
  BY <1>2 DEF Tree!Erase
<1>5. Hypotheses' = Hypotheses
  <2>1. /\ DOMAIN Minus(data, found) = DOMAIN data \ found
        /\ \A p \in DOMAIN data \ found : Minus(data, found)[p] = data[p]
        /\ DOMAIN Minus(data', found') = DOMAIN data' \ found'
        /\ \A p \in DOMAIN data' \ found' : Minus(data', found')[p] = data'[p]
    BY MinusFacts
  <2>2. DOMAIN data' \ found' = DOMAIN data \ found /\ \A p \in DOMAIN data \ found : data'[p] = data[p]
    BY <1>4
  <2>3. Both(Minus(data', found'), Nothing) = Both(Minus(data, found), Nothing)
    BY <2>1, <2>2, BothSame
  <2> QED
    BY <1>1, <2>3 DEF Hypotheses
<1>6. UNCHANGED Abs!vars
  BY <1>1, <1>5, Unseen
<1>7. Loops'
  BY <1>1, NothingFacts DEF Loops
<1> QED
  BY <1>3, <1>6, <1>7

LEMMA ReturnStep ==
  ASSUME Inv, Return
  PROVE  Abs!Return /\ TreeP!IndInv' /\ Loops'
<1>1. /\ status = "search" /\ loop = "erase" /\ loop' = "erase" /\ found = {} /\ num_leafs[<<>>] = 0
      /\ status' = "done" /\ result' \in Abs!Trimmed
      /\ pending = Nothing /\ pending' = Nothing /\ todo' = todo
      /\ UNCHANGED <<model, start, maxDl, topArcs, cut>>
      /\ UNCHANGED <<nodes, data, num_leafs, inserted, found>>
  BY SamePaths DEF Return, treeVars, Inv, Loops
<1>2. DOMAIN data = {}
  BY <1>1, TreeAssumption, SamePaths, TreeP!NoneLeft DEF Inv
<1>3. DOMAIN Hypotheses = {} /\ Hypotheses' = Hypotheses
  <2>1. DOMAIN Minus(data, found) = DOMAIN data \ found
    BY MinusFacts
  <2>2. DOMAIN Both(Minus(data, found), pending) = DOMAIN Minus(data, found) \cup DOMAIN pending
    BY BothFacts
  <2>3. Hypotheses = Both(Minus(data, found), pending)
    BY <1>1 DEF Hypotheses
  <2>4. Hypotheses' = Hypotheses
    BY <1>1 DEF Hypotheses
  <2> QED
    BY <1>1, <1>2, <2>1, <2>2, <2>3, <2>4, NothingFacts
<1>4. Abs!Return
  BY <1>1, <1>3 DEF Abs!Return
<1>5. TreeP!IndInv'
  <2>1. UNCHANGED TreeP!vars
    BY <1>1 DEF TreeP!vars
  <2> QED
    BY <2>1, TreeAssumption, TreeP!IndInvNext DEF Inv
<1>6. Loops'
  BY <1>1, NothingFacts DEF Loops
<1> QED
  BY <1>4, <1>5, <1>6

LEMMA StutterStep ==
  ASSUME Inv, UNCHANGED vars
  PROVE  UNCHANGED Abs!vars /\ TreeP!IndInv' /\ Loops'
<1>1. UNCHANGED searchVars /\ UNCHANGED <<nodes, data, num_leafs, inserted, found, loop, todo, pending>>
  BY DEF vars, treeVars
<1>2. Hypotheses' = Hypotheses
  BY <1>1 DEF Hypotheses
<1>3. UNCHANGED Abs!vars
  BY <1>1, <1>2, Unseen
<1>4. UNCHANGED TreeP!vars
  BY <1>1 DEF TreeP!vars
<1>5. TreeP!IndInv'
  BY <1>4, TreeAssumption, TreeP!IndInvNext DEF Inv
<1>6. start' = start
  BY <1>1 DEF searchVars
<1>7. Abs!Root(start)' = Abs!Root(start)
  BY <1>6 DEF Abs!Root
<1> QED
  BY <1>1, <1>3, <1>5, <1>7 DEF Inv, Loops

LEMMA Step ==
  ASSUME Inv, [Next]_vars
  PROVE  [Abs!Next]_(Abs!vars) /\ Inv'
<1>1. Abs!Next \/ UNCHANGED Abs!vars
  <2>1. CASE InsertRoot \/ FindBeams \/ EraseBeam \/ UNCHANGED vars
    BY <2>1, InsertRootStep, FindBeamsStep, EraseBeamStep, StutterStep
  <2>2. CASE LeaveBeams \/ Return
    BY <2>2, LeaveBeamsStep, ReturnStep DEF Abs!Next
  <2>3. ASSUME NEW p \in todo, PastLimit(p) \/ Expand(p) \/ ArcsMissing(p)
        PROVE  Abs!Next
    <3>1. Abs!PastLimit(p) \/ Abs!Expand(p) \/ Abs!ArcsMissing(p)
      BY <2>3, PastLimitStep, ExpandStep, ArcsMissingStep
    <3>2. loop = "beams"
      BY <2>3 DEF PastLimit, Expand, ArcsMissing, Take
    <3>3. p \in IF loop = "beams" THEN todo ELSE DOMAIN Hypotheses
      BY <3>2
    <3> QED
      BY <3>1, <3>3 DEF Abs!Next
  <2>4. ASSUME NEW q \in DOMAIN pending, InsertChild(q) PROVE UNCHANGED Abs!vars
    BY <2>4, InsertChildStep
  <2> QED
    BY <2>1, <2>2, <2>3, <2>4 DEF Next
<1>3. TreeP!IndInv' /\ Loops'
  BY InsertRootStep, FindBeamsStep, LeaveBeamsStep, EraseBeamStep, ReturnStep, PastLimitStep, ExpandStep,
     ArcsMissingStep, InsertChildStep, StutterStep DEF Next
<1>2. AbsP!IndInv'
  BY <1>1, SameNext, SameConfig, AbsP!StepKeeps DEF Inv
<1> QED
  BY <1>1, <1>2, <1>3 DEF Inv

LEMMA Beginning ==
  ASSUME Init
  PROVE  Abs!Init /\ Inv
<1>1. /\ Tree!Init /\ model \in Models /\ start \in States
      /\ status = "search" /\ result = <<>> /\ maxDl = 0 /\ cut = {}
      /\ topArcs = [s \in States |-> Abs!NoArcs]
      /\ loop = "start" /\ todo = {} /\ pending = Abs!Root(start)
  BY DEF Init
<1>2. DOMAIN data = {} /\ found = {}
  BY <1>1 DEF Tree!Init
<1>3. Hypotheses = Abs!Root(start) /\ DOMAIN Abs!Root(start) = {<<>>}
  <2>1. DOMAIN Minus(data, found) = {}
    <3>1. DOMAIN Minus(data, found) = DOMAIN data \ found
      BY MinusFacts
    <3> QED
      BY <1>2, <3>1
  <2>2. Hypotheses = Both(Minus(data, found), pending)
    BY <1>1 DEF Hypotheses
  <2>3. Both(Minus(data, found), pending) =
          [p \in DOMAIN Minus(data, found) \cup DOMAIN pending |->
             IF p \in DOMAIN Minus(data, found) THEN Minus(data, found)[p] ELSE pending[p]]
    BY DEF Both
  <2>4. pending = [p \in {<<>>} |-> [state |-> start, cost |-> 0]]
    BY <1>1 DEF Abs!Root
  <2>5. Hypotheses = pending
    BY <2>1, <2>2, <2>3, <2>4
  <2> QED
    BY <1>1, <2>4, <2>5
<1>4. Abs!Init
  BY <1>1, <1>3 DEF Abs!Init
<1>5. AbsP!IndInv
  <2>1. AbsP!Init => AbsP!Begun
    BY DEF AbsP!Init, AbsP!Begun, AbsP!ArcTable
  <2> QED
    BY <1>4, <2>1, SameBegin, SameConfig, AbsP!BeginsOK
<1>6. TreeP!IndInv
  <2>1. TreeP!Init
    BY <1>1 DEF Tree!Init, TreeP!Init, Tree!Root, TreeP!Root
  <2> QED
    BY <2>1, TreeAssumption, TreeP!IndInvInit
<1>7. Loops
  <2>1. <<>> \in Seq(Tokens) /\ pending[<<>>] \in Hyp /\ DOMAIN pending = {<<>>}
    BY <1>1 DEF Abs!Root, Hyp
  <2> QED
    BY <1>1, <1>2, <2>1 DEF Loops
<1> QED
  BY <1>4, <1>5, <1>6, <1>7 DEF Inv

LEMMA Invariant == Spec => []Inv
  BY Beginning, Step, PTL DEF Spec
-----------------------------------------------------------------------------
(* The three loops over the counted tree, its handles and the leafs that    *)
(* are inserted below them implement the search on a set of hypotheses.     *)
THEOREM Refinement == Spec => RefinesBeamSearch
<1>1. Init => Abs!Init
  BY Beginning
<1>2. Inv /\ [Next]_vars => [Abs!Next]_(Abs!vars)
  BY Step
<1> QED
  BY <1>1, <1>2, Invariant, PTL DEF Spec, RefinesBeamSearch, Abs!Spec

(* A search on the tree that is done has found the hypotheses that cost     *)
(* least, but for what beam_size discarded.                                 *)
THEOREM LosesNothing == Spec => []OnlyBeamSizeLoses
<1>1. Inv => OnlyBeamSizeLoses
  BY SameConfig, SameLoses, AbsP!InvLoses DEF Inv, OnlyBeamSizeLoses
<1> QED
  BY <1>1, Invariant, PTL

(* Its results have the costs that the model gives their paths.             *)
THEOREM Prices == Spec => []ResultsPriced
<1>1. Inv => ResultsPriced
  BY SameConfig, SamePrices, AbsP!InvPrices DEF Inv, ResultsPriced
<1> QED
  BY <1>1, Invariant, PTL

(* It has topk results, or one for every length that the limit allows.      *)
THEOREM FindsEnough == Spec => []EnoughResults
<1>1. Inv => EnoughResults
  BY SameConfig, SameEnough, AbsP!InvEnough DEF Inv, EnoughResults
<1> QED
  BY <1>1, Invariant, PTL

(* Every leaf and handle of the tree is counted and valid while a search    *)
(* uses it: Erase never meets a handle without a value, and no count wraps. *)
THEOREM TreeSound == Spec => [](TreeP!LeafsCounted /\ TreeP!HandlesValid)
<1>1. Inv => TreeP!LeafsCounted /\ TreeP!HandlesValid
  BY DEF Inv, TreeP!IndInv
<1> QED
  BY <1>1, Invariant, PTL
=============================================================================
