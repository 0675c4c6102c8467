----------------------------- MODULE BeamSearch -----------------------------
(***************************************************************************)
(* QueryBlazer::BeamSearch (src/queryblazer.h) from one model state, as    *)
(* GetTopResult calls it.  Hypotheses live in a PrefixTree, here a         *)
(* function from paths of tokens to beams (PrefixTree.tla shows that the   *)
(* tree is such a map).  A round takes the beam_size cheapest of them,     *)
(* completes each with the cost of ending there, adds its children, and    *)
(* erases all it found.  The costs TopK has accepted are those in `result`,*)
(* so its answers are WithinTopK of them (TopK.tla); the arcs come from    *)
(* GetTopArcs, of which TopArcs.tla shows what Selected says.              *)
(*                                                                         *)
(* `cut` is a history variable: what beam_size has discarded.              *)
(***************************************************************************)
EXTENDS Ngram, Ranking

CONSTANTS States, Tokens, Unk,
          Models,                                       \* models to look at
          BranchFactor, BeamSize, TopKSize, LengthLimit \* the Config

\* What the constructor of Config asserts, of a model that is well formed.
ConfigOK ==
  /\ Unk \in Tokens
  /\ IsFiniteSet(Tokens)
  /\ {BranchFactor, BeamSize, TopKSize} \subseteq Nat \ {0}
  /\ TopKSize <= BeamSize     \* QBZ_ASSERT(beam_size >= topk, ...)
  /\ LengthLimit \in Nat
  /\ \A m \in Models : IsModel(States, Tokens, m)

VARIABLES
  model, start,     \* *model and the state searched from
  status,           \* "search", "done", or "failed" for a failed assertion
  tree,             \* prefixTree: path |-> beam
  batch, todo,      \* `prefixes` of this round, and those not yet taken
  result, maxDl,    \* result, max_dl
  topArcs,          \* topArcs: state |-> its arcs, none until asked for
  cut

searchVars == <<start, status, tree, batch, todo, result, maxDl, cut>>
vars == <<model, topArcs, searchVars>>

NoArcs == [t \in {} |-> {}]

\* prefixTree.Insert({}, Beam{state, 0.0f})
Root(s) == [p \in {<<>>} |-> [state |-> s, cost |-> 0]]

Init ==
  /\ model \in Models
  /\ topArcs = [s \in States |-> NoArcs]
  /\ start \in States
  /\ status = "search"
  /\ tree = Root(start)
  /\ batch = {<<>>} /\ todo = {<<>>}
  /\ result = <<>> /\ maxDl = 0
  /\ cut = {}

\* The same for a search that is called while the program runs, and for the
\* end of its locals' scope.
Set(s, st) ==
  /\ start' = s
  /\ status' = st
  /\ tree' = Root(s)
  /\ batch' = {<<>>} /\ todo' = {<<>>}
  /\ result' = <<>> /\ maxDl' = 0
  /\ cut' = {}

Costs(seq) == [i \in DOMAIN seq |-> seq[i].cost]

\* Mutant: TopK takes one less than topk.
AcceptedLess(costs, c) == WithinTopK(TopKSize - 1, costs, c)
\* topK.WillInsert(c) when it has accepted `costs`
Accepted(costs, c) == WithinTopK(TopKSize, costs, c)

WillInsert(c) == Accepted(Costs(result), c)

\* partial_sort: the next beam is one of the cheapest left, until beam_size
\* were taken.
Front == {p \in todo : \A q \in todo : tree[p].cost <= tree[q].cost}
Taken == Cardinality(batch \ todo)
\* Mutant: off by one.
BeamLeftLess == todo # {} /\ Taken + 1 < BeamSize
BeamLeft == todo # {} /\ Taken < BeamSize

\* What GetTopArcs may return at s: branch_factor cheapest arcs.
Selected(s) ==
  LET all == model.find[s] IN
  IF topArcs[s] # NoArcs THEN {topArcs[s]}
  ELSE IF Cardinality(DOMAIN all) < BranchFactor THEN {}
  ELSE {[t \in T |-> all[t]] : T \in Cheapest(BranchFactor, DOMAIN all, [t \in DOMAIN all |-> all[t].w])}

\* result after the hypothesis p was ended: MakeExitTransitions
Ended(p) ==
  LET c == tree[p].cost + (CHOOSE c \in model.exit[tree[p].state] : TRUE) IN
  IF WillInsert(c) THEN Append(result, [path |-> p, cost |-> c]) ELSE result

\* Mutant: a child's cost starts anew.
WeightOfArc(p, arc) == arc.w
Weight(p, arc) == tree[p].cost + arc.w

\* The beams inserted below p along `arcs`.
Children(p, arcs, costs) ==
  LET fit == {t \in DOMAIN arcs : Accepted(costs, Weight(p, arcs[t]))} IN
  [q \in {Append(p, t) : t \in fit} |->
     [state |-> arcs[q[Len(q)]].to, cost |-> Weight(p, arcs[q[Len(q)]])]]

WithinLimit(p) == Len(p) < LengthLimit

\* A beam within reach of the results is taken.
Take(p) ==
  /\ status = "search" /\ BeamLeft /\ p \in Front
  /\ WillInsert(tree[p].cost)
  /\ todo' = todo \ {p}
  /\ maxDl' = IF Len(p) > maxDl THEN Len(p) ELSE maxDl
  /\ UNCHANGED <<model, start, batch, cut>>

\* prefix.Depth() >= config.length_limit: continue
PastLimit(p) ==
  /\ Take(p)
  /\ ~WithinLimit(p)
  /\ UNCHANGED <<status, tree, result, topArcs>>

Expand(p) ==
  /\ Take(p)
  /\ WithinLimit(p)
  /\ result' = Ended(p)
  /\ \E arcs \in Selected(tree[p].state) :
       /\ topArcs' = [topArcs EXCEPT ![tree[p].state] = arcs]
       /\ LET new == Children(p, arcs, Costs(result')) IN    \* Insert replaces nothing
          tree' = [q \in DOMAIN tree \cup DOMAIN new |-> IF q \in DOMAIN tree THEN tree[q] ELSE new[q]]
  /\ UNCHANGED status

\* GetTopArcs may throw where the model has no more than branch_factor tokens.
MayMiss(s) == topArcs[s] = NoArcs /\ Cardinality(DOMAIN model.find[s]) <= BranchFactor

ArcsMissing(p) ==
  /\ Take(p)
  /\ WithinLimit(p)
  /\ result' = Ended(p)
  /\ MayMiss(tree[p].state)
  /\ status' = "failed"
  /\ UNCHANGED <<tree, topArcs>>

\* beam_size beams were taken, or the next one is not within reach: break
RoundOver == ~BeamLeft \/ \A p \in Front : ~WillInsert(tree[p].cost)

Cut == IF Taken = BeamSize THEN todo ELSE {}

\* remove all processed beams, and find those of the next round
EndRound ==
  /\ status = "search" /\ batch # {} /\ RoundOver
  /\ tree' = [p \in DOMAIN tree \ batch |-> tree[p]]
  /\ batch' = DOMAIN tree' /\ todo' = DOMAIN tree'
  /\ cut' = cut \cup Cut
  /\ UNCHANGED <<model, start, status, result, maxDl, topArcs>>

\* More than topk results are sorted and trimmed, others stay as found.
Trimmed ==
  IF Len(result) > TopKSize
    THEN {[i \in DOMAIN o |-> result[o[i]]] : o \in SortedCheapest(TopKSize, Costs(result))}
    ELSE {result}

\* while (!prefixTree.Empty()) ends
Return ==
  /\ status = "search" /\ batch = {}
  /\ status' = "done"
  /\ result' \in Trimmed
  /\ UNCHANGED <<model, start, tree, batch, todo, maxDl, topArcs, cut>>

Next ==
  \/ \E p \in todo : PastLimit(p) \/ Expand(p) \/ ArcsMissing(p)
  \/ EndRound
  \/ Return

Spec == Init /\ [][Next]_vars

\* One thread runs the search.
FairSpec == Spec /\ WF_vars(Next)
-----------------------------------------------------------------------------
\* The cost of `path` ended where it leads, by the model alone.
FullCost(path) ==
  LET end == Walk(model, start, path, Unk)[Len(path)] IN
  end.cost + (CHOOSE c \in model.exit[end.state] : TRUE)

\* The paths below the length limit along the arcs kept at each state, all of
\* the model's where none were asked for.
Hypotheses ==
  LET Arcs(s) == DOMAIN IF topArcs[s] # NoArcs THEN topArcs[s] ELSE model.find[s]
      Longer(p) == {Append(p, t) : t \in Arcs(Walk(model, start, p, Unk)[Len(p)].state)}
      level[n \in 0 .. LengthLimit] ==
        IF n = 0 THEN {<<>>} ELSE UNION {Longer(p) : p \in level[n - 1]}
  IN UNION {level[n] : n \in 0 .. LengthLimit - 1}

Below(path, S) == \E n \in 0 .. Len(path) : SubSeq(path, 1, n) \in S

(* Stopping at the first beam that TopK would refuse, and not adding such   *)
(* children, loses nothing: a hypothesis that beam_size did not discard is  *)
(* in the result, or topk others that cost no more are.                     *)
OnlyBeamSizeLoses ==
  status = "done" =>
    \A h \in Hypotheses :
      \/ Below(h, cut)
      \/ \E i \in DOMAIN result : result[i].path = h
      \/ Len(result) = TopKSize /\ \A i \in DOMAIN result : result[i].cost <= FullCost(h)

(* A result is a path with the cost the model gives it, found only once.    *)
ResultsPriced ==
  \A i \in DOMAIN result :
    /\ result[i].cost = FullCost(result[i].path)
    /\ Len(result[i].path) < LengthLimit
    /\ \A j \in DOMAIN result : result[i].path = result[j].path => i = j

(* What Complete's assertion "not enough completions for topK" counts on:   *)
(* every level adds a result until there are topk.                          *)
EnoughResults ==
  status = "done" => MinOf(TopKSize, LengthLimit) <= Len(result) /\ Len(result) <= TopKSize

(* The search ends. *)
Terminates == <>(status # "search")
=============================================================================
