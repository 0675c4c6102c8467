----------------------------- MODULE TreeSearch -----------------------------
(***************************************************************************)
(* QueryBlazer::BeamSearch (src/queryblazer.h) on the PrefixTree of        *)
(* src/prefix_tree.h: its three loops, over the handles that FindAll gave, *)
(* over the arcs by which leafs are inserted below one of them, and over   *)
(* the handles again to erase them.  What a beam is worth and which        *)
(* children it has is said by BeamSearch, of which this is shown to be an  *)
(* implementation.                                                         *)
(***************************************************************************)
EXTENDS Naturals, Sequences, SequencesExt

CONSTANTS States, Tokens, Unk, Models, BranchFactor, BeamSize, TopKSize, LengthLimit

VARIABLES
  model, start, status, result, maxDl, topArcs, cut,  \* as in BeamSearch
  nodes, data, num_leafs, inserted, found,            \* of prefixTree; found: `prefixes`
  loop,       \* "start" before the root is inserted, "beams", or "erase"
  todo,       \* the handles not yet taken
  pending     \* the arcs' leafs that are not yet inserted: path |-> beam

treeVars == <<nodes, data, num_leafs, inserted, found>>
searchVars == <<model, start, status, result, maxDl, topArcs, cut>>
vars == <<searchVars, treeVars, loop, todo, pending>>

Nothing == [p \in {} |-> {}]
Minus(f, S) == [p \in DOMAIN f \ S |-> f[p]]
Both(f, g) == [p \in DOMAIN f \cup DOMAIN g |-> IF p \in DOMAIN f THEN f[p] ELSE g[p]]

Tree == INSTANCE PrefixTree
          WITH Keys <- Tokens, Values <- [state : States, cost : Nat],
               MaxDepth <- LengthLimit, MaxLeafs <- 2 * BeamSize * BranchFactor

\* In BeamSearch all leafs of an arc list are there at once, and all handles
\* are erased when the beams were taken.
Hypotheses == IF loop = "beams" THEN Both(data, pending) ELSE Both(Minus(data, found), pending)

Abs == INSTANCE BeamSearch
         WITH tree <- Hypotheses,
              batch <- IF loop = "beams" THEN found ELSE DOMAIN Hypotheses,
              todo <- IF loop = "beams" THEN todo ELSE DOMAIN Hypotheses

ASSUME TreeSearchAssumption == Abs!ConfigOK

Init ==
  /\ Tree!Init
  /\ model \in Models /\ start \in States
  /\ status = "search" /\ result = <<>> /\ maxDl = 0 /\ cut = {}
  /\ topArcs = [s \in States |-> Abs!NoArcs]
  /\ loop = "start" /\ todo = {} /\ pending = Abs!Root(start)

\* prefixTree.Insert({}, Beam{state, 0.0f});
InsertRoot ==
  /\ loop = "start"
  /\ Tree!Insert(<<>>, pending[<<>>])
  /\ loop' = "erase" /\ pending' = Nothing
  /\ UNCHANGED <<searchVars, todo>>

\* while (!prefixTree.Empty()): the leafs are found ...
FindBeams ==
  /\ loop = "erase" /\ found = {} /\ num_leafs[Tree!Root] # 0
  /\ Tree!FindAll(<<>>)
  /\ loop' = "beams" /\ todo' = found'
  /\ UNCHANGED <<searchVars, pending>>

\* ... one that is within reach of the results is taken ...
Take(p) ==
  /\ status = "search" /\ loop = "beams" /\ pending = Nothing
  /\ Abs!BeamLeft /\ p \in Abs!Front /\ Abs!WillInsert(data[p].cost)
  /\ todo' = todo \ {p}
  /\ maxDl' = IF Len(p) > maxDl THEN Len(p) ELSE maxDl
  /\ UNCHANGED <<model, start, cut, treeVars, loop>>

PastLimit(p) ==
  /\ Take(p) /\ ~Abs!WithinLimit(p)
  /\ UNCHANGED <<status, result, topArcs, pending>>

Expand(p) ==
  /\ Take(p) /\ Abs!WithinLimit(p)
  /\ result' = Abs!Ended(p)
  /\ \E arcs \in Abs!Selected(data[p].state) :
       /\ topArcs' = [topArcs EXCEPT ![data[p].state] = arcs]
       /\ pending' = Abs!Children(p, arcs, Abs!Costs(result'))
  /\ UNCHANGED status

ArcsMissing(p) ==
  /\ Take(p) /\ Abs!WithinLimit(p)
  /\ Abs!MayMiss(data[p].state)
  /\ result' = Abs!Ended(p) /\ status' = "failed"
  /\ UNCHANGED <<topArcs, pending>>

\* ... and a leaf is inserted below it for each of its arcs ...
InsertChild(q) ==
  /\ status = "search" /\ loop = "beams"
  /\ Tree!InsertBelow(Front(q), <<Last(q)>>, pending[q])
  /\ pending' = Minus(pending, {q})
  /\ UNCHANGED <<searchVars, loop, todo>>

\* ... until there is none to take.
LeaveBeams ==
  /\ status = "search" /\ loop = "beams" /\ pending = Nothing /\ Abs!RoundOver
  /\ loop' = "erase"
  /\ cut' = cut \cup Abs!Cut
  /\ UNCHANGED <<model, start, status, result, maxDl, topArcs, treeVars, todo, pending>>

\* Mutant: only the beams that were taken are erased.
HandlesTaken == found \ todo
\* for (auto & prefix : prefixes) prefixTree.Erase(prefix);
Handles == found

EraseBeam ==
  /\ loop = "erase"
  /\ \E leaf \in Handles : Tree!Erase(leaf)
  /\ UNCHANGED <<searchVars, loop, todo, pending>>

Return ==
  /\ status = "search" /\ loop = "erase" /\ found = {} /\ num_leafs[Tree!Root] = 0
  /\ status' = "done"
  /\ result' \in Abs!Trimmed
  /\ UNCHANGED <<model, start, maxDl, topArcs, cut, treeVars, loop, todo, pending>>

Next ==
  \/ InsertRoot \/ FindBeams \/ LeaveBeams \/ EraseBeam \/ Return
  \/ \E p \in todo : PastLimit(p) \/ Expand(p) \/ ArcsMissing(p)
  \/ \E q \in DOMAIN pending : InsertChild(q)

Spec == Init /\ [][Next]_vars

\* One thread runs the search.
FairSpec == Spec /\ WF_vars(Next)
-----------------------------------------------------------------------------
(* The search on the counted tree, which is extended below leafs that are   *)
(* about to be erased, is the search on a set of hypotheses: in particular  *)
(* no beam is overlooked, taken twice or lost.                              *)
RefinesBeamSearch == Abs!Spec

OnlyBeamSizeLoses == Abs!OnlyBeamSizeLoses
ResultsPriced == Abs!ResultsPriced
EnoughResults == Abs!EnoughResults

(* The search ends: every leaf is erased in the round it was found in.      *)
Terminates == <>(status # "search")
=============================================================================
