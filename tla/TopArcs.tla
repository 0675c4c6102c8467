------------------------------ MODULE TopArcs ------------------------------
(***************************************************************************)
(* QueryBlazer::GetTopArcs (src/queryblazer.h) at an empty cache entry:    *)
(* collect the arcs of a model state, then of the states its phi arcs lead *)
(* to, until the phi arc itself is not among the branch_factor cheapest    *)
(* arcs: nothing behind it can be cheaper.                                 *)
(*                                                                         *)
(* The vector of arcs is a function from labels to arcs, Phi for the phi   *)
(* arc; of its order only which branch_factor arcs come first matters, and *)
(* partial_sort leaves that open between equal costs.                      *)
(***************************************************************************)
EXTENDS Ngram, Ranking

CONSTANTS ModelStates, Tokens, Phi,
          Models,          \* models to look at
          BranchFactor     \* config.branch_factor

ASSUME TopArcsAssumption ==
  /\ Phi \notin Tokens
  /\ IsFiniteSet(Tokens)
  /\ BranchFactor \in Nat \ {0}
  /\ \A m \in Models : IsModel(ModelStates, Tokens, m)

VARIABLES
  model, state,    \* *model and the argument
  loop,            \* "run", "done", or "failed" for a failed assertion
  queue,           \* std::queue<Backoff>: states reached by phi, with the cost
  arcs,            \* the vector
  kept             \* topArcs.at(state) in the end

arcsVars == <<model, state, loop, queue, arcs, kept>>

Labels == Tokens \cup {Phi}

ArcsInit ==
  /\ model \in Models
  /\ state \in ModelStates
  /\ loop = "run"
  /\ queue = <<[state |-> state, cost |-> 0]>>
  /\ arcs = [t \in {} |-> {}]
  /\ kept = [t \in {} |-> {}]

\* Mutant: a token's arc of a shorter context replaces the one already found.
SeenElsewhere(own) == DOMAIN arcs \ DOMAIN own
\* ilabels
Seen(own) == DOMAIN arcs

\* The vector after the arcs of the first queued state were visited: tokens
\* not seen before and the phi arc, with the cost of coming here.
Collected ==
  LET here == Head(queue)
      own == model.arcs[here.state]
      back == model.backoff[here.state]
      Plus(a) == [w |-> a.w + here.cost, to |-> a.to]
  IN [t \in DOMAIN arcs \cup DOMAIN own \cup {Phi : p \in back} |->
        IF t \in Seen(own) THEN arcs[t]
        ELSE IF t = Phi THEN Plus(CHOOSE p \in back : TRUE)
        ELSE Plus(own[t])]

\* Mutant: the phi arc's target is never queued.
QueuedNothing == Tail(queue)

\* Mutant: the same state is queued again instead of the phi arc's target.
QueuedAgain ==
  IF model.backoff[Head(queue).state] = {} THEN Tail(queue) ELSE queue

\* The queue after it.
Queued ==
  LET here == Head(queue) IN
  IF model.backoff[here.state] = {}
    THEN Tail(queue)
    ELSE LET back == CHOOSE p \in model.backoff[here.state] : TRUE IN
         Append(Tail(queue), [state |-> back.to, cost |-> here.cost + back.w])

Cost(all) == [t \in DOMAIN all |-> all[t].w]
Only(all, T) == [t \in T |-> all[t]]
\* Mutant: off by one.
MoreByTwo(all) == Cardinality(DOMAIN all) > BranchFactor + 1
More(all) == Cardinality(DOMAIN all) > BranchFactor

\* std::distance(arcs.begin(), it) >= config.branch_factor
PhiBehind(top) == Phi \notin top

\* More than branch_factor arcs and phi not among the cheapest: keep these.
Enough ==
  /\ loop = "run" /\ queue # <<>>
  /\ More(Collected)
  /\ \E top \in Cheapest(BranchFactor, DOMAIN Collected, Cost(Collected)) :
       /\ PhiBehind(top)
       /\ kept' = Only(Collected, top)
  /\ loop' = "done"
  /\ queue' = Queued
  /\ arcs' = Collected
  /\ UNCHANGED <<model, state>>

\* The phi arc is cheap enough, or there are too few arcs: drop it and go on
\* with the state it leads to.
Continue ==
  /\ loop = "run" /\ queue # <<>>
  /\ Phi \in DOMAIN Collected
  /\ More(Collected) =>
       \E top \in Cheapest(BranchFactor, DOMAIN Collected, Cost(Collected)) : Phi \in top
  /\ queue' = Queued
  /\ arcs' = Only(Collected, DOMAIN Collected \ {Phi})
  /\ UNCHANGED <<model, state, loop, kept>>

\* QBZ_ASSERT(it != arcs.end(), "phi transition not found")
NoPhiLeft ==
  /\ loop = "run" /\ queue # <<>>
  /\ ~More(Collected)
  /\ Phi \notin DOMAIN Collected
  /\ loop' = "failed"
  /\ queue' = Queued
  /\ arcs' = Collected
  /\ UNCHANGED <<model, state, kept>>

ArcsNext == Enough \/ Continue \/ NoPhiLeft

ArcsSpec == ArcsInit /\ [][ArcsNext]_arcsVars

\* One thread runs the loop.
ArcsFairSpec == ArcsSpec /\ WF_arcsVars(ArcsNext)
-----------------------------------------------------------------------------
ArcsTypeOK ==
  /\ state \in ModelStates
  /\ loop \in {"run", "done", "failed"}
  /\ queue \in Seq([state : ModelStates, cost : Nat])
  /\ DOMAIN arcs \subseteq Labels
  /\ DOMAIN kept \subseteq Tokens    \* "Non-emitting transition within top arcs"
  /\ \A t \in DOMAIN arcs : arcs[t] \in [w : Nat, to : ModelStates]
  /\ \A t \in DOMAIN kept : kept[t] \in [w : Nat, to : ModelStates]

(* The arcs kept are branch_factor cheapest of all tokens the model can     *)
(* emit at the state by any number of backoffs, each with the cost and the  *)
(* state PhiMatcher would give: stopping early loses nothing.               *)
KeepsCheapest ==
  loop = "done" =>
    LET all == model.find[state] IN
    /\ DOMAIN kept \in Cheapest(BranchFactor, DOMAIN all, Cost(all))
    /\ Cardinality(DOMAIN kept) = BranchFactor
    /\ \A t \in DOMAIN kept : kept[t] = all[t]

(* The loop ends by one of its inner exits: QBZ_ASSERT(false, "This must    *)
(* not be reached") holds.                                                  *)
EndNotReached == loop = "run" => queue # <<>>

(* "phi transition not found" is raised only where the model has no more    *)
(* than branch_factor tokens to offer.                                      *)
FailsOnlyIfFew ==
  loop = "failed" => Cardinality(DOMAIN model.find[state]) <= BranchFactor

(* The loop ends. *)
ArcsTerminate == <>(loop # "run")

=============================================================================
