--------------------------- MODULE PrecomputeAbs ---------------------------
(***************************************************************************)
(* What QueryBlazer::PrecomputeTopResults promises its caller, without     *)
(* threads, queues or futures: every model state gets its top arcs first,  *)
(* no beam search result is produced before all top arcs are there, the    *)
(* top arcs are dropped only when every result is there, and the call      *)
(* either returns normally with everything computed or throws.             *)
(***************************************************************************)
CONSTANT States        \* states of the n-gram model

VARIABLES topArcs,     \* per state: "empty", "full", or "gone" after clear()
          topResults,  \* per state: "empty" or "full"
          outcome      \* "running", "done" (returned) or "thrown"

vars == <<topArcs, topResults, outcome>>

Init ==
  /\ topArcs = [s \in States |-> "empty"]
  /\ topResults = [s \in States |-> "empty"]
  /\ outcome = "running"

FillArcs(s) ==
  /\ outcome = "running"
  /\ topArcs[s] = "empty"
  /\ topArcs' = [topArcs EXCEPT ![s] = "full"]
  /\ UNCHANGED <<topResults, outcome>>

FillResult(s) ==
  /\ outcome = "running"
  /\ \A t \in States : topArcs[t] = "full"
  /\ topResults[s] = "empty"
  /\ topResults' = [topResults EXCEPT ![s] = "full"]
  /\ UNCHANGED <<topArcs, outcome>>

DropArcs ==
  /\ outcome = "running"
  /\ \A t \in States : topArcs[t] = "full" /\ topResults[t] = "full"
  /\ topArcs' = [s \in States |-> "gone"]
  /\ UNCHANGED <<topResults, outcome>>

Return ==
  /\ outcome = "running"
  /\ \A t \in States : topArcs[t] = "gone" /\ topResults[t] = "full"
  /\ outcome' = "done"
  /\ UNCHANGED <<topArcs, topResults>>

Throw ==
  /\ outcome = "running"
  /\ \E t \in States : topArcs[t] # "gone"
  /\ outcome' = "thrown"
  /\ UNCHANGED <<topArcs, topResults>>

Next ==
  \/ \E s \in States : FillArcs(s) \/ FillResult(s)
  \/ DropArcs
  \/ Return
  \/ Throw

Spec == Init /\ [][Next]_vars
=============================================================================
