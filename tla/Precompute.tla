---------------------------- MODULE Precompute ----------------------------
(***************************************************************************)
(* QueryBlazer::PrecomputeTopResults with config.precompute set            *)
(* (src/queryblazer.h): the constructing thread enqueues one GetTopArcs    *)
(* task per model state on a ThreadPool, waits for all their futures,      *)
(* enqueues one GetTopResult task per state, waits again, clears topArcs   *)
(* and leaves the scope of the pool.  Nothing but this two-phase order     *)
(* protects the vectors topArcs and topResults, which the tasks share.     *)
(*                                                                         *)
(* A read or write of a vector element lasts from one step to the next, so *)
(* that two accesses can overlap.  What the tasks compute is abstracted:   *)
(* an element is "empty" or "full", a beam search uses the top arcs of any *)
(* states in any order, and a task may throw where the code asserts.       *)
(* ThreadPool is not under src/ (an empty submodule): its queue, workers   *)
(* and destructor are modelled from how the code uses them.                *)
(***************************************************************************)
EXTENDS Naturals, Sequences

CONSTANTS NumStates,   \* model->NumStates()
          Workers      \* the pool's threads: num_proc of them

\* hardware_concurrency() may return 0, and then nothing ever runs a task:
\* the model is of a pool that has a thread.
ASSUME PrecomputeAssumption ==
  /\ NumStates \in Nat \ {0}
  /\ Workers # {}

States == 0 .. NumStates - 1
Kinds == {"arcs", "result"}          \* fn_top_arcs, fn_top_results
Tasks == [kind : Kinds, state : States]

VARIABLES
  pc,          \* constructing thread: where it is in PrecomputeTopResults
  phase,       \* kind of the tasks it is enqueueing or waiting for
  idx,         \* its loop variable `state`
  thrown,      \* an exception is leaving the function
  tasks,       \* the pool's FIFO queue
  stop,        \* the pool's stop flag
  results,     \* std::vector<std::future<void>>, one per state
  wpc,         \* per worker: where it is in its task
  task,        \* per worker: the task it runs
  cur,         \* per worker: state whose top arcs it asks for or holds
  visited,     \* per worker: states its beam search has expanded
  topArcs, topResults,
  failed       \* history: the tasks that threw

mainVars == <<pc, phase, idx, thrown>>
poolVars == <<tasks, stop>>
workerVars == <<wpc, task, cur, visited>>
dataVars == <<topArcs, topResults>>
vars == <<mainVars, poolVars, results, workerVars, dataVars, failed>>

Init ==
  /\ pc = "enqueue" /\ phase = "arcs" /\ idx = 0 /\ thrown = FALSE
  /\ tasks = <<>> /\ stop = FALSE
  /\ results = [s \in States |-> "none"]
  /\ wpc = [w \in Workers |-> "idle"]
  /\ task = [w \in Workers |-> [kind |-> "arcs", state |-> 0]]
  /\ cur = [w \in Workers |-> 0]
  /\ visited = [w \in Workers |-> {}]
  /\ topArcs = [s \in States |-> "empty"]
  /\ topResults = [s \in States |-> "empty"]
  /\ failed = {}
-----------------------------------------------------------------------------
(* The constructing thread *)

\* results.at(state) = pool.enqueue(fn, state), in a loop over the states.
Enqueue ==
  /\ pc = "enqueue"
  /\ tasks' = Append(tasks, [kind |-> phase, state |-> idx])
  /\ results' = [results EXCEPT ![idx] = "pending"]
  /\ IF idx + 1 < NumStates
       THEN idx' = idx + 1 /\ UNCHANGED pc
       ELSE idx' = 0 /\ pc' = "get"
  /\ UNCHANGED <<phase, thrown, stop, workerVars, dataVars, failed>>

\* The loop of get() is left: on to the second phase, or to clear().
NextPhase ==
  IF phase = "arcs"
    THEN phase' = "result" /\ pc' = "enqueue"
    ELSE pc' = "clear" /\ UNCHANGED phase

\* Mutant: get() on every future but the last.
GetEndShort == NumStates - 1
GetEnd == NumStates

NextFuture ==
  IF idx + 1 < GetEnd
    THEN idx' = idx + 1 /\ UNCHANGED <<pc, phase>>
    ELSE idx' = 0 /\ NextPhase

\* results.at(state).get() of a task that returned.
GetReady ==
  /\ pc = "get"
  /\ results[idx] = "ready"
  /\ results' = [results EXCEPT ![idx] = "none"]
  /\ NextFuture
  /\ UNCHANGED <<thrown, poolVars, workerVars, dataVars, failed>>

\* Mutant: the future's exception is dropped and the loop goes on.
RethrowNothing == NextFuture /\ UNCHANGED thrown
\* Unwinding enters ~ThreadPool; the remaining futures are abandoned.
Rethrow == pc' = "stop" /\ thrown' = TRUE /\ UNCHANGED <<phase, idx>>

\* results.at(state).get() of a task that threw
GetError ==
  /\ pc = "get"
  /\ results[idx] = "error"
  /\ results' = [results EXCEPT ![idx] = "none"]
  /\ Rethrow
  /\ UNCHANGED <<poolVars, workerVars, dataVars, failed>>

\* topArcs.clear(): the vector has no element left.
ClearArcs ==
  /\ pc = "clear"
  /\ topArcs' = [s \in States |-> "gone"]
  /\ pc' = "stop"
  /\ UNCHANGED <<phase, idx, thrown, poolVars, results, workerVars, topResults, failed>>

\* ~ThreadPool: set stop and wake the workers ...
StopPool ==
  /\ pc = "stop"
  /\ stop' = TRUE
  /\ pc' = "join"
  /\ UNCHANGED <<phase, idx, thrown, tasks, results, workerVars, dataVars, failed>>

\* Mutant: the workers are detached instead of joined.
Detached == TRUE
AllJoined == \A w \in Workers : wpc[w] = "exited"

\* ... and join them.  The function returns, or the exception leaves the
\* constructor and the members are destroyed.
JoinPool ==
  /\ pc = "join"
  /\ AllJoined
  /\ pc' = IF thrown THEN "thrown" ELSE "done"
  /\ UNCHANGED <<phase, idx, thrown, poolVars, results, workerVars, dataVars, failed>>

Main == Enqueue \/ GetReady \/ GetError \/ ClearArcs \/ StopPool \/ JoinPool
-----------------------------------------------------------------------------
(* The workers *)

\* A free worker takes the oldest task.  GetTopArcs starts by looking at
\* topArcs.at(state), GetTopResult at topResults.at(state).
TakeTask(w) ==
  /\ wpc[w] = "idle"
  /\ tasks # <<>>
  /\ tasks' = Tail(tasks)
  /\ task' = [task EXCEPT ![w] = Head(tasks)]
  /\ cur' = [cur EXCEPT ![w] = Head(tasks).state]
  /\ visited' = [visited EXCEPT ![w] = {}]
  /\ wpc' = [wpc EXCEPT ![w] = IF Head(tasks).kind = "arcs" THEN "get" ELSE "check"]
  /\ UNCHANGED <<mainVars, stop, results, dataVars, failed>>

\* Mutant: a worker leaves as soon as it finds no task.
NoTask == tasks = <<>>
\* Stopped and nothing left to do.
NoMoreTasks == stop /\ tasks = <<>>

ExitWorker(w) ==
  /\ wpc[w] = "idle"
  /\ NoMoreTasks
  /\ wpc' = [wpc EXCEPT ![w] = "exited"]
  /\ UNCHANGED <<mainVars, poolVars, results, task, cur, visited, dataVars, failed>>

\* The task returns or throws: its future becomes ready.
Finish(w, status) ==
  /\ wpc' = [wpc EXCEPT ![w] = "idle"]
  /\ results' = [results EXCEPT ![task[w].state] = status]

\* GetTopArcs(cur) returns: to the pool, or to the beam search that called it
\* and that goes on to use the arcs through the reference it got.
ReturnArcs(w) ==
  IF task[w].kind = "arcs"
    THEN Finish(w, "ready")
    ELSE wpc' = [wpc EXCEPT ![w] = "beam"] /\ UNCHANGED results

\* if (!topArcs.at(state).empty()) return topArcs.at(state);
ReuseArcs(w) ==
  /\ wpc[w] = "get"
  /\ topArcs[cur[w]] = "full"
  /\ ReturnArcs(w)
  /\ UNCHANGED <<mainVars, poolVars, task, cur, visited, dataVars, failed>>

\* The element is empty: the arcs are computed and about to be moved into it.
ComputeArcs(w) ==
  /\ wpc[w] = "get"
  /\ topArcs[cur[w]] = "empty"
  /\ wpc' = [wpc EXCEPT ![w] = "fill"]
  /\ UNCHANGED <<mainVars, poolVars, results, task, cur, visited, dataVars, failed>>

\* topArcs.at(state) = std::move(arcs); return topArcs.at(state);
StoreArcs(w) ==
  /\ wpc[w] = "fill"
  /\ topArcs' = [topArcs EXCEPT ![cur[w]] = "full"]
  /\ ReturnArcs(w)
  /\ UNCHANGED <<mainVars, poolVars, task, cur, visited, topResults, failed>>

\* An assertion of GetTopArcs fails, or at() is called on the cleared vector.
ThrowArcs(w) ==
  /\ wpc[w] = "get"
  /\ topArcs[cur[w]] # "full"
  /\ Finish(w, "error")
  /\ failed' = failed \cup {task[w]}
  /\ UNCHANGED <<mainVars, poolVars, task, cur, visited, dataVars>>

\* if (topResults.at(state).first.empty()) ... BeamSearch
CheckResult(w) ==
  /\ wpc[w] = "check"
  /\ IF topResults[task[w].state] = "full"
       THEN Finish(w, "ready")
       ELSE wpc' = [wpc EXCEPT ![w] = "beam"] /\ UNCHANGED results
  /\ UNCHANGED <<mainVars, poolVars, task, cur, visited, dataVars, failed>>

\* BeamSearch expands a beam at model state t: GetTopArcs(t).  A second visit
\* of t reads the same element again and is not modelled.
VisitState(w, t) ==
  /\ wpc[w] = "beam"
  /\ t \notin visited[w]
  /\ visited' = [visited EXCEPT ![w] = @ \cup {t}]
  /\ cur' = [cur EXCEPT ![w] = t]
  /\ wpc' = [wpc EXCEPT ![w] = "get"]
  /\ UNCHANGED <<mainVars, poolVars, results, task, dataVars, failed>>

\* No exit transition from a state of the beam.
ThrowSearch(w) ==
  /\ wpc[w] = "beam"
  /\ Finish(w, "error")
  /\ failed' = failed \cup {task[w]}
  /\ UNCHANGED <<mainVars, poolVars, task, cur, visited, dataVars>>

\* BeamSearch has returned ...
EndSearch(w) ==
  /\ wpc[w] = "beam"
  /\ wpc' = [wpc EXCEPT ![w] = "store"]
  /\ UNCHANGED <<mainVars, poolVars, results, task, cur, visited, dataVars, failed>>

\* ... and topResults.at(state) = {autocomplete, decode_length}.
StoreResult(w) ==
  /\ wpc[w] = "store"
  /\ topResults' = [topResults EXCEPT ![task[w].state] = "full"]
  /\ Finish(w, "ready")
  /\ UNCHANGED <<mainVars, poolVars, task, cur, visited, topArcs, failed>>

Worker(w) ==
  \/ TakeTask(w) \/ ExitWorker(w)
  \/ ReuseArcs(w) \/ ComputeArcs(w) \/ StoreArcs(w) \/ ThrowArcs(w)
  \/ CheckResult(w) \/ ThrowSearch(w) \/ EndSearch(w) \/ StoreResult(w)
  \/ \E t \in States : VisitState(w, t)

Next == Main \/ \E w \in Workers : Worker(w)

Spec == Init /\ [][Next]_vars

\* The operating system runs every thread; a beam search visits finitely many
\* states, so no task runs for ever.
FairSpec == Spec /\ WF_vars(Main) /\ \A w \in Workers : WF_vars(Worker(w))
-----------------------------------------------------------------------------
TypeOK ==
  /\ pc \in {"enqueue", "get", "clear", "stop", "join", "done", "thrown"}
  /\ phase \in Kinds
  /\ idx \in States
  /\ thrown \in BOOLEAN
  /\ tasks \in Seq(Tasks)
  /\ stop \in BOOLEAN
  /\ results \in [States -> {"none", "pending", "ready", "error"}]
  /\ wpc \in [Workers -> {"idle", "check", "get", "fill", "beam", "store", "exited"}]
  /\ task \in [Workers -> Tasks]
  /\ cur \in [Workers -> States]
  /\ visited \in [Workers -> SUBSET States]
  /\ topArcs \in [States -> {"empty", "full", "gone"}]
  /\ topResults \in [States -> {"empty", "full"}]
  /\ failed \in SUBSET Tasks

\* The vector elements a worker is reading or writing, between two steps.
Reads(w) ==
  CASE wpc[w] = "get" -> {<<"arcs", cur[w]>>}
    [] wpc[w] = "beam" /\ visited[w] # {} -> {<<"arcs", cur[w]>>}
    [] wpc[w] = "check" -> {<<"result", task[w].state>>}
    [] OTHER -> {}

Writes(w) ==
  CASE wpc[w] = "fill" -> {<<"arcs", cur[w]>>}
    [] wpc[w] = "store" -> {<<"result", task[w].state>>}
    [] OTHER -> {}

\* The constructing thread writes every element of topArcs when it clears it.
MainWrites == IF pc = "clear" THEN {<<"arcs", s>> : s \in States} ELSE {}

(* No two threads are at the same vector element at once with one of them   *)
(* writing: the unsynchronised sharing of topArcs and topResults between    *)
(* tasks of PrecomputeTopResults is free of data races.                     *)
NoDataRace ==
  /\ \A v, w \in Workers :
       v # w => Writes(v) \cap (Reads(w) \cup Writes(w)) = {}
  /\ \A w \in Workers : MainWrites \cap (Reads(w) \cup Writes(w)) = {}

(* When PrecomputeTopResults returns or throws, no thread still runs a task *)
(* on `this`: the constructor's exception destroys the vectors.             *)
NoThreadLeft ==
  pc \in {"done", "thrown"} => /\ tasks = <<>>
                               /\ \A w \in Workers : wpc[w] = "exited"

(* No task's exception is lost: a constructor that returns had no failed    *)
(* assertion on any thread.                                                 *)
NoErrorLost == pc = "done" => failed = {}

(* The constructor terminates, by returning or by throwing.                 *)
Terminates == <>(pc \in {"done", "thrown"})

(* The threads implement the two-phase promise of PrecomputeAbs.            *)
Abs == INSTANCE PrecomputeAbs
         WITH outcome <- IF pc \in {"done", "thrown"} THEN pc ELSE "running"
RefinesAbs == Abs!Spec
=============================================================================
