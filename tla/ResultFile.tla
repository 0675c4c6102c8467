----------------------------- MODULE ResultFile -----------------------------
(***************************************************************************)
(* Beam search results over the life of QueryBlazer processes              *)
(* (src/queryblazer.h): computed for all states by the constructor if      *)
(* config.precompute, saved by SavePrecomputed, loaded into an object      *)
(* without precompute by LoadPrecomputed, and otherwise computed by        *)
(* GetTopResult when a query first needs one.  Of the model and the config *)
(* that made a file, only the number of states and topk are stored in it.  *)
(*                                                                         *)
(* A result is abstracted to its maker: the model and config it was        *)
(* computed with.  Precompute.tla and BeamSearch.tla are the computation;  *)
(* a search that finishes always finds something if length_limit > 0.      *)
(***************************************************************************)
EXTENDS Naturals, Sequences, SequencesExt

CONSTANTS Models,      \* the models there are
          NumStates,   \* per model: NumStates()
          Configs,     \* [topk, rest]: topk, and branch_factor, beam_size, length_limit
          Torn,        \* a list of which only a part was restored
          MaxStarts    \* bound on the number of objects constructed, for model checking

ASSUME ResultFileAssumption == NumStates \in [Models -> Nat \ {0}]

VARIABLES
  object,      \* {} or {[maker, precompute]} of the running process
  starts,      \* how many there were
  topResults,  \* per state, from 1: {} while the list is empty, or {its maker}, or {Torn}
  topArcs,     \* FALSE after topArcs.clear(): at() throws
  outcome,     \* of the last call: "ok", "false", "failed" (a save or load threw),
               \* or "threw" (Complete did)
  broken,      \* a load threw when topResults was cleared, and none succeeded since
  file         \* {} or {[size, topk, results, short]}

resultFileVars == <<object, starts, topResults, topArcs, outcome, broken, file>>

Makers == [model : Models, config : Configs]
All(n, r) == [s \in 1 .. n |-> r]

ResultFileInit ==
  /\ object = {} /\ starts = 0 /\ topResults = <<>> /\ topArcs = TRUE
  /\ outcome = "ok" /\ broken = FALSE /\ file = {}
-----------------------------------------------------------------------------
\* QueryBlazer(encoder, model, config), in a new process; PrecomputeTopResults
\* clears topArcs in the end if it computes anything.
QueryBlazer(m, precompute) ==
  /\ object = {} /\ starts < MaxStarts
  /\ starts' = starts + 1
  /\ object' = {[maker |-> m, precompute |-> precompute]}
  /\ topResults' = All(NumStates[m.model], IF precompute THEN {m} ELSE {})
  /\ topArcs' = ~precompute
  /\ outcome' = "ok" /\ broken' = FALSE
  /\ UNCHANGED file

\* The process ends or is killed.
ProcessExit ==
  /\ object # {}
  /\ object' = {} /\ topResults' = <<>> /\ topArcs' = TRUE
  /\ outcome' = "ok" /\ broken' = FALSE
  /\ UNCHANGED <<starts, file>>

\* SavePrecomputed: nothing checks that all of it reached the disk.
Saved(results, topk, short) ==
  file' = {[size |-> Len(results), topk |-> topk, results |-> results, short |-> short]}

SavePrecomputed(o, short) ==
  /\ o.precompute
  /\ Saved(topResults, o.maker.config.topk, short)
  /\ outcome' = "ok"
  /\ UNCHANGED <<object, starts, topResults, topArcs, broken>>

SaveRefused(o) ==
  /\ ~o.precompute
  /\ outcome' = "false"
  /\ UNCHANGED <<object, starts, topResults, topArcs, broken, file>>

\* "Error opening": ofs, before it is written.
SaveUnopened(o) ==
  /\ o.precompute
  /\ outcome' = "failed"
  /\ UNCHANGED <<object, starts, topResults, topArcs, broken, file>>

\* The same by another process, qbz_build_queryblazer for instance.
SaveElsewhere(m, short) ==
  /\ Saved(All(NumStates[m.model], {m}), m.config.topk, short)
  /\ UNCHANGED <<object, starts, topResults, topArcs, outcome, broken>>

\* Mutant: topk is not compared.
SameSizeOnly(o, f) == f.size = Len(topResults)
\* size == topResults.size() && topk == config.topk
MatchesFile(o, f) == f.size = Len(topResults) /\ f.topk = o.maker.config.topk

\* LoadPrecomputed returns false: with precompute set ...
LoadRefused(o) ==
  /\ o.precompute
  /\ outcome' = "false"
  /\ UNCHANGED <<object, starts, topResults, topArcs, broken, file>>

\* ... or for another file.
Refuse(o, f) ==
  /\ ~o.precompute /\ ~MatchesFile(o, f)
  /\ outcome' = "false"
  /\ UNCHANGED <<object, starts, topResults, topArcs, broken, file>>

\* "Error opening": there is no file, or it cannot be read.
LoadUnopened(o) ==
  /\ ~o.precompute
  /\ outcome' = "failed"
  /\ UNCHANGED <<object, starts, topResults, topArcs, broken, file>>

Load(o, f) ==
  /\ ~o.precompute /\ MatchesFile(o, f) /\ ~f.short
  /\ f.size = NumStates[o.maker.model]
  /\ topResults' = f.results
  /\ topArcs' = FALSE
  /\ outcome' = "ok" /\ broken' = FALSE
  /\ UNCHANGED <<object, starts, file>>

\* "NumStates mismatch": an earlier load left topResults shorter than the model.
LoadMismatch(o, f) ==
  /\ ~o.precompute /\ MatchesFile(o, f) /\ ~f.short
  /\ f.size # NumStates[o.maker.model]
  /\ topResults' = f.results
  /\ outcome' = "failed" /\ broken' = TRUE
  /\ UNCHANGED <<object, starts, topArcs, file>>

\* The archive throws before topResults.clear(): size or topk are missing ...
LoadNoHeader(o, f) ==
  /\ ~o.precompute /\ f.short
  /\ outcome' = "failed"
  /\ UNCHANGED <<object, starts, topResults, topArcs, broken, file>>

\* What an archive leaves of a vector when it throws at element n + 1: the
\* elements before it; or, from Boost 1.58 on, which resizes the vector first,
\* also that element, empty or torn, and empty ones.
Restored(results, n) ==
  {SubSeq(results, 1, n)}
    \cup {[s \in DOMAIN results |-> IF s <= n THEN results[s] ELSE IF s = n + 1 THEN r ELSE {}] :
            r \in {{}, {Torn}}}

\* ... or after it.
LoadShort(o, f) ==
  /\ ~o.precompute /\ f.short /\ MatchesFile(o, f)
  /\ \E n \in 0 .. Len(f.results) - 1 : topResults' \in Restored(f.results, n)
  /\ outcome' = "failed" /\ broken' = TRUE
  /\ UNCHANGED <<object, starts, topArcs, file>>

\* Mutant: what is there is searched again.
NeedsSearchAlways(s) == TRUE
\* if (topResults.at(state).first.empty())
NeedsSearch(s) == topResults[s] = {}

\* Complete asks GetTopResult for a state: there is a result ...
Reuse(s) ==
  /\ s \in DOMAIN topResults /\ ~NeedsSearch(s)
  /\ outcome' = "ok"
  /\ UNCHANGED <<object, starts, topResults, topArcs, broken, file>>

\* ... or it is searched now ...
Search(o, s) ==
  /\ s \in DOMAIN topResults /\ NeedsSearch(s) /\ topArcs
  /\ topResults' = [topResults EXCEPT ![s] = {o.maker}]
  /\ outcome' = "ok"
  /\ UNCHANGED <<object, starts, topArcs, broken, file>>

\* ... or at() throws, on topResults or, in the search, on the cleared topArcs.
Throw(s) ==
  /\ s \in DOMAIN topResults => NeedsSearch(s) /\ ~topArcs
  /\ outcome' = "threw"
  /\ UNCHANGED <<object, starts, topResults, topArcs, broken, file>>

ResultFileNext ==
  \/ \E m \in Makers, precompute \in BOOLEAN : QueryBlazer(m, precompute)
  \/ ProcessExit
  \/ \E m \in Makers, short \in BOOLEAN : SaveElsewhere(m, short)
  \/ \E o \in object :
       \/ SaveRefused(o) \/ SaveUnopened(o) \/ LoadRefused(o) \/ LoadUnopened(o)
       \/ \E short \in BOOLEAN : SavePrecomputed(o, short)
       \/ \E f \in file : \/ Refuse(o, f) \/ Load(o, f)
                          \/ LoadMismatch(o, f) \/ LoadNoHeader(o, f) \/ LoadShort(o, f)
       \/ \E s \in 1 .. NumStates[o.maker.model] : Reuse(s) \/ Search(o, s) \/ Throw(s)

ResultFileSpec == ResultFileInit /\ [][ResultFileNext]_resultFileVars
-----------------------------------------------------------------------------
Results == SUBSET (Makers \cup {Torn})

TypeOK ==
  /\ \A o \in object : /\ o \in [maker : Makers, precompute : BOOLEAN]
                       /\ Len(topResults) <= NumStates[o.maker.model]
  /\ topResults \in Seq(Results)
  /\ topArcs \in BOOLEAN /\ broken \in BOOLEAN
  /\ outcome \in {"ok", "false", "failed", "threw"}
  /\ \A f \in file : f.results \in Seq(Results) /\ f.size = Len(f.results)

(* Complete throws only on an object that a load broke and none repaired:   *)
(* topArcs is cleared only when every state has a result, from the file or  *)
(* from the constructor, so that Complete never searches without it and     *)
(* finds no state missing.  Loads that return false, or throw before they   *)
(* clear topResults, do no harm, and one that succeeds repairs what earlier *)
(* ones left.                                                               *)
OnlyBrokenThrows == outcome = "threw" => broken

(* Whatever files are written by whom, and whatever a load into the object  *)
(* has thrown before the last one succeeded, every result of it is whole,   *)
(* was computed with its topk, for a model with as many states as its own,  *)
(* and there is an entry for each of its states.                            *)
ResultsFit ==
  ~broken => \A o \in object :
    /\ Len(topResults) = NumStates[o.maker.model]
    /\ \A s \in DOMAIN topResults : \A m \in topResults[s] :
         m \in Makers /\ m.config.topk = o.maker.config.topk /\ NumStates[m.model] = NumStates[o.maker.model]
=============================================================================
