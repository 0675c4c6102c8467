----------------------------- MODULE Completion -----------------------------
(***************************************************************************)
(* QueryBlazer::Complete (src/queryblazer.h) on a QueryBlazer that answers *)
(* one query after the other: the stable part of the query is walked in    *)
(* the model, InitBeams keeps the cheapest of the encoder's candidates for *)
(* its unstable end, and the results of a beam search from each beam's     *)
(* state are merged.  GetTopResult computes them once per state and keeps  *)
(* them; BeamSearch.tla is that computation.                               *)
(*                                                                         *)
(* What the encoder makes of the text is a parameter: Queries.             *)
(***************************************************************************)
EXTENDS Ngram, Ranking, SequencesExt

CONSTANTS States, Tokens, Unk, Models,
          BranchFactor, BeamSize, TopKSize, LengthLimit,
          Start,        \* model->Start()
          Queries,      \* [stable: tokens of the stable prefix,
                        \*  seqs: encoderTransitions of the encoder state]
          MaxQueries    \* bound on the number of calls, for model checking

VARIABLES
  model, topArcs,                                        \* of the object
  start, status, tree, batch, todo, result, maxDl, cut,  \* of BeamSearch
  topResults,       \* state |-> [list, dl], list empty until computed
  phase,            \* "idle", "merge", "search", "take", "answered", "thrown"
  query, asked,     \* the call's argument, and how many there were
  initCost, beams,  \* of Complete
  next,             \* loop over `beams`: the one to merge
  found, decodeLength,  \* autocomplete
  answer            \* suggestions: [path: the tokens completed with, cost]

Search == INSTANCE BeamSearch

ASSUME CompletionAssumption == Search!ConfigOK

\* ComputeEncoderTransitions gives every encoder state a sequence, the empty
\* one where there is no candidate.
ASSUME QueriesAssumption ==
  \A q \in Queries : q.stable \in Seq(Tokens) /\ q.seqs \in Seq(Seq(Tokens)) \ {<<>>}

searchVars == <<start, status, tree, batch, todo, result, maxDl, cut>>
callVars == <<query, asked, initCost, beams>>
mergeVars == <<next, found, decodeLength>>
vars == <<model, topArcs, searchVars, topResults, phase, callVars, mergeVars, answer>>

Init ==
  /\ Search!Init /\ start = Start
  /\ topResults = [s \in States |-> [list |-> <<>>, dl |-> 0]]
  /\ phase = "idle" /\ asked = 0
  /\ query = [stable |-> <<>>, seqs |-> <<>>]
  /\ initCost = 0 /\ beams = <<>>
  /\ next = 1 /\ found = <<>> /\ decodeLength = 0
  /\ answer = <<>>

Costs(seq) == [i \in DOMAIN seq |-> seq[i].cost]
Top(cands) == {[i \in DOMAIN o |-> cands[o[i]]] : o \in SortedCheapest(TopKSize, Costs(cands))}
-----------------------------------------------------------------------------
At(s, path) == Walk(model, s, path, Unk)[Len(path)]

\* phiMatcher finds every token of the path, or unk in its place.
CanWalk(s, path) ==
  \A n \in 1 .. Len(path) :
    {path[n], Unk} \cap DOMAIN model.find[At(s, SubSeq(path, 1, n - 1)).state] # {}

\* skip_flag: on the way along `path` the score passes the beams kept so far.
Skipped(s, path, kept) ==
  \E n \in 1 .. Len(path) :
    /\ CanWalk(s, SubSeq(path, 1, n))
    /\ ~WithinTopK(BeamSize, Costs(kept), At(s, SubSeq(path, 1, n)).cost)

\* Mutant: the score of the walk is forgotten.
UnscoredBeam(s, path) == [path |-> path, state |-> At(s, path).state, cost |-> 0]
Beam(s, path) == [path |-> path, state |-> At(s, path).state, cost |-> At(s, path).cost]

\* The beams after the first n sequences, before they are sorted.
Kept(s, seqs) ==
  LET kept[n \in 0 .. Len(seqs)] ==
        IF n = 0 THEN <<>>
        ELSE IF Skipped(s, seqs[n], kept[n - 1]) THEN kept[n - 1]
        ELSE Append(kept[n - 1], Beam(s, seqs[n]))
  IN kept

\* QBZ_ASSERT(phiMatcher.Find(IDX_UNK), ...) fails in InitBeams.
NoUnk(s, seqs) ==
  \E n \in 1 .. Len(seqs) :
    ~CanWalk(s, seqs[n]) /\ ~Skipped(s, seqs[n], Kept(s, seqs)[n - 1])

\* What InitBeams may return: beam_size of them, the cheapest first.
InitBeams(s, seqs) ==
  LET kept == Kept(s, seqs)[Len(seqs)] IN
  {[i \in DOMAIN o |-> kept[o[i]]] : o \in SortedCheapest(BeamSize, Costs(kept))}

\* Complete, up to the loop over the beams.
Ask(q) ==
  /\ phase \in {"idle", "answered", "thrown"} /\ asked < MaxQueries
  /\ asked' = asked + 1 /\ query' = q /\ answer' = <<>>
  /\ next' = 1 /\ found' = <<>> /\ decodeLength' = 0
  /\ IF ~CanWalk(Start, q.stable) \/ NoUnk(At(Start, q.stable).state, q.seqs)
       THEN phase' = "thrown" /\ initCost' = 0 /\ beams' = <<>>
       ELSE /\ phase' = "merge"
            /\ initCost' = At(Start, q.stable).cost
            /\ beams' \in InitBeams(At(Start, q.stable).state, q.seqs)
  /\ UNCHANGED <<model, topArcs, searchVars, topResults>>

\* Mutant: off by one.
AcceptedLess(cands, c) == WithinTopK(TopKSize - 1, Costs(cands), c)
\* topK.WillInsert(c) when the candidates `cands` were merged
Accepted(cands, c) == WithinTopK(TopKSize, Costs(cands), c)
BeamLeft == next <= Len(beams) /\ Accepted(found, beams[next].cost)

\* GetTopResult: the state was searched before ...
Hit ==
  /\ phase = "merge" /\ BeamLeft
  /\ topResults[beams[next].state].list # <<>>
  /\ phase' = "take"
  /\ UNCHANGED <<model, topArcs, searchVars, topResults, callVars, mergeVars, answer>>

\* ... or not
Miss ==
  /\ phase = "merge" /\ BeamLeft
  /\ topResults[beams[next].state].list = <<>>
  /\ phase' = "search"
  /\ Search!Set(beams[next].state, "search")
  /\ UNCHANGED <<model, topArcs, topResults, callVars, mergeVars, answer>>

SearchStep ==
  /\ phase = "search"
  /\ Search!Next
  /\ UNCHANGED <<topResults, phase, callVars, mergeVars, answer>>

\* Mutant: the results are kept under the state of the next beam.
StoredAtNext == beams[IF next < Len(beams) THEN next + 1 ELSE next].state
StoredAt == start

\* topResults.at(state) = {std::move(autocomplete), decode_length}
SearchDone ==
  /\ phase = "search" /\ status = "done"
  /\ topResults' = [topResults EXCEPT ![StoredAt] = [list |-> result, dl |-> maxDl]]
  /\ phase' = "take"
  /\ Search!Set(Start, "search")
  /\ UNCHANGED <<model, topArcs, callVars, mergeVars, answer>>

\* An assertion failed in BeamSearch: nothing is stored.
SearchThrew ==
  /\ phase = "search" /\ status = "failed"
  /\ phase' = "thrown"
  /\ Search!Set(Start, "search")
  /\ UNCHANGED <<model, topArcs, topResults, callVars, mergeVars, answer>>

\* How many of a beam's completions TopK accepts before it refuses one: break
Taken(new) ==
  CHOOSE n \in 0 .. Len(new) :
    LET Fits(i) == Accepted(found \o SubSeq(new, 1, i - 1), new[i].cost)
    IN (\A i \in 1 .. n : Fits(i)) /\ (n < Len(new) => ~Fits(n + 1))

\* Mutant: the loop does not go on to the next beam.
SameBeam == next
NextBeam == next + 1

Take ==
  LET beam == beams[next]
      stored == topResults[beam.state]
      new == [i \in DOMAIN stored.list |->
                [path |-> beam.path \o stored.list[i].path, cost |-> beam.cost + stored.list[i].cost]]
  IN
  /\ phase = "take"
  /\ found' = found \o SubSeq(new, 1, Taken(new))
  /\ decodeLength' = IF stored.dl > decodeLength THEN stored.dl ELSE decodeLength
  /\ next' = NextBeam
  /\ phase' = "merge"
  /\ UNCHANGED <<model, topArcs, searchVars, topResults, callVars, answer>>

\* partial_sort, and QBZ_ASSERT(config.topk <= autocomplete.first.size(), ...)
Answer ==
  /\ phase = "merge" /\ ~BeamLeft
  /\ IF Len(found) < TopKSize
       THEN phase' = "thrown" /\ UNCHANGED answer
       ELSE /\ phase' = "answered"
            /\ \E best \in Top(found) :
                 answer' = [i \in DOMAIN best |-> [best[i] EXCEPT !.cost = initCost + best[i].cost]]
  /\ UNCHANGED <<model, topArcs, searchVars, topResults, callVars, mergeVars>>

Call == Hit \/ Miss \/ SearchStep \/ SearchDone \/ SearchThrew \/ Take \/ Answer

Next == Call \/ \E q \in Queries : Ask(q)

Spec == Init /\ [][Next]_vars

\* One thread runs each call to its end; nobody has to ask.
FairSpec == Spec /\ WF_vars(Call)
-----------------------------------------------------------------------------
\* The cost of `path` from s, ended where it leads, by the model alone.
FullCost(s, path) ==
  At(s, path).cost + (CHOOSE c \in model.exit[At(s, path).state] : TRUE)

(* However a suggestion was put together (walk of the stable prefix, beam,  *)
(* cached completion), its cost is the model's for the whole query.         *)
AnswerPriced ==
  \A i \in DOMAIN answer :
    answer[i].cost = FullCost(Start, query.stable \o answer[i].path)

(* The cache holds, for every state, completions of that state: also after  *)
(* other queries, and after calls that threw.                               *)
CacheHoldsOwn ==
  \A s \in States : \A i \in DOMAIN topResults[s].list :
    topResults[s].list[i].cost = FullCost(s, topResults[s].list[i].path)

Ascending(seq) == \A i, j \in DOMAIN seq : i < j => seq[i].cost <= seq[j].cost

\* Every candidate that a beam and its completions make.
Candidates ==
  UNION {{[path |-> beams[i].path \o topResults[beams[i].state].list[j].path,
           cost |-> initCost + beams[i].cost + topResults[beams[i].state].list[j].cost] :
            j \in DOMAIN topResults[beams[i].state].list} : i \in DOMAIN beams}

\* No candidate left out is cheaper than one in the answer.
AnswersTop ==
  phase = "answered" =>
    \A c \in Candidates :
      \/ \E i \in DOMAIN answer : answer[i].path = c.path
      \/ \A i \in DOMAIN answer : answer[i].cost <= c.cost

(* Leaving a beam's completions, and the beams, at the first one that TopK  *)
(* refuses loses nothing as long as the cached lists are in ascending order *)
(* (BeamSearch sorts them only where it found more than topk).              *)
AnswersTopIfSorted ==
  (\A s \in States : Ascending(topResults[s].list)) => AnswersTop

\* The model knows unk and more than branch_factor tokens everywhere.
Rich == \A s \in States : Unk \in DOMAIN model.find[s] /\ Cardinality(DOMAIN model.find[s]) > BranchFactor

(* With such a model and topk <= length_limit no query throws: "not enough  *)
(* completions for topK" needs a shorter limit.                             *)
ThrowsOnlyIfPoor == phase = "thrown" => ~Rich \/ LengthLimit < TopKSize

(* Every call ends. *)
EveryCallEnds == [](phase = "merge" => <>(phase \in {"answered", "thrown"}))

(* README.md on topk: "# of top completion candidates to return".           *)
AnswersAreTop == AnswersTop

=============================================================================
