# A TLA+ model of QueryBlazer

QueryBlazer completes search queries. A text the user has typed is cut into
subword tokens by an *encoder* FST; an n-gram language model, also an FST, says
how likely each continuation is; a beam search finds the cheapest ones. The
repository also has *most popular completion* (MPC), a baseline that looks
prefixes up in a trie of counted queries.

This directory holds TLA+ modules for the program's own logic, TLC
configurations that check them on small instances, and TLAPS proofs, for all
instances, of every safety property and refinement among them. `PROJECT.json` names the
source lines each definition stands for, the hazards, the runs, and for each
property a mutant of the code that violates it. Paths below are relative to the
repository (`src/` is the C++ directory).

## 1. The system

| Component | State it keeps | Operations | Who calls it |
|---|---|---|---|
| `QueryBlazer` constructor, `PrecomputeTopResults` (`src/queryblazer.h`) | `topArcs`, `topResults` (one entry per model state), futures, a thread pool | enqueue a `GetTopArcs` per state, wait, enqueue a `GetTopResult` per state, wait, clear `topArcs` | the constructor, if `config.precompute` |
| `GetTopArcs` | an entry of `topArcs` | the `branch_factor` cheapest tokens of a state, through phi (backoff) arcs, cached | beam search, precomputation |
| `BeamSearch` | a local `PrefixTree`, a `TopK`, results | rounds of taking, ending, extending and erasing hypotheses | `GetTopResult` |
| `Complete`, `InitBeams`, `GetTopResult` | `topResults`, one query's beams and candidates | walk, initial beams, cached searches, merge | users, the Python binding, tests |
| `SavePrecomputed`, `LoadPrecomputed` | a file, `topResults`, `topArcs` | write all results; read them into another object | `build_queryblazer.cc`, `test_queryblazer.cc` |
| `TopK` (`src/common.h`) | a heap of at most k costs | `Insert`, `WillInsert` | all the searches |
| `PrefixTree`, `PrefixNode`, `PrefixLeaf` (`src/prefix_tree.h`) | nodes, data, `num_leafs`; handles | `Insert` (also below a leaf), `FindAll`, `Erase`, `Clear` | `BeamSearch` |
| `Trie` (`src/prefix_tree.h`) | nodes with counts | `Insert` | `build_mpc.cc` |
| Encoder construction (`src/build_encoder.cc`, `src/transition.h`) | an FST | `AddToken`, `AddPhiTransitions` | the tool |
| `Encode` (`src/encoder.h`) | state and output so far, unknown characters kept aside | read a character, leave the state | `Complete`, for what was typed; `encode.cc`, for each line of the training text |
| `CandidateOlabels`, `ComputeEncoderTransitions` | a queue of visits and the sequences found; `encoderTransitions` (one entry per encoder state) | search all continuations of every state | the constructor; `InitBeams` looks the entry up |
| `build_mpc.cc`, `Mpc` (`src/mpc.h`) | FST, counts, queries, completions; two files | count, copy to FST, `TopK` recursion, `Save`, `Load`, `Complete` | tools, `test_mpc.cc` |
| `Split`, `Join`, `ToUtf8`, `ToString` (`src/common.h`) | none | cut, join and convert text | `Complete`, `encode.cc`, the tools |
| Test programs, Python binding, scripts | none of their own | pure functions of text and files | |
| OpenFST, KenLM, SentencePiece, Boost, pybind11, ThreadPool | | | not in the repository (empty submodules) |

Components interact by calls inside one process, by the vectors `topArcs` and
`topResults` that the pool's threads share, and by files: the encoder and model
FSTs, the precomputed results, and the two files of MPC.

What is hard about it, and hence what the properties are about:

* **Threads.** Tasks of one pool share two vectors without a lock. One task per
  state and phase, and waiting for a whole phase, is all that protects them. An
  assertion in a task throws out of the constructor while other tasks run.
* **Pruning.** Five loops leave early (`GetTopArcs` at a phi arc, `BeamSearch`
  at the first beam out of reach and at children out of reach, `InitBeams`,
  the merge in `Complete`, `CandidateOlabels`). Each is right only for a reason
  that is not in the code.
* **Caches.** `topArcs` and `topResults` are filled by whichever query comes
  first, and outlive calls that throw half way.
* **Redundant counts and handles.** `num_leafs` must agree with the leafs
  through any sequence of insertions below leafs and erasures.
* **Construction order.** Phi arcs of longer states are computed by following
  those of shorter ones; the vectors of MPC are filled by a breadth-first walk
  that hands out numbers before it comes to the states.
* **Agreement.** The model is trained on what `encode.cc` writes for whole lines;
  a query is encoded by `Complete` while it is still being typed. Everything
  after that rests on the two meeting in the same labels.
* **Files.** Nobody looks at a stream after writing it; readers compare little
  of what made a file; a build may die between its two files; a load that throws
  leaves an object half filled.

`PROJECT.json` lists these one by one, at their lines.

### What makes each component correct

* Precomputation: no data race; no thread left behind by an exception; no
  exception lost; all arcs, then all results, then the end, which comes.
* `TopK`: holds k smallest; `WillInsert` is exact; a refusal is final.
* `PrefixTree`: counts agree with leafs; `FindAll` misses none; live handles
  point to leafs; the whole is a map.
* `GetTopArcs`: the early stop loses nothing; its assertions fail only on a
  model that is too small; it ends.
* `BeamSearch`: results are paths with the model's cost; only `beam_size` and
  `length_limit` lose anything; there are enough of them; it ends; on the counted
  tree, with handles and leafs below leafs, it is still that search.
* `Complete`: costs of answers are the model's; the cache holds a state's own
  results; the merge loses nothing; it throws only on poor models; it ends.
* Encoder: reading character by character is longest-prefix-match; candidates
  cover every continuation, none extends another; no assertion of the
  construction fails.
* Text: whatever is typed next, a candidate leads to the encoding of the whole
  line; a suggestion begins with what was typed; a training line is written as it
  was read; nothing throws for want of text but where nothing was typed.
* MPC: answers are the most popular queries; no index out of range whatever the
  files.
* Saved results: an object that no load has left broken, or that one has repaired
  since, can answer for every state with results that fit it.

## 2. The modules

Written in this order, which is also the order of importance; `A <- B` means B
uses A.

```
Ngram, Ranking <- TopArcs <- MCTopArcs, Precompute_proofs
Ngram, Ranking <- BeamSearch <- BeamSearch_proofs
   BeamSearch <- Completion <- MCCompletion
   Completion, BeamSearch_proofs <- Completion_proofs
   BeamSearch, PrefixTree <- TreeSearch <- MCTreeSearch
   TreeSearch, PrefixTree_proofs, BeamSearch_proofs <- TreeSearch_proofs
Ranking <- TopK <- Precompute_proofs
PrecomputeAbs <- Precompute <- MCPrecompute, Precompute_proofs
LeafMap <- PrefixTree <- PrefixTree_proofs
EncoderFst <- Candidates <- MCCandidates, Candidates_proofs
EncoderFst <- Encoder
   Encoder, Candidates, Text <- Typing <- MCTyping
   Typing, Candidates_proofs <- Typing_proofs
Mpc <- MCMpc
ResultFile <- MCResultFile
   ResultFile, Mpc <- Files_proofs
```

**Precompute** is `PrecomputeTopResults` with its pool. `pc`, `phase`, `idx` and
`thrown` are the constructing thread's; `tasks` and `stop` the pool's; `wpc`,
`task`, `cur` and `visited` each worker's. Every access to an element of a vector
lasts from one step to the next, so that two may overlap. What a task computes is
reduced to *empty*, *full* and *gone* (after `clear`); a beam search asks for the
arcs of any states in any order; a task may throw wherever the code asserts.
**PrecomputeAbs** is the promise: all arcs, then all results, then the arcs are
dropped, and the call returns or throws.

**TopK** is the class. The heap is a set of positions of the history `offered`,
so equal costs stay apart. **Ranking** says in one operator, `WithinTopK`, what
`WillInsert` answers, and in two others what `std::partial_sort` and `erase`
leave open between equal costs. `TopK` shows that the class decides
`WithinTopK`; the searches use that operator and carry no second copy of the
costs.

**PrefixTree** identifies a node with its path of keys. `Put` is
`PrefixNode::Insert`, reached from both `PrefixTree::Insert`s; `LeafsBelow` is
the breadth-first search that skips nodes whose count is 0; `found` are the
handles a client still has. **LeafMap** is the map it implements.

**Ngram** is the language model as the searches read it: arcs, at most one phi
arc and perhaps a final cost per state, and two tables that follow from these,
what `PhiMatcher::Find` and `MakeExitTransitions` return. `IsModel` says what the
code takes for granted about a model.

**TopArcs** is the loop of `GetTopArcs` at an empty cache entry; an iteration is
one step: `Enough`, `Continue` or the failing assertion `NoPhiLeft`.

**BeamSearch** is the search from one state. A step takes one beam (`Expand`,
`PastLimit`, or `ArcsMissing` where `GetTopArcs` throws) or ends a round
(`EndRound`, which erases everything found); `Return` sorts if there are more
than topk. The tree is a map from paths to beams (that is what PrefixTree
shows), the arcs are what TopArcs shows. `cut` remembers what `beam_size`
discarded. What a config and model must satisfy is `ConfigOK`, which the modules
that instantiate BeamSearch assume.

**TreeSearch** is the same function with the prefix tree it really uses: it
instantiates PrefixTree and takes the steps of its three loops one by one. The
root is inserted (`InsertRoot`); `FindBeams` collects handles; each one taken
(`Expand`, `PastLimit`, `ArcsMissing`) leaves the leafs below it `pending`, and
`InsertChild` inserts them through the parent's handle; `LeaveBeams` ends the loop
and `EraseBeam` erases the handles, whose nodes stay. It also instantiates
BeamSearch, under the mapping that takes a pending leaf to be there already and a
leaf found in a round that is being erased to be gone; `RefinesBeamSearch` says
that every step is then one of BeamSearch or none.

**Completion** instantiates BeamSearch and adds the object around it: `Ask` is
`Complete` up to the loop over the beams, with the walk through the stable prefix
and `InitBeams`; `Hit`, `Miss`, `SearchStep`, `SearchDone` and `SearchThrew` are
`GetTopResult`; `Take` merges one beam's completions; `Answer` sorts, trims and
asserts. Calls come one after the other, on caches that earlier calls filled,
also ones that threw.

**EncoderFst** is the FST that `build_encoder.cc` makes: states are prefixes of
tokens, `PhiTable` is `AddPhiTransitions`, `MakeTransitions` and `ExitOutput` are
`src/transition.h`. `Minimized` is what can be seen of `fst::Minimize`: a whole
token with nothing after it is output by the arc that leads there. `LPM` is what
all this is meant to compute.

**Encoder** reads a text with it, one character a step (`ReadKnown`,
`ReadUnknown`), and says what the two callers make of the outcome: `StablePrefix`
is the loop of `Complete` that puts unknown characters back, `Encoded` and
`Written` are what `encode.cc` writes for the line read so far.

**Candidates** is `ComputeEncoderTransitions`: for one node of the FST after the
other, extra nodes of long phi arcs included, the breadth-first search of
`CandidateOlabels` (`Arrive`, `Follow`), its filter (`Filter`), and the entry that
is stored, or the assertion that fails (`Store`).

**Text** is `Split` and `Join`. **Typing** extends it and Candidates, and
instantiates Encoder, with their FST and state in common: an object is built
(`Construct`, the steps of Candidates), characters are typed (`Type`, the steps of
Encoder), and `Complete` puts a suggestion together from the stable prefix, one of
the candidates stored for the encoder's state, and any tokens the model may add.
Which one is best is Completion's matter. The code encodes a query from its start
in every call; reading on from the state before the last character is the same.

**Mpc** is `build_mpc.cc` and `Mpc`: one step per node copied to the FST
(`CopyNode`), `WriteTrie`, one step per call and return of the recursive `TopK`
(`CallChild`, `ReturnTopK`; the recursion is an explicit stack), `Save`, and a
`Crash` at any point; a server may be constructed from whatever is on disk.
`build_mpc` writes the trie without looking at the result and reads it back, so
`WriteTrie` also leaves an earlier file in place, where the new one could not be
opened; `TopK` then goes through that trie (`trie`) with the counts of the new
log, if the two have equally many states.

**ResultFile** is the life of QueryBlazer objects and one file of results over
several processes. A result is abstracted to the model and config that made it;
`topArcs` to whether it was cleared. A save or a load may find a file that cannot
be opened (`SaveUnopened`, `LoadUnopened`); a short file makes the archive throw
before `topResults` was emptied (`LoadNoHeader`) or after it (`LoadShort`). What
is then left of the vector is `Restored`: the elements before the missing one, or,
with Boost 1.58 and later, as many as there should be, one of them `Torn`. An object
is `broken` from then on until a load into it succeeds.

## 3. The runs

All constants are small sets of model values. Integer weights are chosen so that
ties, and both orders of any two sums that the code compares, occur.

| Run | Instance | What it shows |
|---|---|---|
| MCPrecompute | 3 states, 2 workers, any task may throw | race freedom, draining, errors reported, termination, refinement of PrecomputeAbs, and with it that no result is missing |
| MCTopK | k = 2, 3 costs, 5 offers | the heap is exact |
| MCPrefixTree | 2 keys, depth 2, 3 leafs, 2 values | counts, FindAll, handles, refinement of LeafMap |
| MCTopArcs | 3 states in a chain of 2 phi arcs, 3 tokens, branch factor 2 | the early stop loses nothing, assertions, termination |
| MCTreeSearch | bigram models, 3 tokens, branch 2, beam 2, topk 2, length 3 | only `beam_size` and `length_limit` lose results; refinement of BeamSearch; termination |
| MCCompletion | bigram models, 4 queries, 2 calls in a row | costs, cache, merge, termination |
| MCTyping | all vocabularies over the space and a letter with up to 2 longer tokens; queries of 4 characters: the letter, blanks, tabs, unknown ones; 3 more to come | LPM, the line written, suggestions extend what was typed, every continuation reachable |
| MCCandidates | all vocabularies over 2 characters with up to 3 longer tokens, or 2 of which one has 4 characters; every state of the FST; continuations of 4 | nothing missed, prefix freedom, no assertion fails, termination |
| MCMpc | logs of up to 3 queries and a longer one, topk 2, 2 builds with crashes, short and failed writes | counts, popularity, no index out of range |
| MCResultFile | 3 models (two of one size), 3 configs, 2 objects, 1 file | refused and failed loads do no harm, successful ones repair what others broke |
| MCCompletionTop | MCCompletion with branch factor 1 | **violation**: see below |
| MCCandidatesLPM | MCCandidates | **violation**: see below |

Why the bounds are enough:

* *MCPrecompute.* A worker that overtakes another needs two of each; three states
  give a task in the queue while two run, and one future already consumed.
* *MCTopK.* Two places and three costs give every order and every tie between the
  largest value kept, the next one and the value offered. Five offers fill the
  heap and go on evicting. The theorems lift all of this.
* *MCPrefixTree.* Depth 2 has a leaf below a leaf and two siblings; with three
  leafs one can be erased while another remains below and beside it. Again there
  are theorems.
* *MCTopArcs.* Two phi arcs are the least with which a phi arc may be dropped and
  met again; the weights put it before, at and behind the last place.
* *MCTreeSearch, MCCompletion.* With topk = beam_size = 2 and three tokens a round
  is cut, a child is refused and more results are found than are kept. Two calls
  in a row meet a cache that is empty, partly filled and full, and the second
  call may follow one that threw.
* *MCTyping, MCCandidates.* Tokens of three and four characters have proper
  prefixes that are not tokens, whose phi arcs output several tokens, and cycles
  that the candidate search must give up. Four typed characters hold two unknown
  ones that are adjacent, or apart with a begun token between them; three more are
  as long as the longest token, so that the pending one and the next are complete.
* *MCMpc.* A state with more children's completions than topk, ties in the count,
  and two builds of which either may be cut off at any point; logs whose tries
  have equally many states, so that the second build may count one and read the
  other.
* *MCResultFile.* Two objects and one file, with models of equal and of different
  size and configs that differ in topk, or only in what a file does not say. Any
  number of loads into one object, of files that other processes replace in between.

Deadlock is not checked where the program really ends (one constructor, one
search, a bounded number of calls); `MCPrefixTree` may not stop and checks it.
No symmetry is used, as the runs are short without it.

### Bounds that are not in the code

`MaxQueries` (Completion), `MaxText`, `MaxRest`, `MaxMore` (Encoder, Candidates, Typing),
`MaxBuilds` (Mpc), `MaxStarts` (ResultFile), `MaxOffers` (TopK), `MaxDepth` and
`MaxLeafs` (PrefixTree) bound histories or inputs and appear in guards, or in
properties as the length of continuations looked at.

### Fairness

Each sequential component assumes only that its one thread keeps running
(weak fairness of its next-state relation, in Completion `WF_vars(Call)`: nobody
has to ask). Precompute assumes weak fairness of the constructing thread and of
each worker: the operating system runs every thread, and a beam search visits
finitely many states. That last point is `Terminates` of MCTreeSearch. Strong fairness is
nowhere needed. Mpc and ResultFile state no liveness: nobody has to build, load
or ask.

## 4. The proofs

All are for every value of the constants that the named assumptions allow. Each
proofs module has an inductive invariant whose three facts (it holds initially,
every step keeps it, it implies the property) are lemmas.

* **Precompute_proofs**, last part (`PrecomputeAssumption`: at least one state and one
  worker). `TypeCorrect`, `RaceFree`, `PoolDrained`,
  `ErrorsReported`, `Refines`. `NoDataRace` by itself is not inductive: that no
  two tasks meet at an element needs that no two outstanding tasks are of one
  state and that all are of the current phase (`Outstanding`), what the consumed
  and the ready futures say (`Futures`, `Filled`), and what a worker's place in
  its task says of the task (`Places`); `Control` ties the flags of the
  constructing thread together. The refinement takes each write to the vectors
  to a step of PrecomputeAbs and all others to stutters.
* **Precompute_proofs**, first part, the heap its tasks use (`TopKAssumption`: k >= 1,
  integer costs). `HeapTyped`, `SmallestKept`, `WillInsertCorrect`, `RefusalFinal`.
  The invariant is that the heap holds k smallest (`HeapInv`); exactness counts the
  positions not above the value on both sides.
* **Precompute_proofs**, second part, the task `GetTopArcs` (`TopArcsAssumption`:
  every model satisfies `IsModel`). `CheapestKept`, `LoopLeftInside`,
  `FailureExplained`. While the loop runs exactly one state is queued, and what is
  not yet collected is what the PhiMatcher finds there plus the cost of coming there
  (`Progress`); when phi is not among the cheapest, nothing behind it can be.
* **PrefixTree_proofs** (`PrefixTreeAssumption`: the bounds are natural numbers,
  of any size). `CountsCorrect`, `FindAllComplete`, `HandlesStayValid`,
  `Refinement`. The counts are cardinalities of finite sets of leafs, and one
  insertion or erasure changes exactly the sets of its ancestors by one;
  `FindAllComplete` follows as a node with a leaf below it counts at least 1.
* **Files_proofs**, first part (`ResultFileAssumption`: every model has a state).
  `ThrowsExplained`, `LoadedFits`. The property of an object depends on files
  written earlier by others, so the invariant says what every file holds
  (`FilesFit`) and what every object holds that is not broken (`ObjectFits`),
  including that one without `topArcs` has a result for each state. A file is
  never written from a broken object, as only objects that precomputed save and
  these never load: that is why a successful load repairs.
* **Files_proofs**, second part (`MpcAssumption`: topk is positive, the labels differ,
  a log is a sequence of words over them). `CountsRight`, `BestCompletions`,
  `InRange`. While `CopyToFst` runs, the states are the prefixes of queries whose
  parents have been taken from the queue, each once, and the vectors are filled as
  far as the queue has been taken (`TrieOK`, `VectorsOK`). `TopK` looks only at the
  lists of a state's children, so the invariant of its calls (`StackOK`) says of
  every query below a state that it is in what the call has collected, or below a
  child still to do, or *beaten*: K queries collected rank above it. Sorting and
  erasing keeps that (`BestIsAnswer`), and returning hands it to the caller
  (`ReturnFrame`). A server's two files need not be of one build, nor need the trie
  that `TopK` read be of the log that was counted; but each trie is of
  some complete walk (`FileInv`), and two walks over the same log that
  are complete are equal (`BfsUnique`, `SameTrie`), since the states a log has and
  their order do not depend on the build. That, not the number of states that `Load`
  compares, is why files of the same log give the right answers. For tries of
  different logs the invariant keeps only what `InRange` needs (`RangeOK`): with
  equally many states, no call of `TopK` and no completion names a state beyond them.

* **BeamSearch_proofs** (`ConfigOK`). `BeamsTyped`, `SearchPrices`,
  `SearchLosesNothing`, `SearchFindsEnough`, for the abstract search; they carry
  over to the two modules below, which instantiate this one. That a search loses
  nothing says something only of its end, so the invariant accounts for every
  path at every step (`Covered`): it was cut, or found, or is out of reach for
  good, or something above it is still to be taken. For a path to be out of reach
  for good, the k best costs may only get better, and no path may cost less than
  its beginning; both are lemmas. `Levels` says that a round is about paths of one
  length, which is what the test of `length_limit` counts on; `Priced` that the
  tree holds what the model makes of each path; `Growing` that each level adds a
  result until there are enough.
* **TreeSearch_proofs** (`TreeSearchAssumption`, which is `ConfigOK`). `TreeSound`,
  `Refinement`, `Prices`, `LosesNothing`, `FindsEnough`. The tree takes only steps
  of PrefixTree, with the handles a client has being those of the round, so its
  invariant holds; each step is a step of BeamSearch or changes nothing under the
  mapping, so its invariant holds of the mapped state; `Loops` says what may be
  pending in which loop. `MaxLeafs` bounds the tree of PrefixTree and is taken not
  to be reached.
* **Completion_proofs** (`CompletionAssumption`, which is `ConfigOK`;
  `QueriesAssumption`: every state of the encoder has a sequence, if only the empty
  one). `SuggestionsPriced`, `CacheSound`, `EarlyStopLosesNothing`,
  `RichModelsAnswer`. `CacheHoldsOwn` needs that the search under way is one from
  the state it will be stored for (`Phased`) and prices what it finds (the
  invariant of BeamSearch_proofs, in `Searched`). The answer is about a call that
  is over, so while the merge runs the invariant says which candidates each beam
  that was taken has contributed or lost for good (`Covers`, in `Called`).
* **Candidates_proofs** (`CandidatesAssumption`: `VocabularyOK`, and every character
  has an input label). First, what the FST does. A state is what was read and not yet
  output, and what is right about an arc can only be said together with the text
  behind it. So a phi arc is *right* if its output, followed by the encoding of what
  is pending behind it, is the encoding of what was pending before it, for every text
  that goes on without a longer token of that state (`Right`); an arc for a character
  is right if that holds for every text (`Leads`). `AddPhiTransitions` finds the phi
  arc of a state from that of the state before it and a transition along shorter phi
  arcs, so its breadth-first order is the induction: on the length of the state, for
  the transitions (`GoRight`), the table (`PhiRight`, `PhiTableWorks`), its minimized
  form (`MinimizedWorks`) and the way out (`ExitRight`). About LPM itself it takes that
  a match is cut off, that a token with no longer one is a match, and that an unknown
  character is one (`LPMCut`, `LPMToken`, `LPMUnknown`).
  Then the search: `CandidatesComplete`, `CandidatesPrefixFree`, `CandidatesSucceed`.
  None of the three is inductive. `SearchInv` says of the search under way
  (`Searching`) that the queue is breadth-first, in visits of two adjacent path
  lengths (`Layered`); that a sequence beyond which something has been output is not
  collected and never will be, as the path that ends with it is shorter than all
  still in the queue (`Free`, which gives `PrefixFree`); that where a path took a token
  although the text may go on with a longer one, a visit in the queue is reading or has
  read that one, or what leads to it begins with a sequence collected (`Guided`); and
  that every encoding a text may have from there begins with a sequence collected, or
  may still come of a visit in the queue (`AllCovered`). From `Guided`: of two sequences for one text the
  one that takes the longer token where they part is the shorter (`ForkShorter`), so
  "This should not happen" does not (`NoTie`), and what the filter keeps is enough
  (`MatchKept`). What a node's entry holds then stays as it was stored (`AllStored`).
* **Typing_proofs** (`TypingAssumption`: `VocabulariesOK`, which adds that the space is
  a token and unk is none; `TextAssumption`: the blank is one). `EncodesLPM`,
  `EveryLineReachable`, `SuggestionsExtend`, `ThrowsBare`, `LinesWritten`, for every
  vocabulary and however the typing goes on. `EncInv` says of the text read that,
  whatever follows, the labels output so far and those of the encoding that goes on
  from the state are those of the whole (`Tracks`). `ExitIsLPM` is the case in which
  nothing follows; by itself it says nothing of the state, so it is not inductive.
  `LineReachable` is `EncInv` for the text read and what was stored for the state.
  For the texts, labels are not enough: `TextInv` says that as many unknown
  characters are kept aside as unks were output (`Matched`, which is why the code's
  "OOV size mismatch" cannot fail), and that the texts of the labels, those
  characters in their places, and what is pending in the state are the text read.
  That gives what a suggestion begins with before its blanks are merged; `Split` and
  `Join` are shown to merge blanks and to keep everything else, whatever is put
  behind (`SplitOn`, `SplitSkip`). `WrittenIsLine` needs in addition that what is kept
  aside are unknown characters (`OovInv`), and goes along the labels of the line that
  ends here: what is written for the first of them is their text, in as many tokens
  as there are labels that are not merged with the one before.

The library's induction theorems cannot be used here, as they take an operator
for a hypothesis. `SetInduction` (BeamSearch_proofs, Candidates_proofs, Files_proofs) says the same of
a set, and is proved from the well-foundedness of `<` on `Nat`. With it `Walk`,
`Kept`, `Split`, `Written`, `LPM`, `MakeTransitions`, `PhiTable` and `ExitOutput` are shown to be the
functions that their recursive definitions describe, so that what they compute can be
stated for every input.

Every safety property, action property and refinement that a passing run checks is
a theorem. What stays with TLC is liveness (`Terminates` of Precompute, TreeSearch and
Candidates, `ArcsTerminate`, `EveryCallEnds`), as ENABLED and fairness are out of the
prover's reach. The invariants that carry the proofs of the encoder speak of all
texts that may follow, so no run can check them; the runs check what follows from
them, for continuations within a bound. `IsModel` states the tables `find` and
`exit` as fixpoints of their defining equations, which TLC evaluates for the models
of the runs. The type invariants of the proved modules are theorems and are not
checked again by runs.

## 5. Where the code does not do what the repository says

Two runs end in a counterexample.

* **MCCompletionTop, `AnswersAreTop`.** `Complete` leaves a beam's cached list at
  the first entry that `TopK` refuses (`src/queryblazer.h:222`). That is right
  for a sorted list, but `BeamSearch` sorts only if it found more than topk
  results (line 528). A list of exactly topk results may have a cheap entry
  behind an expensive one, which is then not offered, although README.md:216
  promises "# of top completion candidates to return". `AnswersTopIfSorted` is
  what does hold.
* **MCCandidatesLPM, `OnlyLPM`.** The filter of `CandidateOlabels` keeps the
  shortest of the sequences found for one text (`src/encoder.h:124`). A sequence
  that is the only one found for its text stays even if longest-prefix-match
  would encode the text otherwise, against the comment in line 99. It costs a
  place in the beam, never a completion (`NothingMissed`).

Others were met while modelling and follow from a few lines, without a run:

* `GetTopArcs` asserts that a phi arc is left whenever it has not *more* than
  `branch_factor` arcs (`src/queryblazer.h:331`), so it throws on exactly
  `branch_factor` tokens, although the comment in line 274 reads "Return top
  emitting transitions equal to branch_factor". `FailsOnlyIfFew` has `<=` for
  that reason.
* `PrefixTree::Clear` (`src/prefix_tree.h:260`, "Clear all leafs") keeps a value
  at the empty path while it sets its count to 0. Nothing calls it.
* `length_limit` bounds the depth of one beam search; `Complete` puts the beam's
  own tokens before it, so a candidate may be longer than README.md:217 says.
* Adjacent unknown characters are one token in the training text
  (`src/encode.cc:64`), but `Complete` walks one unk for each of them
  (`src/queryblazer.h:200`); `WrittenIsLine` says that the two encodings differ
  there and nowhere else.
* Blanks of a training line are merged and tabs become blanks
  (`src/encode.cc:41`); those of a query are not, before the suggestion is put
  together.
* `ToString` throws on an empty text (`src/common.h:100`): with nothing typed, a
  suggestion that is only unk makes `Complete` throw. `ThrowsOnlyIfBare` says that
  it takes a vocabulary where no token goes on after a space, so that the space of
  the begin state is lost.
* `test_queryblazer.cc` ignores what `LoadPrecomputed` returns, so a file that
  does not fit makes it search from scratch without a word.

## 6. Assumptions and what is not modelled

* Costs are natural numbers. The models of `script/train.sh` have no backoff weight
  above 1; with one the early stop of `GetTopArcs` would be wrong, and the code
  does not check it. Rounding of floats is left out.
* The pool has a thread. `hardware_concurrency()` may return 0; the constructor
  would then wait for ever.
* ThreadPool (FIFO queue, a destructor that drains and joins), `PhiMatcher::Find`
  and `priority_queue` are modelled from how they are used; `fst::Determinize`
  and `fst::Minimize` are taken not to change what can be observed; Boost throws
  on an archive that is too short, having restored some of the vector. Whether it
  resizes the vector first depends on its version (from 1.58 on it does);
  ResultFile allows both.
* What an object answers from a torn list, after a load threw and before one
  succeeds, is not modelled: nothing in the repository says what it should be.
  `OnlyBrokenThrows` and `ResultsFit` exclude these objects by `broken`.
* A QueryBlazer object serves one call at a time: `Complete` is not const, and
  nothing in the repository shares an object between threads.
* In Mpc the construction of a server from two files is one step, and a short
  file is one that cannot be read.
* Every state of the encoder has at least one sequence, the empty one where there
  is no candidate (`QueriesAssumption` of Completion; `src/queryblazer.h:409`).
* A vocabulary is a finite set of nonempty tokens, with every character of its
  tokens as a token (`VocabularyOK`), the space among them, and unk is not one of them
  (`VocabulariesOK`): sentencepiece keeps them, and `MakeTransitions` throws
  without (`src/transition.h:40`).
* A text is a sequence of characters. The bytes of UTF-8 are an external library's
  matter, and `isspace` on a byte beyond ASCII (`src/common.h:78`) is undefined.
* `PrefixTree::Clear`, which nothing calls; the reading of the vocabulary file and
  the writing of the encoder; the command line tools beyond what they call; the
  Python binding; the scripts, which are pure functions of files.

## 7. What comes next

1. The caches under concurrent readers, if a client of the library comes to share
   an object between threads.
2. Costs as floats, if the early stops turn out to depend on how sums are rounded.
3. The liveness properties, once the prover has rules for fairness.
