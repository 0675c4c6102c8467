--------------------------------- MODULE Mpc ---------------------------------
(***************************************************************************)
(* Most popular completion: build_mpc (src/build_mpc.cc) counts the        *)
(* queries of a log, numbers the nodes of their trie breadth first, writes *)
(* it, computes for every node the topk most frequent queries below it     *)
(* (Mpc::TopK, src/mpc.h) and writes those.  A server constructs an Mpc    *)
(* from the two files whenever it likes.                                   *)
(*                                                                         *)
(* A build may die between any two steps, and a write may come out short   *)
(* without anybody noticing, or fail altogether, so that the files need    *)
(* not be of one build, nor what TopK reads of the log that was counted.   *)
(* A state of the FST is its number, from 1; a query is a sequence of      *)
(* characters.  The recursion of TopK is an explicit stack.                *)
(***************************************************************************)
EXTENDS Integers, Sequences, SequencesExt, FiniteSets

CONSTANTS Chars,      \* a sequence: the order of the input labels
          Logs,       \* training files: sequences of queries
          K,          \* topk: 10 in main
          MaxBuilds   \* bound on the number of builds, for model checking

ASSUME MpcAssumption ==
  /\ K \in Nat \ {0}
  /\ Chars \in Seq(ToSet(Chars)) /\ IsInjective(Chars)   \* keys of a std::map
  /\ Logs \subseteq Seq(Seq(ToSet(Chars)))

VARIABLES
  pc, builds,            \* build_mpc: where it is ("none": not running); how many ran
  log,                   \* TRAIN_FILE
  nodes, counts, queries, \* per FST state: its prefix; count and query if final
  copied,                \* how many states CopyToFst has taken from its queue
  trie,                  \* of the Mpc in build_mpc: {} or [nodes, log]
  stack,                 \* calls of TopK: [state, todo: children, result]
  completions,           \* per state: pairs [count, idx]
  trieFile, mpcFile,     \* on disk; {} if missing or broken, else a singleton
  server                 \* {} or the Mpc that answers

buildVars == <<builds, log>>
fstVars == <<nodes, counts, queries, copied>>
topkVars == <<trie, stack, completions>>
files == <<trieFile, mpcFile>>
vars == <<pc, buildVars, fstVars, topkVars, files, server>>

Root == <<>>

Init ==
  /\ pc = "none" /\ builds = 0 /\ log = <<>>
  /\ nodes = <<Root>> /\ counts = <<0>> /\ queries = <<Root>> /\ copied = 0
  /\ trie = {} /\ stack = <<>> /\ completions = <<>>
  /\ trieFile = {} /\ mpcFile = {} /\ server = {}
-----------------------------------------------------------------------------
\* CountQueries: how often each query occurs
Frequency(q, lines) == Cardinality({i \in DOMAIN lines : lines[i] = q})
InTrie(p, lines) == \E i \in DOMAIN lines : IsPrefix(p, lines[i])

\* build_mpc is started.
Run(lines) ==
  /\ pc = "none" /\ builds < MaxBuilds
  /\ pc' = "copy" /\ builds' = builds + 1 /\ log' = lines
  /\ UNCHANGED <<fstVars, topkVars, files, server>>

\* The process ends; its memory is gone.
Exit ==
  /\ pc' = "none" /\ log' = <<>>
  /\ nodes' = <<Root>> /\ counts' = <<0>> /\ queries' = <<Root>> /\ copied' = 0
  /\ trie' = {} /\ stack' = <<>> /\ completions' = <<>>
  /\ UNCHANGED builds

\* The members of T that are in the sequence, in its order.
Chosen(seq, T) ==
  LET upTo[n \in 0 .. Len(seq)] == IF n = 0 THEN <<>>
                                   ELSE IF seq[n] \in T THEN Append(upTo[n - 1], seq[n])
                                   ELSE upTo[n - 1]
  IN upTo[Len(seq)]

\* PrefixNode::Children(), a std::map: in the order of the labels.
Children(p, lines) ==
  LET longer == [i \in 1 .. Len(Chars) |-> Append(p, Chars[i])]
  IN Chosen(longer, {q \in ToSet(longer) : InTrie(q, lines)})

\* Mutant: the state added last.
LastState == Len(nodes)
\* The state of the next node in the queue.
NextState == copied + 1

\* CopyToFst takes the next node from its queue: states for its children, and
\* its count and query if it is a query.
CopyNode ==
  LET p == nodes[copied + 1]
      new == Children(p, log)
      n == Frequency(p, log)
      Grown(seq, v, none) == [seq EXCEPT ![NextState] = IF n > 0 THEN v ELSE @]
                               \o [i \in DOMAIN new |-> none]
  IN
  /\ pc = "copy" /\ copied < Len(nodes)
  /\ nodes' = nodes \o new
  /\ counts' = Grown(counts, n, 0)
  /\ queries' = Grown(queries, p, Root)
  /\ copied' = copied + 1
  /\ UNCHANGED <<pc, buildVars, topkVars, files, server>>

\* The states that the arcs of a state of a trie lead to, in the order they
\* were added.
ChildStates(states, s) ==
  Chosen([t \in 1 .. Len(states) |-> t],
         {t \in DOMAIN states : states[t] # Root /\ Front(states[t]) = states[s]})

\* TopK(state) begins with the state's own query; the empty one counts as none.
Own(s) == IF queries[s] # Root THEN <<[count |-> counts[s], idx |-> s]>> ELSE <<>>
Frame(states, s) == [state |-> s, todo |-> ChildStates(states, s), result |-> Own(s)]

\* trie->NumStates() == counts.size()
SizeMatches(read) == Len(read.nodes) = Len(counts)

\* Mpc(trie_file, queries, counts) has read this trie; TopK(trie->Start(), topk)
FindCompletions(read) ==
  /\ SizeMatches(read)
  /\ pc' = "topk" /\ trie' = {read}
  /\ stack' = <<Frame(read.nodes, 1)>>
  /\ completions' = [s \in DOMAIN queries |-> <<>>]
  /\ UNCHANGED <<buildVars, fstVars>>

\* const_fst.Write, whose return value is ignored, and Mpc reads the file back:
\* the trie, or an earlier one if the file could not be opened, or it throws.
WriteTrie ==
  /\ pc = "copy" /\ copied = Len(nodes)
  /\ \/ trieFile' = {[nodes |-> nodes, log |-> log]}
     \/ trieFile' = {}
     \/ trieFile' = trieFile
  /\ \/ \E read \in trieFile' : FindCompletions(read)
     \/ (\A read \in trieFile' : ~SizeMatches(read)) /\ Exit
  /\ UNCHANGED <<mpcFile, server>>

Caller == stack[Len(stack)]

\* TopK(nextstate, topk)
CallChild ==
  /\ pc = "topk" /\ stack # <<>> /\ Caller.todo # <<>>
  /\ \E t \in trie : stack' = Append(stack, Frame(t.nodes, Head(Caller.todo)))
  /\ UNCHANGED <<pc, buildVars, fstVars, trie, completions, files, server>>

\* Mutant: only the state number is compared.
GreaterIdx(x, y) == x.idx > y.idx

\* std::greater<std::pair<size_t, size_t>>
Greater(x, y) == \/ x.count > y.count
                 \/ x.count = y.count /\ x.idx > y.idx

\* std::partial_sort, and erase: the greatest of the pairs, K at most, the greatest
\* first (in the one order there is when they differ).
Best(pairs) ==
  LET m == IF Len(pairs) < K THEN Len(pairs) ELSE K
      Picks == {p \in [1 .. m -> DOMAIN pairs] :
                  /\ \A i, j \in 1 .. m : i < j => p[i] # p[j] /\ ~Greater(pairs[p[j]], pairs[p[i]])
                  /\ \A x \in DOMAIN pairs \ ToSet(p), i \in 1 .. m : ~Greater(pairs[x], pairs[p[i]])}
  IN {[i \in 1 .. m |-> pairs[p[i]]] : p \in Picks}

\* The call returns, and its caller takes the completions over.
ReturnTopK ==
  LET callers == Front(stack) IN
  /\ pc = "topk" /\ stack # <<>> /\ Caller.todo = <<>>
  /\ \E best \in Best(Caller.result) :
       /\ completions' = [completions EXCEPT ![Caller.state] = best]
       /\ stack' = IF callers = <<>> THEN <<>>
                   ELSE [callers EXCEPT ![Len(callers)] =
                           [state |-> @.state, todo |-> Tail(@.todo), result |-> @.result \o best]]
  /\ UNCHANGED <<pc, buildVars, fstVars, trie, files, server>>

\* Save: opening the file truncates it; nobody looks at the stream afterwards.
\* If it cannot be opened, build_mpc throws.
Save ==
  /\ pc = "topk" /\ stack = <<>>
  /\ \/ \E t \in trie : mpcFile' = {[n |-> Len(t.nodes), completions |-> completions,
                                    queries |-> queries, logs |-> <<t.log, log>>]}
     \/ mpcFile' = {}
     \/ mpcFile' = mpcFile
  /\ Exit
  /\ UNCHANGED <<trieFile, server>>

\* The process is killed, perhaps while it writes.
Crash ==
  /\ pc # "none"
  /\ Exit
  /\ UNCHANGED <<files, server>>

-----------------------------------------------------------------------------
(* The server *)

\* Mutant: the number of states is not compared.
FitsAny(read, mpc) == TRUE

\* Load: n == trie->NumStates(), and so many completions and queries.
Fits(read, mpc) == mpc.n = Len(read.nodes)

\* Mpc(trie_file, serialized); otherwise the constructor throws.
Construct(read, mpc) ==
  /\ Fits(read, mpc)
  /\ server' = {[nodes |-> read.nodes, completions |-> mpc.completions, queries |-> mpc.queries,
                 logs |-> <<read.log, mpc.logs[1], mpc.logs[2]>>]}
  /\ UNCHANGED <<pc, buildVars, fstVars, topkVars, files>>

\* Mpc::Complete: the state the prefix leads to, none if a character is not
\* matched; the queries of its pairs.
Complete(m, prefix) ==
  LET at == {s \in DOMAIN m.nodes : m.nodes[s] = prefix} IN
  IF at = {} THEN <<>>
  ELSE LET best == m.completions[CHOOSE s \in at : TRUE]
       IN [i \in DOMAIN best |-> [query |-> m.queries[best[i].idx], count |-> best[i].count]]

Next ==
  \/ \E lines \in Logs : Run(lines)
  \/ CopyNode \/ WriteTrie \/ CallChild \/ ReturnTopK \/ Save \/ Crash
  \/ \E read \in trieFile, mpc \in mpcFile : Construct(read, mpc)

Spec == Init /\ [][Next]_vars

-----------------------------------------------------------------------------
(* The FST has one state for every prefix of a query, and each one's count  *)
(* and query are in the entries of its own number: three vectors filled by  *)
(* a breadth-first walk that numbers states before it comes to them.        *)
CountsOfOwnState ==
  pc = "topk" =>
    /\ IsInjective(nodes)
    /\ ToSet(nodes) = {Root} \cup UNION {{SubSeq(log[i], 1, n) : n \in 0 .. Len(log[i])} : i \in DOMAIN log}
    /\ \A s \in DOMAIN nodes : /\ counts[s] = Frequency(nodes[s], log)
                               /\ queries[s] = IF counts[s] > 0 THEN nodes[s] ELSE Root

\* The different queries of a log that begin with the prefix; none is empty.
Matches(prefix, lines) == {q \in ToSet(lines) : q # Root /\ IsPrefix(prefix, q)}

\* The trie that is served, the one TopK read, and the counts are of one log.
OneLog(m) == m.logs[1] = m.logs[2] /\ m.logs[2] = m.logs[3]

(* An Mpc whose files come from one log answers a prefix with the most      *)
(* frequent queries that begin with it, the most frequent first, up to K of *)
(* them and none twice, although every state of the trie only looked at the *)
(* short lists of its children.                                             *)
MostPopular ==
  \A m \in server : OneLog(m) =>
    \A s \in DOMAIN m.nodes :
      LET prefix == m.nodes[s]
          answer == Complete(m, prefix)
          given == {answer[i].query : i \in DOMAIN answer}
          all == Matches(prefix, m.logs[1])
      IN /\ given \subseteq all
         /\ Cardinality(given) = Len(answer)
         /\ Len(answer) = (IF Cardinality(all) < K THEN Cardinality(all) ELSE K)
         /\ \A i \in DOMAIN answer :
              /\ answer[i].count = Frequency(answer[i].query, m.logs[1])
              /\ \A j \in DOMAIN answer : i < j => answer[i].count >= answer[j].count
              /\ \A q \in all \ given : Frequency(q, m.logs[1]) <= answer[i].count

(* Whatever builds, crashes, short and failed writes left on disk, and      *)
(* whichever trie TopK read, an Mpc that could be constructed answers every *)
(* prefix of its trie without reading past a vector.                        *)
NeverOutOfRange ==
  \A m \in server : \A s \in DOMAIN m.nodes :
    /\ s \in DOMAIN m.completions
    /\ \A i \in DOMAIN m.completions[s] : m.completions[s][i].idx \in DOMAIN m.queries

=============================================================================
