----------------------------- MODULE Candidates -----------------------------
(***************************************************************************)
(* CandidateOlabels (src/encoder.h): from a state of the encoder, the      *)
(* token sequences by which what was typed may continue.  A breadth-first  *)
(* search follows all arcs until the start state; a path is given up when  *)
(* what it output was found to be a sequence already.  Of several          *)
(* sequences for one text the shortest is kept.                            *)
(*                                                                         *)
(* ComputeEncoderTransitions (src/queryblazer.h) keeps the sequences of    *)
(* every state of the FST.                                                 *)
(*                                                                         *)
(* Nodes of the FST are pairs of a state of EncoderFst and the tokens that *)
(* a chain of extra states still has to output before that state: one phi  *)
(* arc outputs one token.                                                  *)
(***************************************************************************)
EXTENDS EncoderFst

CONSTANTS Chars,    \* a sequence: the order of the input labels
          Vocabs, MaxRest

ASSUME CandidatesAssumption ==
  /\ Chars \in Seq(ToSet(Chars)) /\ MaxRest \in Nat
  /\ \A v \in Vocabs : VocabularyOK(v) /\ ExtractCharacters(v) \subseteq ToSet(Chars)

VARIABLES vocab, trie, phi,    \* the encoder
          todo,                \* nodes that are left
          pc,                  \* "search", "found", "ready", or "failed": an assertion
          queue,               \* VisitStates: [olabels, chain, state]
          sequences,
          encoderTransitions   \* node |-> its sequences

fstVars == <<vocab, trie, phi>>
searchVars == <<todo, pc, queue, sequences, encoderTransitions>>
candidatesVars == <<fstVars, searchVars>>

Node(chain, s) == [chain |-> chain, state |-> s]

\* The states of the FST; extra ones where a phi arc outputs several tokens.
\* Leafs have become one state.
Nodes(t, p) ==
  {Node(<<>>, s) : s \in t}
    \cup UNION {{Node(SubSeq(p[s].out, n, Len(p[s].out)), p[s].to) : n \in 2 .. Len(p[s].out)} :
               s \in DOMAIN p}

\* The one of them with the lowest number.
First(nodes) == CHOOSE n \in nodes : TRUE

\* CandidateOlabels begins at the first node that is left.
Visit(nodes) ==
  IF nodes = {} THEN <<>>
  ELSE <<[olabels |-> <<>>, chain |-> First(nodes).chain, state |-> First(nodes).state]>>

CandidatesInit ==
  /\ vocab \in Vocabs
  /\ trie = Trie(vocab) /\ phi = Minimized(trie, PhiTable(vocab))
  /\ todo = Nodes(trie, phi)
  /\ pc = "search"
  /\ queue = Visit(todo)
  /\ sequences = {}
  /\ encoderTransitions = [n \in {} |-> {}]

\* Taking a phi arc that is to output `tokens` on the way to `to`.
Phi(visit, tokens, to) ==
  [olabels |-> Append(visit.olabels, Head(tokens)), chain |-> Tail(tokens), state |-> to]

\* The arc for c, to a leaf with its token.
ReadArc(visit, c) ==
  LET there == Append(visit.state, c) IN
  [olabels |-> IF Leaf(trie, there) THEN Append(visit.olabels, there) ELSE visit.olabels,
   chain |-> <<>>, state |-> there]

\* What a visit puts into the queue, in the order of the input labels: phi
\* comes first.
Arcs(visit) ==
  IF visit.chain # <<>> THEN <<Phi(visit, visit.chain, visit.state)>>
  ELSE IF Leaf(trie, visit.state) THEN <<[visit EXCEPT !.state = Start]>>
  ELSE LET step == phi[visit.state]
           Fits(c) == IF Find(trie, visit.state, c) THEN <<ReadArc(visit, c)>> ELSE <<>>
       IN <<Phi(visit, step.out, step.to)>> \o FlattenSeq([i \in DOMAIN Chars |-> Fits(Chars[i])])

AtStart(visit) == visit.chain = <<>> /\ visit.state = Start

\* A path that has come to the start state.
Arrive ==
  /\ pc = "search" /\ queue # <<>> /\ AtStart(Head(queue))
  /\ queue' = Tail(queue)
  /\ sequences' = sequences \cup ({Head(queue).olabels} \ {<<>>})
  /\ UNCHANGED <<fstVars, todo, pc, encoderTransitions>>

\* Mutant: nothing is given up.
GivenUpNever(visit) == FALSE
\* Mutant: a path is given up when some sequence begins with what it output.
GivenUpEarly(visit) == \E s \in sequences : IsPrefix(visit.olabels, s)
GivenUp(visit) == visit.olabels \in sequences

\* Mutant: a path that is given up stays in the queue.
RestUnpopped(visit) == IF GivenUp(visit) THEN queue ELSE Tail(queue)
\* queue.pop()
Rest(visit) == Tail(queue)

Follow ==
  /\ pc = "search" /\ queue # <<>> /\ ~AtStart(Head(queue))
  /\ LET visit == Head(queue) IN
     queue' = Rest(visit) \o IF GivenUp(visit) THEN <<>> ELSE Arcs(visit)
  /\ UNCHANGED <<fstVars, todo, pc, sequences, encoderTransitions>>

\* str2seq: the shortest sequence for every text.
Shortest ==
  {s \in sequences : \A r \in sequences : FlattenSeq(r) = FlattenSeq(s) => Len(s) <= Len(r)}

\* Mutant: any two sequences for one text.
TieAny == \E r, s \in sequences : r # s /\ FlattenSeq(r) = FlattenSeq(s)
\* QBZ_ASSERT(false, "This should not happen"), in whichever order they come
Tie == \E r, s \in sequences : r # s /\ FlattenSeq(r) = FlattenSeq(s) /\ Len(r) = Len(s)

\* The filter of CandidateOlabels, which returns.
Filter ==
  /\ pc = "search" /\ queue = <<>>
  /\ pc' = IF Tie THEN "failed" ELSE "found"
  /\ sequences' = IF Tie THEN sequences ELSE Shortest
  /\ UNCHANGED <<fstVars, todo, queue, encoderTransitions>>

\* "Getting empty seq from an unexpected encoder state": MakeExitTransitions
\* outputs something on the way from there.
Unexpected(node) == node.chain # <<>> \/ ExitOutput(trie, phi, node.state) # <<>>

\* encoderTransitions.push_back; no sequence at all is the empty sequence.
Store ==
  /\ pc = "found"
  /\ todo' = todo \ {First(todo)}
  /\ queue' = Visit(todo')
  /\ sequences' = {}
  /\ encoderTransitions' =
       [n \in DOMAIN encoderTransitions \cup {First(todo)} |->
          IF n # First(todo) THEN encoderTransitions[n]
          ELSE IF sequences = {} THEN {<<>>} ELSE sequences]
  /\ pc' = IF sequences = {} /\ Unexpected(First(todo)) THEN "failed"
           ELSE IF todo' = {} THEN "ready" ELSE "search"
  /\ UNCHANGED fstVars

CandidatesNext == Arrive \/ Follow \/ Filter \/ Store

CandidatesSpec == CandidatesInit /\ [][CandidatesNext]_candidatesVars

\* One thread runs the loops.
CandidatesFairSpec == CandidatesSpec /\ WF_candidatesVars(CandidatesNext)
-----------------------------------------------------------------------------
(* However the text goes on, its encoding begins with one of the candidates *)
(* of the state it was left in: InitBeams misses no continuation.           *)
NothingMissed ==
  LET node == First(todo) IN
  pc = "found" /\ node.chain = <<>> /\ node.state # Start /\ ~Leaf(trie, node.state) =>
    \A rest \in Texts(ExtractCharacters(vocab), MaxRest) :
      \E s \in sequences : IsPrefix(s, LPM(vocab, node.state \o rest))

(* No candidate begins with another one, so that no completion is reached   *)
(* from two beams.                                                          *)
PrefixFree == \A r, s \in sequences : ~IsStrictPrefix(r, s)

(* No state of the encoder makes the construction fail: "This should not    *)
(* happen" does not, and only the start state and leafs, which have nothing *)
(* left to output, have no sequence.                                        *)
NoAssertionFails == pc # "failed"

(* The searches end, although paths may run around a cycle of the FST.      *)
Terminates == <>(pc \in {"ready", "failed"})

(* encoder.h: "remove those do not comply with LPM encoding".               *)
OnlyLPM == pc = "found" => \A s \in sequences : s = LPM(vocab, FlattenSeq(s))
=============================================================================
