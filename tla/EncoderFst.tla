----------------------------- MODULE EncoderFst -----------------------------
(***************************************************************************)
(* The encoder FST as build_encoder.cc builds it from a vocabulary, and    *)
(* the transitions that src/transition.h makes in it.  A token is a        *)
(* sequence of characters, an output a sequence of tokens.                 *)
(*                                                                         *)
(* A state of the FST is a prefix of a token (BuildPrefixTree): what was   *)
(* read and not yet output.  Its phi arc, taken where no arc fits, outputs *)
(* tokens and leads to the state of what remains (AddPhiTransitions).      *)
(* fst::Minimize moves the token of a leaf, a state with no other arc, to  *)
(* the arc that leads there, and changes nothing else that can be seen.    *)
(***************************************************************************)
EXTENDS Integers, Sequences, SequencesExt

Start == <<>>

\* The input symbols but those of DEFAULT_SYMBOLS.
ExtractCharacters(vocab) == UNION {ToSet(t) : t \in vocab}

\* What ReadVocabulary reads: the tokens of a file that sentencepiece wrote,
\* less <unk>, <s> and </s>.
VocabularyOK(vocab) ==
  /\ vocab # {} /\ IsFiniteSet(vocab) /\ vocab \subseteq Seq(ExtractCharacters(vocab))
  /\ \A t \in vocab : t # <<>>
  /\ \A c \in ExtractCharacters(vocab) : <<c>> \in vocab

\* The states: AddToken, Determinize.
Trie(vocab) == UNION {{SubSeq(t, 1, n) : n \in 0 .. Len(t)} : t \in vocab}

\* A state with no arc but phi.
Leaf(trie, s) == s # Start /\ \A t \in trie : ~IsStrictPrefix(s, t)

\* Find of UnsortedMatcher, and of SortedMatcher: there is an arc for c.
Find(trie, s, c) == Append(s, c) \in trie

\* MakeTransitions on a character: phi arcs, which lead to shorter states, until
\* one has an arc for it; a leaf is left again at once.  phi is their table.
MakeTransitions(trie, phi, s, c) ==
  LET go[t \in {t \in trie : Len(t) <= Len(s)}] ==
        LET there == Append(t, c) IN
        IF ~Find(trie, t, c)
          THEN [out |-> phi[t].out \o go[phi[t].to].out, to |-> go[phi[t].to].to]
        ELSE IF Leaf(trie, there)
          THEN [out |-> <<there>>, to |-> Start]
        ELSE [out |-> <<>>, to |-> there]
  IN go[s]

\* AddPhiTransitions, which comes to shorter states first: a token is output;
\* other states do as the state before them does, and read on from there.
\* Every character of a token must be a token itself, or the code throws.
PhiTable(vocab) ==
  LET trie == Trie(vocab)
      phi[s \in trie \ {Start}] ==
        IF s \in vocab
          THEN [out |-> <<s>>, to |-> Start]
          ELSE LET back == phi[Front(s)]
                   on == MakeTransitions(trie, phi, back.to, Last(s))
               IN [out |-> back.out \o on.out, to |-> on.to]
  IN phi

\* fst::Minimize, as far as it can be seen: a leaf's token was output before.
Minimized(trie, phi) ==
  [s \in DOMAIN phi |-> IF Leaf(trie, s) THEN [out |-> <<>>, to |-> Start] ELSE phi[s]]

\* MakeExitTransitions: what is output on the phi arcs to the start state.
ExitOutput(trie, phi, s) ==
  LET exit[t \in trie] == IF t = Start THEN <<>> ELSE phi[t].out \o exit[phi[t].to]
  IN exit[s]
-----------------------------------------------------------------------------
(* What it is meant to compute: longest-prefix-match encoding.  A character *)
(* that no token has is a token of its own.                                 *)
LongestMatch(vocab, text) ==
  LET fit == {n \in 1 .. Len(text) : SubSeq(text, 1, n) \in vocab}
  IN IF fit = {} THEN 1 ELSE CHOOSE n \in fit : \A k \in fit : k <= n

\* The last k characters.
Suffix(text, k) == SubSeq(text, Len(text) - k + 1, Len(text))

LPM(vocab, text) ==
  LET from[k \in 0 .. Len(text)] ==
        IF k = 0 THEN <<>>
        ELSE LET n == LongestMatch(vocab, Suffix(text, k))
             IN <<SubSeq(Suffix(text, k), 1, n)>> \o from[k - n]
  IN from[Len(text)]

Texts(chars, n) == UNION {[1 .. k -> chars] : k \in 0 .. n}
=============================================================================
