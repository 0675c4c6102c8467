------------------------------ MODULE Encoder ------------------------------
(***************************************************************************)
(* Encode (src/encoder.h) on the FST of EncoderFst, and what its two       *)
(* callers make of it.  QueryBlazer::Complete (src/queryblazer.h) encodes  *)
(* what the user has typed so far: what was output is the stable prefix,   *)
(* the state is what may still become part of a longer token.  encode.cc   *)
(* encodes a line the model is to be trained on, leaves the state it ends  *)
(* in, and writes the tokens.                                              *)
(*                                                                         *)
(* Both replace blanks by Space, start in the state that the arc for Space *)
(* leads to, and keep aside the characters that the encoder does not know. *)
(***************************************************************************)
EXTENDS EncoderFst

CONSTANTS Chars,     \* the characters of a text
          Space,     \* SPACE, which stands for a blank
          Unk,       \* the label IDX_UNK
          Vocabs,    \* vocabularies to look at
          MaxText    \* bound on the length of a text, for model checking

\* The encoder knows the space, and unk is no token.
VocabulariesOK == \A v \in Vocabs : VocabularyOK(v) /\ <<Space>> \in v /\ Unk \notin v

VARIABLES vocab, trie, phi,  \* the encoder
          text,              \* history: what was read
          state, olabels,    \* in_state and olabels of Encode
          oovs               \* of its caller: the unknown characters

readVars == <<text, state, olabels, oovs>>
vars == <<vocab, trie, phi, readVars>>

\* encoder_begin_state, after the arc for Space: its output is not used.
Begin == <<Space>>

Init ==
  /\ vocab \in Vocabs
  /\ trie = Trie(vocab) /\ phi = Minimized(trie, PhiTable(vocab))
  /\ text = <<>> /\ state = Begin /\ olabels = <<>> /\ oovs = <<>>

\* A character with an input label.
ReadKnown(c) ==
  LET step == MakeTransitions(trie, phi, state, c) IN
  /\ c \in ExtractCharacters(vocab) /\ Len(text) < MaxText
  /\ text' = Append(text, c)
  /\ state' = step.to
  /\ olabels' = olabels \o step.out
  /\ UNCHANGED <<vocab, trie, phi, oovs>>

\* Mutant: the pending state is not left first.
LeftAtOnce == <<Unk>>
\* The labels output for an unknown one: exit to the start state, then unk.
Left == ExitOutput(trie, phi, state) \o <<Unk>>

\* IDX_UNK in place of a character without an input label.
ReadUnknown(c) ==
  /\ c \notin ExtractCharacters(vocab) /\ Len(text) < MaxText
  /\ text' = Append(text, c)
  /\ state' = Start
  /\ olabels' = olabels \o Left
  /\ oovs' = Append(oovs, c)
  /\ UNCHANGED <<vocab, trie, phi>>

Next == \E c \in Chars : ReadKnown(c) \/ ReadUnknown(c)

Spec == Init /\ [][Next]_vars
-----------------------------------------------------------------------------
\* What labels stand for: unk is replaced by the next of oovs.
Unks(labels, n) == Cardinality({i \in 1 .. n : labels[i] = Unk})
TextOf(labels, i) == IF labels[i] = Unk THEN <<oovs[Unks(labels, i)]>> ELSE labels[i]

\* Mutant: unk is skipped here too.
StablePrefixKnown ==
  FlattenSeq([i \in DOMAIN olabels |-> IF olabels[i] = Unk THEN <<>> ELSE olabels[i]])
\* Complete: stable_prefix
StablePrefix == FlattenSeq([i \in DOMAIN olabels |-> TextOf(olabels, i)])

\* encode.cc: the line ends here, and is encoded with complete = true.
Encoded == olabels \o ExitOutput(trie, phi, state)

\* Mutant: prev_oov stays set.
PrevOovOnce(labels, i) == \E j \in 1 .. i - 1 : labels[j] = Unk
\* prev_oov before the i-th label
PrevOov(labels, i) == i > 1 /\ labels[i - 1] = Unk

\* The tokens that are written: adjacent unknown characters make one.
Written ==
  LET labels == Encoded
      output[i \in 0 .. Len(labels)] ==
        IF i = 0 THEN <<>>
        ELSE IF labels[i] = Unk /\ PrevOov(labels, i)
          THEN Append(Front(output[i - 1]), Last(output[i - 1]) \o TextOf(labels, i))
        ELSE Append(output[i - 1], TextOf(labels, i))
  IN output[Len(labels)]
-----------------------------------------------------------------------------
Labels(tokens) == [i \in DOMAIN tokens |-> IF tokens[i] \in vocab THEN tokens[i] ELSE Unk]

\* A text begins with a space; where no token goes on after one, the space is
\* lost with the output of its arc.
Begun(line) == IF Leaf(trie, Begin) THEN line ELSE Begin \o line

(* Wherever the text ends, leaving the encoder there gives its longest-     *)
(* prefix-match encoding: the phi arcs that AddPhiTransitions adds back out *)
(* of a token that was begun and not finished, in a text with characters    *)
(* the encoder does not know.                                               *)
ExitIsLPM == Encoded = Labels(LPM(vocab, Begun(text)))

(* What encode.cc writes is the line it read, every unknown character back  *)
(* in its place; and a model trained on it has met the labels that Complete *)
(* would walk for that line, unless two unknown characters are adjacent.    *)
WrittenIsLine ==
  /\ FlattenSeq(Written) = Begun(text)
  /\ LET Oov(i) == text[i] \notin ExtractCharacters(vocab)
     IN Labels(Written) = Encoded <=> ~\E i \in 2 .. Len(text) : Oov(i - 1) /\ Oov(i)
=============================================================================
