------------------------------- MODULE Typing -------------------------------
(***************************************************************************)
(* The text of suggestions (src/queryblazer.h).  A QueryBlazer computes    *)
(* the candidates of all encoder states (Candidates) when it is built.     *)
(* Then a query is typed, and Complete encodes it (Encoder), looks up the  *)
(* candidates of the state it is left in, and puts a text together from    *)
(* the stable prefix, a candidate, and what the model expects after it.    *)
(*                                                                         *)
(* Every call encodes the query from its beginning, which comes to the     *)
(* same as reading on.  Which candidates and completions are the best is   *)
(* the matter of Completion: here the model may choose any.                *)
(***************************************************************************)
EXTENDS Text, Candidates

CONSTANTS Typed,      \* the characters of a query
          Space, Unk,
          MaxText, MaxMore  \* bounds: length of a query, tokens of a completion

VARIABLES text, state, olabels, oovs,  \* of Encoder
          query,       \* what was typed
          outcome,     \* of Complete: "none" yet, "suggested", or "thrown"
          suggestion   \* one of its suggestions

\* std::replace(..., ' ', SPACE), and back
Spaced(line) == ReplaceAll(line, Blank, Space)
Unspaced(line) == ReplaceAll(line, Space, Blank)

Read == INSTANCE Encoder WITH Chars <- {Spaced(<<c>>)[1] : c \in Typed}

ASSUME TypingAssumption == Read!VocabulariesOK /\ MaxMore \in Nat

readVars == <<text, state, olabels, oovs>>
callVars == <<query, outcome, suggestion>>
vars == <<fstVars, searchVars, readVars, callVars>>

Init ==
  /\ CandidatesInit /\ Read!Init
  /\ query = <<>> /\ outcome = "none" /\ suggestion = <<>>

Construct == CandidatesNext /\ UNCHANGED <<readVars, callVars>>

Type(c) ==
  /\ pc = "ready"
  /\ query' = Append(query, c)
  /\ LET char == Spaced(<<c>>)[1] IN Read!ReadKnown(char) \/ Read!ReadUnknown(char)
  /\ outcome' = "none" /\ suggestion' = <<>>
  /\ UNCHANGED searchVars

\* unk is skipped.
Spelling(token) == IF token = Unk THEN <<>> ELSE token

\* The text of a candidate; blanks are merged.
Suggest(tokens) ==
  LET output == Read!StablePrefix \o FlattenSeq([i \in DOMAIN tokens |-> Spelling(tokens[i])]) IN
  IF HasString(output)
    THEN outcome' = "suggested" /\ suggestion' = Join(Split(Unspaced(output)))
    ELSE outcome' = "thrown" /\ UNCHANGED suggestion

Complete ==
  /\ pc = "ready" /\ outcome = "none"
  /\ \E beam \in encoderTransitions[Node(<<>>, state)],
        more \in Texts(vocab \cup {Unk}, MaxMore) : Suggest(beam \o more)
  /\ UNCHANGED <<fstVars, searchVars, readVars, query>>

Next == Construct \/ Complete \/ \E c \in Typed : Type(c)

Spec == Init /\ [][Next]_vars
-----------------------------------------------------------------------------
ExitIsLPM == Read!ExitIsLPM
WrittenIsLine == Read!WrittenIsLine

(* Every suggestion begins with what was typed, however much of it was      *)
(* still open in the encoder: nothing of it is lost, doubled or encoded     *)
(* differently; only its blanks are merged.                                 *)
SuggestionExtends ==
  outcome = "suggested" => IsPrefix(Join(Split(Unspaced(query))), suggestion)

(* Whatever the user is about to type, one of the candidates leads there:   *)
(* the stable prefix and that candidate begin the encoding of the whole     *)
(* line, by which the model was trained.                                    *)
LineReachable ==
  pc = "ready" /\ outcome = "none" =>
    \A rest \in Texts(ExtractCharacters(vocab), MaxRest) :
      \E beam \in encoderTransitions[Node(<<>>, state)] :
        IsPrefix(olabels \o beam, Read!Labels(LPM(vocab, Read!Begun(text \o rest))))

(* Complete does not throw for want of text, unless nothing was typed and   *)
(* the encoder knows no token that goes on after a space.                   *)
ThrowsOnlyIfBare == outcome = "thrown" => query = <<>> /\ Leaf(trie, <<Space>>)
=============================================================================
