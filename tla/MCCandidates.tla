---------------------------- MODULE MCCandidates ----------------------------
(***************************************************************************)
(* Candidates on vocabularies over two characters with up to three longer  *)
(* tokens, of at most four characters if there are two of them.            *)
(***************************************************************************)
EXTENDS Candidates, FiniteSets

CONSTANTS a, b

MCChars == <<a, b>>
Tokens(n) == [1 .. n -> {a, b}]
MCVocabs ==
  {{<<a>>, <<b>>} \cup more :
     more \in {m \in SUBSET (Tokens(2) \cup Tokens(3)) : Cardinality(m) <= 3}
              \cup {{s, t} : s \in Tokens(2) \cup Tokens(3), t \in Tokens(4)}}
=============================================================================
