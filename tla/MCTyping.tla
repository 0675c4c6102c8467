------------------------------ MODULE MCTyping ------------------------------
(***************************************************************************)
(* Typing on every vocabulary over the space and one letter with up to two *)
(* longer tokens, of at most three characters.  A blank, the letter, a tab *)
(* and another character are typed: the encoder does not know the last two.*)
(***************************************************************************)
EXTENDS Typing, FiniteSets

CONSTANTS a, o, tab

MCTyped == {Blank, a, o, tab}
MCBlanks == {Blank, tab}
MCChars == <<Space, a>>
Longer == [1 .. 2 -> {Space, a}] \cup [1 .. 3 -> {Space, a}]
MCVocabs == {{<<Space>>, <<a>>} \cup more : more \in {m \in SUBSET Longer : Cardinality(m) <= 2}}
=============================================================================
