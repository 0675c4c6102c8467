-------------------------------- MODULE Text --------------------------------
(***************************************************************************)
(* The string operations of src/common.h on texts, which are sequences of  *)
(* characters here.                                                        *)
(***************************************************************************)
EXTENDS Naturals, SequencesExt

CONSTANTS Blank,    \* ' '
          Blanks    \* the characters isspace holds for

ASSUME TextAssumption == Blank \in Blanks

\* The word that was begun, after the others: if it is not empty.
Words(s) == IF s.word = <<>> THEN s.words ELSE Append(s.words, s.word)

\* Split(input): the words between blanks.
Split(input) ==
  LET read[i \in 0 .. Len(input)] ==
        IF i = 0 THEN [words |-> <<>>, word |-> <<>>]
        ELSE IF input[i] \in Blanks THEN [words |-> Words(read[i - 1]), word |-> <<>>]
        ELSE [read[i - 1] EXCEPT !.word = Append(@, input[i])]
  IN Words(read[Len(input)])

\* Join(tokens): one blank between two of them.
Join(words) ==
  FlattenSeq([i \in DOMAIN words |->
                IF i = Len(words) THEN words[i] ELSE Append(words[i], Blank)])

\* ToString of an empty Utf8 throws: output.at(0).
HasString(utf8) == utf8 # <<>>
=============================================================================
