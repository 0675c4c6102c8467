------------------------- MODULE Candidates_proofs -------------------------
(***************************************************************************)
(* Proofs about the encoder FST and its candidates, for every vocabulary.  *)
(*                                                                         *)
(* First come longest-prefix-match encoding itself and the trie.  Then     *)
(* three recursions, each by induction on the length of the state: a       *)
(* transition (Go), a phi arc (PhiTable), the way out (ExitOutput).  Each  *)
(* is right in this sense: the tokens it outputs, followed by the encoding *)
(* of what is pending afterwards, are the encoding of what was pending     *)
(* before, whatever text follows that gives the state no longer token      *)
(* (Right, Leads).  So the phi arcs that AddPhiTransitions finds           *)
(* (src/build_encoder.cc) and the transitions that Encode makes            *)
(* (src/transition.h, src/encoder.h) give what taking the longest token at *)
(* the front again and again would give.                                   *)
(*                                                                         *)
(* Then the search of CandidateOlabels (src/encoder.h), for all nodes in   *)
(* turn (ComputeEncoderTransitions, src/queryblazer.h): its invariant      *)
(* SearchInv says which sequences are found, that they and the visits      *)
(* still to come cover the encodings of all texts that may follow, and     *)
(* that no sequence begins with another.                                   *)
(***************************************************************************)
EXTENDS Candidates, FiniteSets, SequenceTheorems, FiniteSetTheorems, NaturalsInduction, TLAPS

(* A nonempty set of numbers has a least one. *)
LEMMA Least ==
  ASSUME NEW S \in SUBSET Nat, S # {}
  PROVE  \E n \in S : \A m \in S : n <= m
<1> DEFINE Less == OpToRel(<, Nat)
<1>1. PICK n \in S : \A m \in S : <<m, n>> \notin Less
  <2>1. IsWellFoundedOn(Less, Nat)
    BY NatLessThanWellFounded
  <2> HIDE DEF Less
  <2> QED
    BY <2>1, WFMin
<1>2. \A m \in S : ~(m < n)
  BY <1>1 DEF OpToRel
<1> QED
  BY <1>2

(* What holds of a number as soon as it holds of all below holds of all. *)
LEMMA SetInduction ==
  ASSUME NEW S, \A n \in Nat : (\A k \in 0 .. n - 1 : k \in S) => n \in S
  PROVE  Nat \subseteq S
<1> SUFFICES ASSUME Nat \ S # {} PROVE FALSE
  OBVIOUS
<1>1. PICK n \in Nat \ S : \A m \in Nat \ S : n <= m
  BY Least
<1>2. \A k \in 0 .. n - 1 : k \in S
  BY <1>1
<1> QED
  BY <1>1, <1>2
-----------------------------------------------------------------------------
(* Longest-prefix-match *)

Fit(v, line) == {n \in 1 .. Len(line) : SubSeq(line, 1, n) \in v}

\* The longest token at the front, or one character where there is none.
LEMMA LongestFacts ==
  ASSUME NEW C, NEW v, NEW line \in Seq(C), line # <<>>
  PROVE  /\ LongestMatch(v, line) \in 1 .. Len(line)
         /\ Fit(v, line) = {} => LongestMatch(v, line) = 1
         /\ Fit(v, line) # {} => LongestMatch(v, line) \in Fit(v, line)
         /\ \A k \in Fit(v, line) : k <= LongestMatch(v, line)
<1> DEFINE fit == Fit(v, line)
<1>1. Len(line) \in Nat \ {0}
  BY EmptySeq
<1>2. LongestMatch(v, line) = IF fit = {} THEN 1 ELSE CHOOSE n \in fit : \A k \in fit : k <= n
  BY DEF LongestMatch, Fit
<1>3. CASE fit = {}
  <2>1. LongestMatch(v, line) = 1 /\ 1 \in 1 .. Len(line)
    BY <1>1, <1>2, <1>3
  <2> QED
    BY <2>1, <1>3
<1>4. CASE fit # {}
  <2>1. fit \subseteq 1 .. Len(line)
    BY DEF Fit
  <2> HIDE DEF fit
  <2>2. \E n \in fit : \A k \in fit : k <= n
    <3> DEFINE S == {Len(line) - k : k \in fit}
    <3>0. \A k \in fit : k \in Nat /\ Len(line) - k \in Nat
      BY <1>1, <2>1
    <3>1. S \in SUBSET Nat /\ S # {}
      BY <1>4, <3>0
    <3>2. PICK m \in S : \A j \in S : m <= j
      BY <3>1, Least
    <3>3. PICK n \in fit : m = Len(line) - n
      BY <3>2
    <3>4. \A k \in fit : k <= n
      <4> SUFFICES ASSUME NEW k \in fit PROVE k <= n
        OBVIOUS
      <4>1. Len(line) - n <= Len(line) - k
        BY <3>2, <3>3
      <4> QED
        BY <1>1, <3>0, <4>1
    <3> QED
      BY <3>4
  <2>3. LongestMatch(v, line) \in fit /\ \A k \in fit : k <= LongestMatch(v, line)
    BY <1>2, <1>4, <2>2
  <2>4. LongestMatch(v, line) \in 1 .. Len(line)
    BY <2>1, <2>3
  <2> QED
    BY <1>4, <2>3, <2>4 DEF fit
<1> QED
  BY <1>3, <1>4

\* The last k characters, one by one.
LEMMA SuffixFacts ==
  ASSUME NEW C, NEW line \in Seq(C), NEW k \in 0 .. Len(line)
  PROVE  /\ Suffix(line, k) \in Seq(C) /\ Len(Suffix(line, k)) = k
         /\ \A i \in 1 .. k : Suffix(line, k)[i] = line[Len(line) - k + i]
<1>1. Len(line) \in Nat /\ k \in Nat /\ k <= Len(line)
  OBVIOUS
<1>2. \A i \in (Len(line) - k + 1) .. Len(line) : line[i] \in C
  BY <1>1, ElementOfSeq
<1>3. Len(line) - k + 1 \in Int
  BY <1>1
<1>4. /\ SubSeq(line, Len(line) - k + 1, Len(line)) \in Seq(C)
      /\ Len(SubSeq(line, Len(line) - k + 1, Len(line))) =
           IF Len(line) - k + 1 <= Len(line) THEN Len(line) - (Len(line) - k + 1) + 1 ELSE 0
      /\ \A i \in 1 .. Len(line) - (Len(line) - k + 1) + 1 :
           SubSeq(line, Len(line) - k + 1, Len(line))[i] = line[(Len(line) - k + 1) + i - 1]
  BY <1>1, <1>2, <1>3, SubSeqProperties
<1> QED
  BY <1>1, <1>4 DEF Suffix

\* The first token of the last k characters, and its length.
Match(v, line, k) == LongestMatch(v, Suffix(line, k))
Token(v, line, k) == <<SubSeq(Suffix(line, k), 1, Match(v, line, k))>>

\* `from` is the encoding of the last k characters, for each k up to N.
FromAt(v, line, from, k) == IF k = 0 THEN <<>> ELSE Token(v, line, k) \o from[k - Match(v, line, k)]
IsFrom(v, line, N, from) == from = [k \in 0 .. N |-> FromAt(v, line, from, k)]

\* Something is always taken, and never more than is left.
LEMMA Matches ==
  ASSUME NEW C, NEW v, NEW line \in Seq(C)
  PROVE  \A k \in 1 .. Len(line) : Match(v, line, k) \in 1 .. k
<1> SUFFICES ASSUME NEW k \in 1 .. Len(line)
             PROVE  Match(v, line, k) \in 1 .. k
  OBVIOUS
<1>1. k \in 0 .. Len(line) /\ k # 0
  OBVIOUS
<1>2. Suffix(line, k) \in Seq(C) /\ Len(Suffix(line, k)) = k
  BY <1>1, SuffixFacts
<1>3. Suffix(line, k) # <<>>
  BY <1>1, <1>2
<1> QED
  BY <1>2, <1>3, LongestFacts DEF Match

\* LPM is defined on every text: by induction on the characters left.
LEMMA FromExists ==
  ASSUME NEW C, NEW v, NEW line \in Seq(C)
  PROVE  \E from : IsFrom(v, line, Len(line), from)
<1> DEFINE S == {N \in Nat : N <= Len(line) => \E from : IsFrom(v, line, N, from)}
<1>0. \A k \in 1 .. Len(line) : Match(v, line, k) \in 1 .. k
  BY Matches
<1>1. ASSUME NEW N \in Nat, \A k \in 0 .. N - 1 : k \in S PROVE N \in S
  <2> SUFFICES ASSUME N <= Len(line) PROVE \E from : IsFrom(v, line, N, from)
    OBVIOUS
  <2>1. CASE N = 0
    <3>1. IsFrom(v, line, 0, [k \in 0 .. 0 |-> <<>>])
      BY DEF IsFrom, FromAt
    <3> QED
      BY <2>1, <3>1
  <2>2. CASE N # 0
    <3>1. N - 1 \in S /\ N - 1 \in Nat
      BY <1>1, <2>2
    <3>2. PICK from : IsFrom(v, line, N - 1, from)
      BY <3>1
    <3> DEFINE new == [k \in 0 .. N |->
                         IF k = N THEN Token(v, line, N) \o from[N - Match(v, line, N)]
                         ELSE from[k]]
    <3>3. \A k \in 0 .. N - 1 : new[k] = from[k]
      OBVIOUS
    <3>4. new[N] = Token(v, line, N) \o from[N - Match(v, line, N)]
      OBVIOUS
    <3>7. new = [k \in 0 .. N |-> new[k]]
      OBVIOUS
    <3> HIDE DEF new
    <3>5. \A k \in 1 .. N : new[k] = Token(v, line, k) \o new[k - Match(v, line, k)]
      <4> SUFFICES ASSUME NEW k \in 1 .. N
                   PROVE  new[k] = Token(v, line, k) \o new[k - Match(v, line, k)]
        OBVIOUS
      <4>1. new[k - Match(v, line, k)] = from[k - Match(v, line, k)]
        <5>1. Match(v, line, k) \in 1 .. k
          BY <1>0
        <5>2. k - Match(v, line, k) \in 0 .. N - 1
          BY <5>1
        <5> QED
          BY <3>3, <5>2
      <4>2. CASE k = N
        BY <3>4, <4>1, <4>2
      <4>3. CASE k # N
        <5>1. k \in 0 .. N - 1 /\ k # 0
          BY <4>3
        <5>2. from[k] = Token(v, line, k) \o from[k - Match(v, line, k)]
          BY <3>2, <5>1 DEF IsFrom, FromAt
        <5> QED
          BY <3>3, <4>1, <5>1, <5>2
      <4> QED
        BY <4>2, <4>3
    <3>6. new[0] = <<>>
      <4>1. 0 \in 0 .. N - 1
        BY <2>2
      <4>2. from[0] = <<>>
        BY <3>2, <4>1 DEF IsFrom, FromAt
      <4> QED
        BY <3>3, <4>1, <4>2
    <3>8. \A k \in 0 .. N : new[k] = FromAt(v, line, new, k)
      <4>1. \A k \in 0 .. N : k = 0 \/ k \in 1 .. N
        OBVIOUS
      <4> QED
        BY <3>5, <3>6, <4>1 DEF FromAt
    <3>9. IsFrom(v, line, N, new)
      BY <3>7, <3>8 DEF IsFrom
    <3> QED
      BY <3>9
  <2> QED
    BY <2>1, <2>2
<1>2. Nat \subseteq S
  <2> HIDE DEF S
  <2> QED
    BY <1>1, SetInduction
<1> QED
  BY <1>2

\* The function by which LPM is defined.
From(v, line) == CHOOSE from : IsFrom(v, line, Len(line), from)

\* The equation LPM is defined by.
LEMMA FromDef ==
  ASSUME NEW C, NEW v, NEW line \in Seq(C)
  PROVE  /\ LPM(v, line) = From(v, line)[Len(line)]
         /\ From(v, line)[0] = <<>>
         /\ \A k \in 1 .. Len(line) :
              From(v, line)[k] = Token(v, line, k) \o From(v, line)[k - Match(v, line, k)]
<1> DEFINE N == Len(line)
<1>1. IsFrom(v, line, N, From(v, line))
  <2>1. \E from : IsFrom(v, line, N, from)
    BY FromExists
  <2> HIDE DEF N
  <2>2. IsFrom(v, line, N, CHOOSE from : IsFrom(v, line, N, from))
    BY <2>1, Zenon
  <2> QED
    BY <2>2, Zenon DEF From, N
<1>2. LPM(v, line) = From(v, line)[Len(line)]
  BY DEF LPM, From, IsFrom, FromAt, Token, Match
<1>3. N \in Nat
  OBVIOUS
<1> DEFINE from == From(v, line)
<1> HIDE DEF from, N
<1>4. \A k \in 0 .. N : from[k] = FromAt(v, line, from, k)
  BY <1>1 DEF IsFrom, from
<1>5. from[0] = <<>>
  BY <1>3, <1>4 DEF FromAt
<1>6. \A k \in 1 .. N : from[k] = Token(v, line, k) \o from[k - Match(v, line, k)]
  <2> SUFFICES ASSUME NEW k \in 1 .. N
               PROVE  from[k] = Token(v, line, k) \o from[k - Match(v, line, k)]
    OBVIOUS
  <2>1. k \in 0 .. N /\ k # 0
    BY <1>3
  <2> QED
    BY <1>4, <2>1 DEF FromAt
<1> QED
  BY <1>2, <1>5, <1>6 DEF from, N

(* The function for a text says of a shorter end what the function for that *)
(* end says.                                                                *)
LEMMA FromSuffix ==
  ASSUME NEW C, NEW v, NEW line \in Seq(C), NEW m \in 0 .. Len(line)
  PROVE  LPM(v, Suffix(line, m)) = From(v, line)[m]
<1> DEFINE end == Suffix(line, m)
           P == From(v, line)
           Q == From(v, end)
           S == {k \in Nat : k <= m => Q[k] = P[k]}
<1>1. Len(line) \in Nat /\ m \in Nat /\ m <= Len(line)
  OBVIOUS
<1>2. /\ end \in Seq(C) /\ Len(end) = m
      /\ \A i \in 1 .. m : end[i] = line[Len(line) - m + i]
  BY SuffixFacts
<1>3. ASSUME NEW k \in 0 .. m PROVE Suffix(end, k) = Suffix(line, k)
  <2>1. k \in 0 .. Len(line)
    BY <1>1
  <2>2. /\ Suffix(line, k) \in Seq(C) /\ Len(Suffix(line, k)) = k
        /\ \A i \in 1 .. k : Suffix(line, k)[i] = line[Len(line) - k + i]
    BY <2>1, SuffixFacts
  <2>3. k \in 0 .. Len(end)
    BY <1>2
  <2> HIDE DEF end
  <2>4. /\ Suffix(end, k) \in Seq(C) /\ Len(Suffix(end, k)) = k
        /\ \A i \in 1 .. k : Suffix(end, k)[i] = end[Len(end) - k + i]
    <3>1. end \in Seq(C)
      BY <1>2
    <3> QED
      BY <2>3, <3>1, SuffixFacts
  <2>5. \A i \in 1 .. k : Suffix(end, k)[i] = Suffix(line, k)[i]
    <3> SUFFICES ASSUME NEW i \in 1 .. k PROVE Suffix(end, k)[i] = Suffix(line, k)[i]
      OBVIOUS
    <3>1. m - k + i \in 1 .. m /\ Len(line) - m + (m - k + i) = Len(line) - k + i
      BY <1>1
    <3>2. Suffix(end, k)[i] = end[m - k + i]
      BY <1>2, <2>4
    <3>3. end[m - k + i] = line[Len(line) - k + i]
      BY <1>2, <3>1
    <3> QED
      BY <2>2, <3>2, <3>3
  <2> QED
    BY <2>2, <2>4, <2>5, SeqEqual
<1>4. /\ P[0] = <<>>
      /\ \A k \in 1 .. Len(line) : P[k] = Token(v, line, k) \o P[k - Match(v, line, k)]
  BY FromDef
<1>5. /\ LPM(v, end) = Q[m] /\ Q[0] = <<>>
      /\ \A k \in 1 .. m : Q[k] = Token(v, end, k) \o Q[k - Match(v, end, k)]
  BY <1>2, FromDef
<1>6. \A k \in 1 .. m : Match(v, line, k) \in 1 .. k
  BY <1>1, Matches
<1>7. \A k \in 1 .. m : Token(v, end, k) = Token(v, line, k) /\ Match(v, end, k) = Match(v, line, k)
  <2> SUFFICES ASSUME NEW k \in 1 .. m
               PROVE  Token(v, end, k) = Token(v, line, k) /\ Match(v, end, k) = Match(v, line, k)
    OBVIOUS
  <2>1. k \in 0 .. m
    BY <1>1
  <2>2. Suffix(end, k) = Suffix(line, k)
    BY <1>3, <2>1
  <2> HIDE DEF end
  <2> QED
    BY <2>2 DEF Token, Match
<1> HIDE DEF end, P, Q
<1>8. ASSUME NEW k \in Nat, \A j \in 0 .. k - 1 : j \in S PROVE k \in S
  <2> SUFFICES ASSUME k <= m PROVE Q[k] = P[k]
    OBVIOUS
  <2>1. CASE k = 0
    BY <1>4, <1>5, <2>1
  <2>2. CASE k # 0
    <3>1. k \in 1 .. m /\ k \in 1 .. Len(line)
      BY <1>1, <2>2
    <3> DEFINE j == k - Match(v, line, k)
    <3>2. j \in 0 .. k - 1 /\ j <= m
      BY <1>6, <3>1
    <3>3. Q[j] = P[j]
      BY <1>8, <3>2
    <3>4. P[k] = Token(v, line, k) \o P[j]
      BY <1>4, <3>1
    <3>5. Q[k] = Token(v, line, k) \o Q[j]
      BY <1>5, <1>7, <3>1
    <3> QED
      BY <3>3, <3>4, <3>5
  <2> QED
    BY <2>1, <2>2
<1>9. Nat \subseteq S
  <2> HIDE DEF S
  <2> QED
    BY <1>8, SetInduction
<1>10. Q[m] = P[m]
  BY <1>1, <1>9
<1> QED
  BY <1>5, <1>10 DEF end, P

\* Nothing is encoded as nothing.
LEMMA LPMEmpty == \A v : LPM(v, <<>>) = <<>>
<1>0. SUFFICES ASSUME NEW v, NEW line \in Seq(Nat), Len(line) = 0, line = <<>>
               PROVE  LPM(v, line) = <<>>
  <2>1. <<>> \in Seq(Nat) /\ Len(<<>>) = 0
    OBVIOUS
  <2> QED
    BY <2>1
<1>1. LPM(v, line) = From(v, line)[Len(line)] /\ From(v, line)[0] = <<>>
  <2>1. line \in Seq(Nat)
    BY <1>0
  <2> QED
    BY <2>1, FromDef
<1> QED
  BY <1>0, <1>1

(* The encoding of a text is its longest match, and the encoding of the rest. *)
LEMMA LPMStep ==
  ASSUME NEW C, NEW v, NEW line \in Seq(C), line # <<>>
  PROVE  LPM(v, line) = <<SubSeq(line, 1, LongestMatch(v, line))>>
                          \o LPM(v, Suffix(line, Len(line) - LongestMatch(v, line)))
<1> DEFINE L == Len(line)
           n == LongestMatch(v, line)
<1>1. L \in Nat /\ L \in 1 .. L
  BY EmptySeq
<1>2. n \in 1 .. L
  BY LongestFacts
<1>3. Suffix(line, L) = line
  <2>1. SubSeq(line, L - L + 1, L) = SubSeq(line, 1, L)
    BY <1>1
  <2> QED
    BY <2>1, SubSeqFull DEF Suffix
<1>4. Token(v, line, L) = <<SubSeq(line, 1, n)>> /\ Match(v, line, L) = n
  BY <1>3 DEF Token, Match
<1>5. LPM(v, line) = From(v, line)[L]
  BY FromDef
<1>6. From(v, line)[L] = Token(v, line, L) \o From(v, line)[L - Match(v, line, L)]
  BY <1>1, FromDef
<1>7. L - n \in 0 .. L
  BY <1>1, <1>2
<1>8. LPM(v, Suffix(line, L - n)) = From(v, line)[L - n]
  BY <1>7, FromSuffix
<1> QED
  BY <1>4, <1>5, <1>6, <1>8

(* It is a sequence of texts. *)
LEMMA LPMType ==
  ASSUME NEW C, NEW v, NEW line \in Seq(C)
  PROVE  LPM(v, line) \in Seq(Seq(C))
<1> DEFINE P == From(v, line)
           S == {k \in Nat : k <= Len(line) => P[k] \in Seq(Seq(C))}
<1>1. /\ LPM(v, line) = P[Len(line)] /\ P[0] = <<>>
      /\ \A k \in 1 .. Len(line) : P[k] = Token(v, line, k) \o P[k - Match(v, line, k)]
  BY FromDef
<1>2. Len(line) \in Nat /\ \A k \in 1 .. Len(line) : Match(v, line, k) \in 1 .. k
  BY Matches
<1>3. \A k \in 1 .. Len(line) : Token(v, line, k) \in Seq(Seq(C))
  <2> SUFFICES ASSUME NEW k \in 1 .. Len(line) PROVE Token(v, line, k) \in Seq(Seq(C))
    OBVIOUS
  <2>1. k \in 0 .. Len(line)
    BY <1>2
  <2>2. Suffix(line, k) \in Seq(C) /\ Len(Suffix(line, k)) = k
    BY <2>1, SuffixFacts
  <2>3. Match(v, line, k) \in 1 .. k
    BY <1>2
  <2> DEFINE end == Suffix(line, k)
             n == Match(v, line, k)
  <2>4. \A i \in 1 .. n : end[i] \in C
    BY <2>2, <2>3, ElementOfSeq
  <2>5. SubSeq(end, 1, n) \in Seq(C)
    <3>1. n \in Int
      BY <2>3
    <3> HIDE DEF end, n
    <3> QED
      BY <2>4, <3>1, SubSeqProperties
  <2> HIDE DEF end, n
  <2>6. <<SubSeq(end, 1, n)>> \in Seq(Seq(C))
    BY <2>5
  <2> QED
    BY <2>6 DEF Token, end, n
<1> HIDE DEF P
<1>4. ASSUME NEW k \in Nat, \A j \in 0 .. k - 1 : j \in S PROVE k \in S
  <2> SUFFICES ASSUME k <= Len(line) PROVE P[k] \in Seq(Seq(C))
    OBVIOUS
  <2>1. CASE k = 0
    <3>1. <<>> \in Seq(Seq(C))
      OBVIOUS
    <3> QED
      BY <1>1, <2>1, <3>1
  <2>2. CASE k # 0
    <3>1. k \in 1 .. Len(line)
      BY <1>2, <2>2
    <3> DEFINE j == k - Match(v, line, k)
    <3>2. j \in 0 .. k - 1 /\ j <= Len(line)
      BY <1>2, <3>1
    <3>3. P[j] \in Seq(Seq(C))
      BY <1>4, <3>2
    <3>4. P[k] = Token(v, line, k) \o P[j] /\ Token(v, line, k) \in Seq(Seq(C))
      BY <1>1, <1>3, <3>1
    <3> QED
      BY <3>3, <3>4, ConcatProperties
  <2> QED
    BY <2>1, <2>2
<1>5. Nat \subseteq S
  <2> HIDE DEF S
  <2> QED
    BY <1>4, SetInduction
<1> QED
  BY <1>1, <1>2, <1>5

\* Kept folded: the provers take concatenations and tuples of bound variables
\* in an equation apart.
Cat(s, t) == s \o t
One(x) == <<x>>

\* Concatenation is associative, with the empty sequence as its unit.
LEMMA CatAlgebra ==
  ASSUME NEW S
  PROVE  /\ \A s, t \in Seq(S) : Cat(s, t) \in Seq(S)
         /\ \A s, t, u \in Seq(S) : Cat(Cat(s, t), u) = Cat(s, Cat(t, u))
         /\ \A s \in Seq(S) : Cat(s, <<>>) = s /\ Cat(<<>>, s) = s
         /\ \A x \in S : One(x) \in Seq(S)
         /\ \A s \in Seq(S), x \in S : Append(s, x) = Cat(s, One(x))
<1>1. \A s, t \in Seq(S) : Cat(s, t) \in Seq(S)
  BY ConcatProperties DEF Cat
<1>2. \A s, t, u \in Seq(S) : Cat(Cat(s, t), u) = Cat(s, Cat(t, u))
  BY ConcatAssociative DEF Cat
<1>3. \A s \in Seq(S) : Cat(s, <<>>) = s /\ Cat(<<>>, s) = s
  BY ConcatEmptySeq DEF Cat
<1>4. \A x \in S : One(x) \in Seq(S)
  BY DEF One
<1>5. \A s \in Seq(S), x \in S : Append(s, x) = Cat(s, One(x))
  BY AppendIsConcat DEF Cat, One
<1> QED
  BY <1>1, <1>2, <1>3, <1>4, <1>5

\* Both parts can be taken out of a concatenation again.
LEMMA ConcatParts ==
  ASSUME NEW C, NEW s \in Seq(C), NEW rest \in Seq(C)
  PROVE  /\ Cat(s, rest) \in Seq(C) /\ Len(Cat(s, rest)) = Len(s) + Len(rest)
         /\ Len(s) \in Nat /\ Len(rest) \in Nat
         /\ SubSeq(Cat(s, rest), 1, Len(s)) = s /\ Suffix(Cat(s, rest), Len(rest)) = rest
         /\ \A i \in 1 .. Len(s) : Cat(s, rest)[i] = s[i]
         /\ \A i \in 1 .. Len(rest) : Cat(s, rest)[Len(s) + i] = rest[i]
<1>0. SUFFICES ASSUME NEW x, x = Cat(s, rest)
               PROVE  /\ x \in Seq(C) /\ Len(x) = Len(s) + Len(rest)
                      /\ Len(s) \in Nat /\ Len(rest) \in Nat
                      /\ SubSeq(x, 1, Len(s)) = s /\ Suffix(x, Len(rest)) = rest
                      /\ \A i \in 1 .. Len(s) : x[i] = s[i]
                      /\ \A i \in 1 .. Len(rest) : x[Len(s) + i] = rest[i]
  OBVIOUS
<1>1. Len(s) \in Nat /\ Len(rest) \in Nat
  OBVIOUS
<1>2. /\ x \in Seq(C) /\ Len(x) = Len(s) + Len(rest)
      /\ \A i \in 1 .. Len(s) + Len(rest) : x[i] = IF i <= Len(s) THEN s[i] ELSE rest[i - Len(s)]
  BY <1>0, ConcatProperties DEF Cat
<1>3. \A i \in 1 .. Len(s) : x[i] = s[i]
  BY <1>1, <1>2
<1>4. \A i \in 1 .. Len(rest) : x[Len(s) + i] = rest[i]
  <2> SUFFICES ASSUME NEW i \in 1 .. Len(rest) PROVE x[Len(s) + i] = rest[i]
    OBVIOUS
  <2>1. Len(s) + i \in 1 .. Len(s) + Len(rest) /\ ~(Len(s) + i <= Len(s)) /\ Len(s) + i - Len(s) = i
    BY <1>1
  <2> QED
    BY <1>2, <2>1
<1>5. SubSeq(x, 1, Len(s)) = s
  <2>1. \A i \in 1 .. Len(s) : x[i] \in C
    BY <1>3, ElementOfSeq
  <2>2. Len(s) \in Int /\ Len(s) - 1 + 1 = Len(s)
    BY <1>1
  <2>3. /\ SubSeq(x, 1, Len(s)) \in Seq(C)
        /\ Len(SubSeq(x, 1, Len(s))) = IF 1 <= Len(s) THEN Len(s) - 1 + 1 ELSE 0
        /\ \A i \in 1 .. Len(s) - 1 + 1 : SubSeq(x, 1, Len(s))[i] = x[1 + i - 1]
    BY <2>1, <2>2, SubSeqProperties
  <2>4. Len(SubSeq(x, 1, Len(s))) = Len(s)
    BY <1>1, <2>3
  <2>5. \A i \in 1 .. Len(s) : SubSeq(x, 1, Len(s))[i] = s[i]
    BY <1>3, <2>2, <2>3
  <2> QED
    BY <2>3, <2>4, <2>5, SeqEqual
<1>6. Suffix(x, Len(rest)) = rest
  <2>1. Len(rest) \in 0 .. Len(x)
    BY <1>1, <1>2
  <2>2. /\ Suffix(x, Len(rest)) \in Seq(C) /\ Len(Suffix(x, Len(rest))) = Len(rest)
        /\ \A i \in 1 .. Len(rest) : Suffix(x, Len(rest))[i] = x[Len(x) - Len(rest) + i]
    <3>1. x \in Seq(C)
      BY <1>2
    <3> QED
      BY <2>1, <3>1, SuffixFacts
  <2>3. Len(x) - Len(rest) = Len(s)
    BY <1>1, <1>2
  <2>4. \A i \in 1 .. Len(rest) : Suffix(x, Len(rest))[i] = rest[i]
    BY <1>4, <2>2, <2>3
  <2> QED
    BY <2>2, <2>4, SeqEqual
<1> QED
  BY <1>1, <1>2, <1>3, <1>4, <1>5, <1>6

(* Cutting off the match leaves the rest. *)
LEMMA LPMCut ==
  ASSUME NEW C, NEW v, NEW s \in Seq(C), NEW rest \in Seq(C),
         s # <<>>, LongestMatch(v, Cat(s, rest)) = Len(s)
  PROVE  LPM(v, Cat(s, rest)) = Cat(One(s), LPM(v, rest))
<1> DEFINE x == Cat(s, rest)
<1>1. /\ x \in Seq(C) /\ Len(x) = Len(s) + Len(rest) /\ Len(s) \in Nat /\ Len(rest) \in Nat
      /\ SubSeq(x, 1, Len(s)) = s /\ Suffix(x, Len(rest)) = rest
  <2>1. x \in Seq(C) /\ Len(x) = Len(s) + Len(rest) /\ Len(s) \in Nat /\ Len(rest) \in Nat
    BY ConcatParts
  <2>2. SubSeq(x, 1, Len(s)) = s
    BY ConcatParts
  <2>3. Suffix(x, Len(rest)) = rest
    BY ConcatParts
  <2> QED
    BY <2>1, <2>2, <2>3
<1>2. Len(s) # 0
  BY EmptySeq
<1>3. LongestMatch(v, x) = Len(s)
  OBVIOUS
<1> HIDE DEF x
<1>4. x # <<>> /\ Len(x) - Len(s) = Len(rest)
  BY <1>1, <1>2
<1>5. LPM(v, x) = <<SubSeq(x, 1, LongestMatch(v, x))>> \o LPM(v, Suffix(x, Len(x) - LongestMatch(v, x)))
  BY <1>1, <1>4, LPMStep
<1>6. LPM(v, x) = Cat(One(s), LPM(v, rest))
  BY <1>1, <1>3, <1>4, <1>5 DEF One, Cat
<1> QED
  BY <1>6 DEF x

\* A longer token than s begins the text Cat(s, rest).
Longer(v, s, rest) == \E k \in Fit(v, Cat(s, rest)) : k > Len(s)

(* A token is the match where no longer one is. *)
LEMMA LPMToken ==
  ASSUME NEW C, NEW v, NEW s \in Seq(C), NEW rest \in Seq(C),
         s # <<>>, s \in v, ~Longer(v, s, rest)
  PROVE  LPM(v, Cat(s, rest)) = Cat(One(s), LPM(v, rest))
<1> DEFINE x == Cat(s, rest)
<1>1. /\ x \in Seq(C) /\ Len(x) = Len(s) + Len(rest) /\ Len(s) \in Nat /\ Len(rest) \in Nat
      /\ SubSeq(x, 1, Len(s)) = s
  BY ConcatParts
<1>2. Len(s) # 0
  BY EmptySeq
<1>3. ~\E k \in Fit(v, x) : k > Len(s)
  BY DEF Longer
<1> HIDE DEF x
<1>4. Len(s) \in Fit(v, x)
  <2>1. Len(s) \in 1 .. Len(x)
    BY <1>1, <1>2
  <2> QED
    BY <1>1, <2>1 DEF Fit
<1>5. x # <<>>
  BY <1>1, <1>2
<1>6. /\ LongestMatch(v, x) \in 1 .. Len(x)
      /\ Fit(v, x) # {} => LongestMatch(v, x) \in Fit(v, x)
      /\ \A k \in Fit(v, x) : k <= LongestMatch(v, x)
  BY <1>1, <1>5, LongestFacts
<1>7. LongestMatch(v, x) = Len(s)
  <2>1. LongestMatch(v, x) \in Fit(v, x) /\ Len(s) <= LongestMatch(v, x)
    BY <1>4, <1>6
  <2>2. ~(LongestMatch(v, x) > Len(s))
    BY <1>3, <2>1
  <2>3. LongestMatch(v, x) \in Nat
    BY <1>1, <1>6
  <2> QED
    BY <1>1, <2>1, <2>2, <2>3
<1>8. LongestMatch(v, Cat(s, rest)) = Len(s)
  BY <1>7 DEF x
<1> QED
  BY <1>8, LPMCut
-----------------------------------------------------------------------------
(* Vocabularies and their tries *)

GoodVocab(v) ==
  /\ v # {} /\ IsFiniteSet(v) /\ v \subseteq Seq(ExtractCharacters(v))
  /\ \A t \in v : t # <<>>
  /\ \A c \in ExtractCharacters(v) : <<c>> \in v

(* The states are the tokens and all that begin one. *)
LEMMA TrieFacts ==
  ASSUME NEW v, GoodVocab(v)
  PROVE  /\ Trie(v) \subseteq Seq(ExtractCharacters(v))
         /\ v \subseteq Trie(v) /\ <<>> \in Trie(v)
         /\ \A s \in Trie(v) : \E t \in v : Len(s) <= Len(t) /\ s = SubSeq(t, 1, Len(s))
         /\ \A t \in v : \A n \in 0 .. Len(t) : SubSeq(t, 1, n) \in Trie(v)
<1> DEFINE E == ExtractCharacters(v)
<1>1. v \subseteq Seq(E) /\ v # {}
  BY DEF GoodVocab
<1> HIDE DEF E
<1>2. ASSUME NEW t \in v, NEW n \in 0 .. Len(t)
      PROVE  /\ SubSeq(t, 1, n) \in Seq(E) /\ Len(SubSeq(t, 1, n)) = n /\ n <= Len(t)
             /\ SubSeq(t, 1, n) \in Trie(v)
  <2>1. t \in Seq(E) /\ Len(t) \in Nat
    BY <1>1
  <2>2. \A i \in 1 .. n : t[i] \in E
    BY <2>1, ElementOfSeq
  <2>3. n \in Int /\ n >= 0 /\ n <= Len(t)
    BY <2>1
  <2>4. /\ SubSeq(t, 1, n) \in Seq(E)
        /\ Len(SubSeq(t, 1, n)) = IF 1 <= n THEN n - 1 + 1 ELSE 0
    BY <2>2, <2>3, SubSeqProperties
  <2>5. Len(SubSeq(t, 1, n)) = n
    BY <2>3, <2>4
  <2>6. SubSeq(t, 1, n) \in Trie(v)
    BY DEF Trie
  <2> QED
    BY <2>3, <2>4, <2>5, <2>6
<1>3. ASSUME NEW s \in Trie(v) PROVE \E t \in v : \E n \in 0 .. Len(t) : s = SubSeq(t, 1, n)
  BY DEF Trie
<1>4. \A s \in Trie(v) : s \in Seq(E) /\ \E t \in v : Len(s) <= Len(t) /\ s = SubSeq(t, 1, Len(s))
  <2> SUFFICES ASSUME NEW s \in Trie(v)
               PROVE  s \in Seq(E) /\ \E t \in v : Len(s) <= Len(t) /\ s = SubSeq(t, 1, Len(s))
    OBVIOUS
  <2>1. PICK t \in v : \E n \in 0 .. Len(t) : s = SubSeq(t, 1, n)
    BY <1>3
  <2>2. PICK n \in 0 .. Len(t) : s = SubSeq(t, 1, n)
    BY <2>1
  <2> QED
    BY <1>2, <2>2
<1>5. \A t \in v : t \in Trie(v) /\ <<>> \in Trie(v)
  <2> SUFFICES ASSUME NEW t \in v PROVE t \in Trie(v) /\ <<>> \in Trie(v)
    OBVIOUS
  <2>1. t \in Seq(E) /\ Len(t) \in Nat
    BY <1>1
  <2>2. SubSeq(t, 1, Len(t)) = t
    BY <2>1, SubSeqFull
  <2>3. SubSeq(t, 1, 0) = <<>>
    BY SubSeqEmpty
  <2>4. 0 \in 0 .. Len(t) /\ Len(t) \in 0 .. Len(t)
    BY <2>1
  <2> QED
    BY <1>2, <2>2, <2>3, <2>4
<1> QED
  BY <1>1, <1>2, <1>4, <1>5 DEF E

(* The first k elements of a text, and the first n of those. *)
LEMMA SubSub ==
  ASSUME NEW C, NEW x \in Seq(C), NEW k \in 0 .. Len(x)
  PROVE  /\ SubSeq(x, 1, k) \in Seq(C) /\ Len(SubSeq(x, 1, k)) = k
         /\ \A i \in 1 .. k : SubSeq(x, 1, k)[i] = x[i]
         /\ \A n \in 0 .. k : SubSeq(SubSeq(x, 1, k), 1, n) = SubSeq(x, 1, n)
<1> DEFINE Good(y, n) == /\ SubSeq(y, 1, n) \in Seq(C) /\ Len(SubSeq(y, 1, n)) = n
                         /\ \A i \in 1 .. n : SubSeq(y, 1, n)[i] = y[i]
<1>1. ASSUME NEW y \in Seq(C), NEW n \in 0 .. Len(y) PROVE Good(y, n)
  <2>1. Len(y) \in Nat /\ n \in Int /\ n >= 0 /\ n <= Len(y) /\ n - 1 + 1 = n
    OBVIOUS
  <2>2. \A i \in 1 .. n : y[i] \in C
    BY <2>1, ElementOfSeq
  <2>3. /\ SubSeq(y, 1, n) \in Seq(C)
        /\ Len(SubSeq(y, 1, n)) = IF 1 <= n THEN n - 1 + 1 ELSE 0
        /\ \A i \in 1 .. n - 1 + 1 : SubSeq(y, 1, n)[i] = y[1 + i - 1]
    BY <2>1, <2>2, SubSeqProperties
  <2>4. Len(SubSeq(y, 1, n)) = n
    BY <2>1, <2>3
  <2>5. \A i \in 1 .. n : SubSeq(y, 1, n)[i] = y[i]
    BY <2>1, <2>3
  <2> QED
    BY <2>3, <2>4, <2>5
<1>2. Good(x, k)
  BY <1>1
<1>3. ASSUME NEW n \in 0 .. k PROVE SubSeq(SubSeq(x, 1, k), 1, n) = SubSeq(x, 1, n)
  <2> DEFINE y == SubSeq(x, 1, k)
  <2>1. Len(x) \in Nat /\ y \in Seq(C) /\ Len(y) = k /\ \A i \in 1 .. k : y[i] = x[i]
    BY <1>2
  <2> HIDE DEF y
  <2>2. n \in 0 .. Len(y) /\ n \in 0 .. Len(x)
    BY <2>1
  <2>3. Good(y, n) /\ Good(x, n)
    BY <1>1, <2>1, <2>2
  <2>4. \A i \in 1 .. n : SubSeq(y, 1, n)[i] = SubSeq(x, 1, n)[i]
    BY <2>1, <2>3
  <2>5. SubSeq(y, 1, n) = SubSeq(x, 1, n)
    BY <2>3, <2>4, SeqEqual
  <2> QED
    BY <2>5 DEF y
<1> QED
  BY <1>2, <1>3

(* A character that no token has is a token of its own. *)
LEMMA LPMUnknown ==
  ASSUME NEW C, NEW v, GoodVocab(v), NEW c \in C, c \notin ExtractCharacters(v),
         NEW rest \in Seq(C)
  PROVE  LPM(v, Cat(One(c), rest)) = Cat(One(One(c)), LPM(v, rest))
<1> DEFINE s == One(c)
           x == Cat(s, rest)
           E == ExtractCharacters(v)
<1>1. s \in Seq(C) /\ s # <<>> /\ Len(s) = 1 /\ s[1] = c
  BY DEF One
<1>2. v \subseteq Seq(E) /\ \A t \in v : t # <<>>
  BY DEF GoodVocab
<1> HIDE DEF s, E
<1>3. /\ x \in Seq(C) /\ Len(x) = Len(s) + Len(rest) /\ Len(rest) \in Nat
      /\ \A i \in 1 .. Len(s) : x[i] = s[i]
  <2>1. s \in Seq(C)
    BY <1>1
  <2>2. x \in Seq(C) /\ Len(x) = Len(s) + Len(rest) /\ Len(rest) \in Nat
    BY <2>1, ConcatParts
  <2>3. \A i \in 1 .. Len(s) : x[i] = s[i]
    BY <2>1, ConcatParts
  <2> QED
    BY <2>2, <2>3
<1> HIDE DEF x
<1>4. Len(x) \in Nat /\ Len(x) # 0 /\ x # <<>> /\ x[1] = c
  BY <1>1, <1>3
<1>5. Fit(v, x) = {}
  <2> SUFFICES ASSUME NEW k \in 1 .. Len(x), SubSeq(x, 1, k) \in v PROVE FALSE
    BY DEF Fit
  <2>1. k \in 0 .. Len(x) /\ 1 \in 1 .. k
    BY <1>4
  <2>2. Len(SubSeq(x, 1, k)) = k /\ \A i \in 1 .. k : SubSeq(x, 1, k)[i] = x[i]
    BY <1>3, <2>1, SubSub
  <2>3. SubSeq(x, 1, k)[1] = c
    BY <1>4, <2>1, <2>2
  <2>4. SubSeq(x, 1, k)[1] \in E
    BY <1>2, <2>1, <2>2, ElementOfSeq
  <2> QED
    BY <2>3, <2>4 DEF E
<1>6. LongestMatch(v, x) = 1
  BY <1>3, <1>4, <1>5, LongestFacts
<1>7. LPM(v, Cat(s, rest)) = Cat(One(s), LPM(v, rest))
  <2>1. LongestMatch(v, Cat(s, rest)) = Len(s)
    BY <1>1, <1>6 DEF x
  <2>2. s \in Seq(C) /\ s # <<>>
    BY <1>1
  <2> QED
    BY <2>1, <2>2, LPMCut
<1> QED
  BY <1>7 DEF s

(* What begins a state is a state. *)
LEMMA TriePrefix ==
  ASSUME NEW v, GoodVocab(v), NEW s \in Trie(v), NEW n \in 0 .. Len(s)
  PROVE  SubSeq(s, 1, n) \in Trie(v)
<1> DEFINE E == ExtractCharacters(v)
<1>1. PICK t \in v : Len(s) <= Len(t) /\ s = SubSeq(t, 1, Len(s))
  BY TrieFacts
<1>2. s \in Seq(E) /\ t \in Seq(E)
  BY TrieFacts DEF GoodVocab
<1>3. Len(s) \in Nat /\ Len(t) \in Nat
  BY <1>2
<1>4. Len(s) \in 0 .. Len(t) /\ n \in 0 .. Len(t)
  BY <1>1, <1>3
<1>5. SubSeq(SubSeq(t, 1, Len(s)), 1, n) = SubSeq(t, 1, n)
  BY <1>2, <1>4, SubSub
<1>6. SubSeq(t, 1, n) \in Trie(v)
  BY <1>4, TrieFacts
<1> QED
  BY <1>1, <1>5, <1>6

(* A longer token that fits begins with the state and what follows it. *)
LongerToken(s, x, t) == /\ Len(t) \in Nat /\ Len(t) > Len(s) /\ Len(t) <= Len(x)
                        /\ \A n \in 0 .. Len(t) : SubSeq(t, 1, n) = SubSeq(x, 1, n)

\* A longer token at the front is a token that begins like the text.
LEMMA LongerBegins ==
  ASSUME NEW C, NEW v, NEW s \in Seq(C), NEW rest \in Seq(C), Longer(v, s, rest)
  PROVE  \E t \in v : LongerToken(s, Cat(s, rest), t)
<1> DEFINE x == Cat(s, rest)
<1>1. x \in Seq(C) /\ Len(x) = Len(s) + Len(rest) /\ Len(s) \in Nat /\ Len(rest) \in Nat
  BY ConcatParts
<1>2. PICK k \in Fit(v, x) : k > Len(s)
  BY DEF Longer
<1> HIDE DEF x
<1>3. k \in 0 .. Len(x) /\ SubSeq(x, 1, k) \in v
  BY <1>2 DEF Fit
<1>4. /\ Len(SubSeq(x, 1, k)) = k
      /\ \A n \in 0 .. k : SubSeq(SubSeq(x, 1, k), 1, n) = SubSeq(x, 1, n)
  BY <1>1, <1>3, SubSub
<1>5. k \in Nat /\ k <= Len(x)
  BY <1>1, <1>3
<1>6. LongerToken(s, x, SubSeq(x, 1, k))
  BY <1>2, <1>4, <1>5 DEF LongerToken
<1> QED
  BY <1>3, <1>6 DEF x

(* Where there is no arc for the next character, no longer token fits. *)
LEMMA NoArc ==
  ASSUME NEW C, NEW v, GoodVocab(v), NEW s \in Seq(C), NEW c \in C, NEW rest \in Seq(C),
         ~Find(Trie(v), s, c)
  PROVE  ~Longer(v, s, Cat(One(c), rest))
<1> DEFINE more == Cat(One(c), rest)
           there == Append(s, c)
<1>1. more \in Seq(C) /\ there \in Seq(C) /\ Len(there) = Len(s) + 1 /\ Len(s) \in Nat
  BY CatAlgebra, AppendProperties
<1>2. Cat(s, more) = Cat(there, rest)
  <2>1. One(c) \in Seq(C) /\ there = Cat(s, One(c))
    BY CatAlgebra
  <2>2. Cat(Cat(s, One(c)), rest) = Cat(s, Cat(One(c), rest))
    BY <2>1, CatAlgebra
  <2> QED
    BY <2>1, <2>2
<1>3. there \notin Trie(v)
  BY DEF Find
<1> HIDE DEF more, there
<1>4. SUFFICES ASSUME Longer(v, s, more) PROVE FALSE
  BY DEF more
<1>5. PICK t \in v : LongerToken(s, Cat(s, more), t)
  BY <1>1, <1>4, LongerBegins
<1>6. Len(there) \in 0 .. Len(t)
  BY <1>1, <1>5 DEF LongerToken
<1>7. SubSeq(t, 1, Len(there)) = SubSeq(Cat(there, rest), 1, Len(there))
  BY <1>2, <1>5, <1>6 DEF LongerToken
<1>8. SubSeq(Cat(there, rest), 1, Len(there)) = there
  BY <1>1, ConcatParts
<1>9. SubSeq(t, 1, Len(there)) \in Trie(v)
  BY <1>6, TrieFacts
<1> QED
  BY <1>3, <1>7, <1>8, <1>9

(* A leaf is a token, and no longer one fits there. *)
LEMMA LeafFacts ==
  ASSUME NEW C, NEW v, GoodVocab(v), ExtractCharacters(v) \subseteq C,
         NEW s \in Trie(v), Leaf(Trie(v), s)
  PROVE  s \in v /\ \A rest \in Seq(C) : ~Longer(v, s, rest)
<1> DEFINE E == ExtractCharacters(v)
<1>1. s \in Seq(E) /\ s \in Seq(C) /\ Len(s) \in Nat
  <2>1. s \in Seq(E)
    BY TrieFacts
  <2>2. s \in Seq(C)
    BY <2>1, SeqMonotonic
  <2> QED
    BY <2>1, <2>2
<1>2. SubSeq(s, 1, Len(s)) = s
  BY <1>1, SubSeqFull
<1>3. \A t \in Trie(v) : Len(s) <= Len(t) /\ SubSeq(t, 1, Len(s)) = s => t = s
  BY <1>2 DEF Leaf, IsStrictPrefix, IsPrefix
<1>4. s \in v
  <2>1. PICK t \in v : Len(s) <= Len(t) /\ s = SubSeq(t, 1, Len(s))
    BY TrieFacts
  <2>2. t \in Trie(v)
    BY TrieFacts
  <2> QED
    BY <1>3, <2>1, <2>2
<1>5. ASSUME NEW rest \in Seq(C), Longer(v, s, rest) PROVE FALSE
  <2>0. PICK t \in v : LongerToken(s, Cat(s, rest), t)
    BY <1>1, <1>5, LongerBegins
  <2>1. /\ Len(t) \in Nat /\ Len(t) > Len(s)
        /\ \A n \in 0 .. Len(t) : SubSeq(t, 1, n) = SubSeq(Cat(s, rest), 1, n)
    BY <2>0 DEF LongerToken
  <2>2. Len(s) \in 0 .. Len(t)
    BY <1>1, <2>1
  <2>3. SubSeq(Cat(s, rest), 1, Len(s)) = s
    BY <1>1, ConcatParts
  <2>4. t \in Trie(v)
    BY TrieFacts
  <2>5. t = s
    BY <1>1, <1>3, <2>1, <2>2, <2>3, <2>4
  <2> QED
    BY <1>1, <2>1, <2>5
<1> QED
  BY <1>4, <1>5
-----------------------------------------------------------------------------
(* Transitions *)

\* The text a state stands for: a leaf's token was output before, once the FST
\* is minimized.
Rep(v, min, s) == IF min /\ Leaf(Trie(v), s) THEN Start ELSE s

\* r leads from a state s that stands for e to an earlier one.
Continues(C, v, e, s, r) ==
  \A rest \in Seq(C) : ~Longer(v, s, rest) => LPM(v, Cat(e, rest)) = Cat(r.out, LPM(v, Cat(r.to, rest)))
Right(C, v, e, s, r) ==
  /\ r.out \in Seq(Seq(C)) /\ r.to \in Trie(v) /\ Len(r.to) < Len(s) /\ ~Leaf(Trie(v), r.to)
  /\ Continues(C, v, e, s, r)

\* The phi arcs of the states of at most N characters do.
Table(C, v, min, P, N) ==
  \A s \in Trie(v) \ {Start} : Len(s) <= N => Right(C, v, Rep(v, min, s), s, P[s])

\* `go` of MakeTransitions, at one state.
Leap(P, go, t) == [out |-> P[t].out \o go[P[t].to].out, to |-> go[P[t].to].to]
Arc(tr, there) == IF Leaf(tr, there) THEN [out |-> <<there>>, to |-> Start]
                  ELSE [out |-> <<>>, to |-> there]
GoAt(tr, P, c, go, t) == IF ~Find(tr, t, c) THEN Leap(P, go, t) ELSE Arc(tr, Append(t, c))
UpTo(tr, N) == {t \in tr : Len(t) <= N}
IsGo(tr, P, N, c, go) == go = [t \in UpTo(tr, N) |-> GoAt(tr, P, c, go, t)]
Go(tr, P, N, c) == CHOOSE go : IsGo(tr, P, N, c, go)

\* What comes of following a phi arc.
LEMMA LeapFields ==
  ASSUME NEW P, NEW go, NEW t
  PROVE  /\ Leap(P, go, t).out = Cat(P[t].out, go[P[t].to].out)
         /\ Leap(P, go, t).to = go[P[t].to].to
BY DEF Leap, Cat

\* MakeTransitions is the function the lemmas below are about.
LEMMA MakeTransitionsIsGo ==
  ASSUME NEW tr, NEW P, NEW s, NEW c
  PROVE  MakeTransitions(tr, P, s, c) = Go(tr, P, Len(s), c)[s]
BY DEF MakeTransitions, Go, IsGo, GoAt, Leap, Arc, UpTo

\* The start state has an arc for every character that is known.
LEMMA StartHasArcs ==
  ASSUME NEW v, GoodVocab(v), NEW c \in ExtractCharacters(v)
  PROVE  Find(Trie(v), Start, c)
<1>1. <<c>> \in Trie(v)
  BY TrieFacts DEF GoodVocab
<1>2. Append(Start, c) = <<c>>
  BY DEF Start
<1> QED
  BY <1>1, <1>2 DEF Find

\* Every state but the start has read something.
LEMMA TrieLen ==
  ASSUME NEW v, GoodVocab(v), NEW s \in Trie(v)
  PROVE  Len(s) \in Nat /\ (Len(s) = 0 <=> s = Start)
<1>1. s \in Seq(ExtractCharacters(v))
  BY TrieFacts
<1> QED
  BY <1>1, EmptySeq DEF Start

\* Following phi arcs ends: each leads to a shorter state, and the start has an arc.
LEMMA GoExists ==
  ASSUME NEW C, NEW v, NEW min, NEW P, NEW M \in Nat, NEW c \in ExtractCharacters(v),
         GoodVocab(v), Table(C, v, min, P, M)
  PROVE  \E go : IsGo(Trie(v), P, M, c, go)
<1> DEFINE tr == Trie(v)
           S == {N \in Nat : N <= M => \E go : IsGo(tr, P, N, c, go)}
<1>0. \A t \in tr : Len(t) \in Nat
  BY TrieLen
<1>1. \A t \in tr : Len(t) <= M /\ ~Find(tr, t, c) => P[t].to \in tr /\ Len(P[t].to) < Len(t)
  <2> SUFFICES ASSUME NEW t \in tr, Len(t) <= M, ~Find(tr, t, c)
               PROVE  P[t].to \in tr /\ Len(P[t].to) < Len(t)
    OBVIOUS
  <2>1. t # Start
    BY StartHasArcs
  <2>2. Right(C, v, Rep(v, min, t), t, P[t])
    BY <2>1 DEF Table
  <2> QED
    BY <2>2 DEF Right
<1> HIDE DEF tr
\* What `go` is at a state depends on shorter ones only.
<1>2. ASSUME NEW f, NEW g, NEW t \in tr, Len(t) <= M,
             \A u \in tr : Len(u) < Len(t) => f[u] = g[u]
      PROVE  GoAt(tr, P, c, f, t) = GoAt(tr, P, c, g, t)
  <2>1. CASE Find(tr, t, c)
    BY <2>1 DEF GoAt
  <2>2. CASE ~Find(tr, t, c)
    <3>1. f[P[t].to] = g[P[t].to]
      BY <1>1, <1>2, <2>2
    <3>2. Leap(P, f, t) = Leap(P, g, t)
      BY <3>1 DEF Leap
    <3> QED
      BY <2>2, <3>2 DEF GoAt
  <2> QED
    BY <2>1, <2>2
<1>3. ASSUME NEW N \in Nat, \A k \in 0 .. N - 1 : k \in S PROVE N \in S
  <2> SUFFICES ASSUME N <= M PROVE \E go : IsGo(tr, P, N, c, go)
    OBVIOUS
  <2>1. PICK old : N = 0 \/ IsGo(tr, P, N - 1, c, old)
    <3>1. CASE N = 0
      BY <3>1
    <3>2. CASE N # 0
      <4>1. N - 1 \in S /\ N - 1 <= M
        BY <1>3, <3>2
      <4> QED
        BY <4>1
    <3> QED
      BY <3>1, <3>2
  <2>2. \A t \in tr : Len(t) < N => old[t] = GoAt(tr, P, c, old, t)
    <3> SUFFICES ASSUME NEW t \in tr, Len(t) < N PROVE old[t] = GoAt(tr, P, c, old, t)
      OBVIOUS
    <3>1. Len(t) \in Nat
      BY <1>0
    <3>2. N # 0 /\ Len(t) <= N - 1
      BY <3>1
    <3>3. t \in UpTo(tr, N - 1)
      BY <3>2 DEF UpTo
    <3> QED
      BY <2>1, <3>2, <3>3 DEF IsGo
  <2> DEFINE new == [t \in UpTo(tr, N) |-> GoAt(tr, P, c, old, t)]
  <2>3. \A t \in tr : Len(t) < N => new[t] = old[t]
    <3>1. \A t \in tr : Len(t) < N => t \in UpTo(tr, N)
      BY <1>0 DEF UpTo
    <3> QED
      BY <2>2, <3>1
  <2>4. new = [t \in UpTo(tr, N) |-> new[t]] /\ \A t \in UpTo(tr, N) : new[t] = GoAt(tr, P, c, old, t)
    OBVIOUS
  <2> HIDE DEF new
  <2>5. \A t \in UpTo(tr, N) : new[t] = GoAt(tr, P, c, new, t)
    <3> SUFFICES ASSUME NEW t \in UpTo(tr, N) PROVE new[t] = GoAt(tr, P, c, new, t)
      OBVIOUS
    <3>1. t \in tr /\ Len(t) \in Nat /\ Len(t) <= N /\ Len(t) <= M
      BY <1>0 DEF UpTo
    <3>2. \A u \in tr : Len(u) < Len(t) => old[u] = new[u]
      <4> SUFFICES ASSUME NEW u \in tr, Len(u) < Len(t) PROVE old[u] = new[u]
        OBVIOUS
      <4>1. Len(u) \in Nat
        BY <1>0
      <4>2. Len(u) < N
        BY <3>1, <4>1
      <4> QED
        BY <2>3, <4>2
    <3>3. GoAt(tr, P, c, old, t) = GoAt(tr, P, c, new, t)
      BY <1>2, <3>1, <3>2
    <3> QED
      BY <2>4, <3>3
  <2>6. IsGo(tr, P, N, c, new)
    BY <2>4, <2>5 DEF IsGo
  <2> QED
    BY <2>6
<1>4. Nat \subseteq S
  <2> HIDE DEF S
  <2> QED
    BY <1>3, SetInduction
<1> QED
  BY <1>4 DEF tr

\* The equation MakeTransitions is defined by.
LEMMA GoDef ==
  ASSUME NEW C, NEW v, NEW min, NEW P, NEW M \in Nat, NEW c \in ExtractCharacters(v),
         GoodVocab(v), Table(C, v, min, P, M)
  PROVE  \A t \in UpTo(Trie(v), M) : Go(Trie(v), P, M, c)[t] = GoAt(Trie(v), P, c, Go(Trie(v), P, M, c), t)
<1> DEFINE tr == Trie(v)
           g == Go(tr, P, M, c)
<1>1. IsGo(tr, P, M, c, g)
  <2>1. \E go : IsGo(tr, P, M, c, go)
    BY GoExists
  <2> HIDE DEF tr
  <2>2. IsGo(tr, P, M, c, CHOOSE go : IsGo(tr, P, M, c, go))
    BY <2>1, Zenon
  <2> QED
    BY <2>2, Zenon DEF Go
<1> HIDE DEF g
<1>2. \A t \in UpTo(tr, M) : g[t] = GoAt(tr, P, c, g, t)
  BY <1>1 DEF IsGo
<1> QED
  BY <1>2 DEF g

\* r is where the character c leads from a state of n characters that stands for e.
Leads(C, v, e, c, r) ==
  \A rest \in Seq(C) : LPM(v, Cat(e, Cat(One(c), rest))) = Cat(r.out, LPM(v, Cat(r.to, rest)))
Moved(C, v, e, n, c, r) ==
  /\ r.out \in Seq(Seq(C)) /\ r.to \in Trie(v) /\ Len(r.to) <= n + 1 /\ ~Leaf(Trie(v), r.to)
  /\ Leads(C, v, e, c, r)

\* In the start state nothing is pending.
LEMMA StartFacts ==
  ASSUME NEW C, NEW v
  PROVE  /\ ~Leaf(Trie(v), Start) /\ Len(Start) = 0 /\ Start \in Seq(C)
         /\ \A rest \in Seq(C) : Cat(Start, rest) = rest
BY CatAlgebra DEF Leaf, Start

\* A state with an arc is no leaf.
LEMMA ArcNoLeaf ==
  ASSUME NEW C, NEW tr \in SUBSET Seq(C), NEW s \in tr, NEW c \in C, Append(s, c) \in tr
  PROVE  ~Leaf(tr, s)
<1> DEFINE there == Append(s, c)
<1>1. /\ there \in Seq(C) /\ Len(there) = Len(s) + 1 /\ Len(s) \in Nat /\ s \in Seq(C)
      /\ \A i \in 1 .. Len(s) : there[i] = s[i]
  BY AppendProperties
<1> HIDE DEF there
<1>2. Len(s) \in 0 .. Len(there) /\ Len(s) \in 0 .. Len(s)
  BY <1>1
<1>3. /\ SubSeq(there, 1, Len(s)) \in Seq(C) /\ Len(SubSeq(there, 1, Len(s))) = Len(s)
      /\ \A i \in 1 .. Len(s) : SubSeq(there, 1, Len(s))[i] = there[i]
  BY <1>1, <1>2, SubSub
<1>4. SubSeq(s, 1, Len(s)) = s
  BY <1>1, SubSeqFull
<1>5. SubSeq(there, 1, Len(s)) = s
  BY <1>1, <1>3, SeqEqual
<1>6. Len(s) <= Len(there) /\ s # there
  BY <1>1
<1>7. IsStrictPrefix(s, there)
  BY <1>4, <1>5, <1>6 DEF IsStrictPrefix, IsPrefix
<1> QED
  BY <1>7 DEF Leaf, there

\* A state is a text of known characters.
LEMMA TrieIn ==
  ASSUME NEW C, NEW v, GoodVocab(v), ExtractCharacters(v) \subseteq C
  PROVE  Trie(v) \subseteq Seq(C)
BY TrieFacts, SeqMonotonic

\* An arc for the character: a token's last one outputs it.
LEMMA ArcRight ==
  ASSUME NEW C, NEW v, NEW s \in Trie(v), NEW c \in ExtractCharacters(v),
         GoodVocab(v), ExtractCharacters(v) \subseteq C, Find(Trie(v), s, c)
  PROVE  Moved(C, v, s, Len(s), c, Arc(Trie(v), Append(s, c)))
<1> DEFINE there == Append(s, c)
           tr == Trie(v)
           r == Arc(tr, there)
<1>1. c \in C /\ s \in Seq(C) /\ Len(s) \in Nat
  BY TrieIn, TrieLen
<1>2. /\ there \in Seq(C) /\ there # <<>> /\ Len(there) = Len(s) + 1 /\ there \in tr
      /\ there = Cat(s, One(c)) /\ One(c) \in Seq(C)
  <2>1. there \in Seq(C) /\ there # <<>> /\ Len(there) = Len(s) + 1
    BY <1>1, AppendProperties
  <2>2. there \in tr
    BY DEF Find
  <2>3. there = Cat(s, One(c)) /\ One(c) \in Seq(C)
    BY <1>1, CatAlgebra
  <2> QED
    BY <2>1, <2>2, <2>3
<1>3. \A rest \in Seq(C) : Cat(s, Cat(One(c), rest)) = Cat(there, rest)
  <2> SUFFICES ASSUME NEW rest \in Seq(C) PROVE Cat(s, Cat(One(c), rest)) = Cat(there, rest)
    OBVIOUS
  <2>1. Cat(Cat(s, One(c)), rest) = Cat(s, Cat(One(c), rest))
    BY <1>1, <1>2, CatAlgebra
  <2> QED
    BY <1>2, <2>1
<1> HIDE DEF there
<1>4. CASE Leaf(tr, there)
  <2>1. r.out = One(there) /\ r.to = Start
    BY <1>4 DEF Arc, One
  <2>2. there \in v /\ \A rest \in Seq(C) : ~Longer(v, there, rest)
    BY <1>2, <1>4, LeafFacts
  <2>3. r.out \in Seq(Seq(C)) /\ r.to \in tr /\ Len(r.to) <= Len(s) + 1 /\ ~Leaf(tr, r.to)
    <3>1. One(there) \in Seq(Seq(C))
      BY <1>2, CatAlgebra
    <3>2. Start \in tr /\ Len(Start) = 0 /\ ~Leaf(tr, Start)
      BY TrieFacts, StartFacts DEF Start
    <3> QED
      BY <1>1, <2>1, <3>1, <3>2
  <2> HIDE DEF r
  <2>4. ASSUME NEW rest \in Seq(C)
        PROVE  LPM(v, Cat(s, Cat(One(c), rest))) = Cat(r.out, LPM(v, Cat(r.to, rest)))
    <3>0. there # <<>> /\ there \in v /\ ~Longer(v, there, rest)
      BY <1>2, <2>2
    <3>1. LPM(v, Cat(there, rest)) = Cat(One(there), LPM(v, rest))
      BY <1>2, <3>0, LPMToken
    <3>2. Cat(Start, rest) = rest
      BY StartFacts
    <3> QED
      BY <1>3, <2>1, <3>1, <3>2
  <2>5. Moved(C, v, s, Len(s), c, r)
    BY <2>3, <2>4 DEF Moved, Leads
  <2> QED
    BY <2>5 DEF r, there
<1>5. CASE ~Leaf(tr, there)
  <2>1. r.out = <<>> /\ r.to = there
    BY <1>5 DEF Arc
  <2>2. r.out \in Seq(Seq(C)) /\ r.to \in tr /\ Len(r.to) <= Len(s) + 1 /\ ~Leaf(tr, r.to)
    <3>1. <<>> \in Seq(Seq(C))
      OBVIOUS
    <3> QED
      BY <1>1, <1>2, <1>5, <2>1, <3>1
  <2> HIDE DEF r
  <2>3. ASSUME NEW rest \in Seq(C)
        PROVE  LPM(v, Cat(s, Cat(One(c), rest))) = Cat(r.out, LPM(v, Cat(r.to, rest)))
    <3>1. Cat(there, rest) \in Seq(C)
      BY <1>2, CatAlgebra
    <3>2. LPM(v, Cat(there, rest)) \in Seq(Seq(C))
      BY <3>1, LPMType
    <3>3. Cat(<<>>, LPM(v, Cat(there, rest))) = LPM(v, Cat(there, rest))
      BY <3>2, CatAlgebra
    <3> QED
      BY <1>3, <2>1, <3>3
  <2>4. Moved(C, v, s, Len(s), c, r)
    BY <2>2, <2>3 DEF Moved, Leads
  <2> QED
    BY <2>4 DEF r, there
<1> QED
  BY <1>4, <1>5 DEF there

\* No arc: the phi arc, and on from there.
LEMMA LeapRight ==
  ASSUME NEW C, NEW v, NEW s \in Trie(v), NEW e, NEW p, NEW c \in ExtractCharacters(v),
         NEW q, NEW r,
         GoodVocab(v), ExtractCharacters(v) \subseteq C, ~Find(Trie(v), s, c),
         Right(C, v, e, s, p), Moved(C, v, p.to, Len(p.to), c, q),
         r.out = Cat(p.out, q.out), r.to = q.to
  PROVE  Moved(C, v, e, Len(s), c, r)
<1>1. c \in C /\ s \in Seq(C) /\ Len(s) \in Nat
  BY TrieIn, TrieLen
<1>2. /\ p.out \in Seq(Seq(C)) /\ p.to \in Trie(v) /\ Len(p.to) < Len(s)
      /\ p.to \in Seq(C) /\ Len(p.to) \in Nat
  BY TrieIn, TrieLen DEF Right
<1>3. /\ q.out \in Seq(Seq(C)) /\ q.to \in Trie(v) /\ Len(q.to) <= Len(p.to) + 1 /\ ~Leaf(Trie(v), q.to)
      /\ q.to \in Seq(C) /\ Len(q.to) \in Nat
  BY TrieIn, TrieLen DEF Moved
<1>4. r.out \in Seq(Seq(C)) /\ r.to \in Trie(v) /\ Len(r.to) <= Len(s) + 1 /\ ~Leaf(Trie(v), r.to)
  <2>1. Cat(p.out, q.out) \in Seq(Seq(C))
    BY <1>2, <1>3, CatAlgebra
  <2> QED
    BY <1>1, <1>2, <1>3, <2>1
<1>5. ASSUME NEW rest \in Seq(C)
      PROVE  LPM(v, Cat(e, Cat(One(c), rest))) = Cat(r.out, LPM(v, Cat(r.to, rest)))
  <2> DEFINE more == Cat(One(c), rest)
             end == LPM(v, Cat(q.to, rest))
  <2>1. more \in Seq(C)
    BY <1>1, CatAlgebra
  <2>2. ~Longer(v, s, more)
    BY <1>1, NoArc
  <2>3. LPM(v, Cat(p.to, more)) = Cat(q.out, end)
    BY DEF Moved, Leads
  <2>4. end \in Seq(Seq(C))
    <3>1. Cat(q.to, rest) \in Seq(C)
      BY <1>3, CatAlgebra
    <3> QED
      BY <3>1, LPMType
  <2> HIDE DEF more, end
  <2>5. LPM(v, Cat(e, more)) = Cat(p.out, LPM(v, Cat(p.to, more)))
    BY <2>1, <2>2 DEF Right, Continues
  <2>6. Cat(p.out, Cat(q.out, end)) = Cat(Cat(p.out, q.out), end)
    <3>1. p.out \in Seq(Seq(C)) /\ q.out \in Seq(Seq(C))
      BY <1>2, <1>3
    <3>2. \A a, b, d \in Seq(Seq(C)) : Cat(Cat(a, b), d) = Cat(a, Cat(b, d))
      BY CatAlgebra
    <3> QED
      BY <2>4, <3>1, <3>2
  <2> QED
    BY <2>3, <2>5, <2>6 DEF more, end
<1> QED
  BY <1>4, <1>5 DEF Moved, Leads

(* Where a character leads: what was output, and the encoding from the new  *)
(* state on, make the encoding from the old one.                            *)
LEMMA GoRight ==
  ASSUME NEW C, NEW v, NEW min, NEW P, NEW s \in Trie(v), NEW c \in ExtractCharacters(v),
         GoodVocab(v), ExtractCharacters(v) \subseteq C, Table(C, v, min, P, Len(s))
  PROVE  Moved(C, v, Rep(v, min, s), Len(s), c, MakeTransitions(Trie(v), P, s, c))
<1> DEFINE M == Len(s)
           tr == Trie(v)
           g == Go(tr, P, M, c)
           S == {n \in Nat : \A t \in tr : Len(t) = n /\ n <= M =>
                               Moved(C, v, Rep(v, min, t), Len(t), c, g[t])}
<1>0. M \in Nat /\ \A t \in tr : Len(t) \in Nat
  BY TrieLen
<1>1. \A t \in UpTo(tr, M) : g[t] = GoAt(tr, P, c, g, t)
  BY <1>0, GoDef
<1> HIDE DEF g
<1>2. ASSUME NEW n \in Nat, \A k \in 0 .. n - 1 : k \in S PROVE n \in S
  <2> SUFFICES ASSUME NEW t \in tr, Len(t) = n, n <= M
               PROVE  Moved(C, v, Rep(v, min, t), Len(t), c, g[t])
    OBVIOUS
  <2>1. g[t] = GoAt(tr, P, c, g, t)
    <3>1. t \in UpTo(tr, M)
      BY DEF UpTo
    <3> QED
      BY <1>1, <3>1
  <2>2. CASE Find(tr, t, c)
    <3>1. g[t] = Arc(tr, Append(t, c))
      BY <2>1, <2>2 DEF GoAt
    <3>2. ~Leaf(tr, t)
      <4>1. tr \subseteq Seq(C) /\ c \in C /\ Append(t, c) \in tr
        BY <2>2, TrieIn DEF Find
      <4> HIDE DEF tr
      <4> QED
        BY <4>1, ArcNoLeaf
    <3>3. Rep(v, min, t) = t
      BY <3>2 DEF Rep
    <3>4. Moved(C, v, t, Len(t), c, Arc(tr, Append(t, c)))
      BY <2>2, ArcRight
    <3> QED
      BY <3>1, <3>3, <3>4
  <2>3. CASE ~Find(tr, t, c)
    <3> DEFINE p == P[t]
               q == g[P[t].to]
               r == g[t]
    <3>0. g[t] = Leap(P, g, t)
      BY <2>1, <2>3 DEF GoAt
    <3>1. r.out = Cat(p.out, q.out) /\ r.to = q.to
      <4>1. Leap(P, g, t).out = Cat(p.out, q.out) /\ Leap(P, g, t).to = q.to
        BY LeapFields
      <4> QED
        BY <3>0, <4>1
    <3>2. Right(C, v, Rep(v, min, t), t, p)
      <4>1. t # Start
        BY <2>3, StartHasArcs
      <4> QED
        BY <4>1 DEF Table
    <3>3. p.to \in tr /\ Len(p.to) \in 0 .. n - 1 /\ ~Leaf(tr, p.to)
      BY <1>0, <3>2 DEF Right
    <3>4. Moved(C, v, Rep(v, min, p.to), Len(p.to), c, q)
      <4>1. Len(p.to) \in S /\ Len(p.to) <= M
        BY <1>0, <1>2, <3>3
      <4> QED
        BY <3>3, <4>1
    <3>5. Rep(v, min, p.to) = p.to
      BY <3>3 DEF Rep
    <3>6. Moved(C, v, p.to, Len(p.to), c, q)
      BY <3>4, <3>5
    <3> HIDE DEF p, q, r
    <3>7. Moved(C, v, Rep(v, min, t), Len(t), c, r)
      BY <2>3, <3>1, <3>2, <3>6, LeapRight
    <3> QED
      BY <3>7 DEF r
  <2> QED
    BY <2>2, <2>3
<1>3. Nat \subseteq S
  <2> HIDE DEF S
  <2> QED
    BY <1>2, SetInduction
<1>4. Moved(C, v, Rep(v, min, s), Len(s), c, g[s])
  BY <1>0, <1>3
<1> QED
  BY <1>4, MakeTransitionsIsGo DEF g
-----------------------------------------------------------------------------
(* The phi arcs *)

\* A nonempty text is its front and its last character.
LEMMA FrontFacts ==
  ASSUME NEW C, NEW s \in Seq(C), s # <<>>
  PROVE  /\ Front(s) \in Seq(C) /\ Len(Front(s)) = Len(s) - 1 /\ Last(s) \in C
         /\ Front(s) = SubSeq(s, 1, Len(s) - 1) /\ s = Append(Front(s), Last(s))
<1> DEFINE f == SubSeq(s, 1, Len(s) - 1)
           c == s[Len(s)]
<1>1. Len(s) \in Nat /\ Len(s) # 0 /\ Len(s) - 1 \in 0 .. Len(s) /\ Len(s) \in 1 .. Len(s)
  BY EmptySeq
<1>2. /\ f \in Seq(C) /\ Len(f) = Len(s) - 1
      /\ \A i \in 1 .. Len(s) - 1 : f[i] = s[i]
  BY <1>1, SubSub
<1>3. c \in C
  BY <1>1, ElementOfSeq
<1> HIDE DEF f
<1>4. /\ Append(f, c) \in Seq(C) /\ Len(Append(f, c)) = Len(s)
      /\ \A i \in 1 .. Len(f) : Append(f, c)[i] = f[i]
      /\ Append(f, c)[Len(f) + 1] = c
  BY <1>1, <1>2, <1>3, AppendProperties
<1>5. \A i \in 1 .. Len(s) : Append(f, c)[i] = s[i]
  <2> SUFFICES ASSUME NEW i \in 1 .. Len(s) PROVE Append(f, c)[i] = s[i]
    OBVIOUS
  <2>1. i = Len(s) \/ i \in 1 .. Len(s) - 1
    BY <1>1
  <2>2. Len(f) + 1 = Len(s)
    BY <1>1, <1>2
  <2> QED
    BY <1>2, <1>4, <2>1, <2>2
<1>6. Append(f, c) = s
  BY <1>4, <1>5, SeqEqual
<1> QED
  BY <1>2, <1>3, <1>6 DEF f, Front, Last

\* The states are bounded in length.
LEMMA TrieBounded ==
  ASSUME NEW v, GoodVocab(v)
  PROVE  \E N \in Nat : \A s \in Trie(v) : Len(s) <= N
<1> DEFINE Bounded(T) == \E N \in Nat : \A t \in T : Len(t) <= N
           S == {n \in Nat : \A T \in SUBSET v : IsFiniteSet(T) /\ Cardinality(T) = n => Bounded(T)}
<1>0. IsFiniteSet(v) /\ \A t \in v : Len(t) \in Nat
  BY DEF GoodVocab
<1>1. ASSUME NEW n \in Nat, \A k \in 0 .. n - 1 : k \in S PROVE n \in S
  <2> SUFFICES ASSUME NEW T \in SUBSET v, IsFiniteSet(T), Cardinality(T) = n PROVE Bounded(T)
    OBVIOUS
  <2>1. CASE T = {}
    <3>1. \A t \in T : Len(t) <= 0
      BY <2>1
    <3> QED
      BY <3>1
  <2>2. CASE T # {}
    <3>1. PICK t \in T : TRUE
      BY <2>2
    <3>2. IsFiniteSet(T \ {t}) /\ Cardinality(T \ {t}) = n - 1 /\ n # 0
      <4>1. IsFiniteSet(T \ {t}) /\ Cardinality(T \ {t}) = Cardinality(T) - 1
        BY FS_RemoveElement
      <4>2. Cardinality(T) # 0
        BY <2>2, FS_EmptySet
      <4> QED
        BY <4>1, <4>2
    <3>3. n - 1 \in S /\ T \ {t} \in SUBSET v
      <4>1. n - 1 \in 0 .. (n - 1)
        BY <3>2
      <4> QED
        BY <1>1, <4>1
    <3>4. PICK N \in Nat : \A u \in T \ {t} : Len(u) <= N
      BY <3>2, <3>3
    <3>5. \A u \in T : Len(u) <= N + Len(t)
      <4> SUFFICES ASSUME NEW u \in T PROVE Len(u) <= N + Len(t)
        OBVIOUS
      <4>1. Len(u) \in Nat /\ Len(t) \in Nat
        BY <1>0
      <4>2. u = t \/ Len(u) <= N
        BY <3>4
      <4> QED
        BY <4>1, <4>2
    <3>6. N + Len(t) \in Nat
      BY <1>0
    <3> QED
      BY <3>5, <3>6
  <2> QED
    BY <2>1, <2>2
<1>2. Nat \subseteq S
  <2> HIDE DEF S
  <2> QED
    BY <1>1, SetInduction
<1>3. PICK N \in Nat : \A t \in v : Len(t) <= N
  <2>1. Cardinality(v) \in Nat
    BY <1>0, FS_CardinalityType
  <2>2. Bounded(v)
    BY <1>0, <1>2, <2>1
  <2> QED
    BY <2>2
<1>4. \A s \in Trie(v) : Len(s) <= N
  <2> SUFFICES ASSUME NEW s \in Trie(v) PROVE Len(s) <= N
    OBVIOUS
  <2>1. PICK t \in v : Len(s) <= Len(t)
    BY TrieFacts
  <2>2. Len(s) \in Nat /\ Len(t) \in Nat /\ Len(t) <= N
    BY <1>0, <1>3, TrieLen
  <2> QED
    BY <2>1, <2>2
<1> QED
  BY <1>4

\* Tables that agree on the states passed give the same transitions.
LEMMA GoSame ==
  ASSUME NEW v, NEW P, NEW Q, NEW s \in Trie(v), NEW c \in ExtractCharacters(v), GoodVocab(v),
         \A t \in Trie(v) \ {Start} : Len(t) <= Len(s) => P[t] = Q[t]
  PROVE  MakeTransitions(Trie(v), P, s, c) = MakeTransitions(Trie(v), Q, s, c)
<1> DEFINE tr == Trie(v)
           N == Len(s)
<1>1. ASSUME NEW go, NEW t \in UpTo(tr, N) PROVE GoAt(tr, P, c, go, t) = GoAt(tr, Q, c, go, t)
  <2>1. t \in tr /\ Len(t) <= N
    BY DEF UpTo
  <2>2. CASE Find(tr, t, c)
    BY <2>2 DEF GoAt
  <2>3. CASE ~Find(tr, t, c)
    <3>1. t # Start
      BY <2>3, StartHasArcs
    <3>2. P[t] = Q[t]
      BY <2>1, <3>1
    <3>3. Leap(P, go, t) = Leap(Q, go, t)
      BY <3>2 DEF Leap
    <3> QED
      BY <2>3, <3>3 DEF GoAt
  <2> QED
    BY <2>2, <2>3
<1> HIDE DEF tr, N
<1>2. \A go : IsGo(tr, P, N, c, go) <=> IsGo(tr, Q, N, c, go)
  BY <1>1 DEF IsGo
<1>3. (CHOOSE go : IsGo(tr, P, N, c, go)) = (CHOOSE go : IsGo(tr, Q, N, c, go))
  BY <1>2
<1>4. Go(tr, P, N, c) = Go(tr, Q, N, c)
  BY <1>3 DEF Go
<1> QED
  BY <1>4, MakeTransitionsIsGo DEF tr, N

\* Not a token: a longer token than its front is longer than it.
LEMMA FrontLonger ==
  ASSUME NEW C, NEW v, NEW s \in Seq(C), NEW f \in Seq(C), NEW c \in C, NEW rest \in Seq(C),
         s = Cat(f, One(c)), s \notin v, ~Longer(v, s, rest)
  PROVE  Cat(s, rest) = Cat(f, Cat(One(c), rest)) /\ ~Longer(v, f, Cat(One(c), rest))
<1> DEFINE x == Cat(s, rest)
           more == Cat(One(c), rest)
<1>1. Cat(f, more) = x
  <2>1. One(c) \in Seq(C)
    BY CatAlgebra
  <2>2. Cat(Cat(f, One(c)), rest) = Cat(f, Cat(One(c), rest))
    BY <2>1, CatAlgebra
  <2> QED
    BY <2>1, <2>2
<1>2. Len(s) = Len(f) + 1 /\ Len(s) \in Nat /\ Len(f) \in Nat
  <2>1. Append(f, c) = Cat(f, One(c))
    BY AppendIsConcat DEF Cat, One
  <2> QED
    BY <2>1, AppendProperties
<1>3. SubSeq(x, 1, Len(s)) = s /\ x \in Seq(C)
  BY ConcatParts
<1>4. ~\E k \in Fit(v, x) : k > Len(s)
  BY DEF Longer
<1> HIDE DEF x, more
<1>5. ASSUME NEW k \in Fit(v, x), k > Len(f) PROVE FALSE
  <2>1. k \in Nat /\ SubSeq(x, 1, k) \in v
    BY <1>3 DEF Fit
  <2>2. k = Len(s) \/ k > Len(s)
    BY <1>2, <1>5, <2>1
  <2> QED
    BY <1>3, <1>4, <2>1, <2>2
<1>6. ~Longer(v, f, more)
  BY <1>1, <1>5 DEF Longer
<1> QED
  BY <1>1, <1>6 DEF x, more

\* The phi arc of one state, from those of shorter ones.
Joined(back, on) == [out |-> back.out \o on.out, to |-> on.to]
PhiAt(v, P, s) ==
  IF s \in v THEN [out |-> <<s>>, to |-> Start]
  ELSE Joined(P[Front(s)], MakeTransitions(Trie(v), P, P[Front(s)].to, Last(s)))
IsPhi(v, N, P) == P = [s \in UpTo(Trie(v) \ {Start}, N) |-> PhiAt(v, P, s)]

\* What comes of doing as the state before does and reading on.
LEMMA JoinedFields ==
  ASSUME NEW back, NEW on
  PROVE  Joined(back, on).out = Cat(back.out, on.out) /\ Joined(back, on).to = on.to
BY DEF Joined, Cat

\* The front of a state with no token.
LEMMA FrontState ==
  ASSUME NEW v, NEW s \in Trie(v) \ {Start}, GoodVocab(v), s \notin v
  PROVE  /\ Front(s) \in Trie(v) \ {Start} /\ Last(s) \in ExtractCharacters(v)
         /\ Len(s) \in Nat /\ Len(Front(s)) = Len(s) - 1
         /\ s = Append(Front(s), Last(s))
<1> DEFINE E == ExtractCharacters(v)
<1>1. s \in Seq(E) /\ s # <<>> /\ Len(s) \in Nat
  BY TrieFacts, TrieLen DEF Start
<1>2. /\ Len(Front(s)) = Len(s) - 1 /\ Last(s) \in E
      /\ Front(s) = SubSeq(s, 1, Len(s) - 1) /\ s = Append(Front(s), Last(s))
  BY <1>1, FrontFacts
<1>3. Len(s) # 0
  BY <1>1, EmptySeq
<1>4. Front(s) \in Trie(v)
  <2>1. Len(s) - 1 \in 0 .. Len(s)
    BY <1>1, <1>3
  <2>2. SubSeq(s, 1, Len(s) - 1) \in Trie(v)
    BY <2>1, TriePrefix
  <2> QED
    BY <1>2, <2>2
<1>5. Front(s) # Start
  <2> SUFFICES ASSUME Front(s) = Start PROVE FALSE
    OBVIOUS
  <2>1. Append(Start, Last(s)) = <<Last(s)>>
    BY DEF Start
  <2>2. <<Last(s)>> \in v
    BY <1>2 DEF GoodVocab
  <2> QED
    BY <1>2, <2>1, <2>2
<1> QED
  BY <1>1, <1>2, <1>4, <1>5

\* A phi arc is right if those of all shorter states are: the step of the
\* induction that AddPhiTransitions' breadth-first order stands for.
LEMMA PhiRight ==
  ASSUME NEW C, NEW v, NEW P, NEW s \in Trie(v) \ {Start}, GoodVocab(v),
         ExtractCharacters(v) \subseteq C, Table(C, v, FALSE, P, Len(s) - 1)
  PROVE  Right(C, v, s, s, PhiAt(v, P, s))
<1> DEFINE tr == Trie(v)
           r == PhiAt(v, P, s)
<1>1. s \in tr /\ s \in Seq(C) /\ s # <<>> /\ Len(s) \in Nat /\ Len(s) # 0
  BY TrieIn, TrieLen DEF Start
<1>2. CASE s \in v
  <2>1. r.out = One(s) /\ r.to = Start
    BY <1>2 DEF PhiAt, One
  <2>2. One(s) \in Seq(Seq(C)) /\ Start \in tr /\ Len(Start) < Len(s) /\ ~Leaf(tr, Start)
    <3>1. One(s) \in Seq(Seq(C))
      BY <1>1, CatAlgebra
    <3>2. Start \in tr /\ Len(Start) = 0 /\ ~Leaf(tr, Start)
      BY TrieFacts, StartFacts DEF Start
    <3> QED
      BY <1>1, <3>1, <3>2
  <2> HIDE DEF r
  <2>3. ASSUME NEW rest \in Seq(C), ~Longer(v, s, rest)
        PROVE  LPM(v, Cat(s, rest)) = Cat(r.out, LPM(v, Cat(r.to, rest)))
    <3>0. s \in Seq(C) /\ s # <<>>
      BY <1>1
    <3>1. LPM(v, Cat(s, rest)) = Cat(One(s), LPM(v, rest))
      BY <1>2, <2>3, <3>0, LPMToken
    <3>2. Cat(Start, rest) = rest
      BY StartFacts
    <3> QED
      BY <2>1, <3>1, <3>2
  <2>4. Right(C, v, s, s, r)
    BY <2>1, <2>2, <2>3 DEF Right, Continues
  <2> QED
    BY <2>4 DEF r
<1>3. CASE s \notin v
  <2> DEFINE f == Front(s)
             c == Last(s)
             back == P[f]
             on == MakeTransitions(tr, P, back.to, c)
  <2>1. /\ f \in tr \ {Start} /\ c \in ExtractCharacters(v) /\ Len(f) = Len(s) - 1
        /\ s = Append(f, c)
    BY <1>3, FrontState
  <2>2. r.out = Cat(back.out, on.out) /\ r.to = on.to
    <3>1. r = Joined(back, on)
      BY <1>3 DEF PhiAt
    <3>2. Joined(back, on).out = Cat(back.out, on.out) /\ Joined(back, on).to = on.to
      BY JoinedFields
    <3> QED
      BY <3>1, <3>2
  <2> HIDE DEF f, c
  <2>3. f \in Seq(C) /\ c \in C /\ Len(f) \in Nat /\ f \in tr
    BY <2>1, TrieIn, TrieLen
  <2>4. Right(C, v, f, f, back)
    <3>1. Rep(v, FALSE, f) = f
      BY DEF Rep
    <3>2. Len(f) <= Len(s) - 1
      BY <1>1, <2>1
    <3> QED
      BY <2>1, <3>1, <3>2 DEF Table
  <2> HIDE DEF back, r
  <2>5. back.to \in tr /\ Len(back.to) < Len(f) /\ Len(back.to) \in Nat /\ back.to \in Seq(C)
        /\ back.out \in Seq(Seq(C))
    BY <2>4, TrieLen, TrieIn DEF Right
  <2>6. Moved(C, v, back.to, Len(back.to), c, on)
    <3>1. Table(C, v, FALSE, P, Len(back.to))
      <4>1. \A t \in tr : Len(t) \in Nat
        BY TrieLen
      <4>2. Len(back.to) <= Len(s) - 1
        BY <1>1, <2>1, <2>3, <2>5
      <4>3. \A t \in tr : Len(t) <= Len(back.to) => Len(t) <= Len(s) - 1
        BY <1>1, <2>5, <4>1, <4>2
      <4> QED
        BY <4>3 DEF Table
    <3>2. Rep(v, FALSE, back.to) = back.to
      BY DEF Rep
    <3>3. Moved(C, v, Rep(v, FALSE, back.to), Len(back.to), c, MakeTransitions(tr, P, back.to, c))
      BY <2>1, <2>5, <3>1, GoRight
    <3> QED
      BY <3>2, <3>3
  <2> HIDE DEF on
  <2>7. /\ on.out \in Seq(Seq(C)) /\ on.to \in tr /\ ~Leaf(tr, on.to)
        /\ Len(on.to) <= Len(back.to) + 1 /\ Len(on.to) \in Nat /\ on.to \in Seq(C)
    BY <2>6, TrieLen, TrieIn DEF Moved
  <2>8. Len(on.to) < Len(s)
    BY <1>1, <2>1, <2>3, <2>5, <2>7
  <2>9. Cat(back.out, on.out) \in Seq(Seq(C))
    BY <2>5, <2>7, CatAlgebra
  <2>10. ASSUME NEW rest \in Seq(C), ~Longer(v, s, rest)
         PROVE  LPM(v, Cat(s, rest)) = Cat(r.out, LPM(v, Cat(r.to, rest)))
    <3> DEFINE more == Cat(One(c), rest)
               end == LPM(v, Cat(on.to, rest))
    <3>1. more \in Seq(C)
      BY <2>3, CatAlgebra
    <3>2. Cat(s, rest) = Cat(f, more) /\ ~Longer(v, f, more)
      <4>1. s \in Seq(C) /\ f \in Seq(C) /\ c \in C
        BY <1>1, <2>3
      <4>2. s = Cat(f, One(c)) /\ s \notin v /\ ~Longer(v, s, rest)
        BY <1>3, <2>1, <2>10, <4>1, CatAlgebra
      <4>3. Cat(s, rest) = Cat(f, Cat(One(c), rest)) /\ ~Longer(v, f, Cat(One(c), rest))
        BY <4>1, <4>2, FrontLonger
      <4> QED
        BY <4>3
    <3>3. LPM(v, Cat(back.to, more)) = Cat(on.out, end)
      BY <2>6 DEF Moved, Leads
    <3>4. end \in Seq(Seq(C))
      <4>1. Cat(on.to, rest) \in Seq(C)
        BY <2>7, CatAlgebra
      <4> QED
        BY <4>1, LPMType
    <3> HIDE DEF more, end
    <3>5. LPM(v, Cat(f, more)) = Cat(back.out, LPM(v, Cat(back.to, more)))
      BY <2>4, <3>1, <3>2 DEF Right, Continues
    <3>6. Cat(back.out, Cat(on.out, end)) = Cat(Cat(back.out, on.out), end)
      <4>1. back.out \in Seq(Seq(C)) /\ on.out \in Seq(Seq(C))
        BY <2>5, <2>7
      <4>2. \A a, b, d \in Seq(Seq(C)) : Cat(Cat(a, b), d) = Cat(a, Cat(b, d))
        BY CatAlgebra
      <4> QED
        BY <3>4, <4>1, <4>2
    <3>7. LPM(v, Cat(s, rest)) = Cat(r.out, end)
      BY <2>2, <3>2, <3>3, <3>5, <3>6
    <3> QED
      BY <2>2, <3>7 DEF end
  <2>11. Right(C, v, s, s, r)
    BY <2>2, <2>7, <2>8, <2>9, <2>10 DEF Right, Continues
  <2> QED
    BY <2>11 DEF r
<1> QED
  BY <1>2, <1>3

\* The table is defined, and right, up to any length.
LEMMA PhiExists ==
  ASSUME NEW C, NEW v, NEW M \in Nat, GoodVocab(v), ExtractCharacters(v) \subseteq C
  PROVE  \E P : IsPhi(v, M, P) /\ Table(C, v, FALSE, P, M)
<1> DEFINE tr == Trie(v)
           D(N) == UpTo(tr \ {Start}, N)
           S == {N \in Nat : \E P : IsPhi(v, N, P) /\ Table(C, v, FALSE, P, N)}
<1>0. \A s \in tr : Len(s) \in Nat /\ (Len(s) = 0 => s = Start)
  BY TrieLen
<1>1. ASSUME NEW N \in Nat, \A k \in 0 .. N - 1 : k \in S PROVE N \in S
  <2>1. PICK old : N = 0 \/ (IsPhi(v, N - 1, old) /\ Table(C, v, FALSE, old, N - 1))
    <3>1. CASE N = 0
      BY <3>1
    <3>2. CASE N # 0
      <4>0. N - 1 \in 0 .. N - 1
        BY <3>2
      <4> HIDE DEF S
      <4>1. N - 1 \in S
        BY <1>1, <4>0
      <4> USE DEF S
      <4> QED
        BY <4>1
    <3> QED
      BY <3>1, <3>2
  <2>2. \A s \in tr \ {Start} : Len(s) < N => Len(s) <= N - 1 /\ N # 0
    <3> SUFFICES ASSUME NEW s \in tr \ {Start}, Len(s) < N PROVE Len(s) <= N - 1 /\ N # 0
      OBVIOUS
    <3>1. Len(s) \in Nat
      BY <1>0
    <3> QED
      BY <3>1
  <2> DEFINE new == [s \in D(N) |-> PhiAt(v, old, s)]
  <2>3. new = [s \in D(N) |-> new[s]] /\ \A s \in D(N) : new[s] = PhiAt(v, old, s)
    OBVIOUS
  <2> HIDE DEF new
  <2>4. \A s \in tr \ {Start} : Len(s) < N => new[s] = old[s]
    <3> SUFFICES ASSUME NEW s \in tr \ {Start}, Len(s) < N PROVE new[s] = old[s]
      OBVIOUS
    <3>1. Len(s) <= N - 1 /\ N # 0 /\ Len(s) \in Nat
      BY <1>0, <2>2
    <3>2. s \in UpTo(tr \ {Start}, N - 1) /\ s \in D(N)
      BY <3>1 DEF UpTo
    <3>3. old[s] = PhiAt(v, old, s)
      BY <2>1, <3>1, <3>2 DEF IsPhi
    <3> QED
      BY <2>3, <3>2, <3>3
  <2>5. \A s \in D(N) : PhiAt(v, old, s) = PhiAt(v, new, s) /\ Right(C, v, s, s, new[s])
    <3> SUFFICES ASSUME NEW s \in D(N)
                 PROVE  PhiAt(v, old, s) = PhiAt(v, new, s) /\ Right(C, v, s, s, new[s])
      OBVIOUS
    <3>1. s \in tr \ {Start} /\ Len(s) \in Nat /\ Len(s) <= N /\ Len(s) # 0
      BY <1>0 DEF UpTo
    <3>2. Table(C, v, FALSE, old, Len(s) - 1)
      <4>1. \A t \in tr : Len(t) <= Len(s) - 1 => Len(t) <= N - 1
        BY <1>0, <3>1
      <4>2. N # 0
        BY <3>1
      <4>3. Table(C, v, FALSE, old, N - 1)
        BY <2>1, <4>2
      <4> QED
        BY <4>1, <4>3 DEF Table
    <3>3. Right(C, v, s, s, PhiAt(v, old, s))
      BY <3>1, <3>2, PhiRight
    <3>4. PhiAt(v, old, s) = PhiAt(v, new, s)
      <4>1. CASE s \in v
        BY <4>1 DEF PhiAt
      <4>2. CASE s \notin v
        <5> DEFINE f == Front(s)
                   c == Last(s)
        <5>1. f \in tr \ {Start} /\ c \in ExtractCharacters(v) /\ Len(f) = Len(s) - 1
          BY <3>1, <4>2, FrontState
        <5> HIDE DEF f, c
        <5>2. Len(f) <= Len(s) - 1 /\ Len(f) < N /\ Len(f) \in Nat
          BY <1>0, <3>1, <5>1
        <5>3. old[f] = new[f]
          BY <2>4, <5>1, <5>2
        <5>4. Right(C, v, Rep(v, FALSE, f), f, old[f])
          BY <3>2, <5>1, <5>2 DEF Table
        <5> DEFINE t == old[f].to
        <5>5. t \in tr /\ Len(t) < Len(f) /\ Len(t) \in Nat
          BY <1>0, <5>4 DEF Right
        <5> HIDE DEF t
        <5>6. \A u \in tr \ {Start} : Len(u) <= Len(t) => old[u] = new[u]
          <6> SUFFICES ASSUME NEW u \in tr \ {Start}, Len(u) <= Len(t) PROVE old[u] = new[u]
            OBVIOUS
          <6>1. Len(u) \in Nat
            BY <1>0
          <6>2. Len(u) < N
            BY <5>2, <5>5, <6>1
          <6> QED
            BY <2>4, <6>2
        <5>7. MakeTransitions(tr, old, t, c) = MakeTransitions(tr, new, t, c)
          BY <5>1, <5>5, <5>6, GoSame
        <5> QED
          BY <4>2, <5>3, <5>7 DEF PhiAt, f, c, t
      <4> QED
        BY <4>1, <4>2
    <3> QED
      BY <2>3, <3>3, <3>4
  <2>6. IsPhi(v, N, new)
    <3>1. \A s \in D(N) : new[s] = PhiAt(v, new, s)
      BY <2>3, <2>5
    <3> QED
      BY <2>3, <3>1 DEF IsPhi
  <2>7. Table(C, v, FALSE, new, N)
    <3> SUFFICES ASSUME NEW s \in tr \ {Start}, Len(s) <= N
                 PROVE  Right(C, v, Rep(v, FALSE, s), s, new[s])
      BY DEF Table
    <3>1. s \in D(N)
      BY DEF UpTo
    <3>2. Rep(v, FALSE, s) = s
      BY DEF Rep
    <3> QED
      BY <2>5, <3>1, <3>2
  <2> QED
    BY <2>6, <2>7
<1>2. Nat \subseteq S
  <2> HIDE DEF S
  <2> QED
    BY <1>1, SetInduction
<1>3. M \in S
  <2> HIDE DEF S
  <2> QED
    BY <1>2
<1> QED
  BY <1>3

(* Every table that satisfies the equation does. *)
LEMMA PhiAllRight ==
  ASSUME NEW C, NEW v, NEW M \in Nat, NEW P, GoodVocab(v), ExtractCharacters(v) \subseteq C,
         IsPhi(v, M, P)
  PROVE  Table(C, v, FALSE, P, M)
<1> DEFINE tr == Trie(v)
           S == {N \in Nat : N <= M => Table(C, v, FALSE, P, N)}
<1>0. \A s \in tr : Len(s) \in Nat /\ (Len(s) = 0 => s = Start)
  BY TrieLen
<1>1. ASSUME NEW N \in Nat, \A k \in 0 .. N - 1 : k \in S PROVE N \in S
  <2> SUFFICES ASSUME N <= M, NEW s \in tr \ {Start}, Len(s) <= N
               PROVE  Right(C, v, Rep(v, FALSE, s), s, P[s])
    BY DEF Table
  <2>1. Len(s) \in Nat /\ Len(s) # 0 /\ Len(s) - 1 \in 0 .. N - 1 /\ Len(s) - 1 <= M
    BY <1>0
  <2>2. Table(C, v, FALSE, P, Len(s) - 1)
    BY <1>1, <2>1
  <2>3. P[s] = PhiAt(v, P, s)
    <3>1. s \in UpTo(tr \ {Start}, M)
      BY <2>1 DEF UpTo
    <3> QED
      BY <3>1 DEF IsPhi
  <2>4. Right(C, v, s, s, PhiAt(v, P, s))
    BY <2>2, PhiRight
  <2>5. Rep(v, FALSE, s) = s
    BY DEF Rep
  <2> QED
    BY <2>3, <2>4, <2>5
<1>2. Nat \subseteq S
  <2> HIDE DEF S
  <2> QED
    BY <1>1, SetInduction
<1>3. M \in S
  <2> HIDE DEF S
  <2> QED
    BY <1>2
<1>4. M <= M
  OBVIOUS
<1> QED
  BY <1>3, <1>4, Zenon

\* The arcs of all states do.
Works(C, v, min, P) == \A s \in Trie(v) \ {Start} : Right(C, v, Rep(v, min, s), s, P[s])

\* The whole table is right.
LEMMA PhiTableWorks ==
  ASSUME NEW C, NEW v, GoodVocab(v), ExtractCharacters(v) \subseteq C
  PROVE  Works(C, v, FALSE, PhiTable(v)) /\ DOMAIN PhiTable(v) = Trie(v) \ {Start}
<1> DEFINE D == Trie(v) \ {Start}
           IsTable(P) == P = [s \in D |-> PhiAt(v, P, s)]
<1>1. PICK M \in Nat : \A s \in Trie(v) : Len(s) <= M
  BY TrieBounded
<1>2. UpTo(D, M) = D
  BY <1>1 DEF UpTo
<1>3. \A P : IsTable(P) <=> IsPhi(v, M, P)
  BY <1>2 DEF IsPhi
<1>4. PhiTable(v) = CHOOSE P : IsTable(P)
  BY DEF PhiTable, PhiAt, Joined
<1>5. \E P : IsTable(P)
  BY <1>3, PhiExists
<1> HIDE DEF IsTable
<1>6. IsTable(PhiTable(v))
  <2>1. IsTable(CHOOSE P : IsTable(P))
    BY <1>5, Zenon
  <2> QED
    BY <1>4, <2>1
<1> DEFINE P == PhiTable(v)
<1> HIDE DEF P
<1>7. IsPhi(v, M, P)
  BY <1>3, <1>6 DEF P
<1>8. Table(C, v, FALSE, P, M)
  BY <1>7, PhiAllRight
<1>9. DOMAIN P = D
  BY <1>2, <1>7 DEF IsPhi
<1> QED
  BY <1>1, <1>8, <1>9 DEF Table, Works, P

(* And still do in the minimized FST. *)
LEMMA MinimizedWorks ==
  ASSUME NEW C, NEW v, GoodVocab(v), ExtractCharacters(v) \subseteq C
  PROVE  Works(C, v, TRUE, Minimized(Trie(v), PhiTable(v)))
<1> DEFINE tr == Trie(v)
           P == PhiTable(v)
           Q == Minimized(tr, P)
<1>1. Works(C, v, FALSE, P) /\ DOMAIN P = tr \ {Start}
  BY PhiTableWorks
<1>2. \A s \in tr \ {Start} : Q[s] = IF Leaf(tr, s) THEN [out |-> <<>>, to |-> Start] ELSE P[s]
  BY <1>1 DEF Minimized
<1> HIDE DEF P, Q
<1>3. ASSUME NEW s \in tr \ {Start} PROVE Right(C, v, Rep(v, TRUE, s), s, Q[s])
  <2>1. CASE Leaf(tr, s)
    <3>1. Q[s].out = <<>> /\ Q[s].to = Start /\ Rep(v, TRUE, s) = Start
      BY <1>2, <2>1 DEF Rep
    <3>2. <<>> \in Seq(Seq(C)) /\ Start \in tr /\ Len(Start) < Len(s) /\ ~Leaf(tr, Start)
      <4>1. <<>> \in Seq(Seq(C)) /\ Start \in tr
        BY TrieFacts DEF Start
      <4>2. Len(s) \in Nat /\ Len(s) # 0 /\ Len(Start) = 0 /\ ~Leaf(tr, Start)
        BY TrieLen, StartFacts
      <4> QED
        BY <4>1, <4>2
    <3>3. ASSUME NEW rest \in Seq(C)
          PROVE  LPM(v, Cat(Start, rest)) = Cat(<<>>, LPM(v, Cat(Start, rest)))
      <4>1. Cat(Start, rest) = rest
        BY StartFacts
      <4>2. LPM(v, rest) \in Seq(Seq(C))
        BY LPMType
      <4>3. Cat(<<>>, LPM(v, rest)) = LPM(v, rest)
        BY <4>2, CatAlgebra
      <4> QED
        BY <4>1, <4>3
    <3> QED
      BY <3>1, <3>2, <3>3 DEF Right, Continues
  <2>2. CASE ~Leaf(tr, s)
    <3>1. Q[s] = P[s] /\ Rep(v, TRUE, s) = s /\ Rep(v, FALSE, s) = s
      BY <1>2, <2>2 DEF Rep
    <3> QED
      BY <1>1, <3>1 DEF Works
  <2> QED
    BY <2>1, <2>2
<1> QED
  BY <1>3 DEF Works, P, Q
-----------------------------------------------------------------------------
(* Leaving a state *)

\* Of the minimized FST.
Minimal(C, v, P) == Works(C, v, TRUE, P)
Pending(v, s) == Rep(v, TRUE, s)

ExitAt(P, exit, t) == IF t = Start THEN <<>> ELSE P[t].out \o exit[P[t].to]
IsExit(tr, P, N, exit) == exit = [t \in UpTo(tr, N) |-> ExitAt(P, exit, t)]

\* Leaving a state ends.
LEMMA ExitExists ==
  ASSUME NEW C, NEW v, NEW P, NEW M \in Nat, GoodVocab(v), Minimal(C, v, P)
  PROVE  \E exit : IsExit(Trie(v), P, M, exit)
<1> DEFINE tr == Trie(v)
           S == {N \in Nat : \E exit : IsExit(tr, P, N, exit)}
<1>0. \A t \in tr : Len(t) \in Nat
  BY TrieLen
<1>1. \A t \in tr : t # Start => P[t].to \in tr /\ Len(P[t].to) < Len(t)
  BY DEF Works, Minimal, Right
<1> HIDE DEF tr
<1>2. ASSUME NEW f, NEW g, NEW t \in tr, \A u \in tr : Len(u) < Len(t) => f[u] = g[u]
      PROVE  ExitAt(P, f, t) = ExitAt(P, g, t)
  <2>1. CASE t = Start
    BY <2>1 DEF ExitAt
  <2>2. CASE t # Start
    <3>1. f[P[t].to] = g[P[t].to]
      BY <1>1, <1>2, <2>2
    <3> QED
      BY <2>2, <3>1 DEF ExitAt
  <2> QED
    BY <2>1, <2>2
<1>3. ASSUME NEW N \in Nat, \A k \in 0 .. N - 1 : k \in S PROVE N \in S
  <2>1. PICK old : N = 0 \/ IsExit(tr, P, N - 1, old)
    <3>1. CASE N = 0
      BY <3>1
    <3>2. CASE N # 0
      <4>0. N - 1 \in 0 .. N - 1
        BY <3>2
      <4>1. N - 1 \in S
        BY <1>3, <4>0
      <4> QED
        BY <4>1
    <3> QED
      BY <3>1, <3>2
  <2>2. \A t \in tr : Len(t) < N => old[t] = ExitAt(P, old, t)
    <3> SUFFICES ASSUME NEW t \in tr, Len(t) < N PROVE old[t] = ExitAt(P, old, t)
      OBVIOUS
    <3>1. Len(t) \in Nat
      BY <1>0
    <3>2. N # 0 /\ Len(t) <= N - 1
      BY <3>1
    <3>3. t \in UpTo(tr, N - 1)
      BY <3>2 DEF UpTo
    <3> QED
      BY <2>1, <3>2, <3>3 DEF IsExit
  <2> DEFINE new == [t \in UpTo(tr, N) |-> ExitAt(P, old, t)]
  <2>3. \A t \in tr : Len(t) < N => new[t] = old[t]
    <3>1. \A t \in tr : Len(t) < N => t \in UpTo(tr, N)
      BY <1>0 DEF UpTo
    <3> QED
      BY <2>2, <3>1
  <2>4. new = [t \in UpTo(tr, N) |-> new[t]] /\ \A t \in UpTo(tr, N) : new[t] = ExitAt(P, old, t)
    OBVIOUS
  <2> HIDE DEF new
  <2>5. \A t \in UpTo(tr, N) : new[t] = ExitAt(P, new, t)
    <3> SUFFICES ASSUME NEW t \in UpTo(tr, N) PROVE new[t] = ExitAt(P, new, t)
      OBVIOUS
    <3>1. t \in tr /\ Len(t) \in Nat /\ Len(t) <= N
      BY <1>0 DEF UpTo
    <3>2. \A u \in tr : Len(u) < Len(t) => old[u] = new[u]
      <4> SUFFICES ASSUME NEW u \in tr, Len(u) < Len(t) PROVE old[u] = new[u]
        OBVIOUS
      <4>1. Len(u) \in Nat
        BY <1>0
      <4>2. Len(u) < N
        BY <3>1, <4>1
      <4> QED
        BY <2>3, <4>2
    <3>3. ExitAt(P, old, t) = ExitAt(P, new, t)
      BY <1>2, <3>1, <3>2
    <3> QED
      BY <2>4, <3>3
  <2>6. IsExit(tr, P, N, new)
    BY <2>4, <2>5 DEF IsExit
  <2> QED
    BY <2>6
<1>4. M \in S
  <2> HIDE DEF S
  <2> QED
    BY <1>3, SetInduction
<1> QED
  BY <1>4 DEF tr

\* The function by which ExitOutput is defined.
Exit(tr, P) == CHOOSE exit : exit = [t \in tr |-> ExitAt(P, exit, t)]

\* The equation ExitOutput is defined by.
LEMMA ExitDef ==
  ASSUME NEW C, NEW v, NEW P, GoodVocab(v), Minimal(C, v, P)
  PROVE  \A t \in Trie(v) : /\ ExitOutput(Trie(v), P, t) = Exit(Trie(v), P)[t]
                            /\ Exit(Trie(v), P)[t] = ExitAt(P, Exit(Trie(v), P), t)
<1> DEFINE tr == Trie(v)
           IsOne(exit) == exit = [t \in tr |-> ExitAt(P, exit, t)]
           x == Exit(tr, P)
<1>1. PICK M \in Nat : \A s \in tr : Len(s) <= M
  BY TrieBounded
<1>2. UpTo(tr, M) = tr
  BY <1>1 DEF UpTo
<1>3. \E exit : IsOne(exit)
  <2>1. PICK exit : IsExit(tr, P, M, exit)
    BY ExitExists
  <2>2. IsOne(exit)
    BY <1>2, <2>1 DEF IsExit
  <2> QED
    BY <2>2
<1>4. x = CHOOSE exit : IsOne(exit)
  BY DEF Exit
<1> HIDE DEF IsOne, x
<1>5. IsOne(x)
  <2>1. IsOne(CHOOSE exit : IsOne(exit))
    BY <1>3, Zenon
  <2> QED
    BY <1>4, <2>1
<1>6. \A t \in tr : x[t] = ExitAt(P, x, t)
  BY <1>5 DEF IsOne
<1>7. \A t \in tr : ExitOutput(tr, P, t) = x[t]
  BY DEF ExitOutput, ExitAt, Exit, x
<1> QED
  BY <1>6, <1>7 DEF x

(* What is output on the way to the start state is the encoding of what was *)
(* read and not yet output, where no token goes on.                         *)
Quiet(v, rest) == \A t \in Trie(v) : ~Longer(v, t, rest)

\* Where no longer token can follow, leaving a state outputs the encoding of
\* what is pending there.
LEMMA ExitRight ==
  ASSUME NEW C, NEW v, NEW P, NEW s \in Trie(v), NEW rest \in Seq(C),
         GoodVocab(v), ExtractCharacters(v) \subseteq C, Minimal(C, v, P),
         Quiet(v, rest)
  PROVE  /\ ExitOutput(Trie(v), P, s) \in Seq(Seq(C))
         /\ LPM(v, Cat(Pending(v, s), rest)) = Cat(ExitOutput(Trie(v), P, s), LPM(v, rest))
<1> DEFINE tr == Trie(v)
           x == Exit(tr, P)
           Leaves(t) == /\ x[t] \in Seq(Seq(C))
                        /\ LPM(v, Cat(Pending(v, t), rest)) = Cat(x[t], LPM(v, rest))
           S == {n \in Nat : \A t \in tr : Len(t) = n => Leaves(t)}
<1>0. \A t \in tr : Len(t) \in Nat
  BY TrieLen
<1>1. \A t \in tr : x[t] = ExitAt(P, x, t) /\ ExitOutput(tr, P, t) = x[t]
  BY ExitDef
<1>2. LPM(v, rest) \in Seq(Seq(C))
  BY LPMType
<1>3. /\ \A a, b \in Seq(Seq(C)) : Cat(a, b) \in Seq(Seq(C))
      /\ \A a, b, d \in Seq(Seq(C)) : Cat(Cat(a, b), d) = Cat(a, Cat(b, d))
      /\ \A a \in Seq(Seq(C)) : Cat(<<>>, a) = a
  BY CatAlgebra
<1> HIDE DEF x
<1>4. ASSUME NEW n \in Nat, \A k \in 0 .. n - 1 : k \in S PROVE n \in S
  <2> SUFFICES ASSUME NEW t \in tr, Len(t) = n PROVE Leaves(t)
    OBVIOUS
  <2>1. CASE t = Start
    <3>1. x[t] = <<>>
      BY <1>1, <2>1 DEF ExitAt
    <3>2. Pending(v, t) = Start /\ Cat(Start, rest) = rest
      BY <2>1, StartFacts DEF Rep, Pending
    <3>3. <<>> \in Seq(Seq(C))
      OBVIOUS
    <3> QED
      BY <1>2, <1>3, <3>1, <3>2, <3>3
  <2>2. CASE t # Start
    <3> DEFINE p == P[t]
    <3>1. x[t] = Cat(p.out, x[p.to])
      BY <1>1, <2>2 DEF ExitAt, Cat
    <3>2. Right(C, v, Pending(v, t), t, p)
      BY <2>2 DEF Works, Minimal, Pending
    <3> HIDE DEF p
    <3>3. p.out \in Seq(Seq(C)) /\ p.to \in tr /\ Len(p.to) \in 0 .. n - 1 /\ ~Leaf(tr, p.to)
      BY <1>0, <3>2 DEF Right
    <3>4. LPM(v, Cat(Pending(v, t), rest)) = Cat(p.out, LPM(v, Cat(p.to, rest)))
      BY <3>2 DEF Right, Continues, Quiet
    <3>5. Pending(v, p.to) = p.to
      BY <3>3 DEF Rep, Pending
    <3>6. Leaves(p.to)
      <4>1. Len(p.to) \in S
        BY <1>4, <3>3
      <4> QED
        BY <3>3, <4>1
    <3>7. x[p.to] \in Seq(Seq(C)) /\ LPM(v, Cat(p.to, rest)) = Cat(x[p.to], LPM(v, rest))
      BY <3>5, <3>6
    <3>8. Cat(p.out, Cat(x[p.to], LPM(v, rest))) = Cat(Cat(p.out, x[p.to]), LPM(v, rest))
      <4>1. p.out \in Seq(Seq(C)) /\ x[p.to] \in Seq(Seq(C))
        BY <3>3, <3>7
      <4>2. \A a, b, d \in Seq(Seq(C)) : Cat(Cat(a, b), d) = Cat(a, Cat(b, d))
        BY <1>3
      <4> QED
        BY <1>2, <4>1, <4>2
    <3>9. Cat(p.out, x[p.to]) \in Seq(Seq(C))
      BY <1>3, <3>3, <3>7
    <3> QED
      BY <3>1, <3>4, <3>7, <3>8, <3>9
  <2> QED
    BY <2>1, <2>2
<1>5. Nat \subseteq S
  <2> HIDE DEF S
  <2> QED
    BY <1>4, SetInduction
<1>6. Leaves(s)
  <2>1. Len(s) \in S
    BY <1>0, <1>5
  <2> QED
    BY <2>1
<1> QED
  BY <1>1, <1>6

(* No token goes on at the end of a text, or with an unknown character. *)
LEMMA QuietAtEnd ==
  ASSUME NEW C, NEW v, NEW s \in Trie(v), GoodVocab(v), ExtractCharacters(v) \subseteq C
  PROVE  ~Longer(v, s, <<>>)
<1>1. s \in Seq(C) /\ Len(s) \in Nat /\ <<>> \in Seq(C)
  BY TrieIn, TrieLen
<1>2. Cat(s, <<>>) = s
  BY <1>1, CatAlgebra
<1> SUFFICES ASSUME NEW k \in Fit(v, s), k > Len(s) PROVE FALSE
  BY <1>2 DEF Longer
<1>3. k \in 1 .. Len(s)
  BY DEF Fit
<1> QED
  BY <1>1, <1>3

\* No token goes on across an unknown character.
LEMMA QuietAtUnknown ==
  ASSUME NEW C, NEW v, NEW s \in Trie(v), NEW c \in C, NEW rest \in Seq(C),
         GoodVocab(v), ExtractCharacters(v) \subseteq C, c \notin ExtractCharacters(v)
  PROVE  ~Longer(v, s, Cat(One(c), rest))
<1> DEFINE E == ExtractCharacters(v)
           there == Append(s, c)
<1>1. s \in Seq(C)
  BY TrieIn
<1>2. ~Find(Trie(v), s, c)
  <2> SUFFICES ASSUME there \in Trie(v) PROVE FALSE
    BY DEF Find
  <2>1. there \in Seq(E)
    BY TrieFacts
  <2>2. Len(there) = Len(s) + 1 /\ there[Len(s) + 1] = c /\ Len(s) \in Nat
    BY <1>1, AppendProperties
  <2> HIDE DEF there, E
  <2>3. Len(s) + 1 \in 1 .. Len(there)
    BY <2>2
  <2>4. there[Len(s) + 1] \in E
    BY <2>1, <2>3, ElementOfSeq
  <2> QED
    BY <2>2, <2>4 DEF E
<1> QED
  BY <1>1, <1>2, NoArc
-----------------------------------------------------------------------------
(* Encodings of known characters *)

(* A text of known characters is encoded by tokens. *)
LEMMA LPMKnown ==
  ASSUME NEW v, GoodVocab(v), NEW line \in Seq(ExtractCharacters(v))
  PROVE  LPM(v, line) \in Seq(v)
<1> DEFINE E == ExtractCharacters(v)
           P == From(v, line)
           S == {k \in Nat : k <= Len(line) => P[k] \in Seq(v)}
<1>0. \A c \in E : <<c>> \in v
  BY DEF GoodVocab
<1>1. /\ LPM(v, line) = P[Len(line)] /\ P[0] = <<>>
      /\ \A k \in 1 .. Len(line) : P[k] = Token(v, line, k) \o P[k - Match(v, line, k)]
  BY FromDef
<1>2. Len(line) \in Nat /\ \A k \in 1 .. Len(line) : Match(v, line, k) \in 1 .. k
  BY Matches
<1> HIDE DEF E
<1>3. \A k \in 1 .. Len(line) : Token(v, line, k) \in Seq(v)
  <2> SUFFICES ASSUME NEW k \in 1 .. Len(line) PROVE Token(v, line, k) \in Seq(v)
    OBVIOUS
  <2> DEFINE y == Suffix(line, k)
             n == Match(v, line, k)
  <2>0. k \in 0 .. Len(line) /\ k \in Nat /\ k # 0
    BY <1>2
  <2>1. y \in Seq(E) /\ Len(y) = k
    <3>1. line \in Seq(E)
      BY DEF E
    <3> QED
      BY <2>0, <3>1, SuffixFacts
  <2> HIDE DEF y
  <2>2. 1 \in Fit(v, y)
    <3>1. 1 \in 0 .. Len(y) /\ 1 \in 1 .. Len(y)
      BY <2>0, <2>1
    <3>2. /\ SubSeq(y, 1, 1) \in Seq(E) /\ Len(SubSeq(y, 1, 1)) = 1
          /\ \A i \in 1 .. 1 : SubSeq(y, 1, 1)[i] = y[i]
      BY <2>1, <3>1, SubSub
    <3>3. SubSeq(y, 1, 1) = <<y[1]>>
      <4>1. y[1] \in E
        BY <2>1, <3>1, ElementOfSeq
      <4>2. <<y[1]>> \in Seq(E) /\ Len(<<y[1]>>) = 1 /\ <<y[1]>>[1] = y[1]
        BY <4>1
      <4>3. \A i \in 1 .. 1 : SubSeq(y, 1, 1)[i] = <<y[1]>>[i]
        BY <3>2, <4>2
      <4> QED
        BY <3>2, <4>2, <4>3, SeqEqual
    <3>4. <<y[1]>> \in v
      BY <1>0, <2>1, <3>1, ElementOfSeq
    <3> QED
      BY <3>1, <3>3, <3>4 DEF Fit
  <2>3. n = LongestMatch(v, y)
    BY DEF Match, y
  <2> HIDE DEF n
  <2>4. n \in Fit(v, y)
    <3>1. y # <<>> /\ y \in Seq(E)
      BY <2>0, <2>1
    <3>2. Fit(v, y) # {} => LongestMatch(v, y) \in Fit(v, y)
      BY <3>1, LongestFacts
    <3> QED
      BY <2>2, <2>3, <3>2
  <2>5. SubSeq(y, 1, n) \in v
    BY <2>4 DEF Fit
  <2>6. <<SubSeq(y, 1, n)>> \in Seq(v)
    BY <2>5
  <2> QED
    BY <2>6 DEF Token, y, n
<1> HIDE DEF P
<1>4. ASSUME NEW k \in Nat, \A j \in 0 .. k - 1 : j \in S PROVE k \in S
  <2> SUFFICES ASSUME k <= Len(line) PROVE P[k] \in Seq(v)
    OBVIOUS
  <2>1. CASE k = 0
    <3>1. <<>> \in Seq(v)
      OBVIOUS
    <3> QED
      BY <1>1, <2>1, <3>1
  <2>2. CASE k # 0
    <3>1. k \in 1 .. Len(line)
      BY <1>2, <2>2
    <3> DEFINE j == k - Match(v, line, k)
    <3>2. j \in 0 .. k - 1 /\ j <= Len(line)
      BY <1>2, <3>1
    <3>3. P[j] \in Seq(v)
      BY <1>4, <3>2
    <3>4. P[k] = Token(v, line, k) \o P[j] /\ Token(v, line, k) \in Seq(v)
      BY <1>1, <1>3, <3>1
    <3> QED
      BY <3>3, <3>4, ConcatProperties
  <2> QED
    BY <2>1, <2>2
<1>5. Nat \subseteq S
  <2> HIDE DEF S
  <2> QED
    BY <1>4, SetInduction
<1> QED
  BY <1>1, <1>2, <1>5

\* The front of a sequence of tokens is one.
LEMMA FirstPart ==
  ASSUME NEW S, NEW v, NEW a \in Seq(S), NEW b \in Seq(S), Cat(a, b) \in Seq(v)
  PROVE  a \in Seq(v)
<1> DEFINE x == Cat(a, b)
<1>1. Len(x) = Len(a) + Len(b) /\ Len(a) \in Nat /\ Len(b) \in Nat /\ SubSeq(x, 1, Len(a)) = a
  BY ConcatParts
<1>2. x \in Seq(v)
  OBVIOUS
<1> HIDE DEF x
<1>3. Len(a) \in 0 .. Len(x)
  BY <1>1
<1>4. SubSeq(x, 1, Len(a)) \in Seq(v)
  BY <1>2, <1>3, SubSub
<1> QED
  BY <1>1, <1>4

\* What is pending is a text.
LEMMA RepIn ==
  ASSUME NEW C, NEW v, NEW s \in Trie(v), GoodVocab(v), ExtractCharacters(v) \subseteq C
  PROVE  Pending(v, s) \in Seq(C)
<1>1. s \in Seq(C) /\ Start \in Seq(C)
  BY TrieIn, StartFacts
<1> QED
  BY <1>1 DEF Rep, Pending

\* What leaving a state outputs are tokens, and the encoding of what it stands for.
LEMMA ExitKnown ==
  ASSUME NEW C, NEW v, NEW P, NEW s \in Trie(v),
         GoodVocab(v), ExtractCharacters(v) \subseteq C, Minimal(C, v, P),
         Minimal(ExtractCharacters(v), v, P)
  PROVE  /\ ExitOutput(Trie(v), P, s) \in Seq(v) /\ ExitOutput(Trie(v), P, s) \in Seq(Seq(C))
         /\ LPM(v, Pending(v, s)) = ExitOutput(Trie(v), P, s)
<1> DEFINE E == ExtractCharacters(v)
           x == ExitOutput(Trie(v), P, s)
           rep == Pending(v, s)
<1>1. <<>> \in Seq(C) /\ Quiet(v, <<>>)
  BY QuietAtEnd DEF Quiet
<1>2. /\ ExitOutput(Trie(v), P, s) \in Seq(Seq(C))
      /\ LPM(v, Cat(Pending(v, s), <<>>)) = Cat(ExitOutput(Trie(v), P, s), LPM(v, <<>>))
  <2>0. SUFFICES ASSUME NEW rest, rest = <<>>
                 PROVE  /\ ExitOutput(Trie(v), P, s) \in Seq(Seq(C))
                        /\ LPM(v, Cat(Pending(v, s), rest)) = Cat(ExitOutput(Trie(v), P, s), LPM(v, rest))
    OBVIOUS
  <2>1. Quiet(v, rest) /\ rest \in Seq(C)
    BY <1>1, <2>0
  <2> QED
    BY <2>1, ExitRight
<1>3. rep \in Seq(E) /\ rep \in Seq(C)
  BY RepIn
<1>4. LPM(v, <<>>) = <<>>
  BY LPMEmpty
<1> HIDE DEF x, rep
<1>5. Cat(rep, <<>>) = rep /\ Cat(x, <<>>) = x
  <2>1. x \in Seq(Seq(C))
    BY <1>2 DEF x
  <2> QED
    BY <1>3, <2>1, CatAlgebra
<1>6. LPM(v, rep) = x
  BY <1>2, <1>4, <1>5 DEF x, rep
<1>7. LPM(v, rep) \in Seq(v)
  BY <1>3, LPMKnown
<1> QED
  BY <1>2, <1>6, <1>7 DEF x, rep

-----------------------------------------------------------------------------
(* Functions defined by recursion on a number *)

RecAt(a, h, f, i) == IF i = 0 THEN a ELSE h[i][f[i - 1]]
IsRec(n, a, h, f) == f = [i \in 0 .. n |-> RecAt(a, h, f, i)]

\* A value for 0, and a step from every value to the next, make a function.
LEMMA RecExists ==
  ASSUME NEW n \in Nat, NEW S, NEW a \in S, NEW h \in [1 .. n -> [S -> S]]
  PROVE  \E f \in [0 .. n -> S] : IsRec(n, a, h, f)
<1> DEFINE K == {k \in Nat : k <= n => \E f \in [0 .. k -> S] : IsRec(k, a, h, f)}
<1>1. ASSUME NEW k \in Nat, \A j \in 0 .. k - 1 : j \in K PROVE k \in K
  <2> SUFFICES ASSUME k <= n PROVE \E f \in [0 .. k -> S] : IsRec(k, a, h, f)
    OBVIOUS
  <2>1. CASE k = 0
    <3> DEFINE f == [i \in 0 .. 0 |-> a]
    <3>1. f \in [0 .. 0 -> S] /\ f = [i \in 0 .. 0 |-> RecAt(a, h, f, i)]
      BY DEF RecAt
    <3> QED
      BY <2>1, <3>1 DEF IsRec
  <2>2. CASE k # 0
    <3>0. k - 1 \in 0 .. k - 1 /\ k - 1 \in Nat /\ k - 1 <= n /\ k \in 1 .. n
      BY <2>2
    <3>1. k - 1 \in K
      BY <1>1, <3>0
    <3>2. PICK g \in [0 .. k - 1 -> S] : IsRec(k - 1, a, h, g)
      BY <3>0, <3>1
    <3>3. h[k][g[k - 1]] \in S
      BY <3>0
    <3> DEFINE f == [i \in 0 .. k |-> IF i = k THEN h[k][g[k - 1]] ELSE g[i]]
    <3>4. f \in [0 .. k -> S]
      <4>1. \A i \in 0 .. k : i # k => i \in 0 .. k - 1
        OBVIOUS
      <4> QED
        BY <3>3, <4>1
    <3>5. \A i \in 0 .. k - 1 : f[i] = g[i]
      OBVIOUS
    <3>6. f[k] = h[k][g[k - 1]]
      OBVIOUS
    <3> HIDE DEF f
    <3>7. \A i \in 0 .. k : f[i] = RecAt(a, h, f, i)
      <4> SUFFICES ASSUME NEW i \in 0 .. k PROVE f[i] = RecAt(a, h, f, i)
        OBVIOUS
      <4>1. CASE i = k
        <5>1. f[k - 1] = g[k - 1]
          BY <3>0, <3>5
        <5> QED
          BY <2>2, <3>6, <4>1, <5>1 DEF RecAt
      <4>2. CASE i # k
        <5>1. i \in 0 .. k - 1 /\ (i # 0 => i - 1 \in 0 .. k - 1)
          BY <4>2
        <5>2. g[i] = RecAt(a, h, g, i)
          BY <3>2, <5>1 DEF IsRec
        <5>3. f[i] = g[i] /\ (i # 0 => f[i - 1] = g[i - 1])
          BY <3>5, <5>1
        <5> QED
          BY <5>2, <5>3 DEF RecAt
      <4> QED
        BY <4>1, <4>2
    <3>8. f = [i \in 0 .. k |-> RecAt(a, h, f, i)]
      BY <3>4, <3>7
    <3> QED
      BY <3>4, <3>8 DEF IsRec
  <2> QED
    BY <2>1, <2>2
<1>2. n \in K
  <2> HIDE DEF K
  <2> QED
    BY <1>1, SetInduction
<1> QED
  BY <1>2
-----------------------------------------------------------------------------
(* The text of a sequence of tokens *)

FlattenAt(x, f, i) == IF i = 1 THEN x[i] ELSE f[i - 1] \o x[i]
Flatten(x) == CHOOSE f : f = [i \in 1 .. Len(x) |-> FlattenAt(x, f, i)]

\* FlattenSeq is that function's last value.
LEMMA FlattenSeqIs ==
  ASSUME NEW x
  PROVE  FlattenSeq(x) = IF Len(x) = 0 THEN x ELSE Flatten(x)[Len(x)]
BY DEF FlattenSeq, Flatten, FlattenAt

\* The text of the first n tokens.
Part(x, n) == IF n = 0 THEN <<>> ELSE Flatten(x)[n]

\* Nothing comes first, and then every token in its turn.
LEMMA PartFacts ==
  ASSUME NEW C, NEW x \in Seq(Seq(C))
  PROVE  /\ Part(x, 0) = <<>>
         /\ \A n \in 1 .. Len(x) : Part(x, n) = Cat(Part(x, n - 1), x[n])
         /\ \A n \in 0 .. Len(x) : Part(x, n) \in Seq(C)
<1> DEFINE D == 1 .. Len(x)
           Is(f) == f = [i \in D |-> FlattenAt(x, f, i)]
<1>0. Len(x) \in Nat /\ <<>> \in Seq(C) /\ \A i \in D : x[i] \in Seq(C)
  BY ElementOfSeq
<1>1. \E f : Is(f) /\ \A i \in D : f[i] \in Seq(C)
  <2> DEFINE h == [i \in D |-> [y \in Seq(C) |-> Cat(y, x[i])]]
  <2>1. h \in [D -> [Seq(C) -> Seq(C)]]
    BY <1>0, CatAlgebra
  <2>2. \A i \in D : \A y \in Seq(C) : h[i][y] = Cat(y, x[i])
    OBVIOUS
  <2> HIDE DEF h
  <2>3. PICK g \in [0 .. Len(x) -> Seq(C)] : IsRec(Len(x), <<>>, h, g)
    BY <1>0, <2>1, RecExists
  <2> DEFINE f == [i \in D |-> g[i]]
  <2>4. \A i \in 0 .. Len(x) : g[i] = RecAt(<<>>, h, g, i)
    BY <2>3 DEF IsRec
  <2>5. f = [i \in D |-> f[i]] /\ \A i \in D : f[i] = g[i]
    OBVIOUS
  <2> HIDE DEF f
  <2>6. \A i \in D : g[i] \in Seq(C) /\ g[i] = Cat(g[i - 1], x[i])
    <3> SUFFICES ASSUME NEW i \in D PROVE g[i] \in Seq(C) /\ g[i] = Cat(g[i - 1], x[i])
      OBVIOUS
    <3>1. i \in 0 .. Len(x) /\ i - 1 \in 0 .. Len(x) /\ i # 0
      BY <1>0
    <3>2. g[i] \in Seq(C) /\ g[i - 1] \in Seq(C) /\ g[i] = h[i][g[i - 1]]
      BY <2>4, <3>1 DEF RecAt
    <3> QED
      BY <2>2, <3>2
  <2>7. g[0] = <<>>
    <3>1. 0 \in 0 .. Len(x)
      BY <1>0
    <3> QED
      BY <2>4, <3>1 DEF RecAt
  <2>8. \A i \in D : f[i] = FlattenAt(x, f, i)
    <3> SUFFICES ASSUME NEW i \in D PROVE f[i] = FlattenAt(x, f, i)
      OBVIOUS
    <3>1. f[i] = Cat(g[i - 1], x[i]) /\ x[i] \in Seq(C)
      BY <1>0, <2>5, <2>6
    <3>2. CASE i = 1
      <4>1. g[i - 1] = <<>>
        BY <2>7, <3>2
      <4>2. f[i] = x[i]
        BY <3>1, <4>1, CatAlgebra
      <4> QED
        BY <3>2, <4>2 DEF FlattenAt
    <3>3. CASE i # 1
      <4>1. i - 1 \in D
        BY <1>0, <3>3
      <4>2. f[i - 1] = g[i - 1]
        BY <2>5, <4>1
      <4> QED
        BY <3>1, <3>3, <4>2 DEF FlattenAt, Cat
    <3> QED
      BY <3>2, <3>3
  <2>9. Is(f)
    BY <2>5, <2>8
  <2>10. \A i \in D : f[i] \in Seq(C)
    BY <2>5, <2>6
  <2> QED
    BY <2>9, <2>10
<1>2. Is(Flatten(x))
  <2>1. Flatten(x) = CHOOSE f : Is(f)
    BY DEF Flatten
  <2> HIDE DEF Is
  <2>2. Is(CHOOSE f : Is(f))
    BY <1>1, Zenon
  <2> QED
    BY <2>1, <2>2
<1>3. \A i \in D : Flatten(x)[i] = FlattenAt(x, Flatten(x), i)
  BY <1>2
<1>4. Part(x, 0) = <<>>
  BY DEF Part
<1> DEFINE K == {k \in Nat : k <= Len(x) => Part(x, k) \in Seq(C) /\ (k # 0 => Part(x, k) = Cat(Part(x, k - 1), x[k]))}
<1>5. ASSUME NEW k \in Nat, \A j \in 0 .. k - 1 : j \in K PROVE k \in K
  <2> SUFFICES ASSUME k <= Len(x), k # 0 PROVE Part(x, k) \in Seq(C) /\ Part(x, k) = Cat(Part(x, k - 1), x[k])
    BY <1>0, <1>4
  <2>1. k \in D /\ k - 1 \in 0 .. k - 1 /\ k - 1 <= Len(x) /\ k - 1 \in Nat
    BY <1>0
  <2>2. Part(x, k - 1) \in Seq(C)
    BY <1>5, <2>1
  <2>3. Part(x, k) = FlattenAt(x, Flatten(x), k)
    BY <1>3, <2>1 DEF Part
  <2>4. x[k] \in Seq(C)
    BY <1>0, <2>1
  <2>5. Part(x, k) = Cat(Part(x, k - 1), x[k])
    <3>1. CASE k = 1
      <4>1. Part(x, k - 1) = <<>> /\ Part(x, k) = x[k]
        BY <1>4, <2>3, <3>1 DEF FlattenAt
      <4> QED
        BY <2>4, <4>1, CatAlgebra
    <3>2. CASE k # 1
      <4>1. Part(x, k - 1) = Flatten(x)[k - 1]
        BY <2>1, <3>2 DEF Part
      <4> QED
        BY <2>3, <3>2, <4>1 DEF FlattenAt, Cat
    <3> QED
      BY <3>1, <3>2
  <2> DEFINE p == Part(x, k - 1)
             y == x[k]
  <2>6. p \in Seq(C) /\ y \in Seq(C) /\ Part(x, k) = Cat(p, y)
    BY <2>2, <2>4, <2>5
  <2> HIDE DEF p, y
  <2>7. Cat(p, y) \in Seq(C)
    BY <2>6, CatAlgebra
  <2> QED
    BY <2>5, <2>6, <2>7
<1>6. \A k \in Nat : k \in K
  <2> HIDE DEF K
  <2> QED
    BY <1>5, SetInduction
<1>7. \A n \in 0 .. Len(x) : n \in K
  BY <1>0, <1>6
<1> QED
  BY <1>0, <1>4, <1>7

Flat(x) == FlattenSeq(x)

\* The text of all tokens.
LEMMA FlatIsPart ==
  ASSUME NEW C, NEW x \in Seq(Seq(C))
  PROVE  Flat(x) = Part(x, Len(x)) /\ Flat(x) \in Seq(C)
<1>1. Len(x) \in Nat /\ (Len(x) = 0 => x = <<>>)
  BY EmptySeq
<1>2. Flat(x) = Part(x, Len(x))
  BY <1>1, FlattenSeqIs DEF Flat, Part
<1>3. Len(x) \in 0 .. Len(x)
  BY <1>1
<1> QED
  BY <1>2, <1>3, PartFacts

\* The elements of x are those of a, and then those of b.
IsCat(S, x, a, b) ==
  /\ x \in Seq(S) /\ Len(x) = Len(a) + Len(b) /\ Len(a) \in Nat /\ Len(b) \in Nat
  /\ \A i \in 1 .. Len(a) : x[i] = a[i]
  /\ \A i \in 1 .. Len(b) : x[Len(a) + i] = b[i]

\* Those of a concatenation are.
LEMMA CatIs ==
  ASSUME NEW S, NEW a \in Seq(S), NEW b \in Seq(S)
  PROVE  IsCat(S, Cat(a, b), a, b)
<1> DEFINE x == Cat(a, b)
<1>1. x \in Seq(S) /\ Len(x) = Len(a) + Len(b) /\ Len(a) \in Nat /\ Len(b) \in Nat
  BY ConcatParts
<1>2. \A i \in 1 .. Len(a) : x[i] = a[i]
  BY ConcatParts
<1>3. \A i \in 1 .. Len(b) : x[Len(a) + i] = b[i]
  BY ConcatParts
<1> HIDE DEF x
<1>4. IsCat(S, x, a, b)
  BY <1>1, <1>2, <1>3 DEF IsCat
<1> QED
  BY <1>4 DEF x

\* The text of tokens and more tokens is the text of both.
LEMMA FlatCat ==
  ASSUME NEW C, NEW a \in Seq(Seq(C)), NEW b \in Seq(Seq(C))
  PROVE  Flat(Cat(a, b)) = Cat(Flat(a), Flat(b))
<1> DEFINE x == Cat(a, b)
           T == Seq(C)
<1>0. /\ x \in Seq(T) /\ Len(x) = Len(a) + Len(b) /\ Len(a) \in Nat /\ Len(b) \in Nat
      /\ \A i \in 1 .. Len(a) : x[i] = a[i]
      /\ \A i \in 1 .. Len(b) : x[Len(a) + i] = b[i]
  <2>1. a \in Seq(T) /\ b \in Seq(T)
    OBVIOUS
  <2> HIDE DEF T, x
  <2>2. IsCat(T, x, a, b)
    BY <2>1, CatIs DEF x
  <2> QED
    BY <2>2 DEF IsCat
<1> HIDE DEF x
<1>1. /\ Part(x, 0) = <<>> /\ Part(a, 0) = <<>> /\ Part(b, 0) = <<>>
      /\ \A n \in 1 .. Len(x) : Part(x, n) = Cat(Part(x, n - 1), x[n])
      /\ \A n \in 1 .. Len(a) : Part(a, n) = Cat(Part(a, n - 1), a[n])
      /\ \A n \in 1 .. Len(b) : Part(b, n) = Cat(Part(b, n - 1), b[n])
      /\ \A n \in 0 .. Len(a) : Part(a, n) \in Seq(C)
      /\ \A n \in 0 .. Len(b) : Part(b, n) \in Seq(C)
  BY <1>0, PartFacts DEF T
<1>2. Len(a) \in {k \in Nat : k <= Len(a) => Part(x, k) = Part(a, k)}
  <2> DEFINE K == {k \in Nat : k <= Len(a) => Part(x, k) = Part(a, k)}
  <2>1. ASSUME NEW k \in Nat, \A j \in 0 .. k - 1 : j \in K PROVE k \in K
    <3> SUFFICES ASSUME k <= Len(a), k # 0 PROVE Part(x, k) = Part(a, k)
      BY <1>1
    <3>1. k \in 1 .. Len(a) /\ k \in 1 .. Len(x) /\ k - 1 \in 0 .. k - 1 /\ k - 1 <= Len(a)
      BY <1>0
    <3>2. Part(x, k - 1) = Part(a, k - 1) /\ x[k] = a[k]
      BY <1>0, <2>1, <3>1
    <3> QED
      BY <1>1, <3>1, <3>2
  <2> HIDE DEF K
  <2>2. Len(a) \in K
    BY <1>0, <2>1, SetInduction
  <2> QED
    BY <2>2 DEF K
<1>3. Part(x, Len(a)) = Part(a, Len(a)) /\ Part(a, Len(a)) \in Seq(C)
  BY <1>0, <1>1, <1>2
<1>4. Len(b) \in {k \in Nat : k <= Len(b) => Part(x, Len(a) + k) = Cat(Part(a, Len(a)), Part(b, k))}
  <2> DEFINE A == Part(a, Len(a))
             K == {k \in Nat : k <= Len(b) => Part(x, Len(a) + k) = Cat(A, Part(b, k))}
  <2>0. A \in Seq(C) /\ Part(x, Len(a)) = A
    BY <1>3
  <2> HIDE DEF A
  <2>1. ASSUME NEW k \in Nat, \A j \in 0 .. k - 1 : j \in K PROVE k \in K
    <3> SUFFICES ASSUME k <= Len(b) PROVE Part(x, Len(a) + k) = Cat(A, Part(b, k))
      OBVIOUS
    <3>1. CASE k = 0
      <4>1. Len(a) + k = Len(a) /\ Part(b, k) = <<>>
        BY <1>0, <1>1, <3>1
      <4> QED
        BY <2>0, <4>1, CatAlgebra
    <3>2. CASE k # 0
      <4>1. /\ k \in 1 .. Len(b) /\ Len(a) + k \in 1 .. Len(x) /\ k - 1 \in 0 .. k - 1 /\ k - 1 <= Len(b)
            /\ Len(a) + k - 1 = Len(a) + (k - 1) /\ k - 1 \in 0 .. Len(b)
        BY <1>0, <3>2
      <4>2. Part(x, Len(a) + (k - 1)) = Cat(A, Part(b, k - 1)) /\ x[Len(a) + k] = b[k]
        BY <1>0, <2>1, <4>1
      <4>3. Part(x, Len(a) + k) = Cat(Part(x, Len(a) + k - 1), x[Len(a) + k])
        BY <1>1, <4>1
      <4>4. Part(b, k - 1) \in Seq(C) /\ b[k] \in Seq(C) /\ Part(b, k) = Cat(Part(b, k - 1), b[k])
        BY <1>1, <4>1, ElementOfSeq
      <4>5. Part(x, Len(a) + k) = Cat(Cat(A, Part(b, k - 1)), b[k])
        BY <4>1, <4>2, <4>3
      <4> DEFINE p == Part(b, k - 1)
                 y == b[k]
      <4>6. /\ p \in Seq(C) /\ y \in Seq(C) /\ Part(b, k) = Cat(p, y)
            /\ Part(x, Len(a) + k) = Cat(Cat(A, p), y)
        BY <4>4, <4>5
      <4> HIDE DEF p, y
      <4>7. Cat(Cat(A, p), y) = Cat(A, Cat(p, y))
        BY <2>0, <4>6, CatAlgebra
      <4> QED
        BY <4>6, <4>7
    <3> QED
      BY <3>1, <3>2
  <2> HIDE DEF K
  <2>2. Len(b) \in K
    BY <1>0, <2>1, SetInduction
  <2> QED
    BY <2>2 DEF K, A
<1>5. Part(x, Len(x)) = Cat(Part(a, Len(a)), Part(b, Len(b)))
  BY <1>0, <1>4
<1>6. Flat(x) = Part(x, Len(x)) /\ Flat(a) = Part(a, Len(a)) /\ Flat(b) = Part(b, Len(b))
  BY <1>0, FlatIsPart DEF T
<1> QED
  BY <1>5, <1>6 DEF x

\* No token, no text; one token's text is itself.
LEMMA FlatSmall ==
  ASSUME NEW C
  PROVE  Flat(<<>>) = <<>> /\ \A w \in Seq(C) : Flat(One(w)) = w
<1>1. Flat(<<>>) = <<>>
  <2>0. SUFFICES ASSUME NEW e, e = <<>> PROVE Flat(e) = e
    OBVIOUS
  <2>1. Len(e) = 0
    BY <2>0
  <2> QED
    BY <2>1, FlattenSeqIs DEF Flat
<1>2. ASSUME NEW w \in Seq(C) PROVE Flat(One(w)) = w
  <2>0. SUFFICES ASSUME NEW e, e = One(w) PROVE Flat(e) = w
    OBVIOUS
  <2>1. e \in Seq(Seq(C)) /\ Len(e) = 1 /\ e[1] = w
    BY <2>0 DEF One
  <2>2. Part(e, 0) = <<>> /\ \A n \in 1 .. Len(e) : Part(e, n) = Cat(Part(e, n - 1), e[n])
    BY <2>1, PartFacts
  <2>3. Part(e, 1) = Cat(Part(e, 0), w)
    <3>1. 1 \in 1 .. Len(e) /\ 1 - 1 = 0
      BY <2>1
    <3> QED
      BY <2>1, <2>2, <3>1
  <2>4. Part(e, 1) = w
    BY <2>2, <2>3, CatAlgebra
  <2>5. Flat(e) = Part(e, Len(e))
    BY <2>1, FlatIsPart
  <2> QED
    BY <2>1, <2>4, <2>5
<1> QED
  BY <1>1, <1>2
-----------------------------------------------------------------------------
(* Concatenations *)

\* Its length is the sum of theirs.
LEMMA CatLen ==
  ASSUME NEW S, NEW a \in Seq(S), NEW b \in Seq(S)
  PROVE  /\ Cat(a, b) \in Seq(S) /\ Len(Cat(a, b)) = Len(a) + Len(b)
         /\ Len(a) \in Nat /\ Len(b) \in Nat
BY CatIs DEF IsCat

\* What follows in c after its first k elements.
LEMMA CutParts ==
  ASSUME NEW S, NEW c \in Seq(S), NEW k \in 0 .. Len(c)
  PROVE  /\ SubSeq(c, 1, k) \in Seq(S) /\ Len(SubSeq(c, 1, k)) = k
         /\ Suffix(c, Len(c) - k) \in Seq(S)
         /\ c = Cat(SubSeq(c, 1, k), Suffix(c, Len(c) - k))
<1> DEFINE p == SubSeq(c, 1, k)
           m == Len(c) - k
           u == Suffix(c, m)
           x == Cat(p, u)
<1>0. Len(c) \in Nat /\ m \in 0 .. Len(c) /\ Len(c) - m = k
  OBVIOUS
<1>1. p \in Seq(S) /\ Len(p) = k /\ \A i \in 1 .. k : p[i] = c[i]
  BY SubSub
<1> HIDE DEF m
<1>2. u \in Seq(S) /\ Len(u) = m /\ \A i \in 1 .. m : u[i] = c[Len(c) - m + i]
  BY <1>0, SuffixFacts
<1> HIDE DEF p, u
<1>4a. IsCat(S, x, p, u)
  BY <1>1, <1>2, CatIs
<1> HIDE DEF x
<1>3. /\ x \in Seq(S) /\ Len(x) = Len(p) + Len(u)
      /\ \A i \in 1 .. Len(p) : x[i] = p[i]
      /\ \A i \in 1 .. Len(u) : x[Len(p) + i] = u[i]
  BY <1>4a DEF IsCat
<1>4. Len(x) = Len(c)
  BY <1>0, <1>1, <1>2, <1>3
<1>5. \A i \in 1 .. Len(x) : x[i] = c[i]
  <2> SUFFICES ASSUME NEW i \in 1 .. Len(x) PROVE x[i] = c[i]
    OBVIOUS
  <2>1. CASE i <= k
    <3>1. i \in 1 .. k
      BY <2>1, <1>0
    <3> QED
      BY <1>1, <1>3, <3>1
  <2>2. CASE ~(i <= k)
    <3>1. i - k \in 1 .. m /\ k + (i - k) = i
      BY <1>0, <1>4, <2>2
    <3>2. x[k + (i - k)] = u[i - k]
      BY <1>1, <1>2, <1>3, <3>1
    <3>3. u[i - k] = c[k + (i - k)]
      BY <1>0, <1>2, <3>1
    <3> QED
      BY <3>1, <3>2, <3>3
  <2> QED
    BY <2>1, <2>2
<1>6. x = c
  BY <1>3, <1>4, <1>5, SeqEqual
<1> QED
  BY <1>1, <1>2, <1>6 DEF p, u, x, m

\* Sequences with the same elements at the front, or at the back, are the same
\* if the rest is.
LEMMA Cancel ==
  ASSUME NEW S, NEW a \in Seq(S), NEW b \in Seq(S), NEW c \in Seq(S)
  PROVE  (Cat(a, b) = Cat(a, c) => b = c) /\ (Cat(b, a) = Cat(c, a) => b = c)
<1>1. ASSUME Cat(a, b) = Cat(a, c) PROVE b = c
  <2> DEFINE x == Cat(a, b)
             y == Cat(a, c)
  <2>1. /\ Len(x) = Len(a) + Len(b) /\ Suffix(x, Len(b)) = b /\ Len(a) \in Nat /\ Len(b) \in Nat
    BY ConcatParts
  <2>2. /\ Len(y) = Len(a) + Len(c) /\ Suffix(y, Len(c)) = c /\ Len(c) \in Nat
    BY ConcatParts
  <2>3. x = y
    BY <1>1
  <2> HIDE DEF x, y
  <2>4. Len(b) = Len(c)
    BY <2>1, <2>2, <2>3
  <2> QED
    BY <2>1, <2>2, <2>3, <2>4
<1>2. ASSUME Cat(b, a) = Cat(c, a) PROVE b = c
  <2> DEFINE x == Cat(b, a)
             y == Cat(c, a)
  <2>1. /\ Len(x) = Len(b) + Len(a) /\ SubSeq(x, 1, Len(b)) = b /\ Len(a) \in Nat /\ Len(b) \in Nat
    BY ConcatParts
  <2>2. /\ Len(y) = Len(c) + Len(a) /\ SubSeq(y, 1, Len(c)) = c /\ Len(c) \in Nat
    BY ConcatParts
  <2>3. x = y
    BY <1>2
  <2> HIDE DEF x, y
  <2>4. Len(b) = Len(c)
    <3>1. Len(b) + Len(a) = Len(c) + Len(a)
      BY <2>1, <2>2, <2>3
    <3>2. \A m, n, k \in Nat : m + k = n + k => m = n
      OBVIOUS
    <3> HIDE DEF x, y
    <3> QED
      BY ONLY <2>1, <2>2, <3>1, <3>2
  <2> QED
    BY <2>1, <2>2, <2>3, <2>4
<1> QED
  BY <1>1, <1>2

\* t begins with s.
Starts(S, s, t) == \E u \in Seq(S) : t = Cat(s, u)

\* Cat(a, b) and Cat(c, d) are one sequence, and c is the longer beginning.
Overlap(S, a, b, c, d) == \E u \in Seq(S) : c = Cat(a, u) /\ b = Cat(u, d)

\* Of two beginnings of one sequence the longer one begins with the other.
LEMMA ShorterStarts ==
  ASSUME NEW S, NEW a \in Seq(S), NEW b \in Seq(S), NEW c \in Seq(S), NEW d \in Seq(S),
         Cat(a, b) = Cat(c, d), Len(a) <= Len(c)
  PROVE  Overlap(S, a, b, c, d)
<1> DEFINE k == Len(a)
           u == Suffix(c, Len(c) - k)
           p == SubSeq(c, 1, k)
           x == Cat(a, b)
           y == Cat(c, d)
<1>1. /\ x \in Seq(S) /\ Len(a) \in Nat /\ \A i \in 1 .. Len(a) : x[i] = a[i]
  BY CatIs DEF IsCat
<1>2. /\ Len(c) \in Nat /\ \A i \in 1 .. Len(c) : y[i] = c[i]
  BY CatIs DEF IsCat
<1>3. x = y
  OBVIOUS
<1> HIDE DEF x, y
<1>4. k \in 0 .. Len(c)
  BY <1>1, <1>2
<1>5. p \in Seq(S) /\ Len(p) = k /\ u \in Seq(S) /\ c = Cat(p, u)
  BY <1>4, CutParts
<1>6. \A i \in 1 .. k : p[i] = c[i]
  BY <1>4, SubSub
<1> HIDE DEF p, u
<1>7. p = a
  <2>1. \A i \in 1 .. k : p[i] = a[i]
    BY <1>1, <1>2, <1>3, <1>4, <1>6
  <2> QED
    BY <1>5, <2>1, SeqEqual
<1>8. c = Cat(a, u)
  BY <1>5, <1>7
<1>9. Cat(a, b) = Cat(a, Cat(u, d)) /\ Cat(u, d) \in Seq(S)
  BY <1>5, <1>8, CatAlgebra
<1>10. b = Cat(u, d)
  BY <1>9, Cancel
<1> QED
  BY <1>5, <1>8, <1>10 DEF Overlap

\* One of two beginnings of one sequence begins with the other.
LEMMA Levi ==
  ASSUME NEW S, NEW a \in Seq(S), NEW b \in Seq(S), NEW c \in Seq(S), NEW d \in Seq(S),
         Cat(a, b) = Cat(c, d)
  PROVE  Overlap(S, a, b, c, d) \/ Overlap(S, c, d, a, b)
<1>1. CASE Len(a) <= Len(c)
  BY <1>1, ShorterStarts
<1>2. CASE ~(Len(a) <= Len(c))
  <2>1. Len(a) \in Nat /\ Len(c) \in Nat
    OBVIOUS
  <2>2. Len(c) <= Len(a) /\ Cat(c, d) = Cat(a, b)
    BY <1>2, <2>1
  <2> QED
    BY <2>2, ShorterStarts
<1> QED
  BY <1>1, <1>2

\* A sequence that is not empty is its first element, and the rest.
LEMMA FirstAndRest ==
  ASSUME NEW S, NEW a \in Seq(S), a # <<>>
  PROVE  /\ Head(a) \in S /\ Tail(a) \in Seq(S) /\ a = Cat(One(Head(a)), Tail(a))
         /\ Len(Tail(a)) = Len(a) - 1 /\ Len(a) \in Nat /\ Len(a) > 0
<1>0. Len(a) \in Nat /\ Len(a) > 0
  BY EmptySeq
<1> DEFINE h == Head(a)
           t == Tail(a)
           o == One(h)
           x == Cat(o, t)
<1>1. /\ h \in S /\ t \in Seq(S) /\ Len(t) = Len(a) - 1 /\ h = a[1]
      /\ \A i \in 1 .. Len(t) : t[i] = a[i + 1]
  BY <1>0, HeadTailProperties, ElementOfSeq
<1> HIDE DEF h, t
<1>2. o \in Seq(S) /\ Len(o) = 1 /\ o[1] = h
  BY <1>1 DEF One
<1> HIDE DEF o
<1>4a. IsCat(S, x, o, t)
  BY <1>1, <1>2, CatIs
<1> HIDE DEF x
<1>3. /\ x \in Seq(S) /\ Len(x) = Len(o) + Len(t)
      /\ \A i \in 1 .. Len(o) : x[i] = o[i]
      /\ \A i \in 1 .. Len(t) : x[Len(o) + i] = t[i]
  BY <1>4a DEF IsCat
<1>4. Len(x) = Len(a)
  BY <1>0, <1>1, <1>2, <1>3
<1>5. \A i \in 1 .. Len(x) : x[i] = a[i]
  <2> SUFFICES ASSUME NEW i \in 1 .. Len(x) PROVE x[i] = a[i]
    OBVIOUS
  <2>1. CASE i = 1
    BY <1>1, <1>2, <1>3, <2>1
  <2>2. CASE i # 1
    <3>1. i - 1 \in 1 .. Len(t) /\ 1 + (i - 1) = i /\ (i - 1) + 1 = i
      BY <1>0, <1>1, <1>4, <2>2
    <3> QED
      BY <1>1, <1>2, <1>3, <3>1
  <2> QED
    BY <2>1, <2>2
<1>6. x = a
  BY <1>3, <1>4, <1>5, SeqEqual
<1> QED
  BY <1>0, <1>1, <1>6 DEF h, t, o, x

\* Equal sequences have the same first element.
LEMMA SameFirst ==
  ASSUME NEW S, NEW x \in S, NEW y \in S, NEW a \in Seq(S), NEW b \in Seq(S),
         Cat(One(x), a) = Cat(One(y), b)
  PROVE  x = y /\ a = b
<1>1. One(x) \in Seq(S) /\ One(y) \in Seq(S) /\ Len(One(x)) = 1 /\ Len(One(y)) = 1
      /\ One(x)[1] = x /\ One(y)[1] = y
  BY DEF One
<1>2. (\A i \in 1 .. Len(One(x)) : Cat(One(x), a)[i] = One(x)[i])
  BY <1>1, ConcatParts
<1>3. (\A i \in 1 .. Len(One(y)) : Cat(One(y), b)[i] = One(y)[i])
  BY <1>1, ConcatParts
<1>4. 1 \in 1 .. 1
  OBVIOUS
<1>5. x = y
  <2>1. Cat(One(x), a)[1] = One(x)[1]
    BY <1>1, <1>2, <1>4
  <2>2. Cat(One(y), b)[1] = One(y)[1]
    BY <1>1, <1>3, <1>4
  <2> QED
    BY <1>1, <2>1, <2>2
<1>6. Cat(One(x), a) = Cat(One(x), b)
  BY <1>5
<1> QED
  BY <1>1, <1>5, <1>6, Cancel

\* a token, with what comes before and after it
Around(q, x, z) == Cat(q, Cat(One(x), z))

\* The token is in the first part of Cat(a, b), or in the second.
InFirst(S, a, b, q, x, z) == \E y \in Seq(S) : a = Around(q, x, y) /\ z = Cat(y, b)
InSecond(S, a, b, q, x, z) == \E p \in Seq(S) : q = Cat(a, p) /\ b = Around(p, x, z)

\* It is in one of them.
LEMMA AroundCat ==
  ASSUME NEW S, NEW a \in Seq(S), NEW b \in Seq(S), NEW q \in Seq(S), NEW x \in S, NEW z \in Seq(S),
         Cat(a, b) = Around(q, x, z)
  PROVE  InFirst(S, a, b, q, x, z) \/ InSecond(S, a, b, q, x, z)
<1> USE DEF InFirst, InSecond
<1> DEFINE o == One(x)
           d == Cat(o, z)
<1>0. o \in Seq(S) /\ d \in Seq(S) /\ Cat(a, b) = Cat(q, d)
  BY CatAlgebra DEF Around
<1> HIDE DEF d
<1>1. CASE Overlap(S, a, b, q, d)
  BY <1>1 DEF Around, d, Overlap
<1>2. CASE Overlap(S, q, d, a, b)
  <2>1. PICK u \in Seq(S) : a = Cat(q, u) /\ d = Cat(u, b)
    BY <1>2 DEF Overlap
  <2>2. CASE u = <<>>
    <3>0. <<>> \in Seq(S)
      OBVIOUS
    <3>1. a = q /\ d = b /\ q = Cat(a, <<>>) /\ Cat(<<>>, d) = b
      BY <1>0, <2>1, <2>2, CatAlgebra
    <3> QED
      BY <3>0, <3>1 DEF Around, d
  <2>3. CASE u # <<>>
    <3> DEFINE h == Head(u)
               t == Tail(u)
    <3>1. h \in S /\ t \in Seq(S) /\ u = Cat(One(h), t)
      BY <2>3, FirstAndRest
    <3> HIDE DEF h, t
    <3>2. One(h) \in Seq(S) /\ Cat(t, b) \in Seq(S)
      BY <3>1, CatAlgebra
    <3>3. Cat(Cat(One(h), t), b) = Cat(One(h), Cat(t, b))
      BY <3>1, <3>2, CatAlgebra
    <3>4. Cat(One(x), z) = Cat(One(h), Cat(t, b))
      BY <2>1, <3>1, <3>3 DEF d
    <3>5. x = h /\ z = Cat(t, b)
      BY <3>1, <3>2, <3>4, SameFirst
    <3>6. a = Around(q, x, t)
      BY <2>1, <3>1, <3>5 DEF Around
    <3> QED
      BY <3>1, <3>5, <3>6
  <2> QED
    BY <2>2, <2>3
<1>3. Overlap(S, a, b, q, d) \/ Overlap(S, q, d, a, b)
  BY <1>0, Levi
<1> QED
  BY <1>1, <1>2, <1>3

\* A beginning, in the words of SequencesExt.
LEMMA StartsIsPrefix ==
  ASSUME NEW S, NEW s \in Seq(S), NEW t \in Seq(S)
  PROVE  IsPrefix(s, t) <=> Starts(S, s, t)
<1>0. Len(s) \in Nat /\ Len(t) \in Nat
  OBVIOUS
<1>1. SubSeq(s, 1, Len(s)) = s
  <2>1. Len(s) \in 0 .. Len(s)
    BY <1>0
  <2>2. /\ SubSeq(s, 1, Len(s)) \in Seq(S) /\ Len(SubSeq(s, 1, Len(s))) = Len(s)
        /\ \A i \in 1 .. Len(s) : SubSeq(s, 1, Len(s))[i] = s[i]
    BY <2>1, SubSub
  <2> QED
    BY <2>2, SeqEqual
<1>2. ASSUME IsPrefix(s, t) PROVE Starts(S, s, t)
  <2>1. Len(s) <= Len(t) /\ SubSeq(t, 1, Len(s)) = s
    BY <1>1, <1>2 DEF IsPrefix
  <2>2. Len(s) \in 0 .. Len(t)
    BY <1>0, <2>1
  <2>3. Suffix(t, Len(t) - Len(s)) \in Seq(S) /\ t = Cat(SubSeq(t, 1, Len(s)), Suffix(t, Len(t) - Len(s)))
    BY <2>2, CutParts
  <2> QED
    BY <2>1, <2>3 DEF Starts
<1>3. ASSUME Starts(S, s, t) PROVE IsPrefix(s, t)
  <2>1. PICK u \in Seq(S) : t = Cat(s, u)
    BY <1>3 DEF Starts
  <2>2. Len(t) = Len(s) + Len(u) /\ SubSeq(t, 1, Len(s)) = s /\ Len(u) \in Nat
    BY <2>1, ConcatParts
  <2>3. Len(s) <= Len(t)
    BY <1>0, <2>2
  <2> QED
    BY <1>1, <2>2, <2>3 DEF IsPrefix
<1> QED
  BY <1>2, <1>3
-----------------------------------------------------------------------------
(* What an encoding says of its text *)

\* t, and the encoding of y after it, are the encoding of x; no token that is
\* longer than t begins x.
Steps(C, v, x, t, y) ==
  /\ t \in Seq(C) /\ y \in Seq(C) /\ t # <<>> /\ x = Cat(t, y) /\ Len(y) < Len(x)
  /\ LPM(v, x) = Cat(One(t), LPM(v, y)) /\ LPM(v, y) \in Seq(Seq(C))
  /\ \A w \in Seq(C) : w \in v /\ w # <<>> /\ Starts(C, w, x) => Len(w) <= Len(t)

\* An encoding begins with the longest match.
LEMMA LPMSteps ==
  ASSUME NEW C, NEW v, NEW x \in Seq(C), x # <<>>
  PROVE  \E t, y : Steps(C, v, x, t, y)
<1> DEFINE n == LongestMatch(v, x)
           t == SubSeq(x, 1, n)
           y == Suffix(x, Len(x) - n)
<1>1. n \in 1 .. Len(x) /\ \A k \in Fit(v, x) : k <= n
  BY LongestFacts
<1>2. Len(x) \in Nat
  OBVIOUS
<1>3. LPM(v, x) = Cat(One(t), LPM(v, y))
  BY LPMStep DEF Cat, One
<1> HIDE DEF n
<1>4. n \in 0 .. Len(x)
  BY <1>1, <1>2
<1>5. t \in Seq(C) /\ Len(t) = n /\ y \in Seq(C) /\ x = Cat(t, y)
  BY <1>4, CutParts
<1>6. LPM(v, y) \in Seq(Seq(C))
  BY <1>5, LPMType
<1>7. t # <<>>
  BY <1>1, <1>5
<1> HIDE DEF t, y
<1>8. Len(y) < Len(x)
  <2>1. Len(x) = Len(t) + Len(y) /\ Len(y) \in Nat
    BY <1>5, ConcatParts
  <2> QED
    BY <1>1, <1>5, <2>1
<1>9. ASSUME NEW w \in Seq(C), w \in v, w # <<>>, Starts(C, w, x) PROVE Len(w) <= Len(t)
  <2>1. PICK u \in Seq(C) : x = Cat(w, u)
    BY <1>9 DEF Starts
  <2>2. SubSeq(x, 1, Len(w)) = w /\ Len(x) = Len(w) + Len(u) /\ Len(u) \in Nat
    BY <2>1, ConcatParts
  <2>3. Len(w) \in Nat /\ Len(w) # 0
    BY <1>9, EmptySeq
  <2>4. Len(w) \in 1 .. Len(x)
    BY <2>2, <2>3
  <2>5. Len(w) \in Fit(v, x)
    BY <1>9, <2>2, <2>4 DEF Fit
  <2> QED
    BY <1>1, <1>5, <2>5
<1> QED
  BY <1>3, <1>5, <1>6, <1>7, <1>8, <1>9 DEF Steps

\* The text of an encoding is what was encoded.
LEMMA LPMFlat ==
  ASSUME NEW C, NEW v, NEW x \in Seq(C)
  PROVE  Flat(LPM(v, x)) = x
<1> DEFINE K == {n \in Nat : \A s \in Seq(C) : Len(s) = n => Flat(LPM(v, s)) = s}
<1>1. ASSUME NEW n \in Nat, \A k \in 0 .. n - 1 : k \in K PROVE n \in K
  <2> SUFFICES ASSUME NEW s \in Seq(C), Len(s) = n PROVE Flat(LPM(v, s)) = s
    OBVIOUS
  <2>1. CASE s = <<>>
    BY <2>1, LPMEmpty, FlatSmall
  <2>2. CASE s # <<>>
    <3>1. PICK t, y : Steps(C, v, s, t, y)
      BY <2>2, LPMSteps
    <3> DEFINE l == LPM(v, y)
               o == One(t)
    <3>2. /\ t \in Seq(C) /\ y \in Seq(C) /\ s = Cat(t, y) /\ Len(y) < Len(s)
          /\ LPM(v, s) = Cat(o, l) /\ l \in Seq(Seq(C))
      BY <3>1 DEF Steps
    <3>3. Flat(l) = y
      <4>1. Len(y) \in 0 .. n - 1
        BY <3>2
      <4>2. Len(y) \in K
        BY <1>1, <4>1
      <4> QED
        BY <3>2, <4>2
    <3>4. o \in Seq(Seq(C)) /\ Flat(o) = t
      BY <3>2, FlatSmall DEF One
    <3> HIDE DEF l, o
    <3>5. Flat(Cat(o, l)) = Cat(Flat(o), Flat(l))
      BY <3>2, <3>4, FlatCat
    <3> QED
      BY <3>2, <3>3, <3>4, <3>5
  <2> QED
    BY <2>1, <2>2
<1>2. Nat \subseteq K
  <2> HIDE DEF K
  <2> QED
    BY <1>1, SetInduction
<1>3. Len(x) \in K
  <2> HIDE DEF K
  <2> QED
    BY <1>2
<1> QED
  BY <1>3

\* The end of an encoding is the encoding of its text.
LEMMA LPMTail ==
  ASSUME NEW C, NEW v, NEW x \in Seq(C), NEW q \in Seq(Seq(C)), NEW y \in Seq(Seq(C)),
         LPM(v, x) = Cat(q, y)
  PROVE  LPM(v, Flat(y)) = y
<1> DEFINE K == {n \in Nat : \A s \in Seq(C) : \A p \in Seq(Seq(C)) :
                    Len(s) = n /\ LPM(v, s) = Cat(p, y) => LPM(v, Flat(y)) = y}
<1>1. ASSUME NEW n \in Nat, \A k \in 0 .. n - 1 : k \in K PROVE n \in K
  <2> SUFFICES ASSUME NEW s \in Seq(C), NEW p \in Seq(Seq(C)), Len(s) = n, LPM(v, s) = Cat(p, y)
               PROVE  LPM(v, Flat(y)) = y
    OBVIOUS
  <2>1. CASE p = <<>>
    <3>1. LPM(v, s) = y
      BY <2>1, CatAlgebra
    <3> QED
      BY <3>1, LPMFlat
  <2>2. CASE p # <<>>
    <3> DEFINE h == Head(p)
               r == Tail(p)
    <3>1. h \in Seq(C) /\ r \in Seq(Seq(C)) /\ p = Cat(One(h), r)
      BY <2>2, FirstAndRest
    <3> HIDE DEF h, r
    <3>2. s # <<>>
      <4> SUFFICES ASSUME s = <<>> PROVE FALSE
        OBVIOUS
      <4>1. LPM(v, s) = <<>>
        BY LPMEmpty
      <4>2. Len(Cat(p, y)) = Len(p) + Len(y) /\ Len(p) \in Nat /\ Len(y) \in Nat
        BY ConcatParts
      <4>3. Len(p) = 0
        BY <4>1, <4>2
      <4> QED
        BY <2>2, <4>3, EmptySeq
    <3>3. PICK t, u : Steps(C, v, s, t, u)
      BY <3>2, LPMSteps
    <3> DEFINE l == LPM(v, u)
    <3>4. /\ t \in Seq(C) /\ u \in Seq(C) /\ Len(u) < Len(s)
          /\ LPM(v, s) = Cat(One(t), l) /\ l \in Seq(Seq(C))
      BY <3>3 DEF Steps
    <3>5. l = Cat(r, y)
      <4> HIDE DEF l
      <4>1. One(h) \in Seq(Seq(C)) /\ Cat(r, y) \in Seq(Seq(C))
        BY <3>1, CatAlgebra
      <4>2. Cat(Cat(One(h), r), y) = Cat(One(h), Cat(r, y))
        BY <3>1, <4>1, CatAlgebra
      <4>3. Cat(One(t), l) = Cat(One(h), Cat(r, y))
        BY <3>1, <3>4, <4>2
      <4> QED
        BY <3>1, <3>4, <4>1, <4>3, SameFirst
    <3>6. Len(u) \in 0 .. n - 1
      BY <3>4
    <3>7. Len(u) \in K
      BY <1>1, <3>6
    <3> QED
      BY <3>1, <3>4, <3>5, <3>7
  <2> QED
    BY <2>1, <2>2
<1>2. Nat \subseteq K
  <2> HIDE DEF K
  <2> QED
    BY <1>1, SetInduction
<1>3. Len(x) \in K
  <2> HIDE DEF K
  <2> QED
    BY <1>2
<1> QED
  BY <1>3

\* Every token of an encoding is the longest one that begins the text from there on.
LEMMA LPMLongest ==
  ASSUME NEW C, NEW v, NEW x \in Seq(C), NEW q \in Seq(Seq(C)), NEW t \in Seq(C), NEW z \in Seq(Seq(C)),
         LPM(v, x) = Around(q, t, z), NEW w \in Seq(C), w \in v, w # <<>>, Starts(C, w, Cat(t, Flat(z)))
  PROVE  Len(w) <= Len(t)
<1> DEFINE y == Cat(One(t), z)
           s == Cat(t, Flat(z))
<1>1. y \in Seq(Seq(C)) /\ LPM(v, x) = Cat(q, y) /\ One(t) \in Seq(Seq(C))
  BY CatAlgebra DEF Around, One
<1>2. Flat(y) = s
  <2>1. Flat(One(t)) = t
    BY FlatSmall
  <2> QED
    BY <1>1, <2>1, FlatCat
<1>3. Flat(z) \in Seq(C)
  BY FlatIsPart
<1>4. s \in Seq(C)
  BY <1>3, CatAlgebra
<1>5. LPM(v, s) = y
  <2> HIDE DEF y, s
  <2> QED
    BY <1>1, <1>2, LPMTail
<1> DEFINE f == Flat(z)
<1>6. s # <<>>
  <2> SUFFICES ASSUME s = <<>> PROVE FALSE
    OBVIOUS
  <2> HIDE DEF s
  <2>1. y = <<>>
    BY <1>5, LPMEmpty
  <2>2. Len(y) = Len(One(t)) + Len(z) /\ Len(z) \in Nat
    BY <1>1, ConcatParts
  <2>3. Len(One(t)) = 1
    BY DEF One
  <2> QED
    BY <2>1, <2>2, <2>3
<1> HIDE DEF s
<1>7. PICK h, r : Steps(C, v, s, h, r)
  BY <1>4, <1>6, LPMSteps
<1> DEFINE l == LPM(v, r)
<1>8. h \in Seq(C) /\ l \in Seq(Seq(C)) /\ LPM(v, s) = Cat(One(h), l)
      /\ (Starts(C, w, s) => Len(w) <= Len(h))
  BY <1>7 DEF Steps
<1> HIDE DEF l
<1>9. Cat(One(t), z) = Cat(One(h), l)
  BY <1>5, <1>8
<1>10. t = h
  BY <1>8, <1>9, SameFirst
<1> QED
  BY <1>8, <1>10 DEF s
-----------------------------------------------------------------------------
(* Phi arcs output no token too early *)

\* A phi arc moves text from the state to the output.
LEMMA RightText ==
  ASSUME NEW v, NEW s \in Trie(v), NEW e \in Seq(ExtractCharacters(v)), NEW r,
         GoodVocab(v), Right(ExtractCharacters(v), v, e, s, r)
  PROVE  /\ r.out \in Seq(v) /\ r.to \in Seq(ExtractCharacters(v))
         /\ e = Cat(Flat(r.out), r.to) /\ LPM(v, e) = Cat(r.out, LPM(v, r.to))
<1> DEFINE E == ExtractCharacters(v)
           ou == r.out
           to == r.to
           l == LPM(v, to)
<1>1. ou \in Seq(Seq(E)) /\ to \in Seq(E) /\ Continues(E, v, e, s, r)
  BY TrieFacts DEF Right
<1>2. ~Longer(v, s, <<>>) /\ <<>> \in Seq(E)
  BY QuietAtEnd
<1>3. LPM(v, Cat(e, <<>>)) = Cat(ou, LPM(v, Cat(to, <<>>)))
  BY <1>1, <1>2 DEF Continues
<1>4. Cat(e, <<>>) = e /\ Cat(to, <<>>) = to
  BY <1>1, CatAlgebra
<1>5. LPM(v, e) = Cat(ou, l)
  BY <1>3, <1>4
<1>6. l \in Seq(Seq(E)) /\ Flat(l) = to /\ Flat(LPM(v, e)) = e
  BY <1>1, LPMType, LPMFlat
<1> HIDE DEF ou, to, l
<1>7. e = Cat(Flat(ou), to)
  BY <1>1, <1>5, <1>6, FlatCat
<1>8. ou \in Seq(v)
  <2>1. LPM(v, e) \in Seq(v)
    BY LPMKnown
  <2>2. Cat(ou, l) \in Seq(v)
    BY <1>5, <2>1
  <2> QED
    BY <1>1, <1>6, <2>2, FirstPart
<1> QED
  BY <1>1, <1>5, <1>7, <1>8 DEF ou, to, l

\* So does a transition, with the character that is read.
LEMMA MovedText ==
  ASSUME NEW v, NEW e \in Seq(ExtractCharacters(v)), NEW n, NEW c \in ExtractCharacters(v), NEW r,
         GoodVocab(v), Moved(ExtractCharacters(v), v, e, n, c, r)
  PROVE  /\ r.out \in Seq(v) /\ r.to \in Seq(ExtractCharacters(v))
         /\ Cat(e, One(c)) = Cat(Flat(r.out), r.to)
<1> DEFINE E == ExtractCharacters(v)
           ou == r.out
           to == r.to
           l == LPM(v, to)
           x == Cat(e, One(c))
<1>1. ou \in Seq(Seq(E)) /\ to \in Seq(E) /\ Leads(E, v, e, c, r)
  BY TrieFacts DEF Moved
<1>2. <<>> \in Seq(E) /\ One(c) \in Seq(E) /\ x \in Seq(E)
  BY CatAlgebra
<1>3. LPM(v, Cat(e, Cat(One(c), <<>>))) = Cat(ou, LPM(v, Cat(to, <<>>)))
  BY <1>1, <1>2 DEF Leads
<1>4. Cat(One(c), <<>>) = One(c) /\ Cat(to, <<>>) = to
  BY <1>1, <1>2, CatAlgebra
<1>5. LPM(v, x) = Cat(ou, l)
  BY <1>3, <1>4
<1>6. l \in Seq(Seq(E)) /\ Flat(l) = to /\ Flat(LPM(v, x)) = x
  BY <1>1, <1>2, LPMType, LPMFlat
<1> HIDE DEF ou, to, l
<1>7. x = Cat(Flat(ou), to)
  BY <1>1, <1>5, <1>6, FlatCat
<1>8. ou \in Seq(v)
  <2>1. LPM(v, x) \in Seq(v)
    BY <1>2, LPMKnown
  <2>2. Cat(ou, l) \in Seq(v)
    BY <1>5, <2>1
  <2> QED
    BY <1>1, <1>6, <2>2, FirstPart
<1> QED
  BY <1>1, <1>7, <1>8 DEF ou, to, l, x

\* What begins a state is a state.
LEMMA TrieBefore ==
  ASSUME NEW v, GoodVocab(v), NEW x \in Seq(ExtractCharacters(v)), NEW y \in Seq(ExtractCharacters(v)),
         Cat(x, y) \in Trie(v)
  PROVE  x \in Trie(v)
<1> DEFINE E == ExtractCharacters(v)
           t == Cat(x, y)
<1>1. SubSeq(t, 1, Len(x)) = x /\ Len(t) = Len(x) + Len(y) /\ Len(x) \in Nat /\ Len(y) \in Nat
  BY ConcatParts
<1>2. t \in Trie(v)
  OBVIOUS
<1> HIDE DEF t
<1>3. Len(x) \in 0 .. Len(t)
  BY <1>1
<1> QED
  BY <1>1, <1>2, <1>3, TriePrefix

(* A token that was output could not have become longer: its state is a leaf, *)
(* or what was read from there on is no state.  Of the first one it is said   *)
(* only if any.                                                               *)
Settled(v, a, to, any) ==
  \A q, z \in Seq(v) : \A x \in v :
    a = Around(q, x, z) /\ (any \/ q # <<>>) =>
      Leaf(Trie(v), x) \/ Cat(x, Cat(Flat(z), to)) \notin Trie(v)

\* One token is around nothing else.
LEMMA AroundOne ==
  ASSUME NEW S, NEW t \in S, NEW q \in Seq(S), NEW x \in S, NEW z \in Seq(S), One(t) = Around(q, x, z)
  PROVE  q = <<>> /\ x = t /\ z = <<>>
<1> DEFINE o == One(x)
           d == Cat(o, z)
           y == Cat(q, d)
<1>1. o \in Seq(S) /\ Len(o) = 1 /\ Len(One(t)) = 1
  BY CatAlgebra DEF One
<1>4. y = One(t)
  BY DEF Around
<1> HIDE DEF o
<1>2. d \in Seq(S) /\ Len(d) = 1 + Len(z) /\ Len(z) \in Nat
  BY <1>1, CatLen
<1> HIDE DEF d
<1>3. Len(y) = Len(q) + Len(d) /\ Len(q) \in Nat
  BY <1>2, CatLen
<1>5. Len(q) = 0 /\ Len(z) = 0
  <2>1. Len(y) = 1
    BY <1>1, <1>4
  <2>2. Len(q) + (1 + Len(z)) = 1
    BY <1>2, <1>3, <2>1
  <2>3. \A m, n \in Nat : m + (1 + n) = 1 => m = 0 /\ n = 0
    OBVIOUS
  <2> QED
    BY ONLY <1>2, <1>3, <2>2, <2>3
<1>6. q = <<>> /\ z = <<>>
  BY <1>5, EmptySeq
<1>7. d = o /\ y = d
  BY <1>1, <1>2, <1>6, CatAlgebra DEF d
<1>8. One(x) = One(t)
  BY <1>4, <1>7 DEF o
<1>9. One(x)[1] = x /\ One(t)[1] = t
  BY DEF One
<1> QED
  BY <1>6, <1>8, <1>9

\* Nothing is around no token.
LEMMA AroundSome ==
  ASSUME NEW S, NEW q \in Seq(S), NEW x \in S, NEW z \in Seq(S)
  PROVE  Around(q, x, z) \in Seq(S) /\ Around(q, x, z) # <<>>
         /\ Len(Around(q, x, z)) = Len(q) + 1 + Len(z)
<1> DEFINE o == One(x)
           d == Cat(o, z)
<1>1. o \in Seq(S) /\ Len(o) = 1
  BY CatAlgebra DEF One
<1>4. Around(q, x, z) = Cat(q, d)
  BY DEF Around
<1> HIDE DEF o
<1>2. d \in Seq(S) /\ Len(d) = 1 + Len(z) /\ Len(z) \in Nat
  BY <1>1, CatLen
<1> HIDE DEF d
<1>3. Cat(q, d) \in Seq(S) /\ Len(Cat(q, d)) = Len(q) + Len(d) /\ Len(q) \in Nat
  BY <1>2, CatLen
<1> QED
  BY <1>2, <1>3, <1>4

\* The text around a token.
LEMMA AroundFlat ==
  ASSUME NEW C, NEW q \in Seq(Seq(C)), NEW x \in Seq(C), NEW z \in Seq(Seq(C))
  PROVE  /\ Flat(Around(q, x, z)) = Cat(Flat(q), Cat(x, Flat(z)))
         /\ Flat(q) \in Seq(C) /\ Flat(z) \in Seq(C)
<1>1. One(x) \in Seq(Seq(C)) /\ Flat(One(x)) = x /\ Cat(One(x), z) \in Seq(Seq(C))
  BY CatAlgebra, FlatSmall DEF One
<1>2. Flat(Cat(One(x), z)) = Cat(x, Flat(z))
  BY <1>1, FlatCat
<1>3. Flat(Cat(q, Cat(One(x), z))) = Cat(Flat(q), Flat(Cat(One(x), z)))
  BY <1>1, FlatCat
<1> QED
  BY <1>2, <1>3, FlatIsPart DEF Around

(* Tokens output one after the other, a and then b, with a character read    *)
(* between: the first of a was settled, or is by that character.             *)
LEMMA SettledOn ==
  ASSUME NEW v, GoodVocab(v), NEW a \in Seq(v), NEW b \in Seq(v), NEW any, NEW some,
         NEW u \in Seq(ExtractCharacters(v)), NEW to \in Seq(ExtractCharacters(v)),
         NEW c \in ExtractCharacters(v), Cat(u, One(c)) = Cat(Flat(b), to),
         Settled(v, a, u, some), Settled(v, b, to, TRUE),
         any => some \/ Cat(Cat(Flat(a), u), One(c)) \notin Trie(v)
  PROVE  Settled(v, Cat(a, b), to, any)
<1> DEFINE E == ExtractCharacters(v)
           T == Seq(E)
           o == One(c)
<1>0. v \subseteq T /\ Seq(v) \subseteq Seq(T) /\ o \in T
  <2>1. v \subseteq T /\ o \in T
    BY CatAlgebra DEF GoodVocab
  <2> HIDE DEF T
  <2> QED
    BY <2>1, SeqMonotonic
<1> SUFFICES ASSUME NEW q \in Seq(v), NEW z \in Seq(v), NEW x \in v,
                    Cat(a, b) = Around(q, x, z), any \/ q # <<>>, ~Leaf(Trie(v), x)
             PROVE  Cat(x, Cat(Flat(z), to)) \notin Trie(v)
  BY DEF Settled
<1>1. ASSUME NEW p \in Seq(v), b = Around(p, x, z) PROVE Cat(x, Cat(Flat(z), to)) \notin Trie(v)
  BY <1>1 DEF Settled
<1>2. ASSUME NEW y \in Seq(v), a = Around(q, x, y), z = Cat(y, b)
      PROVE  Cat(x, Cat(Flat(z), to)) \notin Trie(v)
  <2> DEFINE f == Flat(y)
             g == Flat(b)
             w == Cat(f, u)
  <2>1. /\ a \in Seq(T) /\ b \in Seq(T) /\ q \in Seq(T) /\ y \in Seq(T) /\ x \in T
    BY <1>0
  <2>2. f \in T /\ g \in T /\ Flat(a) = Cat(Flat(q), Cat(x, f)) /\ Flat(q) \in T
    BY <1>2, <2>1, AroundFlat, FlatIsPart
  <2>3. Flat(z) = Cat(f, g)
    BY <1>2, <2>1, FlatCat
  <2> HIDE DEF f, g
  <2>4. w \in T /\ Cat(x, w) \in T /\ Cat(f, g) \in T /\ Cat(x, f) \in T
    BY <2>1, <2>2, CatAlgebra
  <2>5. Cat(Cat(f, g), to) = Cat(w, o)
    <3>1. Cat(Cat(f, g), to) = Cat(f, Cat(g, to))
      BY <2>2, CatAlgebra
    <3>2. Cat(Cat(f, u), o) = Cat(f, Cat(u, o))
      BY <1>0, <2>2, CatAlgebra
    <3>3. Cat(u, o) = Cat(g, to)
      BY DEF g
    <3> QED
      BY <3>1, <3>2, <3>3
  <2>6. Cat(x, Cat(Flat(z), to)) = Cat(Cat(x, w), o)
    <3>1. Cat(x, Cat(w, o)) = Cat(Cat(x, w), o)
      <4> HIDE DEF w, o
      <4> QED
        BY <1>0, <2>1, <2>4, CatAlgebra
    <3> QED
      BY <2>3, <2>5, <3>1
  <2>7. CASE some \/ q # <<>>
    <3>1. Cat(x, w) \notin Trie(v)
      BY <1>2, <2>7 DEF Settled, f
    <3>2. Cat(Cat(x, w), o) \notin Trie(v)
      <4> HIDE DEF w, o
      <4> QED
        BY <1>0, <2>4, <3>1, TrieBefore
    <3> QED
      BY <2>6, <3>2
  <2>8. CASE ~(some \/ q # <<>>)
    <3>1. Cat(Cat(Flat(a), u), o) \notin Trie(v) /\ q = <<>>
      BY <2>8
    <3>2. Flat(a) = Cat(x, f)
      BY <2>2, <2>4, <3>1, FlatSmall, CatAlgebra
    <3>3. Cat(Cat(x, f), u) = Cat(x, w)
      BY <2>1, <2>2, CatAlgebra
    <3> QED
      BY <2>6, <3>1, <3>2, <3>3
  <2> QED
    BY <2>7, <2>8
<1>3. InFirst(v, a, b, q, x, z) \/ InSecond(v, a, b, q, x, z)
  BY AroundCat
<1> QED
  BY <1>1, <1>2, <1>3 DEF InFirst, InSecond
-----------------------------------------------------------------------------
\* The last transition outputs a leaf, or nothing.
LEMMA ArcSettled ==
  ASSUME NEW v, NEW there \in Trie(v), GoodVocab(v)
  PROVE  Settled(v, Arc(Trie(v), there).out, Arc(Trie(v), there).to, TRUE)
<1> DEFINE r == Arc(Trie(v), there)
<1>1. CASE Leaf(Trie(v), there)
  <2>1. r.out = One(there)
    BY <1>1 DEF Arc, One
  <2>2. there \in v
    BY <1>1, LeafFacts
  <2> SUFFICES ASSUME NEW q \in Seq(v), NEW z \in Seq(v), NEW x \in v, One(there) = Around(q, x, z)
               PROVE  Leaf(Trie(v), x)
    BY <2>1 DEF Settled
  <2>3. x = there
    BY <2>2, AroundOne
  <2> QED
    BY <1>1, <2>3
<1>2. CASE ~Leaf(Trie(v), there)
  <2>1. r.out = <<>>
    BY <1>2 DEF Arc
  <2>2. \A q, z \in Seq(v) : \A x \in v : Around(q, x, z) # <<>>
    BY AroundSome
  <2> QED
    BY <2>1, <2>2 DEF Settled
<1> QED
  BY <1>1, <1>2

\* The arcs of the table, up to N characters, output no token too early.
Careful(v, P, N) ==
  \A t \in Trie(v) \ {Start} : Len(t) <= N => Settled(v, P[t].out, P[t].to, FALSE)

\* Then no transition does.
LEMMA GoSettled ==
  ASSUME NEW v, NEW P, NEW s \in Trie(v), NEW c \in ExtractCharacters(v), GoodVocab(v),
         Table(ExtractCharacters(v), v, FALSE, P, Len(s)), Careful(v, P, Len(s))
  PROVE  Settled(v, MakeTransitions(Trie(v), P, s, c).out, MakeTransitions(Trie(v), P, s, c).to, TRUE)
<1> DEFINE M == Len(s)
           E == ExtractCharacters(v)
           tr == Trie(v)
           g == Go(tr, P, M, c)
           Fine(t, r) == Moved(E, v, t, Len(t), c, r) /\ Settled(v, r.out, r.to, TRUE)
           S == {n \in Nat : \A t \in tr : Len(t) = n /\ n <= M => Fine(t, g[t])}
<1>0. M \in Nat /\ (\A t \in tr : Len(t) \in Nat) /\ tr \subseteq Seq(E)
  BY TrieLen, TrieFacts
<1>1. \A t \in UpTo(tr, M) : g[t] = GoAt(tr, P, c, g, t)
  <2> DEFINE min == FALSE
  <2>1. Table(E, v, min, P, M)
    OBVIOUS
  <2> HIDE DEF min
  <2> QED
    BY <1>0, <2>1, GoDef
<1> HIDE DEF g, Fine
<1>2. ASSUME NEW n \in Nat, \A k \in 0 .. n - 1 : k \in S PROVE n \in S
  <2> SUFFICES ASSUME NEW t \in tr, Len(t) = n, n <= M PROVE Fine(t, g[t])
    OBVIOUS
  <2>1. g[t] = GoAt(tr, P, c, g, t)
    <3>1. t \in UpTo(tr, M)
      BY DEF UpTo
    <3> QED
      BY <1>1, <3>1
  <2>2. CASE Find(tr, t, c)
    <3>1. g[t] = Arc(tr, Append(t, c))
      BY <2>1, <2>2 DEF GoAt
    <3>2. Moved(E, v, t, Len(t), c, Arc(tr, Append(t, c)))
      BY <2>2, ArcRight
    <3>3. Append(t, c) \in tr
      BY <2>2 DEF Find
    <3> DEFINE there == Append(t, c)
    <3> HIDE DEF there
    <3>4. Settled(v, Arc(tr, there).out, Arc(tr, there).to, TRUE)
      BY <3>3, ArcSettled DEF there
    <3> QED
      BY <3>1, <3>2, <3>4 DEF there, Fine
  <2>3. CASE ~Find(tr, t, c)
    <3> DEFINE p == P[t]
               q == g[P[t].to]
               r == g[t]
    <3>0. g[t] = Leap(P, g, t)
      BY <2>1, <2>3 DEF GoAt
    <3>1. r.out = Cat(p.out, q.out) /\ r.to = q.to
      <4>1. Leap(P, g, t).out = Cat(p.out, q.out) /\ Leap(P, g, t).to = q.to
        BY LeapFields
      <4> QED
        BY <3>0, <4>1
    <3>2. t \in tr \ {Start}
      BY <2>3, StartHasArcs
    <3>3. Right(E, v, t, t, p) /\ Settled(v, p.out, p.to, FALSE)
      <4>1. Rep(v, FALSE, t) = t
        BY DEF Rep
      <4> QED
        BY <3>2, <4>1 DEF Table, Careful
    <3>4. p.to \in tr /\ Len(p.to) \in 0 .. n - 1
      BY <1>0, <3>3 DEF Right
    <3>5. Fine(p.to, q)
      <4>1. Len(p.to) \in S
        BY <1>2, <3>4
      <4>2. Len(p.to) <= M
        BY <1>0, <3>4
      <4> QED
        BY <3>4, <4>1, <4>2
    <3> HIDE DEF p, q, r
    <3>6. Moved(E, v, t, Len(t), c, r)
      BY <2>3, <3>1, <3>3, <3>5, LeapRight DEF Fine
    <3>7. p.out \in Seq(v) /\ p.to \in Seq(E) /\ t = Cat(Flat(p.out), p.to) /\ t \in Seq(E)
      BY <1>0, <3>3, RightText
    <3>8. q.out \in Seq(v) /\ q.to \in Seq(E) /\ Cat(p.to, One(c)) = Cat(Flat(q.out), q.to)
      BY <3>5, <3>7, MovedText DEF Fine
    <3>9. Cat(Cat(Flat(p.out), p.to), One(c)) \notin Trie(v)
      <4>0. t \in Seq(E)
        BY <3>7
      <4>1. Append(t, c) = Cat(t, One(c))
        BY <4>0, CatAlgebra
      <4> QED
        BY <2>3, <3>7, <4>1 DEF Find
    <3>10. Settled(v, Cat(p.out, q.out), q.to, TRUE)
      BY <3>3, <3>5, <3>7, <3>8, <3>9, SettledOn DEF Fine
    <3> QED
      BY <3>1, <3>6, <3>10 DEF r, Fine
  <2> QED
    BY <2>2, <2>3
<1>3. Nat \subseteq S
  <2> HIDE DEF S
  <2> QED
    BY <1>2, SetInduction
<1>4. Fine(s, g[s])
  <2>1. M \in S /\ M <= M
    BY <1>0, <1>3
  <2> QED
    BY <2>1
<1> QED
  BY <1>4, MakeTransitionsIsGo DEF g, Fine

\* The equation of PhiTable.
LEMMA PhiTableEquation ==
  ASSUME NEW v, GoodVocab(v)
  PROVE  \A s \in Trie(v) \ {Start} : PhiTable(v)[s] = PhiAt(v, PhiTable(v), s)
<1> DEFINE D == Trie(v) \ {Start}
           E == ExtractCharacters(v)
           IsTable(P) == P = [s \in D |-> PhiAt(v, P, s)]
<1>1. PICK M \in Nat : \A s \in Trie(v) : Len(s) <= M
  BY TrieBounded
<1>2. UpTo(D, M) = D
  BY <1>1 DEF UpTo
<1>3. \A P : IsTable(P) <=> IsPhi(v, M, P)
  BY <1>2 DEF IsPhi
<1>4. PhiTable(v) = CHOOSE P : IsTable(P)
  BY DEF PhiTable, PhiAt, Joined
<1>5. \E P : IsTable(P)
  <2>1. \E P : IsPhi(v, M, P) /\ Table(E, v, FALSE, P, M)
    BY PhiExists
  <2> QED
    BY <1>3, <2>1
<1> HIDE DEF IsTable
<1>6. IsTable(PhiTable(v))
  <2>1. IsTable(CHOOSE P : IsTable(P))
    BY <1>5, Zenon
  <2> QED
    BY <1>4, <2>1
<1> DEFINE P == PhiTable(v)
<1> HIDE DEF P
<1>7. P = [s \in D |-> PhiAt(v, P, s)]
  BY <1>6 DEF IsTable, P
<1> QED
  BY <1>7 DEF P

\* No phi arc outputs a token too early.
LEMMA PhiSettled ==
  ASSUME NEW v, GoodVocab(v)
  PROVE  \A s \in Trie(v) \ {Start} : Settled(v, PhiTable(v)[s].out, PhiTable(v)[s].to, FALSE)
<1> DEFINE tr == Trie(v)
           E == ExtractCharacters(v)
           P == PhiTable(v)
           S == {N \in Nat : Careful(v, P, N)}
<1>0. /\ (\A s \in tr : Len(s) \in Nat /\ (Len(s) = 0 => s = Start)) /\ tr \subseteq Seq(E)
  BY TrieLen, TrieFacts
<1>1. Works(E, v, FALSE, P)
  BY PhiTableWorks
<1>2. \A s \in tr \ {Start} : P[s] = PhiAt(v, P, s)
  BY PhiTableEquation
<1> HIDE DEF P
<1>3. \A s \in tr \ {Start} : Right(E, v, s, s, P[s])
  BY <1>1 DEF Works, Rep
<1>4. \A N \in Nat : Table(E, v, FALSE, P, N)
  BY <1>1 DEF Works, Table
<1>5. ASSUME NEW N \in Nat, \A k \in 0 .. N - 1 : k \in S PROVE N \in S
  <2> SUFFICES ASSUME NEW s \in tr \ {Start}, Len(s) <= N PROVE Settled(v, P[s].out, P[s].to, FALSE)
    BY DEF Careful
  <2>1. CASE s \in v
    <3>1. P[s] = [out |-> <<s>>, to |-> Start]
      BY <1>2, <2>1 DEF PhiAt
    <3>2. P[s].out = One(s)
      BY <3>1 DEF One
    <3> SUFFICES ASSUME NEW q \in Seq(v), NEW z \in Seq(v), NEW x \in v, One(s) = Around(q, x, z), q # <<>>
                 PROVE  FALSE
      BY <3>2 DEF Settled
    <3> QED
      BY <2>1, AroundOne
  <2>2. CASE s \notin v
    <3> DEFINE f == Front(s)
               c == Last(s)
               p == P[f]
               on == MakeTransitions(Trie(v), P, p.to, c)
    <3>1. /\ f \in tr \ {Start} /\ c \in E /\ Len(s) \in Nat /\ Len(f) = Len(s) - 1
      BY <2>2, FrontState
    <3>2. P[s] = Joined(p, on)
      BY <1>2, <2>2 DEF PhiAt
    <3> HIDE DEF f, c
    <3>3. Right(E, v, f, f, p)
      BY <1>3, <3>1
    <3>4. p.to \in tr /\ Len(p.to) < Len(f) /\ Len(p.to) \in Nat /\ Len(f) \in Nat
      BY <1>0, <3>1, <3>3 DEF Right
    <3>5. Len(f) \in 0 .. N - 1 /\ Len(f) <= Len(f)
      BY <3>1, <3>4
    <3>6. Careful(v, P, Len(f))
      BY <1>5, <3>5
    <3>7. Settled(v, p.out, p.to, FALSE)
      BY <3>1, <3>5, <3>6 DEF Careful
    <3>8. Careful(v, P, Len(p.to))
      <4>1. \A t \in tr : Len(t) <= Len(p.to) => Len(t) <= Len(f)
        BY <1>0, <3>4
      <4> QED
        BY <3>6, <4>1 DEF Careful
    <3> HIDE DEF p
    <3>9. Settled(v, on.out, on.to, TRUE)
      BY <1>4, <3>1, <3>4, <3>8, GoSettled
    <3>10. Moved(E, v, Rep(v, FALSE, p.to), Len(p.to), c, on)
      BY <1>4, <3>1, <3>4, GoRight
    <3> HIDE DEF on
    <3>11. Moved(E, v, p.to, Len(p.to), c, on)
      BY <3>10 DEF Rep
    <3>12. p.out \in Seq(v) /\ p.to \in Seq(E)
      BY <1>0, <3>1, <3>3, RightText
    <3>13. on.out \in Seq(v) /\ on.to \in Seq(E) /\ Cat(p.to, One(c)) = Cat(Flat(on.out), on.to)
      BY <3>1, <3>11, <3>12, MovedText
    <3>14. Settled(v, Cat(p.out, on.out), on.to, FALSE)
      BY <3>1, <3>7, <3>9, <3>12, <3>13, SettledOn
    <3>15. P[s].out = Cat(p.out, on.out) /\ P[s].to = on.to
      BY <3>2, JoinedFields
    <3> QED
      BY <3>14, <3>15
  <2> QED
    BY <2>1, <2>2
<1>6. Nat \subseteq S
  <2> HIDE DEF S
  <2> QED
    BY <1>5, SetInduction
<1>7. ASSUME NEW s \in tr \ {Start} PROVE Settled(v, P[s].out, P[s].to, FALSE)
  <2>1. Len(s) \in S /\ Len(s) <= Len(s)
    BY <1>0, <1>6
  <2> QED
    BY <2>1 DEF Careful
<1> QED
  BY <1>7 DEF P
-----------------------------------------------------------------------------
(* The arcs that CandidateOlabels follows *)

PhiOf(v) == Minimized(Trie(v), PhiTable(v))

\* A state with arcs for characters.
Inner(v, s) == s \in Trie(v) /\ s # Start /\ ~Leaf(Trie(v), s)

\* p leads back from such a state.
Backs(v, s, p) ==
  /\ p.out \in Seq(v) /\ p.out # <<>> /\ p.to \in Trie(v) /\ ~Leaf(Trie(v), p.to)
  /\ s = Cat(Flat(p.out), p.to) /\ LPM(v, s) = Cat(p.out, LPM(v, p.to))
  /\ Settled(v, p.out, p.to, FALSE)
  /\ s \in v => p.out = One(s) /\ p.to = Start
  /\ Continues(ExtractCharacters(v), v, s, s, p)

\* Its phi arc does.
LEMMA PhiBacks ==
  ASSUME NEW v, GoodVocab(v), NEW s, Inner(v, s)
  PROVE  Backs(v, s, PhiOf(v)[s])
<1> DEFINE tr == Trie(v)
           E == ExtractCharacters(v)
           P == PhiTable(v)
           p == P[s]
<1>1. DOMAIN P = tr \ {Start} /\ Works(E, v, FALSE, P)
  BY PhiTableWorks
<1>2. s \in tr \ {Start} /\ ~Leaf(tr, s)
  BY DEF Inner
<1>3. PhiOf(v)[s] = p
  BY <1>1, <1>2 DEF PhiOf, Minimized
<1>4. Right(E, v, s, s, p)
  BY <1>1, <1>2 DEF Works, Rep
<1>5. p = PhiAt(v, P, s)
  BY <1>2, PhiTableEquation
<1>6. Settled(v, p.out, p.to, FALSE)
  BY <1>2, PhiSettled
<1>7. s \in v => p.out = One(s) /\ p.to = Start
  BY <1>5 DEF PhiAt, One
<1> HIDE DEF P, p
<1>8. s \in Seq(E) /\ Len(s) \in Nat
  BY <1>2, TrieFacts
<1>9. /\ p.out \in Seq(v) /\ p.to \in Seq(E)
      /\ s = Cat(Flat(p.out), p.to) /\ LPM(v, s) = Cat(p.out, LPM(v, p.to))
  BY <1>2, <1>4, <1>8, RightText
<1>10. p.to \in tr /\ ~Leaf(tr, p.to) /\ Len(p.to) < Len(s) /\ Continues(E, v, s, s, p)
  BY <1>4 DEF Right
<1>11. p.out # <<>>
  <2> SUFFICES ASSUME p.out = <<>> PROVE FALSE
    OBVIOUS
  <2>1. Flat(p.out) = <<>>
    BY FlatSmall
  <2>2. s = p.to
    BY <1>9, <2>1, CatAlgebra
  <2> QED
    BY <1>8, <1>10, <2>2
<1> QED
  BY <1>3, <1>6, <1>7, <1>9, <1>10, <1>11 DEF Backs

Visits(v) == [olabels : Seq(v), chain : Seq(v), state : Trie(v)]
Visited(o, c, s) == [olabels |-> o, chain |-> c, state |-> s]

Parts(v, y, o, c, s) == y.olabels = o /\ y.chain = c /\ y.state = s /\ y \in Visits(v)

\* A visit and its parts.
LEMMA VisitedParts ==
  ASSUME NEW v, NEW o \in Seq(v), NEW c \in Seq(v), NEW s \in Trie(v), NEW y, y = Visited(o, c, s)
  PROVE  Parts(v, y, o, c, s)
BY DEF Visited, Visits, Parts

\* Tokens are output only on the way to states with arcs.
Sound(v, x) == x \in Visits(v) /\ (x.chain # <<>> => ~Leaf(Trie(v), x.state))

\* The four kinds of arcs: of a chain, of a leaf, of phi, and of a character.
OnChain(v, x, y) ==
  x.chain # <<>> /\ y = Visited(Append(x.olabels, Head(x.chain)), Tail(x.chain), x.state)
OffLeaf(v, x, y) ==
  x.chain = <<>> /\ Leaf(Trie(v), x.state) /\ y = Visited(x.olabels, <<>>, Start)
OnPhi(v, x, y, p) ==
  x.chain = <<>> /\ Inner(v, x.state) /\ y = Visited(Append(x.olabels, Head(p.out)), Tail(p.out), p.to)
OnChar(v, x, y, there) ==
  /\ x.chain = <<>> /\ Inner(v, x.state) /\ there \in Trie(v)
  /\ y = Visited(IF Leaf(Trie(v), there) THEN Append(x.olabels, there) ELSE x.olabels, <<>>, there)

Goes(v, x, y) ==
  \/ OnChain(v, x, y) \/ OffLeaf(v, x, y) \/ OnPhi(v, x, y, PhiOf(v)[x.state])
  \/ \E c \in ExtractCharacters(v) : OnChar(v, x, y, Append(x.state, c))

\* All tokens that are output or will be in any case, and the text pending after them.
Full(x) == Cat(x.olabels, x.chain)
Ahead(v, x) == Pending(v, x.state)
Reads(v, x) == Cat(Flat(Full(x)), Ahead(v, x))

\* The length of the path to a visit, but for a constant.
Turned(v, x) == IF Leaf(Trie(v), x.state) THEN 0 ELSE 1
Cost(v, x) == Len(Reads(v, x)) + Len(x.olabels) + Turned(v, x)

\* Another visit is longer by one.
Further(v, x, y) ==
  LET m == Len(Reads(v, x))
      n == Len(x.olabels)
  IN \/ Len(Reads(v, y)) = m /\ Len(y.olabels) = n + 1 /\ Turned(v, y) = Turned(v, x)
     \/ Len(Reads(v, y)) = m /\ Len(y.olabels) = n /\ Turned(v, x) = 0 /\ Turned(v, y) = 1
     \/ Len(Reads(v, y)) = m + 1 /\ Len(y.olabels) = n /\ Turned(v, y) = Turned(v, x)
     \/ Len(Reads(v, y)) = m + 1 /\ Len(y.olabels) = n + 1 /\ Turned(v, x) = 1 /\ Turned(v, y) = 0

\* Then it costs one more.
LEMMA CostIs ==
  ASSUME NEW v, NEW x, NEW y, Len(Reads(v, x)) \in Nat, Len(x.olabels) \in Nat
  PROVE  Turned(v, x) \in {0, 1} /\ Cost(v, x) \in Nat /\ (Further(v, x, y) => Cost(v, y) = Cost(v, x) + 1)
<1> DEFINE m == Len(Reads(v, x))
           n == Len(x.olabels)
           k == Len(Reads(v, y))
           l == Len(y.olabels)
           i == Turned(v, x)
           j == Turned(v, y)
<1>1. i \in {0, 1} /\ j \in {0, 1}
  BY DEF Turned
<1>2. Cost(v, x) = m + n + i /\ Cost(v, y) = k + l + j /\ m \in Nat /\ n \in Nat
  BY DEF Cost
<1>3. Further(v, x, y) => \/ k = m /\ l = n + 1 /\ j = i
                          \/ k = m /\ l = n /\ i = 0 /\ j = 1
                          \/ k = m + 1 /\ l = n /\ j = i
                          \/ k = m + 1 /\ l = n + 1 /\ i = 1 /\ j = 0
  BY DEF Further
<1> HIDE DEF m, n, k, l, i, j
<1>4. m + n + i \in Nat
  BY <1>1, <1>2
<1>5. ASSUME Further(v, x, y) PROVE k + l + j = m + n + i + 1
  BY <1>1, <1>2, <1>3, <1>5
<1> QED
  BY <1>1, <1>2, <1>4, <1>5 DEF i

\* The types of these.
LEMMA VisitFacts ==
  ASSUME NEW v, GoodVocab(v), NEW x, Sound(v, x)
  PROVE  /\ x.olabels \in Seq(v) /\ x.chain \in Seq(v) /\ x.state \in Trie(v)
         /\ x.state \in Seq(ExtractCharacters(v)) /\ Full(x) \in Seq(v) /\ Ahead(v, x) \in Seq(ExtractCharacters(v))
         /\ Flat(Full(x)) \in Seq(ExtractCharacters(v)) /\ Reads(v, x) \in Seq(ExtractCharacters(v))
         /\ Len(Reads(v, x)) \in Nat /\ Len(x.olabels) \in Nat /\ Cost(v, x) \in Nat
<1> DEFINE E == ExtractCharacters(v)
           T == Seq(E)
<1>1. x.olabels \in Seq(v) /\ x.chain \in Seq(v) /\ x.state \in Trie(v)
  BY DEF Sound, Visits
<1>2. x.state \in T /\ Ahead(v, x) \in T
  BY <1>1, TrieFacts, RepIn DEF Ahead
<1>3. Full(x) \in Seq(v)
  BY <1>1, CatAlgebra DEF Full
<1>4. Full(x) \in Seq(T)
  <2>1. v \subseteq T
    BY DEF GoodVocab
  <2> HIDE DEF T
  <2> QED
    BY <1>3, <2>1, SeqMonotonic
<1>5. Flat(Full(x)) \in T
  BY <1>4, FlatIsPart
<1>6. Reads(v, x) \in T
  BY <1>2, <1>5, CatAlgebra DEF Reads
<1>7. Len(Reads(v, x)) \in Nat /\ Len(x.olabels) \in Nat
  BY <1>1, <1>6
<1>8. Cost(v, x) \in Nat
  BY <1>7, CostIs
<1> QED
  BY <1>1, <1>2, <1>3, <1>5, <1>6, <1>7, <1>8

\* Tokens are texts.
LEMMA TokensAreTexts ==
  ASSUME NEW v, GoodVocab(v)
  PROVE  /\ v \subseteq Seq(ExtractCharacters(v)) /\ Seq(v) \subseteq Seq(Seq(ExtractCharacters(v)))
         /\ \A t \in v : t # <<>>
<1> DEFINE T == Seq(ExtractCharacters(v))
<1>1. v \subseteq T /\ \A t \in v : t # <<>>
  BY DEF GoodVocab
<1> HIDE DEF T
<1>2. Seq(v) \subseteq Seq(T)
  BY <1>1, SeqMonotonic
<1> QED
  BY <1>1, <1>2 DEF T

\* What an arc does to the tokens and to the pending text: nothing,
Stays(v, x, y) == Full(y) = Full(x) /\ Ahead(v, y) = Ahead(v, x)
\* tokens come of pending text,
Turns(v, x, y) ==
  /\ x.chain = <<>> /\ Inner(v, x.state)
  /\ Full(y) = Cat(x.olabels, PhiOf(v)[x.state].out) /\ Ahead(v, y) = PhiOf(v)[x.state].to
\* the pending text grows,
Grows(v, x, y, there) ==
  /\ x.chain = <<>> /\ Inner(v, x.state) /\ there \in Trie(v) /\ ~Leaf(Trie(v), there)
  /\ Full(y) = x.olabels /\ Ahead(v, y) = there
\* or becomes a token.
Ends(v, x, y, there) ==
  /\ x.chain = <<>> /\ Inner(v, x.state) /\ there \in v /\ Leaf(Trie(v), there)
  /\ Full(y) = Cat(x.olabels, One(there)) /\ Ahead(v, y) = Start

\* Every arc is one of these, one step longer than what led to it; at most one
\* token is output.
Leads1(v, x, y) ==
  /\ Sound(v, y) /\ Cost(v, y) = Cost(v, x) + 1
  /\ \/ Stays(v, x, y) \/ Turns(v, x, y)
     \/ \E c \in ExtractCharacters(v) : Grows(v, x, y, Append(x.state, c)) \/ Ends(v, x, y, Append(x.state, c))
  /\ y.olabels = x.olabels \/ \E t \in v : y.olabels = Append(x.olabels, t)

\* The first token of a sequence moves to the end of another.
LEMMA Shift ==
  ASSUME NEW S, NEW a \in Seq(S), NEW b \in Seq(S), b # <<>>
  PROVE  /\ Cat(Append(a, Head(b)), Tail(b)) = Cat(a, b)
         /\ Append(a, Head(b)) \in Seq(S) /\ Tail(b) \in Seq(S) /\ Head(b) \in S
         /\ Len(Append(a, Head(b))) = Len(a) + 1
<1> DEFINE h == Head(b)
           t == Tail(b)
<1>1. h \in S /\ t \in Seq(S) /\ b = Cat(One(h), t)
  BY FirstAndRest
<1> HIDE DEF h, t
<1>2. Append(a, h) = Cat(a, One(h)) /\ One(h) \in Seq(S)
  BY <1>1, CatAlgebra
<1>3. Cat(Cat(a, One(h)), t) = Cat(a, Cat(One(h), t))
  BY <1>1, <1>2, CatAlgebra
<1>4. Append(a, h) \in Seq(S) /\ Len(Append(a, h)) = Len(a) + 1
  BY <1>1, AppendProperties
<1> QED
  BY <1>1, <1>2, <1>3, <1>4 DEF h, t

\* An arc of a chain.
LEMMA OnChainLeads ==
  ASSUME NEW v, GoodVocab(v), NEW x, NEW y, Sound(v, x), OnChain(v, x, y)
  PROVE  Leads1(v, x, y)
<1> DEFINE o == x.olabels
           c == x.chain
<1>1. o \in Seq(v) /\ c \in Seq(v) /\ x.state \in Trie(v) /\ c # <<>> /\ Len(o) \in Nat
      /\ ~Leaf(Trie(v), x.state)
  BY VisitFacts DEF OnChain, Sound
<1> DEFINE p == Append(o, Head(c))
           q == Tail(c)
<1>2. y = Visited(p, q, x.state)
  BY DEF OnChain
<1>3. Cat(p, q) = Cat(o, c) /\ p \in Seq(v) /\ q \in Seq(v) /\ Head(c) \in v /\ Len(p) = Len(o) + 1
  BY <1>1, Shift
<1>4. \E t \in v : p = Append(o, t)
  BY <1>3
<1> HIDE DEF p, q
<1>5. y.olabels = p /\ y.chain = q /\ y.state = x.state /\ y \in Visits(v)
  <2>1. Parts(v, y, p, q, x.state)
    BY <1>1, <1>2, <1>3, VisitedParts
  <2> QED
    BY <2>1 DEF Parts
<1>6. Sound(v, y) /\ Stays(v, x, y)
  BY <1>1, <1>3, <1>5 DEF Sound, Stays, Full, Ahead
<1>7. Reads(v, y) = Reads(v, x) /\ Len(Reads(v, x)) \in Nat
  BY <1>6, VisitFacts DEF Stays, Reads
<1>8. Cost(v, y) = Cost(v, x) + 1
  <2>1. Turned(v, y) = Turned(v, x) /\ Len(y.olabels) = Len(o) + 1
    BY <1>3, <1>5 DEF Turned
  <2>2. Further(v, x, y)
    BY <1>7, <2>1 DEF Further
  <2> QED
    BY <1>1, <1>7, <2>2, CostIs
<1> QED
  BY <1>4, <1>5, <1>6, <1>8 DEF Leads1

\* The arc of a leaf.
LEMMA OffLeafLeads ==
  ASSUME NEW v, GoodVocab(v), NEW x, NEW y, Sound(v, x), OffLeaf(v, x, y)
  PROVE  Leads1(v, x, y)
<1>1. x.olabels \in Seq(v) /\ x.chain = <<>> /\ Leaf(Trie(v), x.state) /\ Len(x.olabels) \in Nat
  BY VisitFacts DEF OffLeaf
<1>2. y = Visited(x.olabels, <<>>, Start)
  BY DEF OffLeaf
<1> DEFINE e == <<>>
<1>3. e \in Seq(v) /\ Start \in Trie(v) /\ ~Leaf(Trie(v), Start)
  <2>1. <<>> \in Trie(v)
    BY TrieFacts
  <2>2. ~Leaf(Trie(v), Start)
    BY StartFacts
  <2> QED
    BY <2>1, <2>2 DEF Start
<1>4. y.olabels = x.olabels /\ y.chain = <<>> /\ y.state = Start /\ y \in Visits(v)
  <2>1. y = Visited(x.olabels, e, Start)
    BY <1>2
  <2> HIDE DEF e
  <2>2. Parts(v, y, x.olabels, e, Start)
    BY <1>1, <1>3, <2>1, VisitedParts
  <2> QED
    BY <2>2 DEF Parts, e
<1>5. Sound(v, y) /\ Stays(v, x, y)
  BY <1>1, <1>3, <1>4 DEF Sound, Stays, Full, Ahead, Pending, Rep
<1>6. Reads(v, y) = Reads(v, x) /\ Len(Reads(v, x)) \in Nat
  BY <1>5, VisitFacts DEF Stays, Reads
<1>7. Cost(v, y) = Cost(v, x) + 1
  <2>1. Turned(v, x) = 0 /\ Turned(v, y) = 1
    BY <1>1, <1>3, <1>4 DEF Turned
  <2>2. Further(v, x, y)
    BY <1>4, <1>6, <2>1 DEF Further
  <2> QED
    BY <1>1, <1>6, <2>2, CostIs
<1> QED
  BY <1>4, <1>5, <1>7 DEF Leads1

\* A phi arc.
LEMMA OnPhiLeads ==
  ASSUME NEW v, GoodVocab(v), NEW x, NEW y, Sound(v, x), OnPhi(v, x, y, PhiOf(v)[x.state])
  PROVE  Leads1(v, x, y)
<1> DEFINE o == x.olabels
           s == x.state
           p == PhiOf(v)[s]
           E == ExtractCharacters(v)
<1>1. o \in Seq(v) /\ x.chain = <<>> /\ Inner(v, s) /\ s \in Seq(E) /\ Len(o) \in Nat
  BY VisitFacts DEF OnPhi
<1>2. Backs(v, s, p)
  BY <1>1, PhiBacks
<1> DEFINE c == p.out
           n == Append(o, Head(c))
           q == Tail(c)
           to == p.to
<1>3. y = Visited(n, q, to)
  BY DEF OnPhi
<1>4. /\ c \in Seq(v) /\ c # <<>> /\ to \in Trie(v) /\ ~Leaf(Trie(v), to) /\ s = Cat(Flat(c), to)
  BY <1>2 DEF Backs
<1>5. Cat(n, q) = Cat(o, c) /\ n \in Seq(v) /\ q \in Seq(v) /\ Head(c) \in v /\ Len(n) = Len(o) + 1
  BY <1>1, <1>4, Shift
<1>6. \E t \in v : n = Append(o, t)
  BY <1>5
<1> HIDE DEF n, q
<1>7. y.olabels = n /\ y.chain = q /\ y.state = to /\ y \in Visits(v)
  <2>1. Parts(v, y, n, q, to)
    BY <1>3, <1>4, <1>5, VisitedParts
  <2> QED
    BY <2>1 DEF Parts
<1>8. Sound(v, y) /\ Full(y) = Cat(o, c) /\ Ahead(v, y) = to
  BY <1>4, <1>5, <1>7 DEF Sound, Full, Ahead, Pending, Rep
<1>9. Turns(v, x, y)
  BY <1>1, <1>8 DEF Turns
<1> HIDE DEF p
<1>10. Reads(v, y) = Reads(v, x) /\ Len(Reads(v, x)) \in Nat
  <2>1. Full(x) = o /\ Ahead(v, x) = s
    BY <1>1, CatAlgebra DEF Full, Ahead, Pending, Rep, Inner
  <2>2. o \in Seq(Seq(E)) /\ c \in Seq(Seq(E)) /\ to \in Seq(E)
    BY <1>1, <1>4, TokensAreTexts, TrieFacts
  <2>3. Flat(Cat(o, c)) = Cat(Flat(o), Flat(c))
    BY <2>2, FlatCat
  <2> DEFINE a == Flat(o)
             b == Flat(c)
  <2>4. a \in Seq(E) /\ b \in Seq(E)
    BY <2>2, FlatIsPart
  <2>5. Reads(v, y) = Cat(Cat(a, b), to) /\ Reads(v, x) = Cat(a, Cat(b, to))
    BY <1>4, <1>8, <2>1, <2>3 DEF Reads
  <2> HIDE DEF a, b, to
  <2>6. Cat(Cat(a, b), to) = Cat(a, Cat(b, to))
    BY <2>2, <2>4, CatAlgebra
  <2>7. Reads(v, y) = Reads(v, x)
    BY <2>5, <2>6
  <2> QED
    BY <2>7, VisitFacts
<1>11. Cost(v, y) = Cost(v, x) + 1
  <2>1. Turned(v, x) = 1 /\ Turned(v, y) = 1
    BY <1>1, <1>4, <1>7 DEF Inner, Turned
  <2>2. Len(y.olabels) = Len(o) + 1
    BY <1>5, <1>7
  <2>3. Further(v, x, y)
    BY <1>10, <2>1, <2>2 DEF Further
  <2> QED
    BY <1>1, <1>10, <2>3, CostIs
<1> QED
  BY <1>6, <1>7, <1>8, <1>9, <1>11 DEF Leads1

\* The arc for a character.
LEMMA OnCharLeads ==
  ASSUME NEW v, GoodVocab(v), NEW x, NEW y, Sound(v, x), NEW c \in ExtractCharacters(v),
         OnChar(v, x, y, Append(x.state, c))
  PROVE  Leads1(v, x, y)
<1> DEFINE o == x.olabels
           s == x.state
           there == Append(s, c)
           E == ExtractCharacters(v)
           T == Seq(E)
<1>1. o \in Seq(v) /\ x.chain = <<>> /\ Inner(v, s) /\ s \in T /\ Len(o) \in Nat /\ Len(Reads(v, x)) \in Nat
  BY VisitFacts DEF OnChar
<1>2. there \in Trie(v) /\ y = Visited(IF Leaf(Trie(v), there) THEN Append(o, there) ELSE o, <<>>, there)
  BY DEF OnChar
<1>3. there = Cat(s, One(c)) /\ One(c) \in T
  <2>1. s \in T /\ c \in E
    BY <1>1
  <2> HIDE DEF s, E
  <2> QED
    BY <2>1, CatAlgebra
<1>4. <<>> \in Seq(v) /\ there \in T
  <2>1. there \in T
    BY <1>2, TrieFacts
  <2>2. <<>> \in Seq(v)
    OBVIOUS
  <2> QED
    BY <2>1, <2>2
<1>5. Full(x) = o /\ Ahead(v, x) = s /\ ~Leaf(Trie(v), s)
  BY <1>1, CatAlgebra DEF Full, Ahead, Pending, Rep, Inner
<1>6. o \in Seq(T) /\ Flat(o) \in T
  BY <1>1, TokensAreTexts, FlatIsPart
<1>7. Reads(v, x) = Cat(Flat(o), s)
  BY <1>5 DEF Reads
<1>8. Len(Cat(Flat(o), there)) = Len(Reads(v, x)) + 1
  <2> DEFINE a == Flat(o)
             k == One(c)
             r == Cat(a, s)
  <2>1. a \in T /\ s \in T /\ k \in T
    BY <1>1, <1>3, <1>6
  <2>2. Len(k) = 1
    BY DEF One
  <2>3. there = Cat(s, k) /\ Reads(v, x) = r
    BY <1>3, <1>7
  <2> HIDE DEF a, k, there, s, E
  <2>4. Cat(a, Cat(s, k)) = Cat(r, k) /\ r \in T
    <3>1. r \in T
      BY <2>1, CatAlgebra
    <3>2. Cat(Cat(a, s), k) = Cat(a, Cat(s, k))
      BY <2>1, CatAlgebra
    <3> QED
      BY <3>1, <3>2
  <2> HIDE DEF r
  <2>5. Len(Cat(r, k)) = Len(r) + Len(k)
    BY <2>1, <2>4, CatLen
  <2>6. Cat(a, there) = Cat(r, k)
    BY <2>3, <2>4
  <2>7. Len(Cat(a, there)) = Len(Reads(v, x)) + 1
    BY <2>2, <2>3, <2>5, <2>6
  <2> QED
    BY <2>7 DEF a
<1>9. CASE Leaf(Trie(v), there)
  <2>1. there \in v
    BY <1>2, <1>9, LeafFacts
  <2> DEFINE n == Append(o, there)
  <2>2. n \in Seq(v) /\ Len(n) = Len(o) + 1 /\ n = Cat(o, One(there))
    <3>1. o \in Seq(v) /\ there \in v
      BY <1>1, <2>1
    <3> HIDE DEF there, o
    <3>2. n = Cat(o, One(there))
      BY <3>1, CatAlgebra
    <3> QED
      BY <3>1, <3>2, AppendProperties
  <2>3. \E t \in v : n = Append(o, t)
    BY <2>1
  <2>4. y = Visited(n, <<>>, there)
    BY <1>2, <1>9
  <2> HIDE DEF n, there
  <2> DEFINE e == <<>>
  <2>5. y.olabels = n /\ y.chain = <<>> /\ y.state = there /\ y \in Visits(v)
    <3>1. y = Visited(n, e, there) /\ e \in Seq(v)
      BY <1>4, <2>4
    <3> HIDE DEF e
    <3>2. Parts(v, y, n, e, there)
      BY <1>2, <2>2, <3>1, VisitedParts
    <3> QED
      BY <3>2 DEF Parts, e
  <2>6. Sound(v, y) /\ Full(y) = n /\ Ahead(v, y) = Start
    <3>1. n \in Seq(v)
      BY <2>2
    <3>2. Cat(n, e) = n
      BY <3>1, CatAlgebra
    <3> QED
      BY <1>9, <2>5, <3>2 DEF Sound, Full, Ahead, Pending, Rep
  <2>7. Ends(v, x, y, there)
    BY <1>1, <1>9, <2>1, <2>2, <2>6 DEF Ends
  <2>8. Reads(v, y) = Cat(Flat(o), there)
    <3>0. there \in T
      BY <1>4
    <3>1. One(there) \in Seq(T) /\ Flat(One(there)) = there
      BY <3>0, FlatSmall DEF One
    <3>2. Flat(n) = Cat(Flat(o), there)
      BY <1>6, <2>2, <3>1, FlatCat
    <3> DEFINE a == Flat(o)
               b == Cat(a, there)
    <3>3. a \in T
      BY <1>6
    <3> HIDE DEF a
    <3>4. b \in T
      BY <3>0, <3>3, CatAlgebra
    <3> HIDE DEF b
    <3>5. Cat(b, <<>>) = b
      BY <3>4, CatAlgebra
    <3> QED
      BY <2>6, <3>2, <3>5 DEF Reads, Start, a, b
  <2>9. Cost(v, y) = Cost(v, x) + 1
    <3>1. Len(Reads(v, y)) = Len(Reads(v, x)) + 1 /\ Len(y.olabels) = Len(o) + 1
      BY <1>8, <2>2, <2>5, <2>8
    <3>2. Turned(v, x) = 1 /\ Turned(v, y) = 0
      BY <1>5, <1>9, <2>5 DEF Turned
    <3>3. Further(v, x, y)
      BY <3>1, <3>2 DEF Further
    <3> QED
      BY <1>1, <3>3, CostIs
  <2> QED
    BY <2>3, <2>5, <2>6, <2>7, <2>9 DEF Leads1, there
<1>10. CASE ~Leaf(Trie(v), there)
  <2>1. y = Visited(o, <<>>, there)
    BY <1>2, <1>10
  <2> HIDE DEF there
  <2> DEFINE e == <<>>
  <2>2. y.olabels = o /\ y.chain = <<>> /\ y.state = there /\ y \in Visits(v)
    <3>1. y = Visited(o, e, there) /\ e \in Seq(v)
      BY <1>4, <2>1
    <3> HIDE DEF e
    <3>2. Parts(v, y, o, e, there)
      BY <1>1, <1>2, <3>1, VisitedParts
    <3> QED
      BY <3>2 DEF Parts, e
  <2>3. Sound(v, y) /\ Full(y) = o /\ Ahead(v, y) = there
    <3>1. o \in Seq(v)
      BY <1>1
    <3>2. Cat(o, e) = o
      BY <3>1, CatAlgebra
    <3> QED
      BY <1>10, <2>2, <3>2 DEF Sound, Full, Ahead, Pending, Rep
  <2>4. Grows(v, x, y, there)
    BY <1>1, <1>2, <1>10, <2>3 DEF Grows
  <2>5. Cost(v, y) = Cost(v, x) + 1
    <3>1. Len(Reads(v, y)) = Len(Reads(v, x)) + 1
      BY <1>8, <2>3 DEF Reads
    <3>2. Turned(v, x) = 1 /\ Turned(v, y) = 1
      BY <1>5, <1>10, <2>2 DEF Turned
    <3>3. Further(v, x, y)
      BY <2>2, <3>1, <3>2 DEF Further
    <3> QED
      BY <1>1, <3>3, CostIs
  <2> QED
    BY <2>2, <2>3, <2>4, <2>5 DEF Leads1, there
<1> QED
  BY <1>9, <1>10

\* Every arc does.
LEMMA GoesLeads ==
  ASSUME NEW v, GoodVocab(v), NEW x, NEW y, Sound(v, x), Goes(v, x, y)
  PROVE  Leads1(v, x, y)
BY OnChainLeads, OffLeafLeads, OnPhiLeads, OnCharLeads DEF Goes
-----------------------------------------------------------------------------
(* What a sequence holds *)

Has(q, z) == \E i \in 1 .. Len(q) : q[i] = z

\* A concatenation holds what its parts hold.
LEMMA HasCat ==
  ASSUME NEW S, NEW a \in Seq(S), NEW b \in Seq(S), NEW z
  PROVE  Has(Cat(a, b), z) <=> Has(a, z) \/ Has(b, z)
<1> DEFINE x == Cat(a, b)
           m == Len(a)
           n == Len(b)
<1>1. /\ Len(x) = m + n /\ m \in Nat /\ n \in Nat
      /\ \A i \in 1 .. m : x[i] = a[i]
      /\ \A i \in 1 .. n : x[m + i] = b[i]
  <2>1. IsCat(S, x, a, b)
    BY CatIs
  <2> HIDE DEF x
  <2> QED
    BY <2>1 DEF IsCat
<1> HIDE DEF x, m, n
<1>2. ASSUME Has(a, z) PROVE Has(x, z)
  <2>1. PICK i \in 1 .. m : a[i] = z
    BY <1>2 DEF Has, m
  <2>2. i \in 1 .. Len(x) /\ x[i] = z
    BY <1>1, <2>1
  <2> QED
    BY <2>2 DEF Has
<1>3. ASSUME Has(b, z) PROVE Has(x, z)
  <2>1. PICK i \in 1 .. n : b[i] = z
    BY <1>3 DEF Has, n
  <2>2. m + i \in 1 .. Len(x) /\ x[m + i] = z
    BY <1>1, <2>1
  <2> QED
    BY <2>2 DEF Has
<1>4. ASSUME Has(x, z) PROVE Has(a, z) \/ Has(b, z)
  <2>1. PICK i \in 1 .. Len(x) : x[i] = z
    BY <1>4 DEF Has
  <2>2. CASE i <= m
    <3>1. i \in 1 .. m /\ a[i] = z
      BY <1>1, <2>1, <2>2
    <3> QED
      BY <3>1 DEF Has, m
  <2>3. CASE i > m
    <3>1. i - m \in 1 .. n /\ m + (i - m) = i
      BY <1>1, <2>1, <2>3
    <3>2. b[i - m] = z
      BY <1>1, <2>1, <3>1
    <3> QED
      BY <3>1, <3>2 DEF Has, n
  <2> QED
    BY <1>1, <2>1, <2>2, <2>3
<1> QED
  BY <1>2, <1>3, <1>4 DEF x

\* The empty sequence holds nothing, one of one element that.
LEMMA HasOne ==
  ASSUME NEW x, NEW z
  PROVE  ~Has(<<>>, z) /\ (Has(One(x), z) <=> z = x)
<1>1. Len(<<>>) = 0 /\ Len(One(x)) = 1 /\ One(x)[1] = x
  BY DEF One
<1>2. ~Has(<<>>, z)
  BY <1>1 DEF Has
<1>3. Has(One(x), z) <=> z = x
  BY <1>1 DEF Has
<1> QED
  BY <1>2, <1>3

\* A sequence holds its first element and what the others hold.
LEMMA HasRest ==
  ASSUME NEW S, NEW q \in Seq(S), q # <<>>, NEW z
  PROVE  Has(q, z) <=> z = Head(q) \/ Has(Tail(q), z)
<1> DEFINE h == Head(q)
           t == Tail(q)
<1>1. h \in S /\ t \in Seq(S) /\ q = Cat(One(h), t)
  BY FirstAndRest
<1> HIDE DEF h, t
<1>2. One(h) \in Seq(S)
  BY <1>1, CatAlgebra
<1> DEFINE o == One(h)
<1>3. Has(o, z) <=> z = h
  BY HasOne
<1> HIDE DEF o
<1>4. o \in Seq(S)
  BY <1>2 DEF o
<1>5. Has(Cat(o, t), z) <=> Has(o, z) \/ Has(t, z)
  BY <1>1, <1>4, HasCat
<1> QED
  BY <1>1, <1>3, <1>5 DEF h, t, o

\* What a sequence holds is of its elements' kind.
LEMMA HasIn ==
  ASSUME NEW S, NEW q \in Seq(S), NEW z, Has(q, z)
  PROVE  z \in S
BY DEF Has

\* The text of many holds what one of them holds.
HasSome(x, n, z) == \E i \in 1 .. n : Has(x[i], z)

\* Flat loses none and adds none.
LEMMA HasFlat ==
  ASSUME NEW C, NEW x \in Seq(Seq(C)), NEW z
  PROVE  Has(Flat(x), z) <=> HasSome(x, Len(x), z)
<1> DEFINE S == {n \in Nat : n <= Len(x) => (Has(Part(x, n), z) <=> HasSome(x, n, z))}
<1>1. /\ Part(x, 0) = <<>>
      /\ \A n \in 1 .. Len(x) : Part(x, n) = Cat(Part(x, n - 1), x[n])
      /\ \A n \in 0 .. Len(x) : Part(x, n) \in Seq(C)
  BY PartFacts
<1>2. ASSUME NEW n \in Nat, \A k \in 0 .. n - 1 : k \in S
      PROVE  n \in S
  <2> SUFFICES ASSUME n <= Len(x) PROVE Has(Part(x, n), z) <=> HasSome(x, n, z)
    OBVIOUS
  <2>1. CASE n = 0
    <3>1. ~Has(Part(x, n), z)
      BY <1>1, <2>1, HasOne
    <3>2. ~HasSome(x, n, z)
      BY <2>1 DEF HasSome
    <3> QED
      BY <3>1, <3>2
  <2>2. CASE n # 0
    <3> DEFINE k == n - 1
               p == Part(x, k)
               t == x[n]
    <3>1. k \in 0 .. n - 1 /\ k <= Len(x) /\ k \in 0 .. Len(x) /\ n \in 1 .. Len(x)
      BY <2>2
    <3>2. p \in Seq(C) /\ Part(x, n) = Cat(p, t) /\ t \in Seq(C)
      BY <1>1, <3>1
    <3>3. Has(p, z) <=> HasSome(x, k, z)
      BY <1>2, <3>1
    <3>4. HasSome(x, n, z) <=> HasSome(x, k, z) \/ Has(t, z)
      <4>1. \A i \in 1 .. n : i = n \/ i \in 1 .. k
        BY <3>1
      <4>2. \A i \in 1 .. k : i \in 1 .. n
        BY <3>1
      <4>3. n \in 1 .. n
        BY <3>1
      <4> HIDE DEF k
      <4> QED
        BY <4>1, <4>2, <4>3 DEF HasSome
    <3> HIDE DEF k, p, t
    <3>5. Has(Cat(p, t), z) <=> Has(p, z) \/ Has(t, z)
      BY <3>2, HasCat
    <3> QED
      BY <3>2, <3>3, <3>4, <3>5
  <2> QED
    BY <2>1, <2>2
<1>3. Nat \subseteq S
  <2> HIDE DEF S
  <2> QED
    BY <1>2, SetInduction
<1>4. Len(x) \in Nat /\ Flat(x) = Part(x, Len(x))
  BY FlatIsPart
<1> QED
  BY <1>3, <1>4
-----------------------------------------------------------------------------
(* The queue *)

SoundVisits(v) == {x \in Visits(v) : Sound(v, x)}

\* A sequence of visits that are what an arc leads to, in some order.
Followed(v, x, A) == A \in Seq(SoundVisits(v)) /\ \A y : Has(A, y) <=> Goes(v, x, y)

\* The characters, in their order.
Each(v, x, c) == IF Find(Trie(v), x.state, c) THEN One(ReadArc(x, c)) ELSE <<>>

FstInv == vocab \in Vocabs /\ trie = Trie(vocab) /\ phi = PhiOf(vocab)

\* What the assumption on the constants says of one vocabulary.
LEMMA CharsFacts ==
  ASSUME NEW v \in Vocabs
  PROVE  /\ GoodVocab(v) /\ Len(Chars) \in Nat /\ DOMAIN Chars = 1 .. Len(Chars)
         /\ \A c \in ExtractCharacters(v) : \E i \in 1 .. Len(Chars) : Chars[i] = c
<1>1. Chars \in Seq(ToSet(Chars)) /\ VocabularyOK(v) /\ ExtractCharacters(v) \subseteq ToSet(Chars)
  BY CandidatesAssumption
<1>2. GoodVocab(v)
  BY <1>1 DEF VocabularyOK, GoodVocab
<1> DEFINE n == Len(Chars)
<1>3. n \in Nat /\ DOMAIN Chars = 1 .. n
  BY <1>1
<1>4. \A c \in ToSet(Chars) : \E i \in 1 .. n : Chars[i] = c
  BY <1>3 DEF ToSet
<1> QED
  BY <1>1, <1>2, <1>3, <1>4

\* An arc is for a character that some token has.
LEMMA FindKnown ==
  ASSUME NEW v, GoodVocab(v), NEW s \in Trie(v), NEW c, Find(Trie(v), s, c)
  PROVE  c \in ExtractCharacters(v) /\ Append(s, c) \in Trie(v)
<1> DEFINE E == ExtractCharacters(v)
           y == Append(s, c)
<1>1. y \in Trie(v)
  BY DEF Find
<1>2. s \in Seq(E) /\ y \in Seq(E)
  BY <1>1, TrieFacts
<1> HIDE DEF E
<1>3. Len(s) \in Nat /\ Len(y) = Len(s) + 1 /\ y[Len(s) + 1] = c
  BY <1>2, AppendProperties
<1>4. Len(s) + 1 \in 1 .. Len(y)
  BY <1>3
<1>5. c \in E
  BY <1>2, <1>3, <1>4
<1> QED
  BY <1>1, <1>5 DEF E

\* The visits the three kinds of code make are the ones of the arcs.
LEMMA VisitsMade ==
  ASSUME NEW x, NEW tokens, NEW to, NEW c
  PROVE  /\ Phi(x, tokens, to) = Visited(Append(x.olabels, Head(tokens)), Tail(tokens), to)
         /\ ReadArc(x, c) = Visited(IF Leaf(trie, Append(x.state, c)) THEN Append(x.olabels, Append(x.state, c))
                                    ELSE x.olabels, <<>>, Append(x.state, c))
         /\ x \in Visits(vocab) /\ x.chain = <<>> => [x EXCEPT !.state = Start] = Visited(x.olabels, <<>>, Start)
<1>1. Phi(x, tokens, to) = Visited(Append(x.olabels, Head(tokens)), Tail(tokens), to)
  BY DEF Phi, Visited
<1>2. ReadArc(x, c) = Visited(IF Leaf(trie, Append(x.state, c)) THEN Append(x.olabels, Append(x.state, c))
                              ELSE x.olabels, <<>>, Append(x.state, c))
  BY DEF ReadArc, Visited
<1>3. ASSUME x \in Visits(vocab), x.chain = <<>>
      PROVE  [x EXCEPT !.state = Start] = Visited(x.olabels, <<>>, Start)
  BY <1>3 DEF Visits, Visited
<1> QED
  BY <1>1, <1>2, <1>3

\* One visit.
LEMMA FollowedOne ==
  ASSUME NEW v, GoodVocab(v), NEW x \in SoundVisits(v), NEW z, \A y : y = z <=> Goes(v, x, y)
  PROVE  Followed(v, x, One(z))
<1>1. Goes(v, x, z) /\ Sound(v, x)
  BY DEF SoundVisits
<1>2. Sound(v, z)
  BY <1>1, GoesLeads DEF Leads1
<1>3. z \in SoundVisits(v)
  BY <1>2 DEF SoundVisits, Sound
<1> DEFINE A == One(z)
<1>4. A \in Seq(SoundVisits(v))
  BY <1>3, CatAlgebra
<1>5. \A y : Has(A, y) <=> y = z
  BY HasOne
<1> HIDE DEF A
<1>6. Followed(v, x, A)
  BY <1>4, <1>5 DEF Followed
<1> QED
  BY <1>6 DEF A

\* The visits that arcs for characters lead to.
LEMMA EachFollowed ==
  ASSUME FstInv, NEW x \in SoundVisits(vocab), x.chain = <<>>, Inner(vocab, x.state), NEW c
  PROVE  /\ Each(vocab, x, c) \in Seq(SoundVisits(vocab))
         /\ \A y : Has(Each(vocab, x, c), y) <=> Find(Trie(vocab), x.state, c) /\ OnChar(vocab, x, y, Append(x.state, c))
<1> DEFINE v == vocab
           z == ReadArc(x, c)
           there == Append(x.state, c)
<1>1. GoodVocab(v) /\ trie = Trie(v) /\ Sound(v, x) /\ x.state \in Trie(v)
  BY CharsFacts DEF FstInv, SoundVisits, Inner
<1>2. \A y : OnChar(v, x, y, there) <=> there \in Trie(v) /\ y = z
  BY <1>1, VisitsMade DEF OnChar
<1>3. CASE Find(Trie(v), x.state, c)
  <2>1. c \in ExtractCharacters(v) /\ there \in Trie(v)
    BY <1>1, <1>3, FindKnown
  <2>2. OnChar(v, x, z, there)
    BY <1>2, <2>1
  <2>3. Goes(v, x, z)
    BY <2>1, <2>2 DEF Goes
  <2>4. Sound(v, z)
    BY <1>1, <2>3, GoesLeads DEF Leads1
  <2>5. z \in SoundVisits(v)
    BY <2>4 DEF SoundVisits, Sound
  <2> DEFINE A == One(z)
  <2>6. A \in Seq(SoundVisits(v))
    BY <2>5, CatAlgebra
  <2>7. \A y : Has(A, y) <=> y = z
    BY HasOne
  <2>8. Each(v, x, c) = A
    BY <1>3 DEF Each
  <2> HIDE DEF A, z, there
  <2>9. \A y : Has(Each(v, x, c), y) <=> OnChar(v, x, y, there)
    BY <1>2, <2>1, <2>7, <2>8
  <2> QED
    BY <1>3, <2>6, <2>8, <2>9 DEF there
<1>4. CASE ~Find(Trie(v), x.state, c)
  <2>1. Each(v, x, c) = <<>>
    BY <1>4 DEF Each
  <2>2. \A y : ~Has(<<>>, y)
    BY HasOne
  <2>3. <<>> \in Seq(SoundVisits(v))
    OBVIOUS
  <2> QED
    BY <1>4, <2>1, <2>2, <2>3
<1> QED
  BY <1>3, <1>4

\* All of them, in the order of the characters.
EachOf(v, x) == [i \in 1 .. Len(Chars) |-> Each(v, x, Chars[i])]

\* They are the states that some character leads to from here.
LEMMA CharsFollowed ==
  ASSUME FstInv, NEW x \in SoundVisits(vocab), x.chain = <<>>, Inner(vocab, x.state)
  PROVE  /\ Flat(EachOf(vocab, x)) \in Seq(SoundVisits(vocab))
         /\ \A y : Has(Flat(EachOf(vocab, x)), y) <=>
                     \E c \in ExtractCharacters(vocab) : OnChar(vocab, x, y, Append(x.state, c))
<1> DEFINE v == vocab
           X == EachOf(v, x)
           C == SoundVisits(v)
           n == Len(Chars)
<1>1. GoodVocab(v) /\ n \in Nat /\ \A c \in ExtractCharacters(v) : \E i \in 1 .. n : Chars[i] = c
  BY CharsFacts DEF FstInv
<1>2. \A i \in 1 .. n : Each(v, x, Chars[i]) \in Seq(C)
  BY EachFollowed
<1>3. X \in Seq(Seq(C)) /\ Len(X) = n /\ \A i \in 1 .. n : X[i] = Each(v, x, Chars[i])
  <2> DEFINE D == Seq(C)
             Z(i) == Each(v, x, Chars[i])
  <2>1. \A i \in 1 .. n : Z(i) \in D
    BY <1>2
  <2>2. X = [i \in 1 .. n |-> Z(i)]
    BY DEF EachOf
  <2> HIDE DEF D, Z, X, n
  <2> QED
    BY <1>1, <2>1, <2>2 DEF Z, D
<1> HIDE DEF X
<1>4. Flat(X) \in Seq(C)
  BY <1>3, FlatIsPart
<1>5. \A y : Has(Flat(X), y) <=> HasSome(X, n, y)
  BY <1>3, HasFlat
<1>6. \A y : HasSome(X, n, y) <=> \E c \in ExtractCharacters(v) : OnChar(v, x, y, Append(x.state, c))
  <2> SUFFICES ASSUME NEW y
               PROVE  HasSome(X, n, y) <=> \E c \in ExtractCharacters(v) : OnChar(v, x, y, Append(x.state, c))
    OBVIOUS
  <2>1. ASSUME HasSome(X, n, y)
        PROVE  \E c \in ExtractCharacters(v) : OnChar(v, x, y, Append(x.state, c))
    <3>1. PICK i \in 1 .. n : Has(X[i], y)
      BY <2>1 DEF HasSome
    <3>2. Has(Each(v, x, Chars[i]), y)
      BY <1>3, <3>1
    <3>3. Find(Trie(v), x.state, Chars[i]) /\ OnChar(v, x, y, Append(x.state, Chars[i]))
      BY <3>2, EachFollowed
    <3>4. Chars[i] \in ExtractCharacters(v)
      BY <1>1, <3>3, FindKnown DEF Inner
    <3> QED
      BY <3>3, <3>4
  <2>2. ASSUME NEW c \in ExtractCharacters(v), OnChar(v, x, y, Append(x.state, c))
        PROVE  HasSome(X, n, y)
    <3>1. PICK i \in 1 .. n : Chars[i] = c
      BY <1>1
    <3>2. Find(Trie(v), x.state, Chars[i]) /\ OnChar(v, x, y, Append(x.state, Chars[i]))
      BY <2>2, <3>1 DEF Find, OnChar
    <3>3. Has(Each(v, x, Chars[i]), y)
      BY <3>2, EachFollowed
    <3> QED
      BY <1>3, <3>3 DEF HasSome
  <2> QED
    BY <2>1, <2>2
<1> QED
  BY <1>4, <1>5, <1>6 DEF X

\* What Follow puts into the queue is what the arcs lead to.
LEMMA ArcsFollowed ==
  ASSUME FstInv, NEW x \in SoundVisits(vocab), ~AtStart(x)
  PROVE  Followed(vocab, x, Arcs(x))
<1> DEFINE v == vocab
           tr == Trie(v)
           P == PhiOf(v)
<1>1. GoodVocab(v) /\ trie = tr /\ phi = P /\ Sound(v, x) /\ x \in Visits(v) /\ x.state \in tr
  BY CharsFacts DEF FstInv, SoundVisits, Visits
<1>2. CASE x.chain # <<>>
  <2> DEFINE z == Phi(x, x.chain, x.state)
  <2>1. Arcs(x) = One(z)
    BY <1>2 DEF Arcs, One
  <2>2. z = Visited(Append(x.olabels, Head(x.chain)), Tail(x.chain), x.state)
    BY DEF Phi, Visited
  <2> HIDE DEF z
  <2>3. \A y : y = z <=> Goes(v, x, y)
    BY <1>2, <2>2 DEF Goes, OnChain, OffLeaf, OnPhi, OnChar
  <2>4. Followed(v, x, One(z))
    BY <1>1, <2>3, FollowedOne
  <2> QED
    BY <2>1, <2>4
<1>3. CASE x.chain = <<>> /\ Leaf(tr, x.state)
  <2> DEFINE z == [x EXCEPT !.state = Start]
  <2>1. Arcs(x) = One(z)
    BY <1>1, <1>3 DEF Arcs, One
  <2>2. z = Visited(x.olabels, <<>>, Start)
    BY <1>1, <1>3, VisitsMade
  <2> HIDE DEF z
  <2>3. \A y : y = z <=> Goes(v, x, y)
    BY <1>3, <2>2 DEF Goes, OnChain, OffLeaf, OnPhi, OnChar, Inner
  <2>4. Followed(v, x, One(z))
    BY <1>1, <2>3, FollowedOne
  <2> QED
    BY <2>1, <2>4
<1>4. CASE x.chain = <<>> /\ ~Leaf(tr, x.state)
  <2> DEFINE z == Phi(x, P[x.state].out, P[x.state].to)
             F == Flat(EachOf(v, x))
             C == SoundVisits(v)
  <2>1. Inner(v, x.state)
    BY <1>1, <1>4 DEF AtStart, Inner
  <2>2. z = Visited(Append(x.olabels, Head(P[x.state].out)), Tail(P[x.state].out), P[x.state].to)
    BY DEF Phi, Visited
  <2>3. Arcs(x) = Cat(One(z), F)
    <3>1. DOMAIN Chars = 1 .. Len(Chars)
      BY CharsFacts DEF FstInv
    <3> DEFINE Fits(c) == IF Find(trie, x.state, c) THEN <<ReadArc(x, c)>> ELSE <<>>
               G == [i \in DOMAIN Chars |-> Fits(Chars[i])]
    <3>2. Arcs(x) = <<Phi(x, phi[x.state].out, phi[x.state].to)>> \o FlattenSeq(G)
      BY <1>1, <1>4 DEF Arcs
    <3>3. \A c : Fits(c) = Each(v, x, c)
      BY <1>1 DEF Each, One
    <3>4. G = EachOf(v, x)
      BY <3>1, <3>3 DEF EachOf
    <3> HIDE DEF G
    <3> QED
      BY <1>1, <3>2, <3>4 DEF Cat, One, Flat
  <2> HIDE DEF z
  <2>4. OnPhi(v, x, z, P[x.state])
    BY <1>4, <2>1, <2>2 DEF OnPhi
  <2>5. Goes(v, x, z)
    BY <2>4 DEF Goes
  <2>6. Sound(v, z)
    BY <1>1, <2>5, GoesLeads DEF Leads1
  <2>7. z \in C
    BY <2>6 DEF SoundVisits, Sound
  <2> DEFINE o == One(z)
  <2>8. o \in Seq(C)
    BY <2>7, CatAlgebra
  <2>9. F \in Seq(C) /\ \A y : Has(F, y) <=> \E c \in ExtractCharacters(v) : OnChar(v, x, y, Append(x.state, c))
    BY <1>4, <2>1, CharsFollowed
  <2>10. \A y : Has(o, y) <=> y = z
    BY HasOne
  <2>11. \A y : Goes(v, x, y) <=> y = z \/ \E c \in ExtractCharacters(v) : OnChar(v, x, y, Append(x.state, c))
    BY <1>4, <2>1, <2>2 DEF Goes, OnChain, OffLeaf, OnPhi
  <2> HIDE DEF o, F, C
  <2>12. Cat(o, F) \in Seq(C)
    BY <2>8, <2>9, CatAlgebra
  <2>13. \A y : Has(Cat(o, F), y) <=> Has(o, y) \/ Has(F, y)
    BY <2>8, <2>9, HasCat
  <2> DEFINE A == Cat(o, F)
  <2>14. \A y : Has(A, y) <=> Goes(v, x, y)
    BY <2>9, <2>10, <2>11, <2>13
  <2>15. A \in Seq(C) /\ Arcs(x) = A
    BY <2>3, <2>12 DEF o
  <2> HIDE DEF A
  <2> QED
    BY <2>14, <2>15 DEF Followed, C
<1> QED
  BY <1>2, <1>3, <1>4
-----------------------------------------------------------------------------
(* A step of the search *)

\* x is visited: nothing but x leaves the queue Q; either x has come to the
\* start state and its tokens join the sequences S, or it is given up, or what
\* its arcs lead to comes into the queue.
Comes(x, Q, S, Q2, S2) ==
  AtStart(x) /\ S2 = S \cup ({x.olabels} \ {<<>>}) /\ \A z : Has(Q2, z) => Has(Q, z)
Stops(x, Q, S, Q2, S2) ==
  ~AtStart(x) /\ x.olabels \in S /\ S2 = S /\ \A z : Has(Q2, z) => Has(Q, z)
Goes2(v, x, Q, S, Q2, S2) ==
  /\ ~AtStart(x) /\ x.olabels \notin S /\ S2 = S
  /\ \A z : Has(Q2, z) => Has(Q, z) \/ Goes(v, x, z)
  /\ \A z : Goes(v, x, z) => Has(Q2, z)

Moves(v, x, Q, S, Q2, S2) ==
  /\ Has(Q, x) /\ \A z : Has(Q, z) => z = x \/ Has(Q2, z)
  /\ Comes(x, Q, S, Q2, S2) \/ Stops(x, Q, S, Q2, S2) \/ Goes2(v, x, Q, S, Q2, S2)

\* The visits cost k, the later ones one more.
Costs(v, Q, k) == \A z : Has(Q, z) => Cost(v, z) = k
Layers(v, Q, k, a, b) ==
  /\ k \in Nat /\ a \in Seq(SoundVisits(v)) /\ b \in Seq(SoundVisits(v)) /\ Q = Cat(a, b)
  /\ Costs(v, a, k) /\ Costs(v, b, k + 1)
Layered(v, Q) == \E k, a, b : Layers(v, Q, k, a, b)

\* A visit at the front and what comes to the end cost as much, and one more.
LEMMA LayersOn ==
  ASSUME NEW v, NEW k, NEW a, NEW b, NEW Q, Layers(v, Q, k, a, b), Q # <<>>, a # <<>>,
         NEW A \in Seq(SoundVisits(v)), Costs(v, A, Cost(v, Head(Q)) + 1)
  PROVE  Layered(v, Cat(Tail(Q), A)) /\ Cost(v, Head(Q)) = k
<1> DEFINE C == SoundVisits(v)
           h == Head(a)
           t == Tail(a)
           o == One(h)
<1>1. k \in Nat /\ a \in Seq(C) /\ b \in Seq(C) /\ Q = Cat(a, b) /\ Costs(v, a, k) /\ Costs(v, b, k + 1)
  BY DEF Layers
<1>2. h \in C /\ t \in Seq(C) /\ a = Cat(o, t)
  BY <1>1, FirstAndRest
<1>3. o \in Seq(C)
  BY <1>2, CatAlgebra
<1>4. Has(a, h) /\ \A z : Has(t, z) => Has(a, z)
  BY <1>1, HasRest
<1>5. Q \in Seq(C)
  BY <1>1, CatAlgebra
<1> DEFINE H == Head(Q)
           T == Tail(Q)
<1>6. H \in C /\ T \in Seq(C) /\ Q = Cat(One(H), T)
  BY <1>5, FirstAndRest
<1> HIDE DEF h, t, o, H, T, C
<1>7. Q = Cat(o, Cat(t, b)) /\ Cat(t, b) \in Seq(C)
  <2>1. Cat(Cat(o, t), b) = Cat(o, Cat(t, b))
    BY <1>1, <1>2, <1>3, CatAlgebra
  <2>2. Cat(t, b) \in Seq(C)
    BY <1>1, <1>2, CatAlgebra
  <2> QED
    BY <1>1, <1>2, <2>1, <2>2
<1>8. H = h /\ T = Cat(t, b)
  <2> DEFINE u == Cat(t, b)
  <2>1. u \in Seq(C) /\ Cat(One(H), T) = Cat(One(h), u)
    BY <1>6, <1>7 DEF o
  <2> HIDE DEF u
  <2>2. H = h /\ T = u
    BY <1>2, <1>6, <2>1, SameFirst
  <2> QED
    BY <2>2 DEF u
<1>9. Cost(v, H) = k
  BY <1>1, <1>4, <1>8 DEF Costs
<1> DEFINE B == Cat(b, A)
<1>10. A \in Seq(C) /\ B \in Seq(C)
  <2>1. A \in Seq(C)
    BY DEF C
  <2> QED
    BY <1>1, <2>1, CatAlgebra
<1>11. Cat(T, A) = Cat(t, B)
  BY <1>1, <1>2, <1>8, <1>10, CatAlgebra
<1>12. \A z : Has(B, z) => Has(b, z) \/ Has(A, z)
  BY <1>1, <1>10, HasCat
<1>13. Costs(v, t, k)
  BY <1>1, <1>4 DEF Costs
<1>14. Costs(v, B, k + 1)
  <2>1. Costs(v, A, k + 1)
    BY <1>9 DEF H
  <2> HIDE DEF B
  <2> QED
    BY <1>1, <1>12, <2>1 DEF Costs
<1> HIDE DEF B
<1>15. Layers(v, Cat(T, A), k, t, B)
  BY <1>1, <1>2, <1>10, <1>11, <1>13, <1>14 DEF Layers, C
<1>16. Layered(v, Cat(T, A))
  BY <1>15 DEF Layered
<1> QED
  BY <1>9, <1>16 DEF H, T

\* The queue is in two layers after a step, too.
LEMMA LayeredOn ==
  ASSUME NEW v, NEW Q, Layered(v, Q), Q # <<>>,
         NEW A \in Seq(SoundVisits(v)), Costs(v, A, Cost(v, Head(Q)) + 1)
  PROVE  Layered(v, Cat(Tail(Q), A))
<1>1. PICK k, a, b : Layers(v, Q, k, a, b)
  BY DEF Layered
<1>2. CASE a # <<>>
  BY <1>1, <1>2, LayersOn
<1>3. CASE a = <<>>
  <2> DEFINE C == SoundVisits(v)
             e == <<>>
             m == k + 1
  <2>1. k \in Nat /\ b \in Seq(C) /\ Q = Cat(e, b) /\ Costs(v, b, m)
    BY <1>1, <1>3 DEF Layers
  <2>2. m \in Nat /\ e \in Seq(C)
    BY <2>1
  <2>3. Q = b /\ Cat(b, e) = b
    BY <2>1, CatAlgebra
  <2>4. \A z : ~Has(e, z)
    BY HasOne
  <2>5. Costs(v, e, m + 1)
    BY <2>4 DEF Costs
  <2> HIDE DEF e, m
  <2>6. Layers(v, Q, m, b, e)
    BY <2>1, <2>2, <2>3, <2>5 DEF Layers
  <2>7. b # <<>>
    BY <2>3
  <2> QED
    BY <2>6, <2>7, LayersOn
<1> QED
  BY <1>2, <1>3

\* Nothing in it costs less than its front.
LEMMA FrontCheapest ==
  ASSUME NEW v, NEW Q, Layered(v, Q), Q # <<>>
  PROVE  Cost(v, Head(Q)) \in Nat /\ \A z : Has(Q, z) => Cost(v, z) \in Nat /\ Cost(v, Head(Q)) <= Cost(v, z)
<1>1. PICK k, a, b : Layers(v, Q, k, a, b)
  BY DEF Layered
<1> DEFINE C == SoundVisits(v)
<1>2. k \in Nat /\ a \in Seq(C) /\ b \in Seq(C) /\ Q = Cat(a, b) /\ Costs(v, a, k) /\ Costs(v, b, k + 1)
  BY <1>1 DEF Layers
<1>3. \A z : Has(Q, z) <=> Has(a, z) \/ Has(b, z)
  BY <1>2, HasCat
<1>4. \A z : Has(Q, z) => Cost(v, z) = k \/ (Has(b, z) /\ Cost(v, z) = k + 1)
  BY <1>2, <1>3 DEF Costs
<1>5. Has(Q, Head(Q))
  <2>1. Q \in Seq(C)
    BY <1>2, CatAlgebra
  <2> QED
    BY <2>1, HasRest
<1>6. CASE a = <<>>
  <2>1. \A z : ~Has(a, z)
    BY <1>6, HasOne
  <2>2. \A z : Has(Q, z) => Cost(v, z) = k + 1
    BY <1>2, <1>3, <2>1 DEF Costs
  <2> QED
    BY <1>2, <1>5, <2>2
<1>7. CASE a # <<>>
  <2> DEFINE e == <<>>
  <2>1. e \in Seq(SoundVisits(v)) /\ \A z : ~Has(e, z)
    BY HasOne
  <2>2. Costs(v, e, Cost(v, Head(Q)) + 1)
    BY <2>1 DEF Costs
  <2> HIDE DEF e
  <2>3. Cost(v, Head(Q)) = k
    BY <1>1, <1>7, <2>1, <2>2, LayersOn
  <2>4. \A z : Has(Q, z) => Cost(v, z) = k \/ Cost(v, z) = k + 1
    BY <1>4
  <2> QED
    BY <1>2, <2>3, <2>4
<1> QED
  BY <1>6, <1>7

\* Arrive and Follow are such steps.
LEMMA SearchMoves ==
  ASSUME FstInv, queue \in Seq(SoundVisits(vocab)), Layered(vocab, queue), Arrive \/ Follow
  PROVE  /\ queue # <<>> /\ Sound(vocab, Head(queue)) /\ Moves(vocab, Head(queue), queue, sequences, queue', sequences')
         /\ queue' \in Seq(SoundVisits(vocab)) /\ Layered(vocab, queue')
<1> DEFINE v == vocab
           C == SoundVisits(v)
           x == Head(queue)
           T == Tail(queue)
           e == <<>>
<1>1. queue # <<>>
  BY DEF Arrive, Follow
<1>2. x \in C /\ T \in Seq(C)
  BY <1>1, FirstAndRest
<1>3. \A z : Has(queue, z) <=> z = x \/ Has(T, z)
  BY <1>1, HasRest
<1>4. Sound(v, x) /\ GoodVocab(v)
  BY <1>2, CharsFacts DEF SoundVisits, FstInv
<1>5. e \in Seq(C) /\ Cat(T, e) = T /\ T \o <<>> = Cat(T, e)
  BY <1>2, CatAlgebra DEF Cat
<1>6. Costs(v, e, Cost(v, x) + 1)
  <2>1. \A z : ~Has(e, z)
    BY HasOne
  <2> QED
    BY <2>1 DEF Costs
<1>7. Layered(v, T)
  <2> HIDE DEF e
  <2>1. Layered(v, Cat(T, e))
    BY <1>1, <1>5, <1>6, LayeredOn
  <2> QED
    BY <1>5, <2>1
<1>8. CASE Arrive
  <2>1. queue' = T /\ AtStart(x) /\ sequences' = sequences \cup ({x.olabels} \ {<<>>})
    BY <1>8 DEF Arrive
  <2>2. Comes(x, queue, sequences, queue', sequences')
    BY <1>3, <2>1 DEF Comes
  <2>3. Moves(v, x, queue, sequences, queue', sequences')
    BY <1>3, <2>1, <2>2 DEF Moves
  <2> QED
    BY <1>1, <1>2, <1>4, <1>7, <2>1, <2>3
<1>9. CASE Follow /\ GivenUp(x)
  <2>1. queue' = T /\ ~AtStart(x) /\ sequences' = sequences /\ x.olabels \in sequences
    BY <1>5, <1>9 DEF Follow, Rest, GivenUp
  <2>2. Stops(x, queue, sequences, queue', sequences')
    BY <1>3, <2>1 DEF Stops
  <2>3. Moves(v, x, queue, sequences, queue', sequences')
    BY <1>3, <2>1, <2>2 DEF Moves
  <2> QED
    BY <1>1, <1>2, <1>4, <1>7, <2>1, <2>3
<1>10. CASE Follow /\ ~GivenUp(x)
  <2> DEFINE A == Arcs(x)
  <2>1. queue' = Cat(T, A) /\ ~AtStart(x) /\ sequences' = sequences /\ x.olabels \notin sequences
    BY <1>10 DEF Follow, Rest, GivenUp, Cat
  <2>2. Followed(v, x, A)
    BY <1>2, <2>1, ArcsFollowed
  <2> HIDE DEF A
  <2>3. A \in Seq(C) /\ \A y : Has(A, y) <=> Goes(v, x, y)
    BY <2>2 DEF Followed
  <2>4. Costs(v, A, Cost(v, x) + 1)
    <3>1. \A y : Goes(v, x, y) => Cost(v, y) = Cost(v, x) + 1
      BY <1>4, GoesLeads DEF Leads1
    <3> QED
      BY <2>3, <3>1 DEF Costs
  <2>5. Layered(v, Cat(T, A))
    BY <1>1, <2>3, <2>4, LayeredOn
  <2>6. Cat(T, A) \in Seq(C) /\ \A z : Has(Cat(T, A), z) <=> Has(T, z) \/ Has(A, z)
    <3>1. Cat(T, A) \in Seq(C)
      BY <1>2, <2>3, CatAlgebra
    <3>2. \A z : Has(Cat(T, A), z) <=> Has(T, z) \/ Has(A, z)
      BY <1>2, <2>3, HasCat
    <3> QED
      BY <3>1, <3>2
  <2> DEFINE Q2 == Cat(T, A)
  <2>7. /\ \A z : Has(Q2, z) => Has(queue, z) \/ Goes(v, x, z)
        /\ \A z : Goes(v, x, z) => Has(Q2, z)
        /\ \A z : Has(queue, z) => z = x \/ Has(Q2, z)
    BY <1>3, <2>3, <2>6
  <2>8. queue' = Q2 /\ Q2 \in Seq(C) /\ Layered(v, Q2)
    BY <2>1, <2>5, <2>6
  <2> HIDE DEF Q2
  <2>9. Goes2(v, x, queue, sequences, queue', sequences')
    BY <2>1, <2>7, <2>8 DEF Goes2
  <2>10. Moves(v, x, queue, sequences, queue', sequences')
    BY <1>3, <2>7, <2>8, <2>9 DEF Moves
  <2> QED
    BY <1>1, <1>2, <1>4, <2>8, <2>10
<1> QED
  BY <1>8, <1>9, <1>10
-----------------------------------------------------------------------------
(* What is known of every visit *)

\* A beginning of a beginning is a beginning.
LEMMA StartsTrans ==
  ASSUME NEW S, NEW a \in Seq(S), NEW b, NEW c, Starts(S, a, b), Starts(S, b, c)
  PROVE  Starts(S, a, c)
<1>1. PICK u \in Seq(S) : b = Cat(a, u)
  BY DEF Starts
<1>2. PICK w \in Seq(S) : c = Cat(b, w)
  BY DEF Starts
<1>3. c = Cat(a, Cat(u, w)) /\ Cat(u, w) \in Seq(S)
  BY <1>1, <1>2, CatAlgebra
<1> QED
  BY <1>3 DEF Starts

\* Everything begins with itself.
LEMMA StartsSelf ==
  ASSUME NEW S, NEW a \in Seq(S)
  PROVE  Starts(S, a, a) /\ \A u \in Seq(S) : Starts(S, a, Cat(a, u))
<1>1. <<>> \in Seq(S)
  OBVIOUS
<1>2. a = Cat(a, <<>>)
  BY CatAlgebra
<1> QED
  BY <1>1, <1>2 DEF Starts

\* The text of tokens and one more.
LEMMA FlatOn ==
  ASSUME NEW v, GoodVocab(v), NEW o \in Seq(v), NEW t \in v
  PROVE  /\ Cat(o, One(t)) \in Seq(v) /\ One(t) \in Seq(v) /\ Flat(One(t)) = t
         /\ Flat(Cat(o, One(t))) = Cat(Flat(o), t) /\ Flat(o) \in Seq(ExtractCharacters(v))
<1> DEFINE T == Seq(ExtractCharacters(v))
           k == One(t)
<1>1. k \in Seq(v) /\ Cat(o, k) \in Seq(v)
  BY CatAlgebra
<1>2. o \in Seq(T) /\ k \in Seq(T) /\ t \in T
  BY <1>1, TokensAreTexts
<1>3. Flat(k) = t
  BY <1>2, FlatSmall
<1> HIDE DEF k
<1>4. Flat(Cat(o, k)) = Cat(Flat(o), Flat(k)) /\ Flat(o) \in T
  <2>1. Flat(o) \in T
    BY <1>2, FlatIsPart
  <2> QED
    BY <1>2, <2>1, FlatCat
<1> QED
  BY <1>1, <1>3, <1>4 DEF k

\* The text of tokens and more of them.
LEMMA FlatOnto ==
  ASSUME NEW v, GoodVocab(v), NEW o \in Seq(v), NEW p \in Seq(v)
  PROVE  /\ Cat(o, p) \in Seq(v) /\ Flat(Cat(o, p)) = Cat(Flat(o), Flat(p))
         /\ Flat(o) \in Seq(ExtractCharacters(v)) /\ Flat(p) \in Seq(ExtractCharacters(v))
<1> DEFINE T == Seq(ExtractCharacters(v))
<1>1. Cat(o, p) \in Seq(v)
  BY CatAlgebra
<1>2. o \in Seq(T) /\ p \in Seq(T)
  BY TokensAreTexts
<1>3. Flat(o) \in T /\ Flat(p) \in T
  BY <1>2, FlatIsPart
<1> QED
  BY <1>1, <1>2, <1>3, FlatCat

\* Where only characters can follow, all tokens have been output.
LEMMA InnerFacts ==
  ASSUME NEW v, GoodVocab(v), NEW x, Sound(v, x), x.chain = <<>>, Inner(v, x.state)
  PROVE  /\ Full(x) = x.olabels /\ Ahead(v, x) = x.state /\ x.state \in Seq(ExtractCharacters(v))
         /\ x.state # <<>> /\ Reads(v, x) = Cat(Flat(x.olabels), x.state)
<1>1. x.olabels \in Seq(v) /\ x.state \in Seq(ExtractCharacters(v))
  BY VisitFacts
<1>2. Full(x) = x.olabels
  BY <1>1, CatAlgebra DEF Full
<1>3. Ahead(v, x) = x.state
  BY DEF Ahead, Pending, Rep, Inner
<1> QED
  BY <1>1, <1>2, <1>3 DEF Reads, Inner, Start

\* An arc leaves the tokens and the text begun as they are.
LEMMA ReadsOn ==
  ASSUME NEW v, GoodVocab(v), NEW x, NEW y, Sound(v, x), Leads1(v, x, y)
  PROVE  Starts(v, Full(x), Full(y)) /\ Starts(ExtractCharacters(v), Reads(v, x), Reads(v, y))
<1> DEFINE E == ExtractCharacters(v)
           T == Seq(E)
           o == x.olabels
           s == x.state
<1>1. Full(x) \in Seq(v) /\ Reads(v, x) \in T /\ o \in Seq(v) /\ s \in T
  BY VisitFacts
<1>2. CASE Stays(v, x, y)
  <2>1. Full(y) = Full(x) /\ Reads(v, y) = Reads(v, x)
    BY <1>2 DEF Stays, Reads
  <2> QED
    BY <1>1, <2>1, StartsSelf
<1>3. CASE Turns(v, x, y)
  <2> DEFINE p == PhiOf(v)[s]
             c == p.out
             to == p.to
  <2>1. Backs(v, s, p) /\ x.chain = <<>> /\ Inner(v, s) /\ Full(y) = Cat(o, c) /\ Ahead(v, y) = to
    BY <1>3, PhiBacks DEF Turns
  <2>2. c \in Seq(v) /\ to \in Trie(v) /\ s = Cat(Flat(c), to)
    BY <2>1 DEF Backs
  <2>3. to \in T
    BY <2>2, TrieFacts
  <2>4. Full(x) = o /\ Reads(v, x) = Cat(Flat(o), s)
    BY <2>1, InnerFacts
  <2> HIDE DEF c, to, p
  <2>5. Flat(Cat(o, c)) = Cat(Flat(o), Flat(c)) /\ Flat(o) \in T /\ Flat(c) \in T
    BY <1>1, <2>2, FlatOnto
  <2> DEFINE a == Flat(o)
             b == Flat(c)
  <2>6. Reads(v, y) = Cat(Cat(a, b), to) /\ Reads(v, x) = Cat(a, Cat(b, to)) /\ a \in T /\ b \in T
    BY <2>1, <2>2, <2>4, <2>5 DEF Reads
  <2> HIDE DEF a, b, E
  <2>7. Reads(v, y) = Reads(v, x)
    <3>1. Cat(Cat(a, b), to) = Cat(a, Cat(b, to))
      BY <2>3, <2>6, CatAlgebra
    <3> QED
      BY <2>6, <3>1
  <2>8. Starts(v, Full(x), Full(y))
    BY <1>1, <2>1, <2>2, <2>4, StartsSelf
  <2>9. Starts(E, Reads(v, x), Reads(v, y))
    BY <1>1, <2>7, StartsSelf
  <2> QED
    BY <2>8, <2>9 DEF E
<1>4. ASSUME NEW c \in E, Grows(v, x, y, Append(s, c)) \/ Ends(v, x, y, Append(s, c))
      PROVE  Starts(v, Full(x), Full(y)) /\ Starts(E, Reads(v, x), Reads(v, y))
  <2> DEFINE there == Append(s, c)
             k == One(c)
             a == Flat(o)
  <2>1. there = Cat(s, k) /\ k \in T
    <3> HIDE DEF s, E
    <3> QED
      BY <1>1, CatAlgebra DEF E
  <2>2. Full(x) = o /\ Reads(v, x) = Cat(a, s) /\ a \in T
    <3>1. x.chain = <<>> /\ Inner(v, x.state)
      BY <1>4 DEF Grows, Ends
    <3>2. o \in Seq(Seq(ExtractCharacters(v)))
      BY <1>1, TokensAreTexts
    <3> QED
      BY <3>1, <3>2, InnerFacts, FlatIsPart
  <2>3. CASE Grows(v, x, y, there)
    <3>1. Full(y) = o /\ Reads(v, y) = Cat(a, there)
      BY <2>3 DEF Grows, Reads
    <3> HIDE DEF a, there, k
    <3>2. Reads(v, y) = Cat(Reads(v, x), k)
      <4> HIDE DEF o, s, E
      <4>1. Cat(a, Cat(s, k)) = Cat(Cat(a, s), k)
        BY <1>1, <2>1, <2>2, CatAlgebra
      <4> QED
        BY <2>1, <2>2, <3>1, <4>1
    <3>3. Starts(E, Reads(v, x), Reads(v, y))
      BY <1>1, <2>1, <3>2, StartsSelf
    <3>4. Starts(v, Full(x), Full(y))
      BY <1>1, <2>2, <3>1, StartsSelf
    <3> QED
      BY <3>3, <3>4
  <2>4. CASE Ends(v, x, y, there)
    <3>1. Full(y) = Cat(o, One(there)) /\ Ahead(v, y) = Start /\ there \in v
      BY <2>4 DEF Ends
    <3> HIDE DEF a, there, k
    <3>2. One(there) \in Seq(v) /\ Flat(Cat(o, One(there))) = Cat(Flat(o), there) /\ there \in T
      <4>1. o \in Seq(v) /\ there \in v
        BY <1>1, <3>1
      <4>2. there \in T
        BY <4>1, TokensAreTexts
      <4> HIDE DEF o
      <4>3. One(there) \in Seq(v) /\ Flat(Cat(o, One(there))) = Cat(Flat(o), there)
        BY <4>1, FlatOn
      <4> QED
        BY <4>2, <4>3
    <3> DEFINE r == Cat(a, there)
    <3>3. r \in T
      <4> HIDE DEF o, s, E
      <4> QED
        BY <2>2, <3>2, CatAlgebra
    <3>4. Reads(v, y) = Cat(r, <<>>)
      BY <3>1, <3>2 DEF Reads, Start, a
    <3> HIDE DEF r
    <3>5. Cat(r, <<>>) = r
      BY <3>3, CatAlgebra
    <3>6. r = Cat(Reads(v, x), k)
      <4> HIDE DEF o, s, E
      <4>1. Cat(a, Cat(s, k)) = Cat(Cat(a, s), k)
        BY <1>1, <2>1, <2>2, CatAlgebra
      <4> QED
        BY <2>1, <2>2, <4>1 DEF r
    <3>7. Starts(E, Reads(v, x), Reads(v, y))
      BY <1>1, <2>1, <3>4, <3>5, <3>6, StartsSelf
    <3>8. Starts(v, Full(x), Full(y))
      BY <1>1, <2>2, <3>1, <3>2, StartsSelf
    <3> QED
      BY <3>7, <3>8
  <2> QED
    BY <1>4, <2>3, <2>4
<1> QED
  BY <1>2, <1>3, <1>4 DEF Leads1

\* Arrived at the start state, all has been output.
LEMMA Arrived ==
  ASSUME NEW v, GoodVocab(v), NEW x, Sound(v, x), AtStart(x)
  PROVE  /\ Full(x) = x.olabels /\ Ahead(v, x) = <<>> /\ Reads(v, x) = Flat(x.olabels)
         /\ x.olabels \in Seq(v)
<1>1. x.olabels \in Seq(v) /\ Flat(Full(x)) \in Seq(ExtractCharacters(v))
  BY VisitFacts
<1>2. Full(x) = x.olabels
  BY <1>1, CatAlgebra DEF Full, AtStart
<1>3. Ahead(v, x) = <<>>
  BY StartFacts DEF Ahead, Pending, Rep, Start, AtStart
<1> DEFINE t == Flat(Full(x))
<1>4. Reads(v, x) = Cat(t, <<>>) /\ t \in Seq(ExtractCharacters(v))
  BY <1>1, <1>3 DEF Reads
<1> HIDE DEF t
<1>5. Reads(v, x) = t
  BY <1>4, CatAlgebra
<1> QED
  BY <1>1, <1>2, <1>3, <1>5 DEF t

-----------------------------------------------------------------------------
(* Every path goes on from what was pending where the search began *)

\* The nodes CandidateOlabels is called for, and what is pending in one.
Root(v, n) == n.chain \in Seq(v) /\ n.state \in Trie(v) /\ (n.chain # <<>> => ~Leaf(Trie(v), n.state))
Base(v, n) == Cat(Flat(n.chain), Pending(v, n.state))

SoundQ(v, Q) == \A z : Has(Q, z) => Sound(v, z)

OnwardTo(v, n, f, t) == Starts(v, n.chain, f) /\ Starts(ExtractCharacters(v), Base(v, n), t)
Onward(v, n, Q, S) ==
  /\ \A y : Has(Q, y) => OnwardTo(v, n, Full(y), Reads(v, y))
  /\ \A s \in S : s \in Seq(v) /\ s # <<>> /\ OnwardTo(v, n, s, Flat(s))

\* The base is a text.
LEMMA BaseText ==
  ASSUME NEW v, GoodVocab(v), NEW n, Root(v, n)
  PROVE  /\ Base(v, n) \in Seq(ExtractCharacters(v)) /\ Flat(n.chain) \in Seq(ExtractCharacters(v))
         /\ Pending(v, n.state) \in Seq(ExtractCharacters(v))
<1> DEFINE E == ExtractCharacters(v)
           a == Flat(n.chain)
           b == Pending(v, n.state)
<1>1. b \in Seq(E)
  BY RepIn DEF Root
<1>2. n.chain \in Seq(Seq(E))
  BY TokensAreTexts DEF Root
<1>3. a \in Seq(E)
  BY <1>2, FlatIsPart
<1> HIDE DEF a, b
<1>4. Cat(a, b) \in Seq(E)
  BY <1>1, <1>3, CatAlgebra
<1> QED
  BY <1>1, <1>3, <1>4 DEF Base, a, b

\* A step does not lead away from there.
LEMMA OnwardOn ==
  ASSUME NEW v, GoodVocab(v), NEW n, Root(v, n), NEW x, Sound(v, x),
         NEW Q, NEW S, NEW Q2, NEW S2, Moves(v, x, Q, S, Q2, S2), Onward(v, n, Q, S)
  PROVE  Onward(v, n, Q2, S2)
<1> DEFINE E == ExtractCharacters(v)
<1>1. Has(Q, x) /\ OnwardTo(v, n, Full(x), Reads(v, x))
  BY DEF Moves, Onward
<1>2. ASSUME NEW y, Goes(v, x, y)
      PROVE  OnwardTo(v, n, Full(y), Reads(v, y))
  <2>1. Leads1(v, x, y)
    BY <1>2, GoesLeads
  <2>2. Starts(v, Full(x), Full(y)) /\ Starts(E, Reads(v, x), Reads(v, y))
    BY <2>1, ReadsOn
  <2>3. n.chain \in Seq(v) /\ Base(v, n) \in Seq(E)
    BY BaseText DEF Root
  <2>4. Starts(v, n.chain, Full(y))
    BY <1>1, <2>2, <2>3, StartsTrans DEF OnwardTo
  <2>5. Starts(E, Base(v, n), Reads(v, y))
    <3>1. Starts(E, Base(v, n), Reads(v, x))
      BY <1>1 DEF OnwardTo
    <3> QED
      BY <2>2, <2>3, <3>1, StartsTrans
  <2> QED
    BY <2>4, <2>5 DEF OnwardTo
<1>3. \A y : Has(Q2, y) => OnwardTo(v, n, Full(y), Reads(v, y))
  <2>1. \A y : Has(Q2, y) => Has(Q, y) \/ Goes(v, x, y)
    BY DEF Moves, Comes, Stops, Goes2
  <2> QED
    BY <1>2, <2>1 DEF Onward
<1>4. ASSUME NEW s \in S2
      PROVE  s \in Seq(v) /\ s # <<>> /\ OnwardTo(v, n, s, Flat(s))
  <2>1. CASE s \in S
    BY <2>1 DEF Onward
  <2>2. CASE s \notin S
    <3>1. AtStart(x) /\ s = x.olabels /\ s # <<>>
      BY <1>4, <2>2 DEF Moves, Comes, Stops, Goes2
    <3>2. Full(x) = s /\ Reads(v, x) = Flat(s) /\ s \in Seq(v)
      BY <3>1, Arrived
    <3> QED
      BY <1>1, <3>1, <3>2
  <2> QED
    BY <2>1, <2>2
<1> QED
  BY <1>3, <1>4 DEF Onward

\* What moves stays sound.
LEMMA SoundOn ==
  ASSUME NEW v, GoodVocab(v), NEW x, NEW Q, NEW S, NEW Q2, NEW S2, Moves(v, x, Q, S, Q2, S2), SoundQ(v, Q)
  PROVE  SoundQ(v, Q2) /\ Sound(v, x)
<1>1. Sound(v, x)
  BY DEF Moves, SoundQ
<1>2. \A y : Goes(v, x, y) => Sound(v, y)
  BY <1>1, GoesLeads DEF Leads1
<1>3. \A y : Has(Q2, y) => Has(Q, y) \/ Goes(v, x, y)
  BY DEF Moves, Comes, Stops, Goes2
<1> QED
  BY <1>1, <1>2, <1>3 DEF SoundQ

\* Where nothing is pending, nothing is found.
Bare(v, Q, S) ==
  S = {} /\ \A y : Has(Q, y) => y.olabels = <<>> /\ y.chain = <<>> /\ Ahead(v, y) = <<>>

\* It stays so, whatever is visited.
LEMMA BareOn ==
  ASSUME NEW v, GoodVocab(v), NEW x, Sound(v, x),
         NEW Q, NEW S, NEW Q2, NEW S2, Moves(v, x, Q, S, Q2, S2), Bare(v, Q, S)
  PROVE  Bare(v, Q2, S2)
<1>1. Has(Q, x) /\ S = {} /\ x.olabels = <<>> /\ x.chain = <<>> /\ Ahead(v, x) = <<>>
  BY DEF Moves, Bare
<1>2. S2 = {}
  BY <1>1 DEF Moves, Comes, Stops, Goes2
<1>3. ASSUME NEW y, Goes(v, x, y)
      PROVE  y.olabels = <<>> /\ y.chain = <<>> /\ Ahead(v, y) = <<>>
  <2>1. ~Inner(v, x.state)
    <3> SUFFICES ASSUME Inner(v, x.state) PROVE FALSE
      OBVIOUS
    <3>1. Ahead(v, x) = x.state /\ x.state # <<>>
      BY <1>1, InnerFacts
    <3> QED
      BY <1>1, <3>1
  <2>2. y = Visited(x.olabels, <<>>, Start)
    BY <1>1, <1>3, <2>1 DEF Goes, OnChain, OffLeaf, OnPhi, OnChar
  <2>3. y.olabels = x.olabels /\ y.chain = <<>> /\ y.state = Start
    BY <2>2 DEF Visited
  <2>4. Ahead(v, y) = <<>>
    BY <2>3, StartFacts DEF Ahead, Pending, Rep, Start
  <2> QED
    BY <1>1, <2>3, <2>4
<1>4. \A y : Has(Q2, y) => Has(Q, y) \/ Goes(v, x, y)
  BY DEF Moves, Comes, Stops, Goes2
<1> QED
  BY <1>2, <1>3, <1>4 DEF Bare
-----------------------------------------------------------------------------
(* No sequence begins with another one *)

Strict(S, r, s) == Starts(S, r, s) /\ r # s

\* What a visit costs that comes to the start state with r.
Due(r) == Len(Flat(r)) + Len(r) + 1

Grown(v, r, Q, S) ==
  (\E z : Has(Q, z) /\ Strict(v, r, z.olabels)) \/ \E s \in S : Strict(v, r, s)
Late(v, r, Q, S) == r \notin S /\ \A y : Has(Q, y) => Due(r) < Cost(v, y)
Free(v, Q, S) == \A r \in Seq(v) : Grown(v, r, Q, S) => Late(v, r, Q, S)

\* Both begin a part that is one longer, or one is that part.
LEMMA StrictAppend ==
  ASSUME NEW S, NEW r \in Seq(S), NEW a \in Seq(S), NEW t \in S, Strict(S, r, Append(a, t))
  PROVE  r = a \/ Strict(S, r, a)
<1> DEFINE o == One(t)
<1>1. Append(a, t) = Cat(a, o) /\ o \in Seq(S)
  BY CatAlgebra
<1>2. Len(o) = 1
  BY DEF One
<1> HIDE DEF o
<1>3. PICK u \in Seq(S) : Cat(a, o) = Cat(r, u)
  BY <1>1 DEF Strict, Starts
<1>4. CASE Overlap(S, a, o, r, u)
  <2>1. PICK w \in Seq(S) : r = Cat(a, w) /\ o = Cat(w, u)
    BY <1>4 DEF Overlap
  <2>2. 1 = Len(w) + Len(u) /\ Len(w) \in Nat /\ Len(u) \in Nat
    BY <1>2, <2>1, CatLen
  <2>3. CASE Len(w) = 0
    <3>1. w = <<>>
      BY <2>3
    <3>2. r = a
      BY <2>1, <3>1, CatAlgebra
    <3> QED
      BY <3>2
  <2>4. CASE Len(u) = 0
    <3>1. u = <<>>
      BY <2>4
    <3>2. Cat(r, u) = r
      BY <3>1, CatAlgebra
    <3> QED
      BY <1>1, <1>3, <3>2 DEF Strict
  <2> QED
    BY <2>2, <2>3, <2>4
<1>5. CASE Overlap(S, r, u, a, o)
  <2>1. Starts(S, r, a)
    BY <1>5 DEF Overlap, Starts
  <2> QED
    BY <2>1 DEF Strict
<1>6. Overlap(S, a, o, r, u) \/ Overlap(S, r, u, a, o)
  BY <1>1, <1>3, Levi
<1> QED
  BY <1>4, <1>5, <1>6

\* Tokens have a text.
LEMMA TokensFlat ==
  ASSUME NEW v, GoodVocab(v), NEW a \in Seq(v), a # <<>>
  PROVE  Len(Flat(a)) \in Nat /\ Len(Flat(a)) > 0
<1> DEFINE E == ExtractCharacters(v)
           h == Head(a)
           t == Tail(a)
<1>1. h \in v /\ t \in Seq(v) /\ a = Cat(One(h), t)
  BY FirstAndRest
<1>2. h # <<>> /\ h \in Seq(E)
  BY <1>1, TokensAreTexts
<1> HIDE DEF h, t
<1>3. One(h) \in Seq(v) /\ Flat(One(h)) = h
  BY <1>1, FlatOn
<1> DEFINE o == One(h)
<1>4. o \in Seq(v) /\ Flat(o) = h /\ a = Cat(o, t)
  BY <1>1, <1>3
<1> HIDE DEF o
<1>5. Flat(Cat(o, t)) = Cat(Flat(o), Flat(t)) /\ Flat(t) \in Seq(E)
  BY <1>1, <1>4, FlatOnto
<1> DEFINE b == Flat(t)
<1>6. b \in Seq(E) /\ Flat(a) = Cat(h, b)
  BY <1>4, <1>5
<1> HIDE DEF b, E
<1>7. Len(Cat(h, b)) = Len(h) + Len(b) /\ Len(h) \in Nat /\ Len(b) \in Nat
  BY <1>2, <1>6, CatLen
<1>8. Len(h) > 0
  BY <1>2
<1> QED
  BY <1>6, <1>7, <1>8

\* What has been output was due before, unless the visit has just arrived.
LEMMA DueBefore ==
  ASSUME NEW v, GoodVocab(v), NEW x, Sound(v, x)
  PROVE  /\ AtStart(x) => Cost(v, x) = Due(x.olabels)
         /\ x.chain # <<>> \/ Inner(v, x.state) => Due(x.olabels) < Cost(v, x)
         /\ Due(x.olabels) \in Nat
<1> DEFINE E == ExtractCharacters(v)
           o == x.olabels
           c == x.chain
           a == Flat(o)
           d == Ahead(v, x)
           R == Reads(v, x)
<1>1. o \in Seq(v) /\ c \in Seq(v) /\ x.state \in Trie(v) /\ d \in Seq(E) /\ Len(R) \in Nat /\ Len(o) \in Nat
  BY VisitFacts
<1>2. a \in Seq(E) /\ Flat(c) \in Seq(E) /\ Flat(Full(x)) = Cat(a, Flat(c))
  BY <1>1, FlatOnto DEF Full
<1>3. Len(a) \in Nat
  BY <1>2
<1>4. Due(o) \in Nat /\ Due(o) = Len(a) + Len(o) + 1
  <2> HIDE DEF o
  <2>1. Due(o) = Len(a) + Len(o) + 1
    BY DEF Due
  <2> HIDE DEF a
  <2> QED
    BY <1>1, <1>3, <2>1
<1>5. Cost(v, x) = Len(R) + Len(o) + Turned(v, x)
  BY DEF Cost
<1>6. ASSUME AtStart(x) PROVE Cost(v, x) = Due(o)
  <2>1. R = a
    BY <1>6, Arrived
  <2>2. Turned(v, x) = 1
    BY <1>6, StartFacts DEF Turned, AtStart
  <2> HIDE DEF o, a, R
  <2> QED
    BY <1>4, <1>5, <2>1, <2>2
<1>7. ASSUME c # <<>> PROVE Due(o) < Cost(v, x)
  <2> DEFINE b == Flat(c)
             f == Cat(a, b)
  <2>1. Len(b) \in Nat /\ Len(b) > 0 /\ b \in Seq(E) /\ R = Cat(f, d)
    BY <1>1, <1>2, <1>7, TokensFlat DEF Reads
  <2>2. Turned(v, x) = 1
    BY <1>7 DEF Turned, Sound
  <2> HIDE DEF a, b, d, E, R, o
  <2>3. f \in Seq(E) /\ Len(f) = Len(a) + Len(b)
    BY <1>2, <2>1, CatLen
  <2> HIDE DEF f
  <2>4. Len(Cat(f, d)) = Len(f) + Len(d) /\ Len(d) \in Nat
    BY <1>1, <2>3, CatLen
  <2> QED
    BY <1>1, <1>3, <1>4, <1>5, <2>1, <2>2, <2>3, <2>4
<1>8. ASSUME c = <<>>, Inner(v, x.state) PROVE Due(o) < Cost(v, x)
  <2> DEFINE s == x.state
  <2>1. s \in Seq(E) /\ s # <<>> /\ R = Cat(a, s)
    BY <1>8, InnerFacts
  <2>2. Turned(v, x) = 1
    BY <1>8 DEF Turned, Inner
  <2>3. Len(s) \in Nat /\ Len(s) > 0
    BY <2>1
  <2> HIDE DEF a, E, R, o, s
  <2>4. Len(Cat(a, s)) = Len(a) + Len(s)
    BY <1>2, <2>1, CatLen
  <2> QED
    BY <1>1, <1>3, <1>4, <1>5, <2>1, <2>2, <2>3, <2>4
<1> QED
  BY <1>4, <1>6, <1>7, <1>8

\* Whatever was only a part of something longer is not found later.
LEMMA FreeOn ==
  ASSUME NEW v, GoodVocab(v), NEW x, NEW Q, NEW S, NEW Q2, NEW S2, Moves(v, x, Q, S, Q2, S2),
         SoundQ(v, Q), Free(v, Q, S), Cost(v, x) \in Nat,
         \A z : Has(Q, z) => Cost(v, z) \in Nat /\ Cost(v, x) <= Cost(v, z)
  PROVE  Free(v, Q2, S2)
<1> SUFFICES ASSUME NEW r \in Seq(v), Grown(v, r, Q2, S2) PROVE Late(v, r, Q2, S2)
  BY DEF Free
<1>1. Has(Q, x) /\ Sound(v, x)
  BY DEF Moves, SoundQ
<1> DEFINE o == x.olabels
<1>2. o \in Seq(v) /\ Due(o) \in Nat
  BY <1>1, VisitFacts, DueBefore
<1>3. CASE Comes(x, Q, S, Q2, S2)
  <2>1. \A z : Has(Q2, z) => Has(Q, z)
    BY <1>3 DEF Comes
  <2>2. Grown(v, r, Q, S)
    BY <1>1, <1>3, <2>1 DEF Comes, Grown
  <2>3. r \notin S /\ Due(r) < Cost(v, x) /\ \A y : Has(Q, y) => Due(r) < Cost(v, y)
    BY <1>1, <2>2 DEF Free, Late
  <2>4. r # o
    BY <1>1, <1>2, <1>3, <2>3, DueBefore DEF Comes
  <2>5. r \notin S2
    BY <1>3, <2>3, <2>4 DEF Comes
  <2> QED
    BY <2>1, <2>3, <2>5 DEF Late
<1>4. CASE Stops(x, Q, S, Q2, S2)
  <2>1. S2 = S /\ \A z : Has(Q2, z) => Has(Q, z)
    BY <1>4 DEF Stops
  <2>2. Grown(v, r, Q, S)
    BY <2>1 DEF Grown
  <2> QED
    BY <2>1, <2>2 DEF Free, Late
<1>5. CASE Goes2(v, x, Q, S, Q2, S2)
  <2>1. S2 = S /\ o \notin S /\ \A z : Has(Q2, z) => Has(Q, z) \/ Goes(v, x, z)
    BY <1>5 DEF Goes2
  <2>2. \A z : Goes(v, x, z) =>
          Cost(v, z) = Cost(v, x) + 1 /\ (z.olabels = o \/ \E t \in v : z.olabels = Append(o, t))
    BY <1>1, GoesLeads DEF Leads1
  <2>3. CASE Grown(v, r, Q, S)
    <3>1. r \notin S /\ \A y : Has(Q, y) => Due(r) < Cost(v, y)
      BY <2>3 DEF Free, Late
    <3>2. Due(r) < Cost(v, x)
      BY <1>1, <3>1
    <3>3. ASSUME NEW y, Has(Q2, y) PROVE Due(r) < Cost(v, y)
      <4>1. CASE Has(Q, y)
        BY <3>1, <4>1
      <4>2. CASE Goes(v, x, y)
        <5>1. Cost(v, y) = Cost(v, x) + 1
          BY <2>2, <4>2
        <5>2. Due(r) \in Nat \/ Due(r) \in Int
          <6>1. r \in Seq(Seq(ExtractCharacters(v)))
            BY TokensAreTexts
          <6>2. Len(Flat(r)) \in Nat /\ Len(r) \in Nat
            BY <6>1, FlatIsPart
          <6> QED
            BY <6>2 DEF Due
        <5> QED
          BY <3>2, <5>1, <5>2
      <4> QED
        BY <2>1, <3>3, <4>1, <4>2
    <3> QED
      BY <2>1, <3>1, <3>3 DEF Late
  <2>4. CASE ~Grown(v, r, Q, S)
    <3>1. PICK z : Has(Q2, z) /\ Strict(v, r, z.olabels)
      BY <2>1, <2>4 DEF Grown
    <3>2. Goes(v, x, z) /\ ~Strict(v, r, o)
      BY <1>1, <2>1, <2>4, <3>1 DEF Grown
    <3>3. PICK t \in v : z.olabels = Append(o, t)
      BY <2>2, <3>1, <3>2
    <3>4. r = o
      <4> HIDE DEF o
      <4> QED
        BY <1>2, <3>1, <3>2, <3>3, StrictAppend
    <3>5. ~OffLeaf(v, x, z)
      <4> SUFFICES ASSUME OffLeaf(v, x, z) PROVE FALSE
        OBVIOUS
      <4>1. z = Visited(o, <<>>, Start)
        BY DEF OffLeaf
      <4>2. z.olabels = o
        BY <4>1 DEF Visited
      <4> QED
        BY <3>1, <3>4, <4>2 DEF Strict
    <3>6. x.chain # <<>> \/ Inner(v, x.state)
      BY <3>2, <3>5 DEF Goes, OnChain, OnPhi, OnChar
    <3>7. Due(o) < Cost(v, x)
      BY <1>1, <3>6, DueBefore
    <3>8. ASSUME NEW y, Has(Q2, y) PROVE Due(o) < Cost(v, y)
      <4>1. Cost(v, y) \in Nat /\ Cost(v, x) <= Cost(v, y)
        BY <2>1, <2>2, <3>8
      <4> HIDE DEF o
      <4> QED
        BY <1>2, <3>7, <4>1
    <3> QED
      BY <2>1, <3>4, <3>8 DEF Late
  <2> QED
    BY <2>3, <2>4
<1> QED
  BY <1>3, <1>4, <1>5 DEF Moves
-----------------------------------------------------------------------------
(* However the text goes on, one path leads on *)

\* The tokens t may still come of a visit.
Onto(v, y, t) == \E r \in Seq(ExtractCharacters(v)) : t = Cat(Full(y), LPM(v, Cat(Ahead(v, y), r)))
Covers(v, t, Q, S) == (\E s \in S : Starts(v, s, t)) \/ \E y : Has(Q, y) /\ Onto(v, y, t)

\* Some arc goes on to them.
LEMMA OntoOn ==
  ASSUME NEW v, GoodVocab(v), NEW x, Sound(v, x), ~AtStart(x), NEW t, Onto(v, x, t)
  PROVE  \E y : Goes(v, x, y) /\ Onto(v, y, t)
<1> DEFINE E == ExtractCharacters(v)
           T == Seq(E)
           s == x.state
           tr == Trie(v)
           o == x.olabels
<1>1. PICK r \in T : t = Cat(Full(x), LPM(v, Cat(Ahead(v, x), r)))
  BY DEF Onto
<1>2. o \in Seq(v) /\ s \in tr /\ s \in T
  BY VisitFacts
<1>3. ASSUME NEW y, Goes(v, x, y), Stays(v, x, y)
      PROVE  \E z : Goes(v, x, z) /\ Onto(v, z, t)
  <2>1. t = Cat(Full(y), LPM(v, Cat(Ahead(v, y), r)))
    BY <1>1, <1>3 DEF Stays
  <2>2. Onto(v, y, t)
    BY <2>1 DEF Onto
  <2> QED
    BY <1>3, <2>2
<1>4. CASE x.chain # <<>>
  <2> DEFINE y == Visited(Append(x.olabels, Head(x.chain)), Tail(x.chain), x.state)
  <2>1. OnChain(v, x, y)
    BY <1>4 DEF OnChain
  <2> HIDE DEF y
  <2>2. Goes(v, x, y) /\ Leads1(v, x, y)
    BY <2>1, OnChainLeads DEF Goes
  <2>3. Stays(v, x, y)
    BY <1>4, <2>2 DEF Leads1, Turns, Grows, Ends
  <2> QED
    BY <1>3, <2>2, <2>3
<1>5. CASE x.chain = <<>> /\ Leaf(tr, s)
  <2> DEFINE y == Visited(x.olabels, <<>>, Start)
  <2>1. OffLeaf(v, x, y)
    BY <1>5 DEF OffLeaf
  <2> HIDE DEF y
  <2>2. Goes(v, x, y) /\ Leads1(v, x, y)
    BY <2>1, OffLeafLeads DEF Goes
  <2>3. Stays(v, x, y)
    BY <1>5, <2>2 DEF Leads1, Turns, Grows, Ends, Inner
  <2> QED
    BY <1>3, <2>2, <2>3
<1>6. CASE x.chain = <<>> /\ ~Leaf(tr, s)
  <2>1. Inner(v, s)
    BY <1>2, <1>6 DEF Inner, AtStart
  <2>2. Full(x) = o /\ Ahead(v, x) = s
    BY <1>6, <2>1, InnerFacts
  <2>3. t = Cat(o, LPM(v, Cat(s, r)))
    BY <1>1, <2>2
  <2>4. ASSUME ~Longer(v, s, r)
        PROVE  \E z : Goes(v, x, z) /\ Onto(v, z, t)
    <3> DEFINE p == PhiOf(v)[s]
               y == Visited(Append(x.olabels, Head(p.out)), Tail(p.out), p.to)
    <3>1. OnPhi(v, x, y, p)
      BY <1>6, <2>1 DEF OnPhi
    <3>2. Backs(v, s, p)
      BY <2>1, PhiBacks
    <3>3. y.olabels = Append(o, Head(p.out)) /\ y.chain = Tail(p.out) /\ y.state = p.to
      BY DEF Visited
    <3> HIDE DEF y
    <3>4. Goes(v, x, y)
      BY <3>1 DEF Goes
    <3>5. p.out \in Seq(v) /\ p.out # <<>> /\ p.to \in tr /\ ~Leaf(tr, p.to) /\ Continues(E, v, s, s, p)
      BY <3>2 DEF Backs
    <3> DEFINE c == p.out
               to == p.to
               m == LPM(v, Cat(to, r))
    <3>6. LPM(v, Cat(s, r)) = Cat(c, m)
      BY <2>4, <3>5 DEF Continues
    <3>7. to \in T
      BY <3>5, TrieFacts
    <3>8. Full(y) = Cat(o, c) /\ Ahead(v, y) = to
      <4>1. Full(y) = Cat(Append(o, Head(c)), Tail(c))
        BY <3>3 DEF Full
      <4>2. c \in Seq(v) /\ c # <<>>
        BY <3>5
      <4>3. Ahead(v, y) = to
        BY <3>3, <3>5 DEF Ahead, Pending, Rep
      <4> HIDE DEF c, o
      <4>4. Cat(Append(o, Head(c)), Tail(c)) = Cat(o, c)
        BY <1>2, <4>2, Shift
      <4> QED
        BY <4>1, <4>3, <4>4
    <3>9. m \in Seq(v)
      <4> HIDE DEF to
      <4>1. Cat(to, r) \in T
        BY <3>7, CatAlgebra
      <4> QED
        BY <4>1, LPMKnown
    <3>10. c \in Seq(v)
      BY <3>5
    <3>11. t = Cat(Full(y), LPM(v, Cat(Ahead(v, y), r)))
      <4>1. t = Cat(o, Cat(c, m))
        BY <2>3, <3>6
      <4>2. Cat(Cat(o, c), m) = Cat(o, Cat(c, m))
        <5> HIDE DEF o, c, m
        <5> QED
          BY <1>2, <3>9, <3>10, CatAlgebra
      <4> QED
        BY <3>8, <4>1, <4>2
    <3>12. Onto(v, y, t)
      BY <3>11 DEF Onto
    <3> QED
      BY <3>4, <3>12
  <2>5. ASSUME NEW c \in E, NEW more \in T, r = Cat(One(c), more), Find(tr, s, c)
        PROVE  \E z : Goes(v, x, z) /\ Onto(v, z, t)
    <3> DEFINE there == Append(s, c)
               y == Visited(IF Leaf(tr, there) THEN Append(o, there) ELSE o, <<>>, there)
               p == Arc(tr, there)
    <3>1. OnChar(v, x, y, there)
      BY <1>6, <2>1, <2>5 DEF OnChar, Find
    <3>2. y.olabels = (IF Leaf(tr, there) THEN Append(o, there) ELSE o) /\ y.chain = <<>> /\ y.state = there
      BY DEF Visited
    <3>3. Moved(E, v, s, Len(s), c, p)
      BY <1>2, <2>5, ArcRight
    <3> HIDE DEF y
    <3>4. Goes(v, x, y)
      BY <3>1 DEF Goes
    <3>5. Sound(v, y)
      BY <3>4, GoesLeads DEF Leads1
    <3>6. Full(y) = Cat(o, p.out) /\ Ahead(v, y) = p.to
      <4>1. y.olabels \in Seq(v)
        BY <3>5, VisitFacts
      <4>2. Full(y) = y.olabels
        BY <3>2, <4>1, CatAlgebra DEF Full
      <4>3. CASE Leaf(tr, there)
        <5>1. p.out = One(there) /\ p.to = Start /\ Ahead(v, y) = Start
          BY <3>2, <4>3 DEF Arc, One, Ahead, Pending, Rep
        <5>2. there \in v
          BY <2>5, <4>3, LeafFacts DEF Find
        <5>3. Append(o, there) = Cat(o, One(there))
          <6> HIDE DEF o, there
          <6> QED
            BY <1>2, <5>2, CatAlgebra
        <5> QED
          BY <3>2, <4>2, <4>3, <5>1, <5>3
      <4>4. CASE ~Leaf(tr, there)
        <5>1. p.out = <<>> /\ p.to = there /\ Ahead(v, y) = there
          BY <3>2, <4>4 DEF Arc, Ahead, Pending, Rep
        <5>2. Cat(o, <<>>) = o
          <6> HIDE DEF o
          <6> QED
            BY <1>2, CatAlgebra
        <5> QED
          BY <3>2, <4>2, <4>4, <5>1, <5>2
      <4> QED
        BY <4>3, <4>4
    <3> DEFINE q == p.out
               to == p.to
               m == LPM(v, Cat(to, more))
    <3>7. LPM(v, Cat(s, r)) = Cat(q, m)
      BY <2>5, <3>3 DEF Moved, Leads
    <3>8. q \in Seq(v) /\ to \in T
      BY <1>2, <2>5, <3>3, MovedText
    <3>9. m \in Seq(v)
      <4> HIDE DEF to
      <4>1. Cat(to, more) \in T
        BY <3>8, CatAlgebra
      <4> QED
        BY <4>1, LPMKnown
    <3>10. t = Cat(Full(y), LPM(v, Cat(Ahead(v, y), more)))
      <4>1. t = Cat(o, Cat(q, m))
        BY <2>3, <3>7
      <4>2. Cat(Cat(o, q), m) = Cat(o, Cat(q, m))
        <5> HIDE DEF o, q, m
        <5> QED
          BY <1>2, <3>8, <3>9, CatAlgebra
      <4> QED
        BY <3>6, <4>1, <4>2
    <3>11. Onto(v, y, t)
      BY <3>10 DEF Onto
    <3> QED
      BY <3>4, <3>11
  <2>6. CASE r = <<>>
    <3>1. ~Longer(v, s, r)
      BY <1>2, <2>6, QuietAtEnd
    <3> QED
      BY <2>4, <3>1
  <2>7. CASE r # <<>>
    <3> DEFINE c == Head(r)
               more == Tail(r)
    <3>1. c \in E /\ more \in T /\ r = Cat(One(c), more)
      BY <2>7, FirstAndRest
    <3> HIDE DEF c, more
    <3>2. CASE Find(tr, s, c)
      BY <2>5, <3>1, <3>2
    <3>3. CASE ~Find(tr, s, c)
      <4>1. ~Longer(v, s, r)
        BY <1>2, <3>1, <3>3, NoArc
      <4> QED
        BY <2>4, <4>1
    <3> QED
      BY <3>2, <3>3
  <2> QED
    BY <2>6, <2>7
<1> QED
  BY <1>4, <1>5, <1>6

\* So it stays, where something is pending.
LEMMA CoversOn ==
  ASSUME NEW v, GoodVocab(v), NEW n, Root(v, n), Base(v, n) # <<>>, NEW x, NEW Q, NEW S, NEW Q2, NEW S2,
         Moves(v, x, Q, S, Q2, S2), SoundQ(v, Q), Onward(v, n, Q, S),
         NEW t \in Seq(v), Covers(v, t, Q, S)
  PROVE  Covers(v, t, Q2, S2)
<1>1. Has(Q, x) /\ Sound(v, x) /\ (\A z : Has(Q, z) => z = x \/ Has(Q2, z))
  BY DEF Moves, SoundQ
<1>2. S \subseteq S2
  BY DEF Moves, Comes, Stops, Goes2
<1>3. CASE \E s \in S : Starts(v, s, t)
  BY <1>2, <1>3 DEF Covers
<1>4. CASE \E y : Has(Q, y) /\ y # x /\ Onto(v, y, t)
  BY <1>1, <1>4 DEF Covers
<1>5. CASE Onto(v, x, t)
  <2>1. x.olabels \in Seq(v) /\ x.chain \in Seq(v) /\ Ahead(v, x) \in Seq(ExtractCharacters(v))
    BY <1>1, VisitFacts
  <2>2. Starts(v, x.olabels, t)
    <3>1. PICK r \in Seq(ExtractCharacters(v)) : t = Cat(Full(x), LPM(v, Cat(Ahead(v, x), r)))
      BY <1>5 DEF Onto
    <3> DEFINE o == x.olabels
               c == x.chain
               d == Cat(Ahead(v, x), r)
               m == LPM(v, d)
    <3>2. d \in Seq(ExtractCharacters(v))
      BY <2>1, CatAlgebra
    <3> HIDE DEF d
    <3>3. m \in Seq(v)
      BY <3>2, LPMKnown
    <3>4. t = Cat(Cat(o, c), m)
      BY <3>1 DEF Full, d
    <3>5. o \in Seq(v) /\ c \in Seq(v)
      BY <2>1
    <3> HIDE DEF o, c, m
    <3>6. t = Cat(o, Cat(c, m)) /\ Cat(c, m) \in Seq(v)
      BY <3>3, <3>4, <3>5, CatAlgebra
    <3> QED
      BY <3>6 DEF Starts, o
  <2>3. CASE Comes(x, Q, S, Q2, S2)
    <3>1. x.olabels # <<>>
      <4> SUFFICES ASSUME x.olabels = <<>> PROVE FALSE
        OBVIOUS
      <4>1. Reads(v, x) = Flat(x.olabels)
        BY <1>1, <2>3, Arrived DEF Comes
      <4>2. Reads(v, x) = <<>>
        BY <4>1, FlatSmall
      <4>3. PICK u \in Seq(ExtractCharacters(v)) : <<>> = Cat(Base(v, n), u)
        BY <1>1, <4>2 DEF Onward, OnwardTo, Starts
      <4>4. Base(v, n) \in Seq(ExtractCharacters(v))
        BY BaseText
      <4> DEFINE b == Base(v, n)
                 e == <<>>
      <4>5. b # e /\ b \in Seq(ExtractCharacters(v)) /\ e = Cat(b, u) /\ Len(e) = 0
        BY <4>3, <4>4
      <4> HIDE DEF b, e
      <4>6. Len(Cat(b, u)) = Len(b) + Len(u) /\ Len(b) \in Nat /\ Len(u) \in Nat
        BY <4>5, CatLen
      <4>7. Len(b) = 0
        <5>1. Len(Cat(b, u)) = 0
          BY <4>5
        <5>2. \A i, j \in Nat : i + j = 0 => i = 0
          OBVIOUS
        <5>3. Len(b) \in Nat /\ Len(u) \in Nat /\ Len(b) + Len(u) = 0
          BY <4>6, <5>1
        <5> QED
          BY <5>2, <5>3
      <4>8. b = <<>>
        BY <4>5, <4>7
      <4> QED
        BY <4>5, <4>8 DEF e
    <3>2. x.olabels \in S2
      BY <2>3, <3>1 DEF Comes
    <3> QED
      BY <2>2, <3>2 DEF Covers
  <2>4. CASE Stops(x, Q, S, Q2, S2)
    BY <2>2, <2>4 DEF Stops, Covers
  <2>5. CASE Goes2(v, x, Q, S, Q2, S2)
    <3>1. PICK y : Goes(v, x, y) /\ Onto(v, y, t)
      BY <1>1, <1>5, <2>5, OntoOn DEF Goes2
    <3>2. Has(Q2, y)
      BY <2>5, <3>1 DEF Goes2
    <3> QED
      BY <3>1, <3>2 DEF Covers
  <2> QED
    BY <2>3, <2>4, <2>5 DEF Moves
<1> QED
  BY <1>3, <1>4, <1>5 DEF Covers
-----------------------------------------------------------------------------
(* Where a longer token may be met, some path reads it *)

\* One of two texts begins with the other.
Touch(C, w, t) == Starts(C, w, t) \/ Starts(C, t, w)

\* After the tokens p a path is about to read w, or has, or p and w were found.
Reading(v, p, w, y) ==
  y.chain = <<>> /\ y.olabels = p /\ Inner(v, y.state) /\ Starts(ExtractCharacters(v), y.state, w)
HasRead(v, p, w, y) == y.chain = <<>> /\ y.olabels = Cat(p, One(w)) /\ ~Inner(v, y.state)
Tracked(v, p, w, Q, S) ==
  \/ \E r \in S : Starts(v, r, Cat(p, One(w)))
  \/ \E y : Has(Q, y) /\ (Reading(v, p, w, y) \/ HasRead(v, p, w, y))

\* It does, for every token t of f, the text d being pending, and every longer
\* token w that the text may begin with.
Longest(v, t, z, d, w) ==
  t # w /\ Starts(ExtractCharacters(v), t, w) /\ Touch(ExtractCharacters(v), w, Cat(t, Cat(Flat(z), d)))
GuidedBy(v, n, f, d, Q, S) ==
  \A q, z \in Seq(v) : \A t, w \in v :
    f = Cat(n.chain, Around(q, t, z)) /\ Longest(v, t, z, d, w) => Tracked(v, Cat(n.chain, q), w, Q, S)
Guided(v, n, Q, S) ==
  /\ \A y : Has(Q, y) => GuidedBy(v, n, Full(y), Ahead(v, y), Q, S)
  /\ \A s \in S : GuidedBy(v, n, s, Start, Q, S)

\* A leaf begins no token but itself.
LEMMA LeafEnds ==
  ASSUME NEW v, GoodVocab(v), NEW s \in Trie(v), NEW w \in Trie(v), Leaf(Trie(v), s),
         Starts(ExtractCharacters(v), s, w)
  PROVE  s = w
<1>1. s \in Seq(ExtractCharacters(v)) /\ w \in Seq(ExtractCharacters(v))
  BY TrieFacts
<1>2. IsPrefix(s, w)
  BY <1>1, StartsIsPrefix
<1>3. ~IsStrictPrefix(s, w)
  BY DEF Leaf
<1> QED
  BY <1>2, <1>3 DEF IsStrictPrefix

\* A path that is about to read the token is a step further.
LEMMA ReadingOn ==
  ASSUME NEW v, GoodVocab(v), NEW x, Sound(v, x), NEW p \in Seq(v), NEW w \in v, Reading(v, p, w, x)
  PROVE  \E y : Goes(v, x, y) /\ (Reading(v, p, w, y) \/ HasRead(v, p, w, y))
<1> DEFINE E == ExtractCharacters(v)
           T == Seq(E)
           s == x.state
           tr == Trie(v)
<1>1. x.chain = <<>> /\ x.olabels = p /\ Inner(v, s) /\ s \in tr /\ s # Start /\ ~Leaf(tr, s)
  BY DEF Reading, Inner
<1>2. w \in T /\ w \in tr /\ s \in T
  BY <1>1, TrieFacts, TokensAreTexts
<1>3. PICK u \in T : w = Cat(s, u)
  BY DEF Reading, Starts
<1>4. CASE u = <<>>
  <2> DEFINE f == PhiOf(v)[s]
             y == Visited(Append(x.olabels, Head(f.out)), Tail(f.out), f.to)
  <2>1. OnPhi(v, x, y, f)
    BY <1>1 DEF OnPhi
  <2>2. y.olabels = Append(p, Head(f.out)) /\ y.chain = Tail(f.out) /\ y.state = f.to
    BY <1>1 DEF Visited
  <2> HIDE DEF y
  <2>3. Goes(v, x, y)
    BY <2>1 DEF Goes
  <2>4. w = s
    <3> HIDE DEF s, E
    <3> QED
      BY <1>2, <1>3, <1>4, CatAlgebra
  <2>5. f.out = One(w) /\ f.to = Start
    BY <1>1, <2>4, PhiBacks DEF Backs
  <2>6. Head(One(w)) = w /\ Tail(One(w)) = <<>>
    BY DEF One
  <2>7. Append(p, w) = Cat(p, One(w))
    BY CatAlgebra
  <2>8. HasRead(v, p, w, y)
    BY <2>2, <2>5, <2>6, <2>7 DEF HasRead, Inner
  <2> QED
    BY <2>3, <2>8
<1>5. CASE u # <<>>
  <2> DEFINE c == Head(u)
             more == Tail(u)
             there == Append(s, c)
  <2>1. c \in E /\ more \in T /\ u = Cat(One(c), more)
    BY <1>5, FirstAndRest
  <2> HIDE DEF c, more
  <2>2. One(c) \in T /\ there = Cat(s, One(c)) /\ there \in T
    <3> HIDE DEF s, E
    <3> QED
      BY <1>2, <2>1, CatAlgebra DEF E
  <2>3. w = Cat(there, more)
    <3> DEFINE k == One(c)
    <3>1. k \in T /\ there = Cat(s, k) /\ w = Cat(s, Cat(k, more))
      BY <1>3, <2>1, <2>2
    <3> HIDE DEF s, E, k, there
    <3> QED
      BY <1>2, <2>1, <3>1, CatAlgebra
  <2>4. there \in tr
    <3> HIDE DEF there
    <3> QED
      BY <1>2, <2>1, <2>2, <2>3, TrieBefore
  <2>5. Starts(E, there, w)
    BY <2>1, <2>3 DEF Starts
  <2>6. there # <<>>
    <3> HIDE DEF s, E
    <3>1. Len(Append(s, c)) = Len(s) + 1 /\ Len(s) \in Nat
      BY <1>2, <2>1, AppendProperties DEF E
    <3> HIDE DEF there
    <3>2. Len(there) # 0
      BY <3>1 DEF there
    <3> QED
      BY <3>2
  <2> DEFINE y == Visited(IF Leaf(tr, there) THEN Append(x.olabels, there) ELSE x.olabels, <<>>, there)
  <2>7. OnChar(v, x, y, there)
    BY <1>1, <2>4 DEF OnChar
  <2>8. y.olabels = (IF Leaf(tr, there) THEN Append(p, there) ELSE p) /\ y.chain = <<>> /\ y.state = there
    BY <1>1 DEF Visited
  <2> HIDE DEF y
  <2>9. Goes(v, x, y)
    BY <2>1, <2>7 DEF Goes
  <2>10. CASE Leaf(tr, there)
    <3>1. there = w
      BY <1>2, <2>4, <2>5, <2>10, LeafEnds
    <3>2. Append(p, w) = Cat(p, One(w))
      BY CatAlgebra
    <3>3. HasRead(v, p, w, y)
      BY <2>8, <2>10, <3>1, <3>2 DEF HasRead, Inner
    <3> QED
      BY <2>9, <3>3
  <2>11. CASE ~Leaf(tr, there)
    <3>1. Reading(v, p, w, y)
      BY <2>4, <2>5, <2>6, <2>8, <2>11 DEF Reading, Inner, Start
    <3> QED
      BY <2>9, <3>1
  <2> QED
    BY <2>10, <2>11
<1> QED
  BY <1>4, <1>5

\* That stays so when the search goes on.
LEMMA TrackedOn ==
  ASSUME NEW v, GoodVocab(v), NEW x, NEW Q, NEW S, NEW Q2, NEW S2, Moves(v, x, Q, S, Q2, S2), Sound(v, x),
         NEW p \in Seq(v), NEW w \in v, Tracked(v, p, w, Q, S)
  PROVE  Tracked(v, p, w, Q2, S2)
<1> DEFINE f == Cat(p, One(w))
<1>1. S \subseteq S2 /\ \A z : Has(Q, z) => z = x \/ Has(Q2, z)
  BY DEF Moves, Comes, Stops, Goes2
<1>2. f \in Seq(v) /\ Starts(v, f, f) /\ Starts(v, p, f) /\ f # <<>>
  <2> DEFINE o == One(w)
  <2>1. o \in Seq(v) /\ Len(o) = 1
    BY CatAlgebra DEF One
  <2> HIDE DEF o
  <2>2. Cat(p, o) \in Seq(v) /\ Len(Cat(p, o)) = Len(p) + Len(o) /\ Len(p) \in Nat
    BY <2>1, CatLen
  <2>3. Cat(p, o) # <<>>
    BY <2>1, <2>2
  <2>4. Starts(v, Cat(p, o), Cat(p, o)) /\ Starts(v, p, Cat(p, o))
    BY <2>1, <2>2, StartsSelf
  <2> QED
    BY <2>2, <2>3, <2>4 DEF o
<1>3. CASE \E r \in S : Starts(v, r, f)
  BY <1>1, <1>3 DEF Tracked
<1>4. CASE \E y : y # x /\ Has(Q, y) /\ (Reading(v, p, w, y) \/ HasRead(v, p, w, y))
  BY <1>1, <1>4 DEF Tracked
<1>5. CASE Reading(v, p, w, x)
  <2>1. x.olabels = p /\ ~AtStart(x)
    BY <1>5 DEF Reading, AtStart, Inner
  <2>2. CASE Stops(x, Q, S, Q2, S2)
    <3>1. p \in S2
      BY <2>1, <2>2 DEF Stops
    <3> QED
      BY <1>2, <3>1 DEF Tracked
  <2>3. CASE Goes2(v, x, Q, S, Q2, S2)
    BY <1>5, <2>3, ReadingOn DEF Goes2, Tracked
  <2> QED
    BY <2>1, <2>2, <2>3 DEF Moves, Comes
<1>6. CASE HasRead(v, p, w, x)
  <2>1. x.olabels = f /\ x.chain = <<>> /\ ~Inner(v, x.state)
    BY <1>6 DEF HasRead
  <2>2. CASE Comes(x, Q, S, Q2, S2)
    <3>1. f \in S2
      BY <1>2, <2>1, <2>2 DEF Comes
    <3> QED
      BY <1>2, <3>1 DEF Tracked
  <2>3. CASE Stops(x, Q, S, Q2, S2)
    <3>1. f \in S2
      BY <2>1, <2>3 DEF Stops
    <3> QED
      BY <1>2, <3>1 DEF Tracked
  <2>4. CASE Goes2(v, x, Q, S, Q2, S2)
    <3> DEFINE y == Visited(x.olabels, <<>>, Start)
    <3>1. x.state \in Trie(v)
      BY VisitFacts
    <3>2. Leaf(Trie(v), x.state)
      BY <2>1, <2>4, <3>1 DEF Goes2, AtStart, Inner
    <3>3. OffLeaf(v, x, y)
      BY <2>1, <3>2 DEF OffLeaf
    <3>4. y.olabels = f /\ y.chain = <<>> /\ y.state = Start
      BY <2>1 DEF Visited
    <3> HIDE DEF y
    <3>5. Has(Q2, y)
      BY <2>4, <3>3 DEF Goes2, Goes
    <3>6. HasRead(v, p, w, y)
      BY <3>4 DEF HasRead, Inner
    <3> QED
      BY <3>5, <3>6 DEF Tracked
  <2> QED
    BY <2>2, <2>3, <2>4 DEF Moves
<1> QED
  BY <1>3, <1>4, <1>5, <1>6 DEF Tracked

\* Of a text that touches another one every beginning does.
LEMMA TouchLess ==
  ASSUME NEW C, NEW w \in Seq(C), NEW m \in Seq(C), NEW k \in Seq(C), Touch(C, w, Cat(m, k))
  PROVE  Touch(C, w, m)
<1>1. CASE Starts(C, w, Cat(m, k))
  <2>1. PICK u \in Seq(C) : Cat(m, k) = Cat(w, u)
    BY <1>1 DEF Starts
  <2>2. Overlap(C, m, k, w, u) \/ Overlap(C, w, u, m, k)
    BY <2>1, Levi
  <2> QED
    BY <2>2 DEF Overlap, Touch, Starts
<1>2. CASE Starts(C, Cat(m, k), w)
  <2>1. Starts(C, m, Cat(m, k))
    BY StartsSelf
  <2>2. Starts(C, m, w)
    <3> DEFINE f == Cat(m, k)
    <3>1. Starts(C, m, f) /\ Starts(C, f, w)
      BY <1>2, <2>1
    <3> HIDE DEF f
    <3> QED
      BY <3>1, StartsTrans
  <2> QED
    BY <2>2 DEF Touch
<1> QED
  BY <1>1, <1>2 DEF Touch

\* Three texts and a last part.
LEMMA CatFour ==
  ASSUME NEW C, NEW a \in Seq(C), NEW b \in Seq(C), NEW c \in Seq(C), NEW d \in Seq(C)
  PROVE  /\ Cat(a, Cat(b, Cat(c, d))) = Cat(Cat(a, Cat(b, c)), d)
         /\ Cat(a, Cat(Cat(b, c), d)) = Cat(a, Cat(b, Cat(c, d)))
         /\ Cat(a, Cat(b, c)) \in Seq(C)
<1>1. Cat(b, c) \in Seq(C)
  BY CatAlgebra
<1>2. Cat(Cat(b, c), d) = Cat(b, Cat(c, d))
  BY CatAlgebra
<1> DEFINE e == Cat(b, c)
<1>3. e \in Seq(C)
  BY <1>1
<1> HIDE DEF e
<1>4. Cat(a, Cat(e, d)) = Cat(Cat(a, e), d) /\ Cat(a, e) \in Seq(C)
  BY <1>3, CatAlgebra
<1> QED
  BY <1>2, <1>4 DEF e

\* A character is read.
LEMMA GrowsGuided ==
  ASSUME NEW v, GoodVocab(v), NEW n, NEW x, NEW Q, NEW S, Sound(v, x),
         GuidedBy(v, n, Full(x), Ahead(v, x), Q, S),
         NEW c \in ExtractCharacters(v), NEW y, Grows(v, x, y, Append(x.state, c))
  PROVE  GuidedBy(v, n, Full(y), Ahead(v, y), Q, S)
<1> DEFINE E == ExtractCharacters(v)
           T == Seq(E)
           s == x.state
           k == One(c)
<1>1. Full(x) = x.olabels /\ Full(y) = x.olabels /\ Ahead(v, x) = s /\ Ahead(v, y) = Append(s, c) /\ s \in T
  BY InnerFacts DEF Grows
<1>2. k \in T /\ Append(s, c) = Cat(s, k)
  <2> HIDE DEF s, E
  <2> QED
    BY <1>1, CatAlgebra DEF E
<1> SUFFICES ASSUME NEW q \in Seq(v), NEW z \in Seq(v), NEW t \in v, NEW w \in v,
                    Full(y) = Cat(n.chain, Around(q, t, z)), Longest(v, t, z, Ahead(v, y), w)
             PROVE  Tracked(v, Cat(n.chain, q), w, Q, S)
  BY DEF GuidedBy
<1> DEFINE f == Flat(z)
           m == Cat(t, Cat(f, s))
<1>3. t \in T /\ w \in T /\ f \in T
  <2>1. z \in Seq(T)
    BY TokensAreTexts
  <2> QED
    BY <2>1, TokensAreTexts, FlatIsPart
<1>4. Touch(E, w, Cat(t, Cat(f, Cat(s, k))))
  BY <1>1, <1>2 DEF Longest
<1> HIDE DEF s, E, k, f
<1>5. Cat(t, Cat(f, Cat(s, k))) = Cat(m, k) /\ m \in T
  <2>1. t \in T /\ f \in T /\ s \in T /\ k \in T
    BY <1>1, <1>2, <1>3
  <2> QED
    BY <2>1, CatFour
<1> HIDE DEF m
<1>6. Touch(E, w, m)
  BY <1>2, <1>3, <1>4, <1>5, TouchLess
<1>7. Longest(v, t, z, s, w)
  BY <1>6 DEF Longest, E, m, f
<1>8. GuidedBy(v, n, Full(x), s, Q, S)
  BY <1>1
<1> QED
  BY <1>1, <1>7, <1>8 DEF GuidedBy

\* A leaf is reached, and its token output.
LEMMA EndsGuided ==
  ASSUME NEW v, GoodVocab(v), NEW n, n.chain \in Seq(v), NEW x, NEW Q, NEW S, Sound(v, x),
         GuidedBy(v, n, Full(x), Ahead(v, x), Q, S), Starts(v, n.chain, Full(x)),
         NEW c \in ExtractCharacters(v), NEW y, Ends(v, x, y, Append(x.state, c))
  PROVE  GuidedBy(v, n, Full(y), Ahead(v, y), Q, S)
<1> DEFINE E == ExtractCharacters(v)
           T == Seq(E)
           s == x.state
           k == One(c)
           there == Append(s, c)
           h == n.chain
<1>1. /\ Full(x) = x.olabels /\ Full(y) = Cat(x.olabels, One(there)) /\ Ahead(v, x) = s /\ Ahead(v, y) = Start
      /\ s \in T /\ there \in v /\ Leaf(Trie(v), there)
  BY InnerFacts DEF Ends
<1>2. k \in T /\ there = Cat(s, k)
  <2> HIDE DEF s, E
  <2> QED
    BY <1>1, CatAlgebra DEF E
<1>3. PICK a \in Seq(v) : Full(x) = Cat(h, a)
  BY DEF Starts
<1> SUFFICES ASSUME NEW q \in Seq(v), NEW z \in Seq(v), NEW t \in v, NEW w \in v,
                    Full(y) = Cat(h, Around(q, t, z)), Longest(v, t, z, Ahead(v, y), w)
             PROVE  Tracked(v, Cat(h, q), w, Q, S)
  BY DEF GuidedBy
<1> DEFINE l == One(there)
<1>4. l \in Seq(v) /\ there \in T /\ t \in T /\ w \in T /\ w \in Trie(v) /\ t \in Trie(v)
  <2>1. there \in v
    BY <1>1
  <2> HIDE DEF there
  <2>2. l \in Seq(v)
    BY <2>1, CatAlgebra
  <2> QED
    BY <2>1, <2>2, TokensAreTexts, TrieFacts
<1>5. Cat(a, l) = Around(q, t, z)
  <2> DEFINE r == Around(q, t, z)
             u == Cat(a, l)
  <2>1. r \in Seq(v)
    BY AroundSome
  <2>2. Cat(Cat(h, a), l) = Cat(h, r)
    BY <1>1, <1>3
  <2> HIDE DEF r, l, h, there
  <2>3. Cat(Cat(h, a), l) = Cat(h, u) /\ u \in Seq(v)
    <3>1. h \in Seq(v) /\ a \in Seq(v) /\ l \in Seq(v)
      BY <1>4 DEF h, l
    <3>2. Cat(Cat(h, a), l) = Cat(h, Cat(a, l))
      BY <3>1, CatAlgebra
    <3>3. Cat(a, l) \in Seq(v)
      BY <3>1, CatAlgebra
    <3> QED
      BY <3>2, <3>3
  <2> HIDE DEF u
  <2>4. Cat(h, u) = Cat(h, r) /\ h \in Seq(v)
    BY <2>2, <2>3 DEF h
  <2>5. u = r
    BY <2>1, <2>3, <2>4, Cancel
  <2> QED
    BY <2>5 DEF u, r
<1> HIDE DEF l
<1>6. InFirst(v, a, l, q, t, z) \/ InSecond(v, a, l, q, t, z)
  BY <1>4, <1>5, AroundCat
<1>7. CASE InFirst(v, a, l, q, t, z)
  <2>1. PICK b \in Seq(v) : a = Around(q, t, b) /\ z = Cat(b, l)
    BY <1>7 DEF InFirst
  <2> DEFINE f == Flat(b)
             m == Cat(t, Cat(f, s))
  <2>2. Flat(z) = Cat(f, there) /\ f \in T
    <3>1. there \in v
      BY <1>1
    <3> HIDE DEF there
    <3> QED
      BY <2>1, <3>1, FlatOn DEF l
  <2>3. Touch(E, w, Cat(t, Cat(Flat(z), <<>>)))
    BY <1>1 DEF Longest, Start
  <2> DEFINE g == Flat(z)
  <2>4. g = Cat(f, Cat(s, k)) /\ g \in T /\ Touch(E, w, Cat(t, g))
    <3>1. g = Cat(f, there)
      BY <2>2
    <3>2. g \in T
      <4> HIDE DEF there, f, E
      <4>1. Cat(f, there) \in T
        BY <1>4, <2>2, CatAlgebra
      <4> QED
        BY <3>1, <4>1
    <3> HIDE DEF g
    <3>3. Cat(g, <<>>) = g
      BY <3>2, CatAlgebra
    <3> QED
      BY <1>2, <2>3, <3>1, <3>2, <3>3 DEF g
  <2> HIDE DEF g, f, s, k, E
  <2>5. Cat(t, Cat(f, Cat(s, k))) = Cat(m, k) /\ m \in T
    <3>1. t \in T /\ f \in T /\ s \in T /\ k \in T
      BY <1>1, <1>2, <1>4, <2>2
    <3> QED
      BY <3>1, CatFour
  <2>6. Touch(E, w, Cat(m, k))
    BY <2>4, <2>5
  <2> HIDE DEF m
  <2>7. Touch(E, w, m)
    BY <1>2, <1>4, <2>5, <2>6, TouchLess
  <2>8. Longest(v, t, b, s, w)
    BY <2>7 DEF Longest, E, m, f
  <2>9. GuidedBy(v, n, Full(x), s, Q, S) /\ Full(x) = Cat(h, Around(q, t, b))
    BY <1>1, <1>3, <2>1 DEF s
  <2> QED
    BY <2>8, <2>9 DEF GuidedBy
<1>8. CASE InSecond(v, a, l, q, t, z)
  <2>1. PICK p \in Seq(v) : l = Around(p, t, z)
    BY <1>8 DEF InSecond
  <2>2. there = t
    <3>1. there \in v
      BY <1>1
    <3> HIDE DEF there
    <3> QED
      BY <2>1, <3>1, AroundOne DEF l
  <2>3. Starts(E, t, w) /\ t # w
    BY DEF Longest
  <2> QED
    BY <1>1, <1>4, <2>2, <2>3, LeafEnds
<1> QED
  BY <1>6, <1>7, <1>8
-----------------------------------------------------------------------------
\* A longer token at the front of a text is not there: the encoding takes t.
LEMMA NotLonger ==
  ASSUME NEW v, GoodVocab(v), NEW e \in Seq(ExtractCharacters(v)), NEW p \in Seq(v), NEW z \in Seq(v),
         NEW t \in v, NEW w \in v, NEW m \in Seq(ExtractCharacters(v)),
         LPM(v, e) = Cat(Around(p, t, z), LPM(v, m)), Starts(ExtractCharacters(v), t, w), t # w
  PROVE  ~Starts(ExtractCharacters(v), w, Cat(t, Cat(Flat(z), m)))
<1> DEFINE E == ExtractCharacters(v)
           T == Seq(E)
           l == LPM(v, m)
           o == One(t)
           u == Cat(z, l)
<1>1. t \in T /\ w \in T /\ w # <<>> /\ p \in Seq(T) /\ z \in Seq(T)
  BY TokensAreTexts
<1>2. l \in Seq(v) /\ Flat(l) = m
  BY LPMKnown, LPMFlat
<1>3. o \in Seq(v)
  BY CatAlgebra
<1>4. LPM(v, e) = Around(p, t, u) /\ u \in Seq(v)
  <2> HIDE DEF l, o
  <2> DEFINE i == Cat(o, z)
  <2>1. i \in Seq(v) /\ Cat(i, l) = Cat(o, Cat(z, l))
    BY <1>2, <1>3, CatAlgebra
  <2>2. LPM(v, e) = Cat(Cat(p, i), l)
    BY DEF Around, l, o
  <2> HIDE DEF i
  <2>3. Cat(Cat(p, i), l) = Cat(p, Cat(i, l))
    BY <1>2, <2>1, CatAlgebra
  <2>4. u \in Seq(v)
    BY <1>2, CatAlgebra
  <2> HIDE DEF u
  <2> QED
    BY <2>1, <2>2, <2>3, <2>4 DEF Around, o, u
<1>5. Flat(u) = Cat(Flat(z), m)
  <2> HIDE DEF l
  <2>1. Flat(Cat(z, l)) = Cat(Flat(z), Flat(l))
    BY <1>2, FlatOnto
  <2> QED
    BY <1>2, <2>1
<1>6. u \in Seq(T)
  BY <1>4, TokensAreTexts
<1> HIDE DEF u
<1>7. ASSUME Starts(E, w, Cat(t, Flat(u))) PROVE Len(w) <= Len(t)
  BY <1>1, <1>4, <1>6, <1>7, LPMLongest
<1>8. Len(w) > Len(t)
  <2>1. PICK y \in T : w = Cat(t, y)
    BY DEF Starts
  <2>2. Len(w) = Len(t) + Len(y) /\ Len(t) \in Nat /\ Len(y) \in Nat
    BY <1>1, <2>1, CatLen
  <2>3. CASE Len(y) = 0
    <3>1. y = <<>>
      BY <2>3
    <3>2. w = t
      BY <1>1, <2>1, <3>1, CatAlgebra
    <3> QED
      BY <3>2
  <2> QED
    BY <2>2, <2>3
<1>9. Len(w) \in Nat /\ Len(t) \in Nat
  BY <1>1
<1> QED
  BY <1>5, <1>7, <1>8, <1>9

\* A phi arc is taken.
LEMMA TurnsGuided ==
  ASSUME NEW v, GoodVocab(v), NEW n, n.chain \in Seq(v), NEW x, NEW Q, NEW S, Sound(v, x), Has(Q, x),
         GuidedBy(v, n, Full(x), Ahead(v, x), Q, S), Starts(v, n.chain, Full(x)),
         NEW y, Turns(v, x, y)
  PROVE  GuidedBy(v, n, Full(y), Ahead(v, y), Q, S)
<1> DEFINE E == ExtractCharacters(v)
           T == Seq(E)
           s == x.state
           c == PhiOf(v)[s].out
           to == PhiOf(v)[s].to
           h == n.chain
<1>1. /\ Full(x) = x.olabels /\ Full(y) = Cat(x.olabels, c) /\ Ahead(v, x) = s /\ Ahead(v, y) = to
      /\ s \in T /\ x.chain = <<>> /\ Inner(v, s)
  BY InnerFacts DEF Turns
<1>2. /\ c \in Seq(v) /\ to \in Trie(v) /\ s = Cat(Flat(c), to) /\ LPM(v, s) = Cat(c, LPM(v, to))
      /\ Settled(v, c, to, FALSE)
  <2> DEFINE b == PhiOf(v)[s]
  <2>1. Backs(v, s, b)
    BY <1>1, PhiBacks
  <2> HIDE DEF b
  <2>2. /\ b.out \in Seq(v) /\ b.to \in Trie(v) /\ s = Cat(Flat(b.out), b.to)
        /\ LPM(v, s) = Cat(b.out, LPM(v, b.to)) /\ Settled(v, b.out, b.to, FALSE)
    BY <2>1 DEF Backs
  <2> QED
    BY <2>2 DEF b
<1>3. PICK a \in Seq(v) : Full(x) = Cat(h, a)
  BY DEF Starts
<1> SUFFICES ASSUME NEW q \in Seq(v), NEW z \in Seq(v), NEW t \in v, NEW w \in v,
                    Full(y) = Cat(h, Around(q, t, z)), Longest(v, t, z, Ahead(v, y), w)
             PROVE  Tracked(v, Cat(h, q), w, Q, S)
  BY DEF GuidedBy
<1>4. to \in T /\ t \in T /\ w \in T /\ w \in Trie(v) /\ t \in Trie(v)
  BY <1>2, TokensAreTexts, TrieFacts
<1>5. Cat(a, c) = Around(q, t, z)
  <2> DEFINE r == Around(q, t, z)
             u == Cat(a, c)
  <2>1. r \in Seq(v)
    BY AroundSome
  <2>2. Cat(Cat(h, a), c) = Cat(h, r)
    BY <1>1, <1>3
  <2>3. h \in Seq(v) /\ c \in Seq(v)
    BY <1>2
  <2> HIDE DEF r, c, h
  <2>4. Cat(Cat(h, a), c) = Cat(h, u) /\ u \in Seq(v)
    BY <2>3, CatAlgebra
  <2> HIDE DEF u
  <2>5. Cat(h, u) = Cat(h, r)
    BY <2>2, <2>4
  <2>6. u = r
    BY <2>1, <2>3, <2>4, <2>5, Cancel
  <2> QED
    BY <2>6 DEF u, r
<1> HIDE DEF c, to
<1>6. InFirst(v, a, c, q, t, z) \/ InSecond(v, a, c, q, t, z)
  BY <1>2, <1>5, AroundCat
<1>7. CASE InFirst(v, a, c, q, t, z)
  <2>1. PICK b \in Seq(v) : a = Around(q, t, b) /\ z = Cat(b, c)
    BY <1>7 DEF InFirst
  <2> DEFINE f == Flat(b)
             g == Flat(c)
  <2>2. Flat(z) = Cat(f, g) /\ f \in T /\ g \in T
    BY <1>2, <2>1, FlatOnto
  <2>3. Touch(E, w, Cat(t, Cat(Cat(f, g), to)))
    BY <1>1, <2>2 DEF Longest
  <2>4. s = Cat(g, to)
    BY <1>2
  <2> HIDE DEF f, g, E, s
  <2>5. Cat(t, Cat(Cat(f, g), to)) = Cat(t, Cat(f, Cat(g, to)))
    BY <1>4, <2>2, CatFour
  <2>6. Touch(E, w, Cat(t, Cat(f, s)))
    BY <2>3, <2>4, <2>5
  <2>7. Longest(v, t, b, s, w)
    BY <2>6 DEF Longest, E, f
  <2>8. GuidedBy(v, n, Full(x), s, Q, S) /\ Full(x) = Cat(h, Around(q, t, b))
    BY <1>1, <1>3, <2>1 DEF s
  <2> QED
    BY <2>7, <2>8 DEF GuidedBy
<1>8. CASE InSecond(v, a, c, q, t, z)
  <2>1. PICK p \in Seq(v) : q = Cat(a, p) /\ c = Around(p, t, z)
    BY <1>8 DEF InSecond
  <2> DEFINE f == Flat(z)
             m == Cat(t, Cat(f, to))
  <2>2. t # w /\ Starts(E, t, w) /\ Touch(E, w, m)
    BY <1>1 DEF Longest
  <2>3. f \in T
    <3>1. z \in Seq(T)
      BY TokensAreTexts
    <3> QED
      BY <3>1, FlatIsPart
  <2>4. m \in T
    <3> HIDE DEF f, E
    <3>1. Cat(f, to) \in T
      BY <1>4, <2>3, CatAlgebra
    <3> QED
      BY <1>4, <3>1, CatAlgebra
  <2>5. ~Starts(E, w, m)
    <3>1. LPM(v, s) = Cat(Around(p, t, z), LPM(v, to))
      BY <1>2, <2>1
    <3>2. s \in T /\ to \in T
      BY <1>1, <1>4
    <3> HIDE DEF s
    <3> QED
      BY <2>2, <3>1, <3>2, NotLonger
  <2>6. PICK u \in T : w = Cat(m, u)
    BY <2>2, <2>5 DEF Touch, Starts
  <2>7. m \in Trie(v)
    <3> HIDE DEF m
    <3> QED
      BY <1>4, <2>4, <2>6, TrieBefore
  <2>8. ~Leaf(Trie(v), t)
    BY <1>4, <2>2, LeafEnds
  <2>9. p = <<>>
    BY <1>2, <2>1, <2>7, <2>8 DEF Settled
  <2>10. q = a
    <3>1. Cat(a, <<>>) = a
      BY CatAlgebra
    <3> QED
      BY <2>1, <2>9, <3>1
  <2>11. s = m
    <3> DEFINE e == <<>>
               k == Flat(e)
    <3>1. Flat(Around(e, t, z)) = Cat(Flat(e), Cat(t, Flat(z))) /\ Flat(e) = <<>>
      <4>1. e \in Seq(T) /\ z \in Seq(T) /\ t \in T
        BY <1>4, TokensAreTexts
      <4>2. Flat(e) = <<>>
        BY FlatSmall
      <4> HIDE DEF e
      <4>3. Flat(Around(e, t, z)) = Cat(Flat(e), Cat(t, Flat(z)))
        <5> HIDE DEF T
        <5> QED
          BY <4>1, AroundFlat DEF T
      <4> QED
        BY <4>2, <4>3 DEF e
    <3>2. Flat(c) = Cat(<<>>, Cat(t, f))
      BY <2>1, <2>9, <3>1
    <3> HIDE DEF f, E
    <3> DEFINE g == Cat(t, f)
    <3>3. g \in T
      BY <1>4, <2>3, CatAlgebra
    <3>4. Cat(Cat(t, f), to) = Cat(t, Cat(f, to))
      BY <1>4, <2>3, CatAlgebra
    <3> HIDE DEF g
    <3>5. Cat(<<>>, g) = g
      BY <3>3, CatAlgebra
    <3> QED
      BY <1>2, <3>2, <3>4, <3>5 DEF g
  <2>12. Starts(E, s, w)
    BY <2>6, <2>11 DEF Starts
  <2>13. Reading(v, Cat(h, q), w, x)
    BY <1>1, <1>3, <2>10, <2>12 DEF Reading
  <2> QED
    BY <2>13 DEF Tracked
<1> QED
  BY <1>6, <1>7, <1>8

\* So what a step leads to is guided where it came from.
LEMMA GoesGuided ==
  ASSUME NEW v, GoodVocab(v), NEW n, n.chain \in Seq(v), NEW x, NEW Q, NEW S, Sound(v, x), Has(Q, x),
         GuidedBy(v, n, Full(x), Ahead(v, x), Q, S), Starts(v, n.chain, Full(x)),
         NEW y, Goes(v, x, y)
  PROVE  GuidedBy(v, n, Full(y), Ahead(v, y), Q, S)
<1>1. Leads1(v, x, y)
  BY GoesLeads
<1>2. CASE Stays(v, x, y)
  BY <1>2 DEF Stays
<1>3. CASE Turns(v, x, y)
  BY <1>3, TurnsGuided
<1>4. ASSUME NEW c \in ExtractCharacters(v), Grows(v, x, y, Append(x.state, c))
      PROVE  GuidedBy(v, n, Full(y), Ahead(v, y), Q, S)
  BY <1>4, GrowsGuided
<1>5. ASSUME NEW c \in ExtractCharacters(v), Ends(v, x, y, Append(x.state, c))
      PROVE  GuidedBy(v, n, Full(y), Ahead(v, y), Q, S)
  BY <1>5, EndsGuided
<1> QED
  BY <1>1, <1>2, <1>3, <1>4, <1>5 DEF Leads1

\* And stays so.
LEMMA GuidedOn ==
  ASSUME NEW v, GoodVocab(v), NEW n, Root(v, n), NEW x, NEW Q, NEW S, NEW Q2, NEW S2,
         Moves(v, x, Q, S, Q2, S2), SoundQ(v, Q), Onward(v, n, Q, S), Guided(v, n, Q, S)
  PROVE  Guided(v, n, Q2, S2)
<1>1. Has(Q, x) /\ Sound(v, x) /\ n.chain \in Seq(v) /\ Starts(v, n.chain, Full(x))
  BY DEF Moves, SoundQ, Root, Onward, OnwardTo
<1>2. GuidedBy(v, n, Full(x), Ahead(v, x), Q, S)
  BY <1>1 DEF Guided
<1>3. ASSUME NEW f, NEW d, GuidedBy(v, n, f, d, Q, S) PROVE GuidedBy(v, n, f, d, Q2, S2)
  <2> SUFFICES ASSUME NEW q \in Seq(v), NEW z \in Seq(v), NEW t \in v, NEW w \in v,
                      f = Cat(n.chain, Around(q, t, z)), Longest(v, t, z, d, w)
               PROVE  Tracked(v, Cat(n.chain, q), w, Q2, S2)
    BY DEF GuidedBy
  <2>1. Tracked(v, Cat(n.chain, q), w, Q, S)
    BY <1>3 DEF GuidedBy
  <2> DEFINE h == n.chain
             p == Cat(h, q)
  <2>2. h \in Seq(v)
    BY <1>1
  <2> HIDE DEF h
  <2>3. p \in Seq(v)
    BY <2>2, CatAlgebra
  <2>4. Tracked(v, p, w, Q, S)
    BY <2>1 DEF h
  <2> HIDE DEF p
  <2>5. Tracked(v, p, w, Q2, S2)
    BY <1>1, <2>3, <2>4, TrackedOn
  <2> QED
    BY <2>5 DEF p, h
<1>4. ASSUME NEW y, Has(Q2, y) PROVE GuidedBy(v, n, Full(y), Ahead(v, y), Q2, S2)
  <2>1. CASE Has(Q, y)
    BY <1>3, <2>1 DEF Guided
  <2>2. CASE Goes(v, x, y)
    <3>1. GuidedBy(v, n, Full(y), Ahead(v, y), Q, S)
      BY <1>1, <1>2, <2>2, GoesGuided
    <3> QED
      BY <1>3, <3>1
  <2> QED
    BY <1>4, <2>1, <2>2 DEF Moves, Comes, Stops, Goes2
<1>5. ASSUME NEW s \in S2 PROVE GuidedBy(v, n, s, Start, Q2, S2)
  <2>1. CASE s \in S
    BY <1>3, <2>1 DEF Guided
  <2>2. CASE s \notin S
    <3>1. AtStart(x) /\ s = x.olabels
      BY <1>5, <2>2 DEF Moves, Comes, Stops, Goes2
    <3>2. Full(x) = s /\ Ahead(v, x) = Start
      BY <1>1, <3>1, Arrived DEF Start
    <3> QED
      BY <1>2, <1>3, <3>2
  <2> QED
    BY <2>1, <2>2
<1> QED
  BY <1>4, <1>5 DEF Guided
-----------------------------------------------------------------------------
(* The search as a whole *)

\* The tokens by which a text goes on from a node.
Target(v, n, rest) == Cat(n.chain, LPM(v, Cat(Pending(v, n.state), rest)))

AllCovered(v, n, Q, S) == \A rest \in Seq(ExtractCharacters(v)) : Covers(v, Target(v, n, rest), Q, S)

Searching(v, n, Q, S) ==
  /\ Q \in Seq(SoundVisits(v)) /\ Layered(v, Q)
  /\ Onward(v, n, Q, S) /\ Free(v, Q, S) /\ Guided(v, n, Q, S)
  /\ Base(v, n) # <<>> => AllCovered(v, n, Q, S)
  /\ Base(v, n) = <<>> => Bare(v, Q, S)

\* Its first visit.
FirstVisit(n) == Visited(<<>>, n.chain, n.state)

\* Nothing begins the empty sequence.
LEMMA NoneBefore ==
  ASSUME NEW S, NEW r \in Seq(S)
  PROVE  ~Strict(S, r, <<>>)
<1> DEFINE e == <<>>
<1>1. ASSUME NEW u \in Seq(S), e = Cat(r, u) PROVE r = e
  <2>1. Len(e) = 0
    OBVIOUS
  <2> HIDE DEF e
  <2>2. Len(Cat(r, u)) = Len(r) + Len(u) /\ Len(r) \in Nat /\ Len(u) \in Nat
    BY CatLen
  <2>3. \A i, j \in Nat : i + j = 0 => i = 0
    OBVIOUS
  <2>4. Len(r) + Len(u) = 0
    BY <1>1, <2>1, <2>2
  <2>5. Len(r) = 0
    BY <2>2, <2>3, <2>4
  <2> QED
    BY <2>5 DEF e
<1> QED
  BY <1>1 DEF Strict, Starts

\* The search begins at the root.
LEMMA SearchBegins ==
  ASSUME NEW v, GoodVocab(v), NEW n, Root(v, n), NEW Q, Q = One(FirstVisit(n))
  PROVE  Searching(v, n, Q, {})
<1> DEFINE x == FirstVisit(n)
           C == SoundVisits(v)
           E == ExtractCharacters(v)
           h == n.chain
           s == n.state
           e == <<>>
<1>1. h \in Seq(v) /\ s \in Trie(v) /\ (h # <<>> => ~Leaf(Trie(v), s))
  BY DEF Root
<1>2. x.olabels = <<>> /\ x.chain = h /\ x.state = s /\ x \in Visits(v)
  <2>1. x = Visited(e, h, s) /\ e \in Seq(v)
    BY DEF FirstVisit
  <2> HIDE DEF x, e
  <2>2. Parts(v, x, e, h, s)
    BY <1>1, <2>1, VisitedParts
  <2> QED
    BY <2>2 DEF Parts, e
<1> HIDE DEF x
<1>3. Sound(v, x) /\ x \in C
  BY <1>1, <1>2 DEF Sound, SoundVisits
<1>4. Full(x) = h /\ Ahead(v, x) = Pending(v, s) /\ Reads(v, x) = Base(v, n)
  <2>1. Cat(<<>>, h) = h
    <3> HIDE DEF h
    <3> QED
      BY <1>1, CatAlgebra
  <2> QED
    BY <1>2, <2>1 DEF Full, Ahead, Reads, Base
<1>5. \A z : Has(Q, z) <=> z = x
  BY HasOne DEF x
<1>6. Q \in Seq(C)
  <2>1. One(x) \in Seq(C)
    BY <1>3, CatAlgebra
  <2> QED
    BY <2>1 DEF x
<1>7. Layered(v, Q)
  <2> DEFINE k == Cost(v, x)
  <2>1. k \in Nat
    BY <1>3, VisitFacts
  <2>2. Costs(v, Q, k)
    BY <1>5 DEF Costs
  <2>3. \A z : ~Has(e, z)
    BY HasOne
  <2>4. Costs(v, e, k + 1)
    BY <2>3 DEF Costs
  <2>5. e \in Seq(SoundVisits(v)) /\ Q = Cat(Q, e)
    BY <1>6, CatAlgebra
  <2> HIDE DEF k, e
  <2>6. Layers(v, Q, k, Q, e)
    BY <1>6, <2>1, <2>2, <2>4, <2>5 DEF Layers
  <2> QED
    BY <2>6 DEF Layered
<1>8. Onward(v, n, Q, {})
  <2>1. Base(v, n) \in Seq(E)
    BY BaseText
  <2>2. Starts(v, h, h) /\ Starts(E, Base(v, n), Base(v, n))
    BY <1>1, <2>1, StartsSelf
  <2> QED
    BY <1>4, <1>5, <2>2 DEF Onward, OnwardTo
<1>9. Free(v, Q, {})
  <2>1. \A r \in Seq(v) : ~Grown(v, r, Q, {})
    BY <1>2, <1>5, NoneBefore DEF Grown
  <2> QED
    BY <2>1 DEF Free
<1>10. Guided(v, n, Q, {})
  <2>1. ASSUME NEW q \in Seq(v), NEW z \in Seq(v), NEW t \in v, h = Cat(h, Around(q, t, z))
        PROVE  FALSE
    <3> DEFINE a == Around(q, t, z)
    <3>1. a \in Seq(v) /\ a # <<>>
      BY AroundSome
    <3>2. h = Cat(h, a)
      BY <2>1
    <3> HIDE DEF a, h
    <3>3. e \in Seq(v) /\ h \in Seq(v)
      BY <1>1 DEF h
    <3>4. h = Cat(h, e)
      BY <3>3, CatAlgebra
    <3>5. Cat(h, a) = Cat(h, e)
      BY <3>2, <3>4
    <3> HIDE DEF e
    <3>6. a = e
      BY <3>1, <3>3, <3>5, Cancel
    <3> QED
      BY <3>1, <3>6 DEF e
  <2>2. GuidedBy(v, n, Full(x), Ahead(v, x), Q, {})
    BY <1>4, <2>1 DEF GuidedBy
  <2> QED
    BY <1>5, <2>2 DEF Guided
<1>11. AllCovered(v, n, Q, {})
  <2> SUFFICES ASSUME NEW rest \in Seq(E) PROVE Covers(v, Target(v, n, rest), Q, {})
    BY DEF AllCovered
  <2>1. Target(v, n, rest) = Cat(Full(x), LPM(v, Cat(Ahead(v, x), rest)))
    BY <1>4 DEF Target
  <2>2. Onto(v, x, Target(v, n, rest))
    BY <2>1 DEF Onto
  <2> QED
    BY <1>5, <2>2 DEF Covers
<1>12. ASSUME Base(v, n) = <<>> PROVE Bare(v, Q, {})
  <2> DEFINE a == Flat(h)
             b == Pending(v, s)
  <2>1. a \in Seq(E) /\ b \in Seq(E) /\ Cat(a, b) = <<>>
    BY <1>12, BaseText DEF Base
  <2>2. Len(a) = 0 /\ Len(b) = 0
    <3> HIDE DEF a, b
    <3>1. Len(Cat(a, b)) = Len(a) + Len(b) /\ Len(a) \in Nat /\ Len(b) \in Nat
      BY <2>1, CatLen
    <3>2. \A i, j \in Nat : i + j = 0 => i = 0 /\ j = 0
      OBVIOUS
    <3>3. Len(a) + Len(b) = 0
      BY <2>1, <3>1
    <3> QED
      BY <3>1, <3>2, <3>3
  <2>3. b = <<>>
    BY <2>1, <2>2
  <2>4. h = <<>>
    <3> SUFFICES ASSUME h # <<>> PROVE FALSE
      OBVIOUS
    <3>1. Len(Flat(h)) > 0
      BY <1>1, TokensFlat
    <3> QED
      BY <2>2, <3>1
  <2> QED
    BY <1>2, <1>4, <1>5, <2>3, <2>4 DEF Bare
<1> QED
  BY <1>6, <1>7, <1>8, <1>9, <1>10, <1>11, <1>12 DEF Searching

\* What holds of the search holds when it has gone on.
LEMMA SearchGoesOn ==
  ASSUME NEW v, GoodVocab(v), NEW n, Root(v, n), NEW x, NEW Q, NEW S, NEW Q2, NEW S2,
         Searching(v, n, Q, S), Q # <<>>, x = Head(Q), Moves(v, x, Q, S, Q2, S2),
         Q2 \in Seq(SoundVisits(v)), Layered(v, Q2)
  PROVE  Searching(v, n, Q2, S2)
<1>1. /\ Q \in Seq(SoundVisits(v)) /\ Layered(v, Q)
      /\ Onward(v, n, Q, S) /\ Free(v, Q, S) /\ Guided(v, n, Q, S)
  BY DEF Searching
<1>2. SoundQ(v, Q)
  <2>1. \A z : Has(Q, z) => z \in SoundVisits(v)
    BY <1>1, HasIn
  <2> QED
    BY <2>1 DEF SoundQ, SoundVisits
<1>3. Sound(v, x)
  BY <1>2 DEF Moves, SoundQ
<1>4. Onward(v, n, Q2, S2)
  BY <1>1, <1>3, OnwardOn
<1>5. Guided(v, n, Q2, S2)
  BY <1>1, <1>2, GuidedOn
<1>6. Free(v, Q2, S2)
  <2>1. Cost(v, x) \in Nat /\ \A z : Has(Q, z) => Cost(v, z) \in Nat /\ Cost(v, x) <= Cost(v, z)
    BY <1>1, FrontCheapest
  <2> QED
    BY <1>1, <1>2, <2>1, FreeOn
<1>7. ASSUME Base(v, n) # <<>> PROVE AllCovered(v, n, Q2, S2)
  <2> SUFFICES ASSUME NEW rest \in Seq(ExtractCharacters(v))
               PROVE  Covers(v, Target(v, n, rest), Q2, S2)
    BY DEF AllCovered
  <2> DEFINE t == Target(v, n, rest)
  <2>1. Covers(v, t, Q, S)
    BY <1>7 DEF Searching, AllCovered
  <2>2. t \in Seq(v)
    <3> DEFINE h == n.chain
               b == Pending(v, n.state)
               d == Cat(b, rest)
               l == LPM(v, d)
    <3>1. h \in Seq(v) /\ b \in Seq(ExtractCharacters(v))
      BY BaseText DEF Root
    <3> HIDE DEF h, b
    <3>2. d \in Seq(ExtractCharacters(v))
      BY <3>1, CatAlgebra
    <3> HIDE DEF d
    <3>3. l \in Seq(v)
      BY <3>2, LPMKnown
    <3> HIDE DEF l
    <3>4. Cat(h, l) \in Seq(v)
      BY <3>1, <3>3, CatAlgebra
    <3> QED
      BY <3>4 DEF Target, h, b, d, l
  <2> HIDE DEF t
  <2>3. Covers(v, t, Q2, S2)
    BY <1>1, <1>2, <1>7, <2>1, <2>2, CoversOn
  <2> QED
    BY <2>3 DEF t
<1>8. ASSUME Base(v, n) = <<>> PROVE Bare(v, Q2, S2)
  <2>1. Bare(v, Q, S)
    BY <1>8 DEF Searching
  <2> QED
    BY <1>3, <2>1, BareOn
<1> QED
  BY <1>4, <1>5, <1>6, <1>7, <1>8 DEF Searching
-----------------------------------------------------------------------------
(* What has been found *)

\* Two sequences and their first difference.
Differs(S, a, b, q, t, w, y, z) ==
  /\ q \in Seq(S) /\ t \in S /\ w \in S /\ t # w /\ y \in Seq(S) /\ z \in Seq(S)
  /\ a = Around(q, t, y) /\ b = Around(q, w, z)

\* Two sequences that agree as far as both go.
LEMMA Agree ==
  ASSUME NEW S, NEW a \in Seq(S), NEW b \in Seq(S), Len(a) <= Len(b),
         \A i \in 1 .. Len(a) : a[i] = b[i]
  PROVE  Starts(S, a, b)
<1> DEFINE k == Len(a)
           c == SubSeq(b, 1, k)
           u == Suffix(b, Len(b) - k)
<1>1. k \in Nat /\ Len(b) \in Nat
  OBVIOUS
<1>2. k \in 0 .. Len(b)
  BY <1>1
<1>3. c \in Seq(S) /\ Len(c) = k /\ u \in Seq(S) /\ b = Cat(c, u)
  BY <1>2, CutParts
<1>4. \A i \in 1 .. k : c[i] = b[i]
  BY <1>2, SubSub
<1> HIDE DEF c, u
<1>5. c = a
  <2>1. a \in Seq(S) /\ Len(a) = k /\ \A i \in 1 .. k : c[i] = a[i]
    BY <1>4
  <2> HIDE DEF k
  <2> QED
    BY <1>1, <1>3, <2>1
<1> QED
  BY <1>3, <1>5 DEF Starts

\* Two sequences neither of which begins with the other have one.
LEMMA FirstDifference ==
  ASSUME NEW S, NEW a \in Seq(S), NEW b \in Seq(S), ~Starts(S, a, b), ~Starts(S, b, a)
  PROVE  \E q, t, w, y, z : Differs(S, a, b, q, t, w, y, z)
<1> DEFINE D == {i \in Nat : i > 0 /\ i <= Len(a) /\ i <= Len(b) /\ a[i] # b[i]}
<1>1. Len(a) \in Nat /\ Len(b) \in Nat
  OBVIOUS
<1>2. D # {}
  <2> SUFFICES ASSUME D = {} PROVE FALSE
    OBVIOUS
  <2>1. CASE Len(a) <= Len(b)
    <3>1. \A i \in 1 .. Len(a) : a[i] = b[i]
      BY <1>1, <2>1
    <3> QED
      BY <2>1, <3>1, Agree
  <2>2. CASE Len(b) <= Len(a)
    <3>1. \A i \in 1 .. Len(b) : b[i] = a[i]
      BY <1>1, <2>2
    <3> QED
      BY <2>2, <3>1, Agree
  <2> QED
    BY <1>1, <2>1, <2>2
<1>3. D \in SUBSET Nat
  OBVIOUS
<1>4. PICK m \in D : \A i \in D : m <= i
  BY <1>2, <1>3, Least
<1> DEFINE k == m - 1
           p == SubSeq(a, 1, k)
           q == SubSeq(b, 1, k)
           e == Suffix(a, Len(a) - k)
           f == Suffix(b, Len(b) - k)
<1>5. /\ m \in Nat /\ m > 0 /\ m <= Len(a) /\ m <= Len(b) /\ a[m] # b[m]
      /\ k \in 0 .. Len(a) /\ k \in 0 .. Len(b) /\ k < m
  BY <1>1, <1>4
<1>6. p \in Seq(S) /\ Len(p) = k /\ e \in Seq(S) /\ a = Cat(p, e)
  BY <1>5, CutParts
<1>7. q \in Seq(S) /\ Len(q) = k /\ f \in Seq(S) /\ b = Cat(q, f)
  BY <1>5, CutParts
<1>8. (\A i \in 1 .. k : p[i] = a[i]) /\ \A i \in 1 .. k : q[i] = b[i]
  <2>1. \A i \in 1 .. k : p[i] = a[i]
    BY <1>5, SubSub
  <2>2. \A i \in 1 .. k : q[i] = b[i]
    BY <1>5, SubSub
  <2> QED
    BY <2>1, <2>2
<1>9. \A i \in 1 .. k : a[i] = b[i]
  BY <1>1, <1>4, <1>5
<1>10. /\ Len(e) = Len(a) - k /\ Len(f) = Len(b) - k
       /\ e[1] = a[m] /\ f[1] = b[m]
  <2> DEFINE i == Len(a) - k
             j == Len(b) - k
  <2>1. i \in 0 .. Len(a) /\ j \in 0 .. Len(b) /\ 1 \in 1 .. i /\ 1 \in 1 .. j
        /\ Len(a) - i + 1 = m /\ Len(b) - j + 1 = m
    BY <1>1, <1>5
  <2> HIDE DEF i, j
  <2>2. Len(Suffix(a, i)) = i /\ Suffix(a, i)[1] = a[m]
    <3>1. Len(Suffix(a, i)) = i /\ \A l \in 1 .. i : Suffix(a, i)[l] = a[Len(a) - i + l]
      BY <2>1, SuffixFacts
    <3>2. Suffix(a, i)[1] = a[Len(a) - i + 1]
      BY <2>1, <3>1
    <3> QED
      BY <2>1, <3>1, <3>2
  <2>3. Len(Suffix(b, j)) = j /\ Suffix(b, j)[1] = b[m]
    <3>1. Len(Suffix(b, j)) = j /\ \A l \in 1 .. j : Suffix(b, j)[l] = b[Len(b) - j + l]
      BY <2>1, SuffixFacts
    <3>2. Suffix(b, j)[1] = b[Len(b) - j + 1]
      BY <2>1, <3>1
    <3> QED
      BY <2>1, <3>1, <3>2
  <2> QED
    BY <2>2, <2>3 DEF i, j
<1> HIDE DEF p, q, e, f
<1>11. p = q
  <2> HIDE DEF k
  <2> QED
    BY <1>5, <1>6, <1>7, <1>8, <1>9
<1>12. e # <<>> /\ f # <<>>
  BY <1>1, <1>5, <1>10
<1> DEFINE t == Head(e)
           w == Head(f)
           y == Tail(e)
           z == Tail(f)
<1>13. t \in S /\ y \in Seq(S) /\ e = Cat(One(t), y) /\ t = e[1]
  BY <1>6, <1>12, FirstAndRest
<1>14. w \in S /\ z \in Seq(S) /\ f = Cat(One(w), z) /\ w = f[1]
  BY <1>7, <1>12, FirstAndRest
<1> HIDE DEF t, w, y, z
<1>15. Differs(S, a, b, q, t, w, y, z)
  BY <1>5, <1>6, <1>7, <1>10, <1>11, <1>13, <1>14 DEF Differs, Around
<1> QED
  BY <1>15
-----------------------------------------------------------------------------
\* s and r have one text; the first token they differ in is longer in r.
Fork(v, n, s, r, q, t, w, y, z) ==
  /\ q \in Seq(v) /\ y \in Seq(v) /\ z \in Seq(v) /\ t \in v /\ w \in v /\ t # w
  /\ s = Cat(n.chain, Around(q, t, y)) /\ r = Cat(n.chain, Around(q, w, z))
  /\ Starts(ExtractCharacters(v), t, w) /\ Cat(t, Flat(y)) = Cat(w, Flat(z))
Forks(v, n, s, r) == \E q, t, w, y, z : Fork(v, n, s, r, q, t, w, y, z)

\* The text of a sequence, in parts.
LEMMA TextAround ==
  ASSUME NEW v, GoodVocab(v), NEW h \in Seq(v), NEW q \in Seq(v), NEW t \in v, NEW y \in Seq(v)
  PROVE  /\ Flat(Cat(h, Around(q, t, y))) = Cat(Flat(h), Cat(Flat(q), Cat(t, Flat(y))))
         /\ Flat(h) \in Seq(ExtractCharacters(v)) /\ Flat(q) \in Seq(ExtractCharacters(v))
         /\ Flat(y) \in Seq(ExtractCharacters(v)) /\ Cat(t, Flat(y)) \in Seq(ExtractCharacters(v))
         /\ Cat(Flat(q), Cat(t, Flat(y))) \in Seq(ExtractCharacters(v))
<1> DEFINE T == Seq(ExtractCharacters(v))
           a == Around(q, t, y)
           f == Flat(q)
           g == Flat(y)
           i == Cat(t, g)
<1>1. q \in Seq(T) /\ y \in Seq(T) /\ t \in T /\ h \in Seq(T)
  BY TokensAreTexts
<1>2. Flat(a) = Cat(f, i) /\ f \in T /\ g \in T
  BY <1>1, AroundFlat
<1>3. a \in Seq(v)
  BY AroundSome
<1> HIDE DEF a, f, g
<1>4. Flat(Cat(h, a)) = Cat(Flat(h), Flat(a)) /\ Flat(h) \in T
  BY <1>3, FlatOnto
<1>5. i \in T
  BY <1>1, <1>2, CatAlgebra
<1> HIDE DEF i
<1>6. Cat(f, i) \in T
  BY <1>2, <1>5, CatAlgebra
<1> QED
  BY <1>2, <1>4, <1>5, <1>6 DEF a, f, g, i

\* Two sequences that go on from one node and have one text fork.
LEMMA Forked ==
  ASSUME NEW v, GoodVocab(v), NEW n, n.chain \in Seq(v), NEW s \in Seq(v), NEW r \in Seq(v),
         Starts(v, n.chain, s), Starts(v, n.chain, r), ~Starts(v, s, r), ~Starts(v, r, s), Flat(s) = Flat(r)
  PROVE  Forks(v, n, s, r) \/ Forks(v, n, r, s)
<1> DEFINE E == ExtractCharacters(v)
           T == Seq(E)
           h == n.chain
<1>0. h \in Seq(v)
  OBVIOUS
<1>1. PICK a \in Seq(v) : s = Cat(h, a)
  BY DEF Starts
<1>2. PICK b \in Seq(v) : r = Cat(h, b)
  BY DEF Starts
<1>3. ASSUME NEW i \in Seq(v), NEW j \in Seq(v), Starts(v, i, j) PROVE Starts(v, Cat(h, i), Cat(h, j))
  <2>1. PICK u \in Seq(v) : j = Cat(i, u)
    BY <1>3 DEF Starts
  <2> HIDE DEF h
  <2>2. Cat(h, Cat(i, u)) = Cat(Cat(h, i), u)
    BY <1>0, CatAlgebra
  <2> QED
    BY <2>1, <2>2 DEF Starts
<1>4. ~Starts(v, a, b) /\ ~Starts(v, b, a)
  BY <1>1, <1>2, <1>3
<1>5. PICK q, t, w, y, z : Differs(v, a, b, q, t, w, y, z)
  BY <1>4, FirstDifference
<1>6. /\ q \in Seq(v) /\ t \in v /\ w \in v /\ t # w /\ y \in Seq(v) /\ z \in Seq(v)
      /\ a = Around(q, t, y) /\ b = Around(q, w, z)
  BY <1>5 DEF Differs
<1> DEFINE f == Flat(h)
           g == Flat(q)
           i == Flat(y)
           j == Flat(z)
           k == Cat(t, i)
           l == Cat(w, j)
           c == Cat(g, k)
           d == Cat(g, l)
<1>7. Flat(s) = Cat(f, c) /\ f \in T /\ g \in T /\ i \in T /\ k \in T /\ c \in T
  <2> HIDE DEF h
  <2>1. q \in Seq(v) /\ t \in v /\ y \in Seq(v)
    BY <1>6
  <2>2. Flat(Cat(h, Around(q, t, y))) = Cat(Flat(h), Cat(Flat(q), Cat(t, Flat(y))))
    BY <1>0, <2>1, TextAround
  <2>3. f \in T /\ g \in T /\ i \in T /\ k \in T /\ c \in T
    BY <1>0, <2>1, TextAround
  <2>4. s = Cat(h, Around(q, t, y))
    BY <1>1, <1>6
  <2> QED
    BY <2>2, <2>3, <2>4
<1>8. Flat(r) = Cat(f, d) /\ j \in T /\ l \in T /\ d \in T
  <2> HIDE DEF h
  <2>1. q \in Seq(v) /\ w \in v /\ z \in Seq(v)
    BY <1>6
  <2>2. Flat(Cat(h, Around(q, w, z))) = Cat(Flat(h), Cat(Flat(q), Cat(w, Flat(z))))
    BY <1>0, <2>1, TextAround
  <2>3. j \in T /\ l \in T /\ d \in T
    BY <1>0, <2>1, TextAround
  <2>4. r = Cat(h, Around(q, w, z))
    BY <1>2, <1>6
  <2> QED
    BY <2>2, <2>3, <2>4
<1>9. t \in T /\ w \in T
  BY <1>6, TokensAreTexts
<1> HIDE DEF f, g, i, j, c, d, h, E
<1>10. Cat(f, c) = Cat(f, d)
  BY <1>7, <1>8
<1>11. c = d
  BY <1>7, <1>8, <1>10, Cancel
<1>12. Cat(g, k) = Cat(g, l)
  BY <1>11 DEF c, d
<1> HIDE DEF k, l
<1>13. k = l
  BY <1>7, <1>8, <1>12, Cancel
<1>14. Cat(t, i) = Cat(w, j)
  BY <1>13 DEF k, l
<1>15. Overlap(E, t, i, w, j) \/ Overlap(E, w, j, t, i)
  BY <1>7, <1>8, <1>9, <1>14, Levi
<1>16. CASE Overlap(E, t, i, w, j)
  <2>1. Starts(E, t, w)
    BY <1>16 DEF Overlap, Starts
  <2>2. Fork(v, n, s, r, q, t, w, y, z)
    BY <1>1, <1>2, <1>6, <1>14, <2>1 DEF Fork, h, i, j, E
  <2> QED
    BY <2>2 DEF Forks
<1>17. CASE Overlap(E, w, j, t, i)
  <2>1. Starts(E, w, t)
    BY <1>17 DEF Overlap, Starts
  <2>2. Fork(v, n, r, s, q, w, t, z, y)
    BY <1>1, <1>2, <1>6, <1>14, <2>1 DEF Fork, h, i, j, E
  <2> QED
    BY <2>2 DEF Forks
<1> QED
  BY <1>15, <1>16, <1>17

\* What is found: sequences that go on from the node, of which none begins another.
Found(v, n, S) ==
  /\ Onward(v, n, <<>>, S) /\ Guided(v, n, <<>>, S)
  /\ \A r, s \in S : ~Strict(v, r, s)

\* Of two that fork the one with the longer token is shorter.
LEMMA ForkShorter ==
  ASSUME NEW v, GoodVocab(v), NEW n, n.chain \in Seq(v), NEW S, Found(v, n, S),
         NEW s \in S, NEW r \in S, Forks(v, n, s, r)
  PROVE  Len(r) < Len(s)
<1> DEFINE E == ExtractCharacters(v)
           T == Seq(E)
           h == n.chain
<1>1. PICK q, t, w, y, z : Fork(v, n, s, r, q, t, w, y, z)
  BY DEF Forks
<1>2. /\ q \in Seq(v) /\ y \in Seq(v) /\ z \in Seq(v) /\ t \in v /\ w \in v /\ t # w /\ h \in Seq(v)
      /\ s = Cat(h, Around(q, t, y)) /\ r = Cat(h, Around(q, w, z))
      /\ Starts(E, t, w) /\ Cat(t, Flat(y)) = Cat(w, Flat(z))
  BY <1>1 DEF Fork
<1> DEFINE i == Flat(y)
           j == Flat(z)
           o == One(w)
           p == Cat(h, q)
           m == Cat(p, o)
<1>3. i \in T /\ j \in T /\ t \in T /\ w \in T
  <2>1. i \in T
    BY <1>2, TextAround
  <2>2. j \in T
    BY <1>2, TextAround
  <2> QED
    BY <1>2, <2>1, <2>2, TokensAreTexts
<1>4. Longest(v, t, y, Start, w)
  <2>1. Cat(i, <<>>) = i
    <3> HIDE DEF i
    <3> QED
      BY <1>3, CatAlgebra
  <2>2. Starts(E, w, Cat(w, j))
    <3> HIDE DEF j, E
    <3> QED
      BY <1>3, StartsSelf
  <2> QED
    BY <1>2, <2>1, <2>2 DEF Longest, Touch, Start
<1>5. Tracked(v, p, w, <<>>, S)
  <2>1. GuidedBy(v, n, s, Start, <<>>, S)
    BY DEF Found, Guided
  <2> QED
    BY <1>2, <1>4, <2>1 DEF GuidedBy
<1>6. PICK g \in S : Starts(v, g, m)
  <2>1. \A f : ~Has(<<>>, f)
    BY HasOne
  <2> QED
    BY <1>5, <2>1 DEF Tracked
<1>7. o \in Seq(v) /\ Len(o) = 1
  <2>1. o \in Seq(v)
    BY <1>2, CatAlgebra
  <2> QED
    BY <2>1 DEF One
<1>8. g \in Seq(v)
  BY <1>6 DEF Found, Onward
<1> HIDE DEF o, h
<1>9. p \in Seq(v) /\ m \in Seq(v)
  <2>1. p \in Seq(v)
    BY <1>2, CatAlgebra
  <2> HIDE DEF p
  <2> QED
    BY <1>7, <2>1, CatAlgebra
<1>10. r = Cat(m, z)
  <2> DEFINE a == Cat(o, z)
  <2>1. a \in Seq(v) /\ r = Cat(h, Cat(q, a))
    <3>1. a \in Seq(v)
      BY <1>2, <1>7, CatAlgebra
    <3> QED
      BY <1>2, <3>1 DEF Around, o
  <2> HIDE DEF a
  <2>2. Cat(h, Cat(q, a)) = Cat(p, a)
    BY <1>2, <2>1, CatAlgebra
  <2> HIDE DEF p
  <2>3. Cat(p, Cat(o, z)) = Cat(m, z)
    BY <1>2, <1>7, <1>9, CatAlgebra
  <2> QED
    BY <2>1, <2>2, <2>3 DEF a
<1>11. Starts(v, m, r)
  BY <1>2, <1>10 DEF Starts
<1>12. Starts(v, g, r)
  <2> HIDE DEF m
  <2> QED
    BY <1>6, <1>8, <1>11, StartsTrans
<1>13. g = r
  BY <1>12 DEF Found, Strict
<1>14. PICK u \in Seq(v) : m = Cat(r, u)
  BY <1>6, <1>13 DEF Starts
<1> HIDE DEF m
<1>15. z = <<>> /\ r = m
  <2>1. Len(r) = Len(m) + Len(z) /\ Len(m) \in Nat /\ Len(z) \in Nat
    BY <1>2, <1>9, <1>10, CatLen
  <2>2. Len(m) = Len(r) + Len(u) /\ Len(r) \in Nat /\ Len(u) \in Nat
    <3>1. r \in Seq(v)
      BY <1>8, <1>13
    <3> QED
      BY <1>14, <3>1, CatLen
  <2>3. \A a, b, c, d \in Nat : a = b + c /\ b = a + d => c = 0
    OBVIOUS
  <2>4. Len(z) = 0
    BY ONLY <2>1, <2>2, <2>3
  <2>5. z = <<>>
    BY <1>2, <2>4
  <2>6. Cat(m, z) = m
    BY <1>9, <2>5, CatAlgebra
  <2> QED
    BY <1>10, <2>5, <2>6
<1>16. y # <<>>
  <2> SUFFICES ASSUME y = <<>> PROVE FALSE
    OBVIOUS
  <2>1. i = <<>> /\ j = <<>>
    BY <1>15, FlatSmall
  <2>2. Cat(t, <<>>) = t /\ Cat(w, <<>>) = w
    <3> HIDE DEF E
    <3> QED
      BY <1>3, CatAlgebra
  <2> QED
    BY <1>2, <2>1, <2>2
<1>17. Len(s) = Len(h) + (Len(q) + 1 + Len(y)) /\ Len(r) = Len(h) + (Len(q) + 1 + Len(z))
  <2> DEFINE a == Around(q, t, y)
             b == Around(q, w, z)
  <2>1. a \in Seq(v) /\ Len(a) = Len(q) + 1 + Len(y)
    BY <1>2, AroundSome
  <2>2. b \in Seq(v) /\ Len(b) = Len(q) + 1 + Len(z)
    BY <1>2, AroundSome
  <2> HIDE DEF a, b
  <2>3. Len(Cat(h, a)) = Len(h) + Len(a) /\ Len(Cat(h, b)) = Len(h) + Len(b)
    <3>1. Len(Cat(h, a)) = Len(h) + Len(a)
      BY <1>2, <2>1, CatLen
    <3>2. Len(Cat(h, b)) = Len(h) + Len(b)
      BY <1>2, <2>2, CatLen
    <3> QED
      BY <3>1, <3>2
  <2>4. s = Cat(h, a) /\ r = Cat(h, b)
    BY <1>2 DEF a, b
  <2> QED
    BY <2>1, <2>2, <2>3, <2>4
<1>18. Len(h) \in Nat /\ Len(q) \in Nat /\ Len(y) \in Nat /\ Len(y) > 0 /\ Len(z) = 0
  <2>1. Len(h) \in Nat /\ Len(q) \in Nat /\ Len(y) \in Nat /\ Len(y) > 0
    BY <1>2, <1>16
  <2> QED
    BY <1>15, <2>1
<1>19. \A a, b, c \in Nat : c > 0 => a + (b + 1 + 0) < a + (b + 1 + c)
  OBVIOUS
<1> QED
  BY <1>17, <1>18, <1>19

\* The encoding of no text begins with the one with the shorter token.
LEMMA ForkNotMatch ==
  ASSUME NEW v, GoodVocab(v), NEW n, Root(v, n), NEW s, NEW r, Forks(v, n, s, r),
         NEW rest \in Seq(ExtractCharacters(v)), Starts(v, s, Target(v, n, rest))
  PROVE  FALSE
<1> DEFINE E == ExtractCharacters(v)
           T == Seq(E)
           h == n.chain
           x == Cat(Pending(v, n.state), rest)
           l == LPM(v, x)
<1>1. PICK q, t, w, y, z : Fork(v, n, s, r, q, t, w, y, z)
  BY DEF Forks
<1>2. /\ q \in Seq(v) /\ y \in Seq(v) /\ z \in Seq(v) /\ t \in v /\ w \in v /\ t # w /\ h \in Seq(v)
      /\ s = Cat(h, Around(q, t, y)) /\ Starts(E, t, w) /\ Cat(t, Flat(y)) = Cat(w, Flat(z))
  BY <1>1 DEF Fork, Root
<1>3. PICK u \in Seq(v) : Target(v, n, rest) = Cat(s, u)
  BY DEF Starts
<1>4. x \in T
  <2> DEFINE b == Pending(v, n.state)
  <2>1. b \in T
    BY BaseText
  <2>2. rest \in T
    OBVIOUS
  <2> HIDE DEF b, E
  <2>3. Cat(b, rest) \in T
    BY <2>1, <2>2, CatAlgebra
  <2> QED
    BY <2>3 DEF b
<1>5. l \in Seq(v)
  <2> HIDE DEF x
  <2> QED
    BY <1>4, LPMKnown
<1> DEFINE a == Around(q, t, y)
<1>6. a \in Seq(v) /\ Cat(h, l) = Cat(Cat(h, a), u)
  <2>1. a \in Seq(v)
    BY <1>2, AroundSome
  <2> QED
    BY <1>2, <1>3, <2>1 DEF Target
<1>7. l = Cat(a, u)
  <2> HIDE DEF h, a, l
  <2> DEFINE b == Cat(a, u)
  <2>1. Cat(Cat(h, a), u) = Cat(h, b) /\ b \in Seq(v)
    BY <1>2, <1>6, CatAlgebra
  <2> HIDE DEF b
  <2>2. Cat(h, l) = Cat(h, b)
    BY <1>6, <2>1
  <2>3. l = b
    BY <1>2, <1>5, <2>1, <2>2, Cancel
  <2> QED
    BY <2>3 DEF b
<1> DEFINE m == Flat(u)
<1>8. m \in T /\ LPM(v, m) = u
  <2>1. u \in Seq(T) /\ a \in Seq(T)
    BY <1>6, TokensAreTexts
  <2>2. LPM(v, x) = Cat(a, u)
    BY <1>7
  <2> HIDE DEF a, x
  <2>3. LPM(v, Flat(u)) = u
    BY <1>4, <2>1, <2>2, LPMTail
  <2>4. Flat(u) \in T
    BY <2>1, FlatIsPart
  <2> QED
    BY <2>3, <2>4
<1>9. LPM(v, x) = Cat(Around(q, t, y), LPM(v, m))
  BY <1>7, <1>8
<1> HIDE DEF x, m
<1>10. ~Starts(E, w, Cat(t, Cat(Flat(y), m)))
  BY <1>2, <1>4, <1>8, <1>9, NotLonger
<1> DEFINE i == Flat(y)
           j == Flat(z)
<1>11. i \in T /\ j \in T /\ t \in T /\ w \in T /\ Cat(t, i) = Cat(w, j)
  <2>1. i \in T
    BY <1>2, TextAround
  <2>2. j \in T
    BY <1>2, TextAround
  <2> QED
    BY <1>2, <2>1, <2>2, TokensAreTexts
<1> HIDE DEF i, j, E
<1>12. Cat(t, Cat(i, m)) = Cat(w, Cat(j, m)) /\ Cat(j, m) \in T
  <2>1. Cat(Cat(t, i), m) = Cat(t, Cat(i, m))
    BY <1>8, <1>11, CatAlgebra
  <2>2. Cat(Cat(w, j), m) = Cat(w, Cat(j, m))
    BY <1>8, <1>11, CatAlgebra
  <2>3. Cat(j, m) \in T
    BY <1>8, <1>11, CatAlgebra
  <2> QED
    BY <1>11, <2>1, <2>2, <2>3
<1>13. Starts(E, w, Cat(t, Cat(i, m)))
  BY <1>12 DEF Starts
<1> QED
  BY <1>10, <1>13 DEF i, E
-----------------------------------------------------------------------------
(* What CandidateOlabels returns *)

\* The encoding of every text that goes on from the node begins with one of S.
AllFound(v, n, S) ==
  \A rest \in Seq(ExtractCharacters(v)) : \E s \in S : Starts(v, s, Target(v, n, rest))

\* When the queue is empty the sequences are what is to be found.
LEMMA SearchEnds ==
  ASSUME NEW v, GoodVocab(v), NEW n, NEW S, Searching(v, n, <<>>, S)
  PROVE  /\ Found(v, n, S)
         /\ Base(v, n) # <<>> => AllFound(v, n, S)
         /\ Base(v, n) = <<>> => S = {}
<1> DEFINE Q == <<>>
<1>1. \A z : ~Has(Q, z)
  BY HasOne
<1>2. /\ Onward(v, n, Q, S) /\ Free(v, Q, S) /\ Guided(v, n, Q, S)
      /\ Base(v, n) # <<>> => AllCovered(v, n, Q, S)
      /\ Base(v, n) = <<>> => Bare(v, Q, S)
  BY DEF Searching
<1> HIDE DEF Q
<1>3. \A r, s \in S : ~Strict(v, r, s)
  <2> SUFFICES ASSUME NEW r \in S, NEW s \in S, Strict(v, r, s) PROVE FALSE
    OBVIOUS
  <2>1. r \in Seq(v)
    BY <1>2 DEF Onward
  <2>2. Grown(v, r, Q, S)
    BY DEF Grown
  <2>3. r \notin S
    BY <1>2, <2>1, <2>2 DEF Free, Late
  <2> QED
    BY <2>3
<1>4. Found(v, n, S)
  BY <1>2, <1>3 DEF Found, Q
<1>5. ASSUME Base(v, n) # <<>> PROVE AllFound(v, n, S)
  <2> SUFFICES ASSUME NEW rest \in Seq(ExtractCharacters(v))
               PROVE  \E s \in S : Starts(v, s, Target(v, n, rest))
    BY DEF AllFound
  <2>1. Covers(v, Target(v, n, rest), Q, S)
    BY <1>2, <1>5 DEF AllCovered
  <2> QED
    BY <1>1, <2>1 DEF Covers
<1>6. ASSUME Base(v, n) = <<>> PROVE S = {}
  BY <1>2, <1>6 DEF Bare
<1> QED
  BY <1>4, <1>5, <1>6

\* Two that have one text fork.
LEMMA OneText ==
  ASSUME NEW v, GoodVocab(v), NEW n, Root(v, n), NEW S, Found(v, n, S),
         NEW r \in S, NEW s \in S, r # s, Flat(r) = Flat(s)
  PROVE  /\ Forks(v, n, s, r) \/ Forks(v, n, r, s)
         /\ Len(r) \in Nat /\ Len(s) \in Nat
<1>1. /\ s \in Seq(v) /\ r \in Seq(v) /\ n.chain \in Seq(v)
      /\ Starts(v, n.chain, s) /\ Starts(v, n.chain, r)
  BY DEF Found, Onward, OnwardTo, Root
<1>2. ~Starts(v, s, r) /\ ~Starts(v, r, s)
  BY DEF Found, Strict
<1>3. Forks(v, n, s, r) \/ Forks(v, n, r, s)
  BY <1>1, <1>2, Forked
<1> QED
  BY <1>1, <1>3

\* They differ in length: the assertion of CandidateOlabels holds.
LEMMA NoTie ==
  ASSUME NEW v, GoodVocab(v), NEW n, Root(v, n), NEW S, Found(v, n, S),
         NEW r \in S, NEW s \in S, r # s, Flat(r) = Flat(s)
  PROVE  Len(r) # Len(s)
<1>1. /\ Forks(v, n, s, r) \/ Forks(v, n, r, s)
      /\ Len(r) \in Nat /\ Len(s) \in Nat /\ n.chain \in Seq(v)
  BY OneText DEF Root
<1>2. CASE Forks(v, n, s, r)
  <2>1. Len(r) < Len(s)
    BY <1>1, <1>2, ForkShorter
  <2> QED
    BY <1>1, <2>1
<1>3. CASE Forks(v, n, r, s)
  <2>1. Len(s) < Len(r)
    BY <1>1, <1>3, ForkShorter
  <2> QED
    BY <1>1, <2>1
<1> QED
  BY <1>1, <1>2, <1>3

\* The shortest of every text.
Kept(S) == {s \in S : \A r \in S : Flat(r) = Flat(s) => Len(s) <= Len(r)}

\* What the encoding of some text begins with is kept.
LEMMA MatchKept ==
  ASSUME NEW v, GoodVocab(v), NEW n, Root(v, n), NEW S, Found(v, n, S), NEW s \in S,
         NEW rest \in Seq(ExtractCharacters(v)), Starts(v, s, Target(v, n, rest))
  PROVE  s \in Kept(S)
<1> SUFFICES ASSUME NEW r \in S, Flat(r) = Flat(s) PROVE Len(s) <= Len(r)
  BY DEF Kept
<1>1. s \in Seq(v) /\ Len(s) \in Nat /\ n.chain \in Seq(v)
  <2>1. s \in Seq(v) /\ n.chain \in Seq(v)
    BY DEF Found, Onward, Root
  <2> QED
    BY <2>1
<1>2. CASE r = s
  BY <1>1, <1>2
<1>3. CASE r # s
  <2>1. /\ Forks(v, n, s, r) \/ Forks(v, n, r, s)
        /\ Len(r) \in Nat
    BY <1>3, OneText
  <2>2. ~Forks(v, n, s, r)
    BY ForkNotMatch
  <2>3. Len(s) < Len(r)
    BY <1>1, <2>1, <2>2, ForkShorter
  <2> QED
    BY <1>1, <2>1, <2>3
<1> QED
  BY <1>2, <1>3

\* What is kept for a node: sequences that go on from it, none beginning another,
\* one for every text; none where nothing is pending.
Candidate(v, n, s) == s \in Seq(v) /\ s # <<>> /\ OnwardTo(v, n, s, Flat(s))
Result(v, n, S) ==
  /\ \A s \in S : Candidate(v, n, s)
  /\ \A r, s \in S : ~Strict(v, r, s)
  /\ Base(v, n) # <<>> => AllFound(v, n, S)
  /\ Base(v, n) = <<>> => S = {}

\* What is kept is such a result.
LEMMA KeptResult ==
  ASSUME NEW v, GoodVocab(v), NEW n, Root(v, n), NEW S, Searching(v, n, <<>>, S)
  PROVE  Result(v, n, Kept(S))
<1>1. /\ Found(v, n, S)
      /\ Base(v, n) # <<>> => AllFound(v, n, S)
      /\ Base(v, n) = <<>> => S = {}
  BY SearchEnds
<1>2. Kept(S) \subseteq S
  BY DEF Kept
<1>3. \A s \in Kept(S) : Candidate(v, n, s)
  BY <1>1, <1>2 DEF Found, Onward, Candidate
<1>4. \A r, s \in Kept(S) : ~Strict(v, r, s)
  BY <1>1, <1>2 DEF Found
<1>5. ASSUME Base(v, n) # <<>> PROVE AllFound(v, n, Kept(S))
  <2> SUFFICES ASSUME NEW rest \in Seq(ExtractCharacters(v))
               PROVE  \E s \in Kept(S) : Starts(v, s, Target(v, n, rest))
    BY DEF AllFound
  <2>1. PICK s \in S : Starts(v, s, Target(v, n, rest))
    BY <1>1, <1>5 DEF AllFound
  <2>2. s \in Kept(S)
    BY <1>1, <2>1, MatchKept
  <2> QED
    BY <2>1, <2>2
<1>6. ASSUME Base(v, n) = <<>> PROVE Kept(S) = {}
  BY <1>1, <1>2, <1>6
<1> QED
  BY <1>3, <1>4, <1>5, <1>6 DEF Result
-----------------------------------------------------------------------------
(* ComputeEncoderTransitions *)

\* All nodes of the FST are such that CandidateOlabels works for them.
LEMMA NodesAreRoots ==
  ASSUME FstInv
  PROVE  /\ \A n \in Nodes(trie, phi) : Root(vocab, n)
         /\ \A s \in Trie(vocab) : Node(<<>>, s) \in Nodes(trie, phi)
         /\ Nodes(trie, phi) # {}
<1> DEFINE v == vocab
           tr == Trie(v)
           P == PhiOf(v)
<1>1. GoodVocab(v) /\ trie = tr /\ phi = P /\ Start \in tr
  BY CharsFacts, TrieFacts DEF FstInv, Start
<1>2. DOMAIN P = tr \ {Start}
  BY <1>1, PhiTableWorks DEF PhiOf, Minimized
<1>3. \A s \in tr : Node(<<>>, s) \in Nodes(trie, phi)
  BY <1>1 DEF Nodes
<1>4. ASSUME NEW s \in tr PROVE Root(v, Node(<<>>, s))
  <2>1. Node(<<>>, s).chain = <<>> /\ Node(<<>>, s).state = s /\ <<>> \in Seq(v)
    BY DEF Node
  <2> QED
    BY <2>1 DEF Root
<1>5. ASSUME NEW s \in DOMAIN P, NEW i \in 2 .. Len(P[s].out)
      PROVE  Root(v, Node(SubSeq(P[s].out, i, Len(P[s].out)), P[s].to))
  <2> DEFINE o == P[s].out
             to == P[s].to
  <2>1. s \in tr /\ s # Start
    BY <1>2
  <2>2. ~Leaf(tr, s)
    <3> SUFFICES ASSUME Leaf(tr, s) PROVE FALSE
      OBVIOUS
    <3>1. P[s] = [out |-> <<>>, to |-> Start]
      BY <1>1, <1>2 DEF PhiOf, Minimized
    <3>2. Len(P[s].out) = 0
      BY <3>1
    <3> QED
      BY <3>2
  <2>3. Inner(v, s)
    BY <2>1, <2>2 DEF Inner
  <2>4. o \in Seq(v) /\ to \in tr /\ ~Leaf(tr, to)
    BY <1>1, <2>3, PhiBacks DEF Backs
  <2> HIDE DEF o, to, P
  <2> DEFINE k == Len(o) - i + 1
             c == SubSeq(o, i, Len(o))
  <2>5. Len(o) \in Nat /\ i \in 2 .. Len(o)
    BY <2>4 DEF o
  <2>6. k \in 0 .. Len(o) /\ Len(o) - k + 1 = i
    BY <2>5
  <2>7. c \in Seq(v)
    <3> HIDE DEF k
    <3>1. Suffix(o, k) \in Seq(v)
      BY <2>4, <2>6, SuffixFacts
    <3> QED
      BY <2>6, <3>1 DEF Suffix
  <2> HIDE DEF c
  <2>8. Root(v, Node(c, to))
    BY <2>4, <2>7 DEF Root, Node
  <2> QED
    BY <2>8 DEF c, o, to
<1>6. ASSUME NEW n \in Nodes(trie, phi) PROVE Root(v, n)
  <2> HIDE DEF P, tr
  <2>1. \/ \E s \in tr : n = Node(<<>>, s)
        \/ \E s \in DOMAIN P : \E i \in 2 .. Len(P[s].out) : n = Node(SubSeq(P[s].out, i, Len(P[s].out)), P[s].to)
    BY <1>1 DEF Nodes
  <2>2. CASE \E s \in tr : n = Node(<<>>, s)
    BY <1>4, <2>2
  <2>3. CASE \E s \in DOMAIN P : \E i \in 2 .. Len(P[s].out) : n = Node(SubSeq(P[s].out, i, Len(P[s].out)), P[s].to)
    BY <1>5, <2>3
  <2> QED
    BY <2>1, <2>2, <2>3
<1> QED
  BY <1>1, <1>3, <1>6

\* What is stored for a node: sequences that go on from it, with which the encoding
\* of every text that goes on begins.
Stored(v, n, S) ==
  AllFound(v, n, S) /\ \A s \in S : s \in Seq(v) /\ OnwardTo(v, n, s, Flat(s))

\* Where the construction is.
Phase(v, k, nodes, Q, S) ==
  \/ k = "search" /\ nodes # {} /\ Searching(v, First(nodes), Q, S)
  \/ k = "found" /\ nodes # {} /\ Result(v, First(nodes), S)
  \/ k = "ready" /\ nodes = {} /\ S = {}

AllStored(v, T) == \A n \in DOMAIN T : Stored(v, n, T[n])

SearchInv ==
  /\ FstInv
  /\ \A n \in todo : Root(vocab, n)
  /\ Nodes(trie, phi) \subseteq DOMAIN encoderTransitions \cup todo
  /\ AllStored(vocab, encoderTransitions)
  /\ Phase(vocab, pc, todo, queue, sequences)

\* A text that goes on from a node is encoded in tokens.
LEMMA TargetIn ==
  ASSUME NEW v, GoodVocab(v), NEW n, Root(v, n), NEW rest \in Seq(ExtractCharacters(v))
  PROVE  Target(v, n, rest) \in Seq(v)
<1> DEFINE h == n.chain
           b == Pending(v, n.state)
           d == Cat(b, rest)
           l == LPM(v, d)
<1>1. h \in Seq(v) /\ b \in Seq(ExtractCharacters(v))
  BY BaseText DEF Root
<1> HIDE DEF h, b
<1>2. d \in Seq(ExtractCharacters(v))
  BY <1>1, CatAlgebra
<1> HIDE DEF d
<1>3. l \in Seq(v)
  BY <1>2, LPMKnown
<1> HIDE DEF l
<1>4. Cat(h, l) \in Seq(v)
  BY <1>1, <1>3, CatAlgebra
<1> QED
  BY <1>4 DEF Target, h, b, d, l

\* Where nothing is pending, no token is, and the exit outputs none.
LEMMA BareRoot ==
  ASSUME NEW v, GoodVocab(v), NEW n, Root(v, n), Base(v, n) = <<>>
  PROVE  n.chain = <<>> /\ Pending(v, n.state) = <<>>
<1> DEFINE E == ExtractCharacters(v)
           h == n.chain
           a == Flat(h)
           b == Pending(v, n.state)
<1>1. a \in Seq(E) /\ b \in Seq(E) /\ Cat(a, b) = <<>> /\ h \in Seq(v)
  BY BaseText DEF Base, Root
<1>2. Len(a) = 0 /\ Len(b) = 0
  <2> HIDE DEF a, b
  <2>1. Len(Cat(a, b)) = Len(a) + Len(b) /\ Len(a) \in Nat /\ Len(b) \in Nat
    BY <1>1, CatLen
  <2>2. \A i, j \in Nat : i + j = 0 => i = 0 /\ j = 0
    OBVIOUS
  <2>3. Len(a) + Len(b) = 0
    BY <1>1, <2>1
  <2> QED
    BY <2>1, <2>2, <2>3
<1>3. b = <<>>
  BY <1>1, <1>2
<1>4. h = <<>>
  <2> SUFFICES ASSUME h # <<>> PROVE FALSE
    OBVIOUS
  <2>1. Len(Flat(h)) > 0
    BY <1>1, TokensFlat
  <2> QED
    BY <1>2, <2>1
<1> QED
  BY <1>3, <1>4

\* What is found can be stored; where nothing is, nothing is pending.
LEMMA ResultStored ==
  ASSUME NEW v, GoodVocab(v), NEW n, Root(v, n), NEW S, Result(v, n, S)
  PROVE  /\ Stored(v, n, IF S = {} THEN {<<>>} ELSE S)
         /\ S = {} => n.chain = <<>> /\ Pending(v, n.state) = <<>>
<1> DEFINE E == ExtractCharacters(v)
           e == <<>>
<1>1. e \in Seq(E) /\ e \in Seq(v)
  OBVIOUS
<1>2. CASE Base(v, n) # <<>>
  <2>1. AllFound(v, n, S)
    BY <1>2 DEF Result
  <2>2. S # {}
    BY <1>1, <2>1 DEF AllFound
  <2> QED
    BY <2>1, <2>2 DEF Result, Stored, Candidate
<1>3. CASE Base(v, n) = <<>>
  <2>1. S = {}
    BY <1>3 DEF Result
  <2>2. n.chain = e /\ Pending(v, n.state) = e
    BY <1>3, BareRoot
  <2>3. ASSUME NEW rest \in Seq(E) PROVE Starts(v, e, Target(v, n, rest))
    <3> DEFINE t == Target(v, n, rest)
    <3>1. t \in Seq(v)
      BY TargetIn
    <3> HIDE DEF t
    <3>2. Cat(e, t) = t
      BY <3>1, CatAlgebra
    <3>3. Starts(v, e, t)
      BY <3>1, <3>2 DEF Starts
    <3> QED
      BY <3>3 DEF t
  <2>4. AllFound(v, n, {e})
    BY <2>3 DEF AllFound
  <2>5. OnwardTo(v, n, e, Flat(e))
    <3>1. Flat(e) = e
      BY FlatSmall
    <3>2. Starts(v, e, e) /\ Starts(E, e, e)
      <4> HIDE DEF E
      <4> QED
        BY <1>1, StartsSelf
    <3> QED
      BY <1>3, <2>2, <3>1, <3>2 DEF OnwardTo
  <2>6. Stored(v, n, {e})
    BY <1>1, <2>4, <2>5 DEF Stored
  <2> QED
    BY <2>1, <2>2, <2>6
<1> QED
  BY <1>2, <1>3

\* The next search begins.
LEMMA VisitBegins ==
  ASSUME NEW v, GoodVocab(v), NEW nodes, nodes # {}, \A n \in nodes : Root(v, n), NEW S, S = {}
  PROVE  Phase(v, "search", nodes, Visit(nodes), S)
<1> DEFINE n == First(nodes)
<1>1. n \in nodes
  BY DEF First
<1>2. Visit(nodes) = One(FirstVisit(n))
  BY DEF Visit, One, FirstVisit, Visited
<1> HIDE DEF n
<1>3. Root(v, n)
  BY <1>1
<1>4. Searching(v, n, Visit(nodes), {})
  BY <1>2, <1>3, SearchBegins
<1> QED
  BY <1>4 DEF Phase, n
-----------------------------------------------------------------------------
\* The invariant holds before the first search,
LEMMA SearchInit == CandidatesInit => SearchInv
<1> SUFFICES ASSUME CandidatesInit PROVE SearchInv
  OBVIOUS
<1>1. FstInv /\ GoodVocab(vocab)
  <2>1. FstInv
    BY DEF CandidatesInit, FstInv, PhiOf
  <2> QED
    BY <2>1, CharsFacts DEF FstInv
<1>2. /\ todo = Nodes(trie, phi) /\ pc = "search" /\ queue = Visit(todo) /\ sequences = {}
      /\ DOMAIN encoderTransitions = {}
  BY DEF CandidatesInit
<1>3. todo # {} /\ \A n \in todo : Root(vocab, n)
  BY <1>1, <1>2, NodesAreRoots
<1>4. Phase(vocab, "search", todo, Visit(todo), sequences)
  BY <1>1, <1>2, <1>3, VisitBegins
<1> QED
  BY <1>1, <1>2, <1>3, <1>4 DEF SearchInv, AllStored

\* a step of a search keeps it,
LEMMA SearchFollow == SearchInv /\ (Arrive \/ Follow) => SearchInv'
<1> SUFFICES ASSUME SearchInv, Arrive \/ Follow PROVE SearchInv'
  OBVIOUS
<1> DEFINE n == First(todo)
<1>1. /\ vocab' = vocab /\ trie' = trie /\ phi' = phi /\ todo' = todo /\ pc' = pc /\ pc = "search"
      /\ encoderTransitions' = encoderTransitions
  BY DEF Arrive, Follow, fstVars
<1>2. FstInv /\ GoodVocab(vocab)
  BY CharsFacts DEF SearchInv, FstInv
<1>3. todo # {} /\ Searching(vocab, n, queue, sequences)
  BY <1>1 DEF SearchInv, Phase
<1>4. n \in todo
  BY <1>3 DEF First
<1>5. Root(vocab, n)
  BY <1>4 DEF SearchInv
<1> HIDE DEF n
<1>6. queue \in Seq(SoundVisits(vocab)) /\ Layered(vocab, queue)
  BY <1>3 DEF Searching
<1>7. /\ queue # <<>> /\ Moves(vocab, Head(queue), queue, sequences, queue', sequences')
      /\ queue' \in Seq(SoundVisits(vocab)) /\ Layered(vocab, queue')
  BY <1>2, <1>6, SearchMoves
<1>8. Searching(vocab, n, queue', sequences')
  BY <1>2, <1>3, <1>5, <1>7, SearchGoesOn
<1>9. Phase(vocab, pc, todo, queue', sequences')
  BY <1>1, <1>3, <1>8 DEF Phase, n
<1>10. SearchInv' <=> /\ FstInv' /\ (\A r \in todo' : Root(vocab', r))
                      /\ Nodes(trie', phi') \subseteq DOMAIN encoderTransitions' \cup todo'
                      /\ AllStored(vocab', encoderTransitions')
                      /\ Phase(vocab', pc', todo', queue', sequences')
  BY DEF SearchInv
<1>11. FstInv'
  BY <1>1, <1>2 DEF FstInv
<1> QED
  BY <1>1, <1>9, <1>10, <1>11 DEF SearchInv

\* the filter does, and finds no tie,
LEMMA SearchFilter == SearchInv /\ Filter => SearchInv'
<1> SUFFICES ASSUME SearchInv, Filter PROVE SearchInv'
  OBVIOUS
<1> DEFINE n == First(todo)
<1>1. /\ vocab' = vocab /\ trie' = trie /\ phi' = phi /\ todo' = todo /\ pc = "search" /\ queue = <<>>
      /\ encoderTransitions' = encoderTransitions
  BY DEF Filter, fstVars
<1>2. FstInv /\ GoodVocab(vocab)
  BY CharsFacts DEF SearchInv, FstInv
<1>3. todo # {} /\ Searching(vocab, n, <<>>, sequences)
  BY <1>1 DEF SearchInv, Phase
<1>4. n \in todo
  BY <1>3 DEF First
<1>5. Root(vocab, n)
  BY <1>4 DEF SearchInv
<1> HIDE DEF n
<1>6. Found(vocab, n, sequences)
  BY <1>2, <1>3, SearchEnds
<1>7. ~Tie
  <2> SUFFICES ASSUME NEW r \in sequences, NEW s \in sequences, r # s, Flat(r) = Flat(s), Len(r) = Len(s)
               PROVE  FALSE
    BY DEF Tie, Flat
  <2> QED
    BY <1>2, <1>5, <1>6, NoTie
<1>8. Shortest = Kept(sequences)
  BY DEF Shortest, Kept, Flat
<1>9. pc' = "found" /\ sequences' = Kept(sequences)
  BY <1>7, <1>8 DEF Filter
<1>10. Result(vocab, n, Kept(sequences))
  BY <1>2, <1>3, <1>5, KeptResult
<1>11. Phase(vocab, pc', todo, queue', sequences')
  BY <1>3, <1>9, <1>10 DEF Phase, n
<1>12. SearchInv' <=> /\ FstInv' /\ (\A r \in todo' : Root(vocab', r))
                      /\ Nodes(trie', phi') \subseteq DOMAIN encoderTransitions' \cup todo'
                      /\ AllStored(vocab', encoderTransitions')
                      /\ Phase(vocab', pc', todo', queue', sequences')
  BY DEF SearchInv
<1>13. FstInv'
  BY <1>1, <1>2 DEF FstInv
<1> QED
  BY <1>1, <1>11, <1>12, <1>13 DEF SearchInv

\* and what is stored is what was found.
LEMMA SearchStore == SearchInv /\ Store => SearchInv'
<1> SUFFICES ASSUME SearchInv, Store PROVE SearchInv'
  OBVIOUS
<1> DEFINE n == First(todo)
           v == vocab
           R == IF sequences = {} THEN {<<>>} ELSE sequences
           T == encoderTransitions
           D == DOMAIN T \cup {n}
           less == todo \ {n}
<1>1. /\ vocab' = vocab /\ trie' = trie /\ phi' = phi /\ pc = "found"
      /\ todo' = less /\ queue' = Visit(todo') /\ sequences' = {}
      /\ T' = [m \in D |-> IF m # n THEN T[m] ELSE R]
      /\ pc' = IF sequences = {} /\ Unexpected(n) THEN "failed"
               ELSE IF todo' = {} THEN "ready" ELSE "search"
  BY DEF Store, fstVars
<1>2. FstInv /\ GoodVocab(v)
  BY CharsFacts DEF SearchInv, FstInv
<1>3. todo # {} /\ Result(v, n, sequences)
  BY <1>1 DEF SearchInv, Phase
<1>4. n \in todo
  BY <1>3 DEF First
<1>5. Root(v, n)
  BY <1>4 DEF SearchInv
<1> HIDE DEF n
<1>6. Stored(v, n, R) /\ (sequences = {} => n.chain = <<>> /\ Pending(v, n.state) = <<>>)
  BY <1>2, <1>3, <1>5, ResultStored
<1> HIDE DEF R
<1>7. ~(sequences = {} /\ Unexpected(n))
  <2> SUFFICES ASSUME sequences = {}, Unexpected(n) PROVE FALSE
    OBVIOUS
  <2> DEFINE E == ExtractCharacters(v)
             P == PhiOf(v)
             x == ExitOutput(Trie(v), P, n.state)
  <2>1. n.chain = <<>> /\ Pending(v, n.state) = <<>>
    BY <1>6
  <2>2. Minimal(E, v, P)
    BY <1>2, MinimizedWorks DEF PhiOf, Minimal
  <2>3. n.state \in Trie(v)
    BY <1>5 DEF Root
  <2>4. LPM(v, Pending(v, n.state)) = x
    <3> HIDE DEF P
    <3> QED
      BY <1>2, <2>2, <2>3, ExitKnown
  <2>5. x = <<>>
    BY <2>1, <2>4, LPMEmpty
  <2>6. ExitOutput(trie, phi, n.state) = x
    BY <1>2 DEF FstInv
  <2> QED
    BY <2>1, <2>5, <2>6 DEF Unexpected
<1>8. pc' = IF todo' = {} THEN "ready" ELSE "search"
  BY <1>1, <1>7
<1>9. \A r \in less : Root(v, r)
  BY DEF SearchInv
<1>10. Phase(v, pc', todo', queue', sequences')
  <2>1. CASE less = {}
    BY <1>1, <1>8, <2>1 DEF Phase
  <2>2. CASE less # {}
    <3> DEFINE S == {}
    <3>1. Phase(v, "search", less, Visit(less), S)
      <4> HIDE DEF less
      <4> QED
        BY <1>2, <1>9, <2>2, VisitBegins
    <3> QED
      BY <1>1, <1>8, <2>2, <3>1
  <2> QED
    BY <2>1, <2>2
<1>11. DOMAIN T' = D /\ \A m \in D : T'[m] = IF m # n THEN T[m] ELSE R
  <2> HIDE DEF D, T
  <2> QED
    BY <1>1
<1>12. AllStored(v, T')
  <2>1. \A m \in DOMAIN T : Stored(v, m, T[m])
    BY DEF SearchInv, AllStored
  <2>2. ASSUME NEW m \in D PROVE Stored(v, m, T'[m])
    BY <1>6, <1>11, <2>1
  <2> QED
    BY <1>11, <2>2 DEF AllStored
<1>13. Nodes(trie', phi') \subseteq DOMAIN T' \cup todo'
  <2>1. Nodes(trie, phi) \subseteq DOMAIN T \cup todo
    BY DEF SearchInv
  <2> QED
    BY <1>1, <1>11, <2>1
<1>14. SearchInv' <=> /\ FstInv' /\ (\A r \in todo' : Root(vocab', r))
                      /\ Nodes(trie', phi') \subseteq DOMAIN T' \cup todo'
                      /\ AllStored(vocab', T')
                      /\ Phase(vocab', pc', todo', queue', sequences')
  BY DEF SearchInv
<1>15. FstInv'
  BY <1>1, <1>2 DEF FstInv
<1> QED
  BY <1>1, <1>9, <1>10, <1>12, <1>13, <1>14, <1>15

\* Every step keeps it.
LEMMA SearchNext == SearchInv /\ [CandidatesNext]_candidatesVars => SearchInv'
<1> SUFFICES ASSUME SearchInv, [CandidatesNext]_candidatesVars PROVE SearchInv'
  OBVIOUS
<1>1. CASE CandidatesNext
  BY <1>1, SearchFollow, SearchFilter, SearchStore DEF CandidatesNext
<1>2. CASE UNCHANGED candidatesVars
  <2>1. /\ vocab' = vocab /\ trie' = trie /\ phi' = phi /\ todo' = todo /\ pc' = pc /\ queue' = queue
        /\ sequences' = sequences /\ encoderTransitions' = encoderTransitions
    BY <1>2 DEF candidatesVars, fstVars, searchVars
  <2> QED
    BY <2>1 DEF SearchInv, FstInv
<1> QED
  BY <1>1, <1>2

\* The invariant of the search holds always.
LEMMA AlwaysSearchInv == CandidatesSpec => []SearchInv
BY SearchInit, SearchNext, PTL DEF CandidatesSpec

\* No sequence begins another one while they are searched for, either.
LEMMA InvPrefixFree == SearchInv => PrefixFree
<1> SUFFICES ASSUME SearchInv, NEW r \in sequences, NEW s \in sequences, IsStrictPrefix(r, s)
             PROVE  FALSE
  BY DEF PrefixFree
<1> DEFINE v == vocab
           n == First(todo)
<1>1. /\ r \in Seq(v) /\ s \in Seq(v) /\ ~Strict(v, r, s)
  <2>1. CASE pc = "search"
    <3>1. Onward(v, n, queue, sequences) /\ Free(v, queue, sequences)
      BY <2>1 DEF SearchInv, Phase, Searching
    <3>2. r \in Seq(v) /\ s \in Seq(v)
      BY <3>1 DEF Onward
    <3>3. ~Grown(v, r, queue, sequences)
      BY <3>1, <3>2 DEF Free, Late
    <3> QED
      BY <3>2, <3>3 DEF Grown
  <2>2. CASE pc = "found"
    <3>1. Result(v, n, sequences)
      BY <2>2 DEF SearchInv, Phase
    <3> QED
      BY <3>1 DEF Result, Candidate
  <2>3. CASE pc = "ready"
    BY <2>3 DEF SearchInv, Phase
  <2> QED
    BY <2>1, <2>2, <2>3 DEF SearchInv, Phase
<1>2. IsPrefix(r, s) /\ r # s
  BY DEF IsStrictPrefix
<1>3. Starts(v, r, s)
  <2> HIDE DEF v
  <2> QED
    BY <1>1, <1>2, StartsIsPrefix
<1> QED
  BY <1>1, <1>2, <1>3 DEF Strict

\* A text of bounded length is a text.
LEMMA TextsAreTexts ==
  ASSUME NEW C, NEW n \in Nat, NEW x \in Texts(C, n)
  PROVE  x \in Seq(C)
<1>1. PICK k \in 0 .. n : x \in [1 .. k -> C]
  BY DEF Texts
<1> QED
  BY <1>1

\* Once the search has ended, it says that nothing was missed.
LEMMA InvNothingMissed == SearchInv => NothingMissed
<1> DEFINE n == First(todo)
           v == vocab
           E == ExtractCharacters(v)
<1> SUFFICES ASSUME SearchInv, pc = "found", n.chain = <<>>, n.state # Start, ~Leaf(trie, n.state),
                    NEW rest \in Texts(E, MaxRest)
             PROVE  \E s \in sequences : IsPrefix(s, LPM(v, n.state \o rest))
  BY DEF NothingMissed
<1>1. GoodVocab(v) /\ trie = Trie(v)
  BY CharsFacts DEF SearchInv, FstInv
<1>2. Result(v, n, sequences) /\ todo # {}
  BY DEF SearchInv, Phase
<1>3. n \in todo
  BY <1>2 DEF First
<1>4. Root(v, n)
  BY <1>3 DEF SearchInv
<1>5. rest \in Seq(E)
  BY CandidatesAssumption, TextsAreTexts
<1> HIDE DEF n
<1> DEFINE st == n.state
<1>6. st \in Seq(E) /\ st # <<>> /\ Pending(v, st) = st
  BY <1>1, <1>4, TrieFacts DEF Root, Pending, Rep, Start
<1>7. \A y \in Seq(E) : Cat(<<>>, y) = y
  BY CatAlgebra
<1>8. \A y \in Seq(v) : Cat(<<>>, y) = y
  BY CatAlgebra
<1>9. Base(v, n) # <<>>
  <2>1. Flat(n.chain) = <<>>
    BY FlatSmall
  <2>2. Base(v, n) = Cat(<<>>, st)
    BY <1>6, <2>1 DEF Base
  <2> QED
    BY <1>6, <1>7, <2>2
<1>10. PICK s \in sequences : Starts(v, s, Target(v, n, rest))
  BY <1>2, <1>5, <1>9 DEF Result, AllFound
<1>11. Target(v, n, rest) \in Seq(v) /\ s \in Seq(v)
  BY <1>1, <1>2, <1>4, <1>5, TargetIn DEF Result, Candidate
<1>12. IsPrefix(s, Target(v, n, rest))
  BY <1>10, <1>11, StartsIsPrefix
<1> DEFINE d == Cat(st, rest)
<1>13. d \in Seq(E)
  <2> HIDE DEF st, E
  <2> QED
    BY <1>5, <1>6, CatAlgebra
<1>14. Target(v, n, rest) = LPM(v, d)
  <2>1. Target(v, n, rest) = Cat(<<>>, LPM(v, d))
    BY <1>6 DEF Target
  <2>2. LPM(v, d) \in Seq(v)
    <3> HIDE DEF d
    <3> QED
      BY <1>1, <1>13, LPMKnown
  <2> QED
    BY <1>8, <2>1, <2>2
<1> QED
  BY <1>12, <1>14 DEF Cat

(* For every vocabulary: no candidate of a state begins with another one, so *)
(* that no completion is reached from two beams.                             *)
THEOREM CandidatesPrefixFree == CandidatesSpec => []PrefixFree
BY AlwaysSearchInv, InvPrefixFree, PTL

(* For every vocabulary: "This should not happen" does not, and no sequence  *)
(* is empty that should not be.                                              *)
THEOREM CandidatesSucceed == CandidatesSpec => []NoAssertionFails
<1>1. SearchInv => NoAssertionFails
  BY DEF SearchInv, Phase, NoAssertionFails
<1> QED
  BY <1>1, AlwaysSearchInv, PTL

(* For every vocabulary: however a text goes on from a state in which        *)
(* something is pending, its encoding begins with one of the candidates.     *)
THEOREM CandidatesComplete == CandidatesSpec => []NothingMissed
BY AlwaysSearchInv, InvNothingMissed, PTL
=============================================================================
