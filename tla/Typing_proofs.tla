--------------------------- MODULE Typing_proofs ---------------------------
(***************************************************************************)
(* Proofs about what is typed, for every vocabulary and every text, from   *)
(* what Candidates_proofs shows of the encoder FST and its candidates.     *)
(*                                                                         *)
(* EncInv says of all that was read: what was output and what is pending   *)
(* in the state are its longest-prefix-match encoding, whatever follows.   *)
(* TextInv says that no character of it was lost: the texts of the labels, *)
(* with the unknown characters kept aside, and what is pending are the     *)
(* text.  From both follow, of a line that ends here, what encode.cc       *)
(* writes (WrittenIsLine), and of a query, where the candidates lead       *)
(* (LineReachable) and that every suggestion begins with it, for which     *)
(* Split and Join are shown to merge blanks and to keep all else.          *)
(***************************************************************************)
EXTENDS Typing, Candidates_proofs, TLAPS

(* The definitions of Read are those of EncoderFst. *)

\* Characters, states, leaves and the start state.
LEMMA ReadDefs ==
  /\ \A v : Read!ExtractCharacters(v) = ExtractCharacters(v) /\ Read!Trie(v) = Trie(v)
  /\ \A tr, s : Read!Leaf(tr, s) = Leaf(tr, s)
  /\ Read!Start = Start
<1>1. \A v : Read!ExtractCharacters(v) = ExtractCharacters(v) /\ Read!Trie(v) = Trie(v)
  BY DEF Read!ExtractCharacters, ExtractCharacters, Read!Trie, Trie, Read!ToSet, ToSet
<1>2. \A tr, s : Read!Leaf(tr, s) = Leaf(tr, s)
  BY DEF Read!Leaf, Leaf, Read!Start, Start, Read!IsStrictPrefix, IsStrictPrefix,
         Read!IsPrefix, IsPrefix
<1>3. Read!Start = Start
  BY DEF Read!Start, Start
<1> QED
  BY <1>1, <1>2, <1>3

\* The encoder of Typing is the one of EncoderFst.
LEMMA ReadLPM ==
  ASSUME NEW v, NEW x
  PROVE  Read!LPM(v, x) = LPM(v, x)
BY DEF Read!LPM, LPM, Read!LongestMatch, LongestMatch, Read!Suffix, Suffix

\* A transition on a character.
LEMMA ReadMakeTransitions ==
  ASSUME NEW tr, NEW P, NEW s, NEW c
  PROVE  Read!MakeTransitions(tr, P, s, c) = MakeTransitions(tr, P, s, c)
BY DEF Read!MakeTransitions, MakeTransitions, Read!Find, Find, Read!Leaf, Leaf,
       Read!Start, Start, Read!IsStrictPrefix, IsStrictPrefix, Read!IsPrefix, IsPrefix

\* The way back to the start state.
LEMMA ReadExitOutput ==
  ASSUME NEW tr, NEW P, NEW s
  PROVE  Read!ExitOutput(tr, P, s) = ExitOutput(tr, P, s)
BY DEF Read!ExitOutput, ExitOutput, Read!Start, Start

\* The phi arcs.
LEMMA ReadPhi ==
  ASSUME NEW v
  PROVE  Read!Minimized(Read!Trie(v), Read!PhiTable(v)) = Minimized(Trie(v), PhiTable(v))
<1>1. Read!Trie(v) = Trie(v) /\ Read!Start = Start
  BY ReadDefs
<1>3. Read!PhiTable(v) = PhiTable(v)
  BY DEF Read!PhiTable, PhiTable, Read!Trie, Trie, Read!Front, Front, Read!Last, Last,
         Read!MakeTransitions, MakeTransitions, Read!Find, Find, Read!Leaf, Leaf,
         Read!Start, Start, Read!IsStrictPrefix, IsStrictPrefix, Read!IsPrefix, IsPrefix
<1>4. \A tr, P : Read!Minimized(tr, P) = Minimized(tr, P)
  BY ReadDefs DEF Read!Minimized, Minimized
<1> QED
  BY <1>1, <1>3, <1>4
-----------------------------------------------------------------------------
(* Labels *)

LabelAt(v, t) == IF t \in v THEN t ELSE Unk
Lab(v, tokens) == [i \in DOMAIN tokens |-> LabelAt(v, tokens[i])]
LabelSet(v) == v \cup {Unk}

\* The labels of an encoding: one for every token.
LEMMA LabType ==
  ASSUME NEW C, NEW v, NEW a \in Seq(C)
  PROVE  /\ Lab(v, a) \in Seq(LabelSet(v)) /\ Len(Lab(v, a)) = Len(a) /\ Len(a) \in Nat
         /\ \A i \in 1 .. Len(a) : Lab(v, a)[i] = LabelAt(v, a[i])
<1> DEFINE L == LabelSet(v)
           n == Len(a)
<1>1. n \in Nat /\ DOMAIN a = 1 .. n
  OBVIOUS
<1> HIDE DEF n
<1>2. \A t : LabelAt(v, t) \in L
  BY DEF LabelAt, LabelSet
<1>3. Lab(v, a) = [i \in 1 .. n |-> LabelAt(v, a[i])]
  BY <1>1 DEF Lab
<1> HIDE DEF L
<1>4. [i \in 1 .. n |-> LabelAt(v, a[i])] \in Seq(L)
  BY <1>1, <1>2
<1>5. Lab(v, a) \in Seq(L) /\ DOMAIN Lab(v, a) = 1 .. n
  BY <1>3, <1>4
<1>6. Len(Lab(v, a)) = n
  BY <1>1, <1>5, LenProperties
<1>7. \A i \in 1 .. n : Lab(v, a)[i] = LabelAt(v, a[i])
  BY <1>3
<1> QED
  BY <1>1, <1>5, <1>6, <1>7 DEF L, n

\* No token, no label.
LEMMA LabEmpty == \A v : Lab(v, <<>>) = <<>>
<1>0. SUFFICES ASSUME NEW v, NEW e, e = <<>> PROVE Lab(v, e) = <<>>
  OBVIOUS
<1>1. e \in Seq(Nat) /\ Len(e) = 0
  BY <1>0
<1>2. \A a \in Seq(Nat) : Lab(v, a) \in Seq(LabelSet(v)) /\ Len(Lab(v, a)) = Len(a)
  BY LabType
<1>3. Lab(v, e) \in Seq(LabelSet(v)) /\ Len(Lab(v, e)) = 0
  BY <1>1, <1>2
<1> QED
  BY <1>3, EmptySeq

\* The labels of two encodings, one after the other.
LEMMA LabCat ==
  ASSUME NEW C, NEW v, NEW a \in Seq(C), NEW b \in Seq(C)
  PROVE  Lab(v, Cat(a, b)) = Cat(Lab(v, a), Lab(v, b))
<1> DEFINE L == LabelSet(v)
           x == Cat(a, b)
           l == Lab(v, a)
           m == Lab(v, b)
           y == Cat(l, m)
<1>1. /\ x \in Seq(C) /\ Len(x) = Len(a) + Len(b) /\ Len(a) \in Nat /\ Len(b) \in Nat
      /\ \A i \in 1 .. Len(a) : x[i] = a[i]
      /\ \A i \in 1 .. Len(b) : x[Len(a) + i] = b[i]
  <2>1. x \in Seq(C) /\ Len(x) = Len(a) + Len(b) /\ Len(a) \in Nat /\ Len(b) \in Nat
    BY ConcatParts
  <2>2. \A i \in 1 .. Len(a) : x[i] = a[i]
    BY ConcatParts
  <2>3. \A i \in 1 .. Len(b) : x[Len(a) + i] = b[i]
    BY ConcatParts
  <2> QED
    BY <2>1, <2>2, <2>3
<1>2. l \in Seq(L) /\ Len(l) = Len(a) /\ \A i \in 1 .. Len(a) : l[i] = LabelAt(v, a[i])
  BY LabType
<1>3. m \in Seq(L) /\ Len(m) = Len(b) /\ \A i \in 1 .. Len(b) : m[i] = LabelAt(v, b[i])
  BY LabType
<1> HIDE DEF L, x, l, m
<1>4. /\ y \in Seq(L) /\ Len(y) = Len(l) + Len(m)
      /\ \A i \in 1 .. Len(l) : y[i] = l[i]
      /\ \A i \in 1 .. Len(m) : y[Len(l) + i] = m[i]
  <2>1. l \in Seq(L) /\ m \in Seq(L)
    BY <1>2, <1>3
  <2>2. y \in Seq(L) /\ Len(y) = Len(l) + Len(m)
    BY <2>1, ConcatParts
  <2>3. \A i \in 1 .. Len(l) : y[i] = l[i]
    BY <2>1, ConcatParts
  <2>4. \A i \in 1 .. Len(m) : y[Len(l) + i] = m[i]
    BY <2>1, ConcatParts
  <2> QED
    BY <2>2, <2>3, <2>4
<1> HIDE DEF y
<1>5. /\ Lab(v, x) \in Seq(L) /\ Len(Lab(v, x)) = Len(x)
      /\ \A i \in 1 .. Len(x) : Lab(v, x)[i] = LabelAt(v, x[i])
  BY <1>1, LabType DEF L
<1>6. \A i \in 1 .. Len(x) : Lab(v, x)[i] = y[i]
  <2> SUFFICES ASSUME NEW i \in 1 .. Len(x) PROVE Lab(v, x)[i] = y[i]
    OBVIOUS
  <2>1. CASE i \in 1 .. Len(a)
    <3>1. x[i] = a[i] /\ y[i] = l[i] /\ l[i] = LabelAt(v, a[i])
      BY <1>1, <1>2, <1>4, <2>1
    <3> QED
      BY <1>5, <3>1
  <2>2. CASE i \notin 1 .. Len(a)
    <3> DEFINE j == i - Len(a)
    <3>1. j \in 1 .. Len(b) /\ i = Len(a) + j
      BY <1>1, <2>2
    <3> HIDE DEF j
    <3>2. x[i] = b[j] /\ y[i] = m[j] /\ m[j] = LabelAt(v, b[j])
      BY <1>1, <1>2, <1>3, <1>4, <3>1
    <3> QED
      BY <1>5, <3>2
  <2> QED
    BY <2>1, <2>2
<1>7. Len(Lab(v, x)) = Len(y)
  BY <1>1, <1>2, <1>3, <1>4, <1>5
<1>8. Lab(v, x) = y
  BY <1>4, <1>5, <1>6, <1>7, SeqEqual
<1> QED
  BY <1>8 DEF x, y, l, m

\* Tokens are their own labels.
LEMMA LabKnown ==
  ASSUME NEW v, NEW a \in Seq(v)
  PROVE  Lab(v, a) = a
<1>1. /\ Lab(v, a) \in Seq(LabelSet(v)) /\ Len(Lab(v, a)) = Len(a) /\ Len(a) \in Nat
      /\ \A i \in 1 .. Len(a) : Lab(v, a)[i] = LabelAt(v, a[i])
  BY LabType
<1>2. \A i \in 1 .. Len(a) : Lab(v, a)[i] = a[i]
  BY <1>1, ElementOfSeq DEF LabelAt
<1>3. a \in Seq(LabelSet(v))
  BY SeqMonotonic DEF LabelSet
<1> QED
  BY <1>1, <1>2, <1>3, SeqEqual

(* Reading *)

BegunText(v, tx) == IF Leaf(Trie(v), <<Space>>) THEN tx ELSE Cat(<<Space>>, tx)

\* Whatever follows a text: what was output for it, and the encoding of what
\* follows from the state on, are the encoding of the whole.
Tracks(v, C, tx, st, ol) ==
  \A rest \in Seq(C) :
    Lab(v, LPM(v, Cat(BegunText(v, tx), rest))) = Cat(ol, Lab(v, LPM(v, Cat(Pending(v, st), rest))))

\* Reading a character moves it from what may follow to what was read.
LEMMA BegunOn ==
  ASSUME NEW C, NEW v, NEW tx \in Seq(C), NEW c \in C, NEW rest \in Seq(C), Space \in C
  PROVE  /\ Cat(BegunText(v, Append(tx, c)), rest) = Cat(BegunText(v, tx), Cat(One(c), rest))
         /\ Append(tx, c) \in Seq(C) /\ BegunText(v, tx) \in Seq(C)
<1> DEFINE next == Append(tx, c)
           one == One(c)
           b == <<Space>>
<1>1. next \in Seq(C) /\ next = Cat(tx, one) /\ one \in Seq(C) /\ b \in Seq(C)
  BY AppendProperties, CatAlgebra
<1> HIDE DEF next, one, b
<1>2. /\ \A x, y \in Seq(C) : Cat(x, y) \in Seq(C)
      /\ \A x, y, z \in Seq(C) : Cat(Cat(x, y), z) = Cat(x, Cat(y, z))
  BY CatAlgebra
<1>3. Cat(next, rest) = Cat(tx, Cat(one, rest))
  BY <1>1, <1>2
<1>4. Cat(Cat(b, next), rest) = Cat(Cat(b, tx), Cat(one, rest))
  <2>1. Cat(Cat(b, next), rest) = Cat(b, Cat(next, rest))
    BY <1>1, <1>2
  <2>2. Cat(one, rest) \in Seq(C)
    BY <1>1, <1>2
  <2>3. Cat(Cat(b, tx), Cat(one, rest)) = Cat(b, Cat(tx, Cat(one, rest)))
    BY <1>1, <1>2, <2>2
  <2> QED
    BY <1>3, <2>1, <2>3
<1>5. BegunText(v, tx) = (IF Leaf(Trie(v), b) THEN tx ELSE Cat(b, tx))
      /\ BegunText(v, next) = (IF Leaf(Trie(v), b) THEN next ELSE Cat(b, next))
  BY DEF BegunText, b
<1>6. BegunText(v, tx) \in Seq(C)
  BY <1>1, <1>2, <1>5
<1>7. Cat(BegunText(v, next), rest) = Cat(BegunText(v, tx), Cat(one, rest))
  BY <1>3, <1>4, <1>5
<1> QED
  BY <1>1, <1>6, <1>7 DEF next, one

\* A known character: what was output and what is pending still come to the
\* encoding of all that was read, whatever follows.
LEMMA KnownStep ==
  ASSUME NEW C, NEW v, NEW P, NEW tx \in Seq(C), NEW st \in Trie(v), NEW ol \in Seq(LabelSet(v)),
         NEW c \in ExtractCharacters(v), NEW step,
         GoodVocab(v), ExtractCharacters(v) \subseteq C, Space \in C, Minimal(C, v, P),
         Minimal(ExtractCharacters(v), v, P),
         step = MakeTransitions(Trie(v), P, st, c), Tracks(v, C, tx, st, ol)
  PROVE  /\ Tracks(v, C, Append(tx, c), step.to, Cat(ol, step.out))
         /\ step.to \in Trie(v) /\ Cat(ol, step.out) \in Seq(LabelSet(v))
<1> DEFINE E == ExtractCharacters(v)
           L == LabelSet(v)
           rep == Pending(v, st)
<1>0. c \in C /\ Len(st) \in Nat
  BY TrieLen
<1>1. Moved(C, v, rep, Len(st), c, step) /\ Moved(E, v, rep, Len(st), c, step)
  <2>1. Table(C, v, TRUE, P, Len(st)) /\ Table(E, v, TRUE, P, Len(st))
    BY DEF Works, Minimal, Table
  <2>2. Moved(C, v, Pending(v, st), Len(st), c, MakeTransitions(Trie(v), P, st, c))
    BY <2>1, GoRight DEF Pending
  <2>3. Moved(E, v, Pending(v, st), Len(st), c, MakeTransitions(Trie(v), P, st, c))
    BY <2>1, GoRight DEF Pending
  <2> QED
    BY <2>2, <2>3
<1>2. step.out \in Seq(Seq(C)) /\ step.to \in Trie(v) /\ step.to \in Seq(C) /\ Pending(v, step.to) = step.to
  BY <1>1, TrieIn DEF Moved, Rep, Pending
<1>3. step.out \in Seq(v)
  <2>1. /\ step.out \in Seq(Seq(E)) /\ step.to \in Seq(E)
    BY <1>1, TrieFacts DEF Moved
  <2> DEFINE more == Cat(One(c), <<>>)
             end == LPM(v, Cat(step.to, <<>>))
  <2>2. <<>> \in Seq(E) /\ more \in Seq(E)
    BY CatAlgebra
  <2>3. LPM(v, Cat(rep, more)) = Cat(step.out, end)
    BY <1>1, <2>2 DEF Moved, Leads
  <2>4. rep \in Seq(E)
    BY RepIn
  <2> HIDE DEF more
  <2>5. Cat(rep, more) \in Seq(E) /\ Cat(step.to, <<>>) \in Seq(E)
    BY <2>1, <2>2, <2>4, CatAlgebra
  <2>6. LPM(v, Cat(rep, more)) \in Seq(v)
    BY <2>5, LPMKnown
  <2>7. end \in Seq(Seq(E))
    BY <2>5, LPMType
  <2> HIDE DEF end
  <2>8. Cat(step.out, end) \in Seq(v)
    BY <2>3, <2>6
  <2> QED
    BY <2>1, <2>7, <2>8, FirstPart
<1>4. Lab(v, step.out) = step.out /\ step.out \in Seq(L)
  <2>1. step.out \in Seq(L)
    BY <1>3, SeqMonotonic DEF LabelSet
  <2> QED
    BY <1>3, <2>1, LabKnown
<1> HIDE DEF L, rep
<1>5. ol \in Seq(L)
  BY DEF L
<1>6. /\ \A x, y \in Seq(L) : Cat(x, y) \in Seq(L)
      /\ \A x, y, z \in Seq(L) : Cat(Cat(x, y), z) = Cat(x, Cat(y, z))
  BY CatAlgebra
<1>7. ASSUME NEW rest \in Seq(C)
      PROVE  Lab(v, LPM(v, Cat(BegunText(v, Append(tx, c)), rest)))
               = Cat(Cat(ol, step.out), Lab(v, LPM(v, Cat(Pending(v, step.to), rest))))
  <2> DEFINE more == Cat(One(c), rest)
             end == LPM(v, Cat(step.to, rest))
  <2>1. more \in Seq(C)
    BY <1>0, CatAlgebra
  <2>2. Cat(BegunText(v, Append(tx, c)), rest) = Cat(BegunText(v, tx), more)
    BY <1>0, BegunOn
  <2>3. LPM(v, Cat(rep, more)) = Cat(step.out, end)
    BY <1>1 DEF Moved, Leads
  <2>4. end \in Seq(Seq(C))
    <3>1. Cat(step.to, rest) \in Seq(C)
      BY <1>2, CatAlgebra
    <3> QED
      BY <3>1, LPMType
  <2> HIDE DEF more
  <2>5. Lab(v, LPM(v, Cat(BegunText(v, tx), more))) = Cat(ol, Lab(v, LPM(v, Cat(rep, more))))
    BY <2>1 DEF Tracks, rep
  <2>6. end = LPM(v, Cat(Pending(v, step.to), rest))
    BY <1>2
  <2> HIDE DEF end
  <2>7. Lab(v, Cat(step.out, end)) = Cat(step.out, Lab(v, end)) /\ Lab(v, end) \in Seq(L)
    <3>1. Lab(v, Cat(step.out, end)) = Cat(Lab(v, step.out), Lab(v, end))
      BY <1>2, <2>4, LabCat
    <3>2. Lab(v, end) \in Seq(L)
      BY <2>4, LabType DEF L
    <3> QED
      BY <1>4, <3>1, <3>2
  <2>8. Cat(ol, Cat(step.out, Lab(v, end))) = Cat(Cat(ol, step.out), Lab(v, end))
    BY <1>4, <1>5, <1>6, <2>7
  <2> QED
    BY <2>2, <2>3, <2>5, <2>6, <2>7, <2>8
<1>8. Cat(ol, step.out) \in Seq(L)
  BY <1>4, <1>5, <1>6
<1> QED
  BY <1>2, <1>7, <1>8 DEF Tracks, L

\* An unknown character: the pending state is left, and unk is output.
LEMMA UnknownStep ==
  ASSUME NEW C, NEW v, NEW P, NEW tx \in Seq(C), NEW st \in Trie(v), NEW ol \in Seq(LabelSet(v)),
         NEW c \in C, c \notin ExtractCharacters(v), NEW x,
         GoodVocab(v), ExtractCharacters(v) \subseteq C, Space \in C, Minimal(C, v, P),
         Minimal(ExtractCharacters(v), v, P),
         x = ExitOutput(Trie(v), P, st), Tracks(v, C, tx, st, ol)
  PROVE  /\ Tracks(v, C, Append(tx, c), Start, Cat(ol, Cat(x, One(Unk))))
         /\ Start \in Trie(v) /\ Cat(ol, Cat(x, One(Unk))) \in Seq(LabelSet(v))
<1> DEFINE L == LabelSet(v)
           rep == Pending(v, st)
           u == One(Unk)
           t == One(One(c))
<1>1. x \in Seq(v) /\ x \in Seq(Seq(C))
  BY ExitKnown
<1>2. Lab(v, x) = x /\ x \in Seq(L) /\ ol \in Seq(L)
  <2>1. x \in Seq(L)
    BY <1>1, SeqMonotonic DEF LabelSet
  <2> QED
    BY <1>1, <2>1, LabKnown
<1>3. u \in Seq(L)
  BY CatAlgebra DEF LabelSet
<1>4. t \in Seq(Seq(C)) /\ Lab(v, t) = u
  <2>1. One(c) \in Seq(C) /\ t \in Seq(Seq(C))
    BY CatAlgebra
  <2>2. One(c) \notin v
    <3> SUFFICES ASSUME One(c) \in v PROVE FALSE
      OBVIOUS
    <3>1. One(c) \in Seq(ExtractCharacters(v)) /\ Len(One(c)) = 1 /\ One(c)[1] = c
      BY DEF GoodVocab, One
    <3>2. 1 \in 1 .. Len(One(c))
      BY <3>1
    <3>3. One(c)[1] \in ExtractCharacters(v)
      BY <3>1, <3>2, ElementOfSeq
    <3> QED
      BY <3>1, <3>3
  <2>3. Len(t) = 1 /\ t[1] = One(c)
    BY DEF One
  <2> HIDE DEF t
  <2>4. Len(Lab(v, t)) = 1 /\ Lab(v, t) \in Seq(L) /\ \A i \in 1 .. Len(t) : Lab(v, t)[i] = LabelAt(v, t[i])
    BY <2>1, <2>3, LabType
  <2>5. Lab(v, t)[1] = Unk
    <3>1. 1 \in 1 .. Len(t)
      BY <2>3
    <3>2. Lab(v, t)[1] = LabelAt(v, t[1])
      BY <2>4, <3>1
    <3> QED
      BY <2>2, <2>3, <3>2 DEF LabelAt
  <2>6. Len(u) = 1 /\ u[1] = Unk
    BY DEF One
  <2> HIDE DEF u
  <2>7. \A i \in 1 .. 1 : Lab(v, t)[i] = u[i]
    BY <2>5, <2>6
  <2> HIDE DEF L
  <2>8. Lab(v, t) = u
    BY <1>3, <2>4, <2>6, <2>7, SeqEqual
  <2> QED
    BY <2>1, <2>8 DEF t
<1> HIDE DEF L, rep, u, t
<1>5. /\ \A a, b \in Seq(L) : Cat(a, b) \in Seq(L)
      /\ \A a, b, d \in Seq(L) : Cat(Cat(a, b), d) = Cat(a, Cat(b, d))
  BY CatAlgebra
<1>6. ASSUME NEW rest \in Seq(C)
      PROVE  Lab(v, LPM(v, Cat(BegunText(v, Append(tx, c)), rest)))
               = Cat(Cat(ol, Cat(x, u)), Lab(v, LPM(v, Cat(Pending(v, Start), rest))))
  <2> DEFINE more == Cat(One(c), rest)
             end == LPM(v, rest)
             after == LPM(v, more)
  <2>1. more \in Seq(C)
    BY CatAlgebra
  <2>2. Cat(BegunText(v, Append(tx, c)), rest) = Cat(BegunText(v, tx), more)
    BY BegunOn
  <2>3. after = Cat(t, end)
    BY LPMUnknown DEF t
  <2>4. end \in Seq(Seq(C)) /\ after \in Seq(Seq(C))
    BY <2>1, LPMType
  <2>5. Quiet(v, more)
    BY QuietAtUnknown DEF Quiet
  <2>6. Pending(v, Start) = Start /\ Cat(Start, rest) = rest
    BY StartFacts DEF Rep, Pending
  <2> HIDE DEF more
  <2>7. LPM(v, Cat(rep, more)) = Cat(x, after)
    <3>1. LPM(v, Cat(Pending(v, st), more)) = Cat(ExitOutput(Trie(v), P, st), LPM(v, more))
      BY <2>1, <2>5, ExitRight
    <3> QED
      BY <3>1 DEF rep
  <2>8. Lab(v, LPM(v, Cat(BegunText(v, tx), more))) = Cat(ol, Lab(v, LPM(v, Cat(rep, more))))
    BY <2>1 DEF Tracks, rep
  <2> HIDE DEF after, end
  <2>9. Lab(v, Cat(x, after)) = Cat(x, Lab(v, after))
    <3>1. Lab(v, Cat(x, after)) = Cat(Lab(v, x), Lab(v, after))
      BY <1>1, <2>4, LabCat
    <3> QED
      BY <1>2, <3>1
  <2>10. Lab(v, Cat(t, end)) = Cat(u, Lab(v, end))
    <3>1. Lab(v, Cat(t, end)) = Cat(Lab(v, t), Lab(v, end))
      BY <1>4, <2>4, LabCat
    <3> QED
      BY <1>4, <3>1
  <2>11. Lab(v, end) \in Seq(L)
    BY <2>4, LabType DEF L
  <2> DEFINE e == Lab(v, end)
  <2> HIDE DEF e
  <2>12. Cat(ol, Cat(x, Cat(u, e))) = Cat(Cat(ol, Cat(x, u)), e)
    <3>1. e \in Seq(L) /\ x \in Seq(L) /\ u \in Seq(L) /\ ol \in Seq(L)
      BY <1>2, <1>3, <2>11 DEF e
    <3>2. Cat(x, Cat(u, e)) = Cat(Cat(x, u), e) /\ Cat(x, u) \in Seq(L)
      BY <1>5, <3>1
    <3>3. Cat(ol, Cat(Cat(x, u), e)) = Cat(Cat(ol, Cat(x, u)), e)
      BY <1>5, <3>1, <3>2
    <3> QED
      BY <3>2, <3>3
  <2>13. Lab(v, LPM(v, Cat(BegunText(v, Append(tx, c)), rest))) = Cat(Cat(ol, Cat(x, u)), e)
    BY <2>2, <2>3, <2>7, <2>8, <2>9, <2>10, <2>12 DEF e
  <2> QED
    BY <2>6, <2>13 DEF e, end
<1>7. Cat(ol, Cat(x, u)) \in Seq(L)
  BY <1>2, <1>3, <1>5 DEF L
<1>8. Start \in Trie(v)
  BY TrieFacts DEF Start
<1> QED
  BY <1>6, <1>7, <1>8 DEF Tracks, L, u
-----------------------------------------------------------------------------
(* The specification *)

\* What may be read.
CharsOf(v) == ExtractCharacters(v) \cup {Spaced(<<c>>)[1] : c \in Typed}

EncInv ==
  /\ vocab \in Vocabs /\ trie = Trie(vocab) /\ phi = Minimized(Trie(vocab), PhiTable(vocab))
  /\ text \in Seq(CharsOf(vocab)) /\ state \in Trie(vocab) /\ olabels \in Seq(LabelSet(vocab))
  /\ Tracks(vocab, CharsOf(vocab), text, state, olabels)

\* What the vocabularies and the tables built from them are.
LEMMA VocabFacts ==
  ASSUME NEW v \in Vocabs
  PROVE  /\ GoodVocab(v) /\ Space \in ExtractCharacters(v) /\ <<Space>> \in Trie(v)
         /\ ExtractCharacters(v) \subseteq CharsOf(v) /\ Space \in CharsOf(v)
         /\ Minimal(CharsOf(v), v, Minimized(Trie(v), PhiTable(v)))
         /\ Minimal(ExtractCharacters(v), v, Minimized(Trie(v), PhiTable(v)))
<1> DEFINE E == ExtractCharacters(v)
<1>1. /\ IsFiniteSet(v) /\ v \subseteq Seq(E) /\ <<Space>> \in v
      /\ (\A t \in v : t # <<>>) /\ \A c \in E : <<c>> \in v
  <2>1. <<Space>> \in v
    BY TypingAssumption DEF Read!VocabulariesOK
  <2>2. VocabularyOK(v)
    BY CandidatesAssumption
  <2> QED
    BY <2>1, <2>2 DEF VocabularyOK
<1>2. GoodVocab(v)
  BY <1>1 DEF GoodVocab
<1>3. Space \in E
  <2>1. <<Space>> \in Seq(E)
    BY <1>1
  <2>2. Len(<<Space>>) = 1 /\ <<Space>>[1] = Space
    OBVIOUS
  <2>3. <<Space>>[1] \in E
    <3> HIDE DEF E
    <3> QED
      BY <2>1, <2>2, ElementOfSeq
  <2> QED
    BY <2>2, <2>3
<1>4. <<Space>> \in Trie(v)
  BY <1>1, <1>2, TrieFacts
<1>5. E \subseteq CharsOf(v)
  BY DEF CharsOf
<1>6. Minimal(CharsOf(v), v, Minimized(Trie(v), PhiTable(v))) /\ Minimal(E, v, Minimized(Trie(v), PhiTable(v)))
  BY <1>2, <1>5, MinimizedWorks DEF Minimal
<1> QED
  BY <1>2, <1>3, <1>4, <1>5, <1>6

\* The invariant holds at the space a text begins with,
LEMMA EncInit == Init => EncInv
<1> SUFFICES ASSUME Init PROVE EncInv
  OBVIOUS
<1> DEFINE C == CharsOf(vocab)
           b == <<Space>>
<1>1. /\ vocab \in Vocabs /\ trie = Trie(vocab) /\ phi = Minimized(Trie(vocab), PhiTable(vocab))
      /\ text = <<>> /\ state = b /\ olabels = <<>>
  BY ReadDefs, ReadPhi DEF Init, CandidatesInit, Read!Init, Read!Begin
<1>2. b \in Trie(vocab) /\ GoodVocab(vocab) /\ ExtractCharacters(vocab) \subseteq C
  BY <1>1, VocabFacts
<1>3. <<>> \in Seq(C) /\ <<>> \in Seq(LabelSet(vocab))
  OBVIOUS
<1>4. b \in Seq(C)
  BY <1>2, TrieIn
<1>5. BegunText(vocab, text) = Pending(vocab, state) /\ Pending(vocab, state) \in Seq(C)
  <2>1. Cat(b, <<>>) = b
    BY <1>4, CatAlgebra
  <2>2. BegunText(vocab, <<>>) = IF Leaf(Trie(vocab), b) THEN <<>> ELSE b
    BY <2>1 DEF BegunText
  <2>3. Pending(vocab, b) = IF Leaf(Trie(vocab), b) THEN <<>> ELSE b
    BY DEF Pending, Rep, Start
  <2> QED
    BY <1>1, <1>3, <1>4, <2>2, <2>3
<1> HIDE DEF C, b
<1>6. ASSUME NEW rest \in Seq(C)
      PROVE  Lab(vocab, LPM(vocab, Cat(BegunText(vocab, text), rest)))
               = Cat(olabels, Lab(vocab, LPM(vocab, Cat(Pending(vocab, state), rest))))
  <2> DEFINE x == LPM(vocab, Cat(Pending(vocab, state), rest))
  <2>1. x \in Seq(Seq(C))
    <3>1. Cat(Pending(vocab, state), rest) \in Seq(C)
      BY <1>5, CatAlgebra
    <3> QED
      BY <3>1, LPMType
  <2> HIDE DEF x
  <2>2. Lab(vocab, x) \in Seq(LabelSet(vocab))
    BY <2>1, LabType
  <2>3. Cat(<<>>, Lab(vocab, x)) = Lab(vocab, x)
    BY <2>2, CatAlgebra
  <2> QED
    BY <1>1, <1>5, <2>3 DEF x
<1>7. Tracks(vocab, C, text, state, olabels)
  BY <1>6 DEF Tracks
<1> QED
  BY <1>1, <1>2, <1>3, <1>7 DEF EncInv, C, b

\* a known character keeps it,
LEMMA EncReadKnown ==
  ASSUME EncInv, NEW c, Read!ReadKnown(c)
  PROVE  EncInv'
<1> DEFINE v == vocab
           C == CharsOf(vocab)
           P == Minimized(Trie(vocab), PhiTable(vocab))
           step == MakeTransitions(Trie(vocab), P, state, c)
<1>1. /\ vocab \in Vocabs /\ trie = Trie(vocab) /\ phi = P
      /\ text \in Seq(C) /\ state \in Trie(vocab) /\ olabels \in Seq(LabelSet(vocab))
      /\ Tracks(vocab, C, text, state, olabels)
  BY DEF EncInv
<1>2. /\ c \in ExtractCharacters(vocab) /\ text' = Append(text, c) /\ state' = step.to
      /\ olabels' = Cat(olabels, step.out)
      /\ vocab' = vocab /\ trie' = trie /\ phi' = phi
  <2>1. Read!MakeTransitions(trie, phi, state, c) = step
    BY <1>1, ReadMakeTransitions
  <2> HIDE DEF step
  <2> QED
    BY <2>1, ReadDefs DEF Read!ReadKnown, Cat
<1>3. /\ GoodVocab(v) /\ ExtractCharacters(v) \subseteq C /\ Space \in C
      /\ Minimal(C, v, P) /\ Minimal(ExtractCharacters(v), v, P)
  BY <1>1, VocabFacts
<1> HIDE DEF C, P
<1>4. step = MakeTransitions(Trie(v), P, state, c)
  OBVIOUS
<1> HIDE DEF step
<1>5. /\ Tracks(v, C, Append(text, c), step.to, Cat(olabels, step.out))
      /\ step.to \in Trie(v) /\ Cat(olabels, step.out) \in Seq(LabelSet(v))
  BY <1>1, <1>2, <1>3, <1>4, KnownStep
<1>6. Append(text, c) \in Seq(C)
  BY <1>1, <1>2, <1>3, AppendProperties
<1>7. CharsOf(vocab') = C /\ Minimized(Trie(vocab'), PhiTable(vocab')) = P
  BY <1>2 DEF C, P
<1>8. EncInv' <=> /\ vocab' \in Vocabs /\ trie' = Trie(vocab') /\ phi' = Minimized(Trie(vocab'), PhiTable(vocab'))
                  /\ text' \in Seq(CharsOf(vocab')) /\ state' \in Trie(vocab')
                  /\ olabels' \in Seq(LabelSet(vocab'))
                  /\ Tracks(vocab', CharsOf(vocab'), text', state', olabels')
  BY DEF EncInv
<1> QED
  BY <1>1, <1>2, <1>5, <1>6, <1>7, <1>8

\* an unknown one does,
LEMMA EncReadUnknown ==
  ASSUME EncInv, NEW c \in {Spaced(<<k>>)[1] : k \in Typed}, Read!ReadUnknown(c)
  PROVE  EncInv'
<1> DEFINE v == vocab
           C == CharsOf(vocab)
           P == Minimized(Trie(vocab), PhiTable(vocab))
           x == ExitOutput(Trie(vocab), P, state)
<1>1. /\ vocab \in Vocabs /\ trie = Trie(vocab) /\ phi = P
      /\ text \in Seq(C) /\ state \in Trie(vocab) /\ olabels \in Seq(LabelSet(vocab))
      /\ Tracks(vocab, C, text, state, olabels)
  BY DEF EncInv
<1>2. /\ c \notin ExtractCharacters(vocab) /\ text' = Append(text, c) /\ state' = Start
      /\ olabels' = Cat(olabels, Cat(x, One(Unk)))
      /\ vocab' = vocab /\ trie' = trie /\ phi' = phi
  <2>1. Read!ExitOutput(trie, phi, state) = x
    BY <1>1, ReadExitOutput
  <2> HIDE DEF x
  <2> QED
    BY <2>1, ReadDefs DEF Read!ReadUnknown, Read!Left, Cat, One
<1>3. /\ GoodVocab(v) /\ ExtractCharacters(v) \subseteq C /\ Space \in C
      /\ Minimal(C, v, P) /\ Minimal(ExtractCharacters(v), v, P)
  BY <1>1, VocabFacts
<1>4. c \in C
  BY DEF CharsOf
<1> HIDE DEF C, P
<1>5. x = ExitOutput(Trie(v), P, state)
  OBVIOUS
<1> HIDE DEF x
<1>6. /\ Tracks(v, C, Append(text, c), Start, Cat(olabels, Cat(x, One(Unk))))
      /\ Start \in Trie(v) /\ Cat(olabels, Cat(x, One(Unk))) \in Seq(LabelSet(v))
  BY <1>1, <1>2, <1>3, <1>4, <1>5, UnknownStep
<1>7. Append(text, c) \in Seq(C)
  BY <1>1, <1>4, AppendProperties
<1>8. CharsOf(vocab') = C /\ Minimized(Trie(vocab'), PhiTable(vocab')) = P
  BY <1>2 DEF C, P
<1>9. EncInv' <=> /\ vocab' \in Vocabs /\ trie' = Trie(vocab') /\ phi' = Minimized(Trie(vocab'), PhiTable(vocab'))
                  /\ text' \in Seq(CharsOf(vocab')) /\ state' \in Trie(vocab')
                  /\ olabels' \in Seq(LabelSet(vocab'))
                  /\ Tracks(vocab', CharsOf(vocab'), text', state', olabels')
  BY DEF EncInv
<1> QED
  BY <1>1, <1>2, <1>6, <1>7, <1>8, <1>9

\* so does every step of the specification,
LEMMA EncNext == EncInv /\ [Next]_vars => EncInv'
<1> SUFFICES ASSUME EncInv, [Next]_vars PROVE EncInv'
  OBVIOUS
<1> DEFINE Same == /\ vocab' = vocab /\ trie' = trie /\ phi' = phi
                   /\ text' = text /\ state' = state /\ olabels' = olabels
<1>1. CASE Same
  BY <1>1 DEF EncInv
<1>2. CASE Construct
  BY <1>1, <1>2 DEF Construct, CandidatesNext, Arrive, Follow, Filter, Store, fstVars, readVars
<1>3. CASE Complete
  BY <1>1, <1>3 DEF Complete, fstVars, readVars
<1>4. ASSUME NEW k \in Typed, Type(k) PROVE EncInv'
  <2> DEFINE c == Spaced(<<k>>)[1]
  <2>1. c \in {Spaced(<<j>>)[1] : j \in Typed}
    OBVIOUS
  <2>2. Read!ReadKnown(c) \/ Read!ReadUnknown(c)
    BY <1>4 DEF Type
  <2> HIDE DEF c
  <2> QED
    BY <2>1, <2>2, EncReadKnown, EncReadUnknown
<1>5. CASE UNCHANGED vars
  BY <1>1, <1>5 DEF vars, fstVars, readVars
<1> QED
  BY <1>2, <1>3, <1>4, <1>5 DEF Next

\* and with nothing more to follow it is the property.
LEMMA EncExit == EncInv => ExitIsLPM
<1> SUFFICES ASSUME EncInv PROVE ExitIsLPM
  OBVIOUS
<1> DEFINE v == vocab
           C == CharsOf(vocab)
           P == Minimized(Trie(vocab), PhiTable(vocab))
           x == ExitOutput(Trie(vocab), P, state)
           begun == BegunText(vocab, text)
           L == LabelSet(vocab)
<1>1. /\ vocab \in Vocabs /\ trie = Trie(vocab) /\ phi = P
      /\ text \in Seq(C) /\ state \in Trie(vocab) /\ olabels \in Seq(LabelSet(vocab))
      /\ Tracks(vocab, C, text, state, olabels)
  BY DEF EncInv
<1>2. /\ GoodVocab(v) /\ ExtractCharacters(v) \subseteq C /\ Space \in C
      /\ Minimal(C, v, P) /\ Minimal(ExtractCharacters(v), v, P)
  BY <1>1, VocabFacts
<1> HIDE DEF C, P
<1>3. x \in Seq(v) /\ LPM(v, Pending(v, state)) = x
  BY <1>1, <1>2, ExitKnown
<1>4. Lab(v, x) = x
  BY <1>3, LabKnown
<1>5. begun \in Seq(C) /\ Pending(v, state) \in Seq(C)
  BY <1>1, <1>2, BegunOn, RepIn
<1> HIDE DEF begun
<1>6. <<>> \in Seq(C)
  OBVIOUS
<1>7. Cat(begun, <<>>) = begun /\ Cat(Pending(v, state), <<>>) = Pending(v, state)
  BY <1>5, CatAlgebra
<1>8. Lab(v, LPM(v, Cat(begun, <<>>))) = Cat(olabels, Lab(v, LPM(v, Cat(Pending(v, state), <<>>))))
  BY <1>1, <1>6 DEF Tracks, begun
<1>9. Lab(v, LPM(v, begun)) = Cat(olabels, x)
  BY <1>3, <1>4, <1>7, <1>8
<1>10. Read!Encoded = Cat(olabels, x)
  BY <1>1, ReadExitOutput DEF Read!Encoded, Cat, P
<1>11. Read!Begun(text) = begun
  <2>1. Read!Leaf(trie, <<Space>>) = Leaf(Trie(v), <<Space>>)
    BY <1>1, ReadDefs
  <2> QED
    BY <2>1 DEF Read!Begun, Read!Begin, begun, BegunText, Cat
<1>12. Read!LPM(vocab, Read!Begun(text)) = LPM(v, begun)
  BY <1>11, ReadLPM
<1>13. \A tokens : Read!Labels(tokens) = Lab(v, tokens)
  BY DEF Read!Labels, Lab, LabelAt
<1> QED
  BY <1>9, <1>10, <1>12, <1>13 DEF ExitIsLPM, Read!ExitIsLPM

(* However the typing goes on, for every vocabulary and every text: what the *)
(* encoder has output, and outputs when it is left, is the longest-prefix-   *)
(* match encoding of the text, an unknown label for each unknown character.  *)
THEOREM EncodesLPM == Spec => []ExitIsLPM
<1>1. Spec => []EncInv
  BY EncInit, EncNext, PTL DEF Spec
<1> QED
  BY <1>1, EncExit, PTL
-----------------------------------------------------------------------------
(* Typing a query *)

\* Whatever is typed, the construction is the one of Candidates.
LEMMA TypingConstructs == Spec => CandidatesSpec
<1>1. Init => CandidatesInit
  BY DEF Init
<1>2. ASSUME [Next]_vars PROVE [CandidatesNext]_candidatesVars
  <2>1. CASE Construct
    BY <2>1 DEF Construct
  <2>2. CASE Complete
    BY <2>2 DEF Complete, candidatesVars
  <2>3. ASSUME NEW c \in Typed, Type(c) PROVE UNCHANGED candidatesVars
    <3>1. UNCHANGED searchVars /\ vocab' = vocab /\ trie' = trie /\ phi' = phi
      BY <2>3 DEF Type, Read!ReadKnown, Read!ReadUnknown
    <3> QED
      BY <3>1 DEF candidatesVars, fstVars
  <2>4. CASE UNCHANGED vars
    BY <2>4 DEF vars, candidatesVars
  <2> QED
    BY <1>2, <2>1, <2>2, <2>3, <2>4 DEF Next
<1> QED
  BY <1>1, <1>2, PTL DEF Spec, CandidatesSpec

\* Both hold always: of the candidates, and of what was read.
LEMMA TypingInv == Spec => [](SearchInv /\ EncInv)
<1>1. Spec => []EncInv
  BY EncInit, EncNext, PTL DEF Spec
<1> QED
  BY <1>1, TypingConstructs, AlwaysSearchInv, PTL

\* The candidates that Complete looks up.
LEMMA StoredForState ==
  ASSUME SearchInv, EncInv, pc = "ready"
  PROVE  /\ Root(vocab, Node(<<>>, state))
         /\ Stored(vocab, Node(<<>>, state), encoderTransitions[Node(<<>>, state)])
<1> DEFINE n == Node(<<>>, state)
<1>1. FstInv /\ state \in Trie(vocab)
  BY DEF SearchInv, EncInv
<1>2. n \in Nodes(trie, phi) /\ Root(vocab, n)
  BY <1>1, NodesAreRoots
<1>3. todo = {}
  BY DEF SearchInv, Phase
<1>4. n \in DOMAIN encoderTransitions
  <2> HIDE DEF n
  <2> QED
    BY <1>2, <1>3 DEF SearchInv
<1> QED
  BY <1>2, <1>4 DEF SearchInv, AllStored

\* Whatever follows, they and what was output begin the labels of the whole.
LEMMA InvLineReachable == SearchInv /\ EncInv => LineReachable
<1> DEFINE v == vocab
           E == ExtractCharacters(v)
           C == CharsOf(v)
           L == LabelSet(v)
           n == Node(<<>>, state)
           S == encoderTransitions[n]
<1> SUFFICES ASSUME SearchInv, EncInv, pc = "ready", NEW rest \in Texts(E, MaxRest)
             PROVE  \E beam \in S :
                      IsPrefix(olabels \o beam, Read!Labels(Read!LPM(vocab, Read!Begun(text \o rest))))
  <2>1. LineReachable <=> (pc = "ready" /\ outcome = "none" =>
          \A rest \in Texts(E, MaxRest) : \E beam \in S :
            IsPrefix(olabels \o beam, Read!Labels(LPM(vocab, Read!Begun(text \o rest)))))
    BY DEF LineReachable
  <2> HIDE DEF S, E
  <2> QED
    BY <2>1, ReadLPM
<1>1. /\ v \in Vocabs /\ trie = Trie(v) /\ text \in Seq(C) /\ state \in Trie(v)
      /\ olabels \in Seq(L) /\ Tracks(v, C, text, state, olabels)
  BY DEF EncInv
<1>2. GoodVocab(v) /\ E \subseteq C /\ Space \in C
  BY <1>1, VocabFacts
<1>3. rest \in Seq(E)
  BY CandidatesAssumption, TextsAreTexts
<1>4. rest \in Seq(C)
  <2> HIDE DEF E, C
  <2> QED
    BY <1>2, <1>3, SeqMonotonic
<1>5. Root(v, n) /\ Stored(v, n, S)
  BY StoredForState
<1> DEFINE b == Pending(v, state)
           d == Cat(b, rest)
           m == LPM(v, d)
<1>6. b \in Seq(E)
  BY <1>1, <1>2, RepIn
<1>7. m \in Seq(v)
  <2>1. d \in Seq(E)
    <3> HIDE DEF b, E
    <3> QED
      BY <1>3, <1>6, CatAlgebra
  <2> HIDE DEF d
  <2> QED
    BY <1>2, <2>1, LPMKnown
<1>8. Target(v, n, rest) = m
  <2>1. n.chain = <<>> /\ n.state = state
    BY DEF Node
  <2>2. Target(v, n, rest) = Cat(<<>>, m)
    BY <2>1 DEF Target
  <2> HIDE DEF m
  <2>3. Cat(<<>>, m) = m
    BY <1>7, CatAlgebra
  <2> QED
    BY <2>2, <2>3
<1> HIDE DEF n
<1>9. PICK s \in S : Starts(v, s, m)
  BY <1>3, <1>5, <1>8 DEF Stored, AllFound
<1>10. s \in Seq(v)
  BY <1>5 DEF Stored
<1>11. PICK u \in Seq(v) : m = Cat(s, u)
  BY <1>9 DEF Starts
<1> DEFINE g == BegunText(v, text)
           k == Cat(g, rest)
           o == olabels
           a == Cat(o, s)
<1>12. Lab(v, LPM(v, k)) = Cat(o, m)
  <2>1. Lab(v, LPM(v, k)) = Cat(o, Lab(v, m))
    BY <1>1, <1>4 DEF Tracks
  <2>2. Lab(v, m) = m
    <3> HIDE DEF m
    <3> QED
      BY <1>7, LabKnown
  <2> QED
    BY <2>1, <2>2
<1> HIDE DEF m, S
<1>13. s \in Seq(L) /\ u \in Seq(L) /\ o \in Seq(L)
  <2>1. v \subseteq L
    BY DEF LabelSet
  <2>2. s \in Seq(L)
    BY <1>10, <2>1, SeqMonotonic
  <2>3. u \in Seq(L)
    BY <2>1, SeqMonotonic
  <2> QED
    BY <1>1, <2>2, <2>3
<1> HIDE DEF o
<1>14. Cat(o, Cat(s, u)) = Cat(a, u) /\ a \in Seq(L)
  <2>1. Cat(Cat(o, s), u) = Cat(o, Cat(s, u))
    BY <1>13, CatAlgebra
  <2>2. Cat(o, s) \in Seq(L)
    BY <1>13, CatAlgebra
  <2> QED
    BY <2>1, <2>2
<1> DEFINE y == Cat(a, u)
<1>15. Starts(L, a, y) /\ y \in Seq(L)
  <2>1. Starts(L, a, y)
    BY <1>13 DEF Starts
  <2> HIDE DEF a
  <2>2. Cat(a, u) \in Seq(L)
    BY <1>13, <1>14, CatAlgebra
  <2> QED
    BY <2>1, <2>2 DEF a
<1> HIDE DEF a, y
<1>16. IsPrefix(a, y)
  BY <1>14, <1>15, StartsIsPrefix
<1>17. Lab(v, LPM(v, k)) = y
  BY <1>11, <1>12, <1>14 DEF y
<1>18. Read!Begun(text \o rest) = k
  <2>1. Read!Leaf(trie, <<Space>>) = Leaf(Trie(v), <<Space>>)
    BY <1>1, ReadDefs
  <2>2. Cat(<<Space>>, Cat(text, rest)) = Cat(Cat(<<Space>>, text), rest)
    <3> DEFINE sp == <<Space>>
    <3>1. sp \in Seq(C)
      BY <1>2
    <3> HIDE DEF sp, C
    <3>2. Cat(Cat(sp, text), rest) = Cat(sp, Cat(text, rest))
      BY <1>1, <1>4, <3>1, CatAlgebra
    <3> QED
      BY <3>2 DEF sp
  <2> QED
    BY <2>1, <2>2 DEF Read!Begun, Read!Begin, BegunText, Cat
<1>19. Read!Labels(Read!LPM(vocab, Read!Begun(text \o rest))) = y
  <2>1. \A tokens : Read!Labels(tokens) = Lab(v, tokens)
    BY DEF Read!Labels, Lab, LabelAt
  <2> HIDE DEF k
  <2> QED
    BY <1>17, <1>18, <2>1, ReadLPM
<1> QED
  BY <1>16, <1>19 DEF a, o, Cat

(* For every vocabulary, every text that is typed and every way it goes on:  *)
(* the stable prefix and one of the candidates begin the encoding of the     *)
(* whole line.                                                               *)
THEOREM EveryLineReachable == Spec => []LineReachable
BY TypingInv, InvLineReachable, PTL
-----------------------------------------------------------------------------
(* The text that labels stand for *)

\* How many of the first n labels are unk.
UnkIn(labels, n) == {i \in 1 .. n : labels[i] = Unk}
Count(labels, n) == Cardinality(UnkIn(labels, n))

\* Encoder counts the same way.
LEMMA ReadUnks ==
  ASSUME NEW labels, NEW n
  PROVE  Read!Unks(labels, n) = Count(labels, n)
BY DEF Read!Unks, Count, UnkIn, Read!Cardinality, Cardinality

\* Label by label.
CountNext(labels, n) == IF labels[n + 1] = Unk THEN Count(labels, n) + 1 ELSE Count(labels, n)

\* The count goes up by one at every unk.
LEMMA CountFacts ==
  ASSUME NEW labels
  PROVE  /\ Count(labels, 0) = 0
         /\ \A n \in Nat : Count(labels, n) \in Nat /\ Count(labels, n + 1) = CountNext(labels, n)
<1>1. Count(labels, 0) = 0
  <2>1. UnkIn(labels, 0) = {}
    BY DEF UnkIn
  <2> QED
    BY <2>1, FS_EmptySet DEF Count
<1>2. ASSUME NEW n \in Nat
      PROVE  Count(labels, n) \in Nat /\ Count(labels, n + 1) = CountNext(labels, n)
  <2> DEFINE S == UnkIn(labels, n)
             T == UnkIn(labels, n + 1)
  <2>1. IsFiniteSet(S)
    <3>1. IsFiniteSet(1 .. n)
      BY FS_Interval
    <3>2. S \in SUBSET (1 .. n)
      BY DEF UnkIn
    <3> HIDE DEF S
    <3> QED
      BY <3>1, <3>2, FS_Subset
  <2>2. Cardinality(S) \in Nat
    BY <2>1, FS_CardinalityType
  <2>3. 1 .. n + 1 = (1 .. n) \cup {n + 1} /\ n + 1 \notin 1 .. n
    OBVIOUS
  <2>4. n + 1 \notin S /\ T = IF labels[n + 1] = Unk THEN S \cup {n + 1} ELSE S
    BY <2>3 DEF UnkIn
  <2> HIDE DEF S, T
  <2>5. Cardinality(S \cup {n + 1}) = Cardinality(S) + 1
    <3> DEFINE m == n + 1
    <3>1. m \notin S
      BY <2>4
    <3> HIDE DEF m
    <3>2. Cardinality(S \cup {m}) = Cardinality(S) + 1
      BY <2>1, <3>1, FS_AddElement
    <3> QED
      BY <3>2 DEF m
  <2>6. Cardinality(T) = IF labels[n + 1] = Unk THEN Cardinality(S) + 1 ELSE Cardinality(S)
    BY <2>4, <2>5
  <2> QED
    BY <2>2, <2>6 DEF Count, CountNext, S, T
<1> QED
  BY <1>1, <1>2

\* Of labels and more labels.
LEMMA CountCat ==
  ASSUME NEW S, NEW a \in Seq(S), NEW b \in Seq(S)
  PROVE  /\ \A i \in 0 .. Len(a) : Count(Cat(a, b), i) = Count(a, i)
         /\ \A i \in 0 .. Len(b) : Count(Cat(a, b), Len(a) + i) = Count(a, Len(a)) + Count(b, i)
<1> DEFINE x == Cat(a, b)
           m == Len(a)
           n == Len(b)
<1>1. /\ m \in Nat /\ n \in Nat
      /\ \A i \in 1 .. m : x[i] = a[i]
      /\ \A i \in 1 .. n : x[m + i] = b[i]
  <2>1. IsCat(S, x, a, b)
    BY CatIs
  <2> HIDE DEF x
  <2> QED
    BY <2>1 DEF IsCat
<1> HIDE DEF x, m, n
<1>2. \A y : Count(y, 0) = 0 /\ \A i \in Nat : Count(y, i) \in Nat /\ Count(y, i + 1) = CountNext(y, i)
  BY CountFacts
<1> DEFINE K == {i \in Nat : i <= m => Count(x, i) = Count(a, i)}
           L == {i \in Nat : i <= n => Count(x, m + i) = Count(a, m) + Count(b, i)}
<1>3. ASSUME NEW i \in Nat, \A j \in 0 .. i - 1 : j \in K PROVE i \in K
  <2> SUFFICES ASSUME i <= m PROVE Count(x, i) = Count(a, i)
    OBVIOUS
  <2>1. CASE i = 0
    BY <1>2, <2>1
  <2>2. CASE i # 0
    <3> DEFINE j == i - 1
    <3>1. j \in 0 .. i - 1 /\ j \in Nat /\ j + 1 = i /\ j <= m /\ i \in 1 .. m
      BY <1>1, <2>2
    <3>2. Count(x, j) = Count(a, j)
      BY <1>3, <3>1
    <3> HIDE DEF j
    <3>3. CountNext(x, j) = CountNext(a, j)
      BY <1>1, <3>1, <3>2 DEF CountNext
    <3>4. Count(x, j + 1) = CountNext(x, j) /\ Count(a, j + 1) = CountNext(a, j)
      BY <1>2, <3>1
    <3> QED
      BY <3>1, <3>3, <3>4
  <2> QED
    BY <2>1, <2>2
<1>4. \A i \in Nat : i \in K
  <2> HIDE DEF K
  <2> QED
    BY <1>3, SetInduction
<1>5. ASSUME NEW i \in Nat, \A j \in 0 .. i - 1 : j \in L PROVE i \in L
  <2> SUFFICES ASSUME i <= n PROVE Count(x, m + i) = Count(a, m) + Count(b, i)
    OBVIOUS
  <2>1. CASE i = 0
    <3>1. Count(x, m) = Count(a, m) /\ Count(a, m) \in Nat /\ m + i = m
      BY <1>1, <1>2, <1>4, <2>1
    <3> QED
      BY <1>2, <2>1, <3>1
  <2>2. CASE i # 0
    <3> DEFINE j == i - 1
               k == m + j
    <3>1. j \in 0 .. i - 1 /\ j \in Nat /\ j + 1 = i /\ j <= n /\ i \in 1 .. n /\ k \in Nat /\ k + 1 = m + i
      BY <1>1, <2>2
    <3>2. Count(x, k) = Count(a, m) + Count(b, j)
      BY <1>5, <3>1
    <3>3. x[k + 1] = b[j + 1]
      BY <1>1, <3>1
    <3> HIDE DEF j, k
    <3>4. Count(a, m) \in Nat /\ Count(b, j) \in Nat
      BY <1>1, <1>2, <3>1
    <3>5. CountNext(x, k) = Count(a, m) + CountNext(b, j)
      BY <3>2, <3>3, <3>4 DEF CountNext
    <3>6. Count(x, k + 1) = CountNext(x, k) /\ Count(b, j + 1) = CountNext(b, j)
      BY <1>2, <3>1
    <3> QED
      BY <3>1, <3>5, <3>6
  <2> QED
    BY <2>1, <2>2
<1>6. \A i \in Nat : i \in L
  <2> HIDE DEF L
  <2> QED
    BY <1>5, SetInduction
<1> QED
  BY <1>1, <1>4, <1>6 DEF x, m, n

\* Between the two ends of the labels.
LEMMA CountBetween ==
  ASSUME NEW labels, NEW n \in Nat
  PROVE  \A i \in 1 .. n : labels[i] = Unk => Count(labels, i) \in 1 .. Count(labels, n)
<1>1. \A i \in Nat : Count(labels, i) \in Nat /\ Count(labels, i + 1) = CountNext(labels, i)
  BY CountFacts
<1> DEFINE K == {k \in Nat : \A i \in 1 .. k : labels[i] = Unk => Count(labels, i) \in 1 .. Count(labels, k)}
<1>2. ASSUME NEW k \in Nat, \A j \in 0 .. k - 1 : j \in K PROVE k \in K
  <2> SUFFICES ASSUME NEW i \in 1 .. k, labels[i] = Unk PROVE Count(labels, i) \in 1 .. Count(labels, k)
    OBVIOUS
  <2> DEFINE j == k - 1
  <2>1. j \in 0 .. k - 1 /\ j \in Nat /\ j + 1 = k /\ (i = k \/ i \in 1 .. j)
    OBVIOUS
  <2> HIDE DEF j
  <2>2. Count(labels, j) \in Nat /\ Count(labels, k) = CountNext(labels, j)
    BY <1>1, <2>1
  <2>3. CASE i = k
    <3>1. Count(labels, i) = Count(labels, j) + 1
      BY <2>1, <2>2, <2>3 DEF CountNext
    <3> QED
      BY <2>2, <2>3, <3>1
  <2>4. CASE i \in 1 .. j
    <3>1. Count(labels, i) \in 1 .. Count(labels, j)
      BY <1>2, <2>1, <2>4
    <3>2. Count(labels, k) = Count(labels, j) \/ Count(labels, k) = Count(labels, j) + 1
      BY <2>2 DEF CountNext
    <3> QED
      BY <2>2, <3>1, <3>2
  <2> QED
    BY <2>1, <2>3, <2>4
<1>3. \A k \in Nat : k \in K
  <2> HIDE DEF K
  <2> QED
    BY <1>2, SetInduction
<1> QED
  BY <1>3
-----------------------------------------------------------------------------
\* The text of every label, the unknown characters being ov.
TextAt(labels, ov, i) == IF labels[i] = Unk THEN One(ov[Count(labels, i)]) ELSE labels[i]
TextsOf(labels, ov) == [i \in DOMAIN labels |-> TextAt(labels, ov, i)]

\* One unknown character for every unk.
Matched(v, C, labels, ov) ==
  labels \in Seq(LabelSet(v)) /\ ov \in Seq(C) /\ Count(labels, Len(labels)) = Len(ov)

\* They are texts.
Texted(C, labels, ov, t) ==
  /\ t \in Seq(Seq(C)) /\ Len(t) = Len(labels) /\ Len(labels) \in Nat
  /\ \A i \in 1 .. Len(labels) : t[i] = TextAt(labels, ov, i)

\* The texts of labels that have their unknown characters.
LEMMA TextsOfType ==
  ASSUME NEW v, NEW C, v \subseteq Seq(C), NEW labels, NEW ov, Matched(v, C, labels, ov)
  PROVE  Texted(C, labels, ov, TextsOf(labels, ov))
<1> DEFINE n == Len(labels)
           T == Seq(C)
<1>1. /\ labels \in Seq(LabelSet(v)) /\ ov \in Seq(C) /\ Count(labels, n) = Len(ov)
      /\ n \in Nat /\ DOMAIN labels = 1 .. n
  BY DEF Matched
<1>2. \A i \in 1 .. n : labels[i] = Unk => Count(labels, i) \in 1 .. Len(ov)
  BY <1>1, CountBetween
<1>3. ASSUME NEW i \in 1 .. n PROVE TextAt(labels, ov, i) \in T
  <2>1. CASE labels[i] = Unk
    <3> DEFINE c == ov[Count(labels, i)]
    <3>1. c \in C
      BY <1>1, <1>2, <2>1
    <3> HIDE DEF c
    <3>2. One(c) \in T
      BY <3>1, CatAlgebra
    <3> QED
      BY <2>1, <3>2 DEF TextAt, c
  <2>2. CASE labels[i] # Unk
    <3>1. labels[i] \in LabelSet(v)
      BY <1>1
    <3>2. labels[i] \in v
      BY <2>2, <3>1 DEF LabelSet
    <3> QED
      BY <2>2, <3>2 DEF TextAt
  <2> QED
    BY <2>1, <2>2
<1> DEFINE Z(i) == TextAt(labels, ov, i)
           x == TextsOf(labels, ov)
<1>4. x = [i \in 1 .. n |-> Z(i)] /\ \A i \in 1 .. n : Z(i) \in T
  BY <1>1, <1>3 DEF TextsOf
<1> HIDE DEF Z, x, T, n
<1>5. x \in Seq(T) /\ Len(x) = n /\ \A i \in 1 .. n : x[i] = Z(i)
  <2>1. x \in Seq(T) /\ DOMAIN x = 1 .. n
    BY <1>1, <1>4
  <2>2. Len(x) = n
    BY <1>1, <2>1, LenProperties
  <2> QED
    BY <1>4, <2>1, <2>2
<1> QED
  BY <1>1, <1>5 DEF Z, x, T, n, Texted

\* Labels and more labels, each with their unknown characters.
LEMMA TextsOfCat ==
  ASSUME NEW v, NEW C, v \subseteq Seq(C), NEW a, NEW o, NEW b, NEW p,
         Matched(v, C, a, o), Matched(v, C, b, p)
  PROVE  /\ Matched(v, C, Cat(a, b), Cat(o, p))
         /\ TextsOf(Cat(a, b), Cat(o, p)) = Cat(TextsOf(a, o), TextsOf(b, p))
<1> DEFINE x == Cat(a, b)
           q == Cat(o, p)
           m == Len(a)
           n == Len(b)
           k == Len(o)
           l == Len(p)
           T == Seq(C)
<1>1. /\ a \in Seq(LabelSet(v)) /\ b \in Seq(LabelSet(v)) /\ o \in Seq(C) /\ p \in Seq(C)
      /\ Count(a, m) = k /\ Count(b, n) = l
  BY DEF Matched
<1>2. /\ Len(x) = m + n /\ m \in Nat /\ n \in Nat /\ x \in Seq(LabelSet(v))
      /\ \A i \in 1 .. m : x[i] = a[i]
      /\ \A i \in 1 .. n : x[m + i] = b[i]
  <2>1. IsCat(LabelSet(v), x, a, b)
    BY <1>1, CatIs
  <2> HIDE DEF x
  <2> QED
    BY <2>1 DEF IsCat
<1>3. /\ Len(q) = k + l /\ k \in Nat /\ l \in Nat /\ q \in Seq(C)
      /\ \A i \in 1 .. k : q[i] = o[i]
      /\ \A i \in 1 .. l : q[k + i] = p[i]
  <2>1. IsCat(C, q, o, p)
    BY <1>1, CatIs
  <2> HIDE DEF q
  <2> QED
    BY <2>1 DEF IsCat
<1>4. /\ \A i \in 0 .. m : Count(x, i) = Count(a, i)
      /\ \A i \in 0 .. n : Count(x, m + i) = k + Count(b, i)
  BY <1>1, CountCat
<1>5. /\ TextsOf(a, o) \in Seq(T) /\ Len(TextsOf(a, o)) = m
      /\ \A i \in 1 .. m : TextsOf(a, o)[i] = TextAt(a, o, i)
  BY TextsOfType DEF Texted
<1>6. /\ TextsOf(b, p) \in Seq(T) /\ Len(TextsOf(b, p)) = n
      /\ \A i \in 1 .. n : TextsOf(b, p)[i] = TextAt(b, p, i)
  BY TextsOfType DEF Texted
<1>7. \A i \in 1 .. m : a[i] = Unk => Count(a, i) \in 1 .. k
  BY <1>1, <1>2, CountBetween
<1>8. \A i \in 1 .. n : b[i] = Unk => Count(b, i) \in 1 .. l
  BY <1>1, <1>2, CountBetween
<1> HIDE DEF x, q, m, n, k, l, T
<1>9. Matched(v, C, x, q)
  <2>1. n \in 0 .. n
    BY <1>2
  <2>2. Count(x, Len(x)) = Len(q)
    BY <1>1, <1>2, <1>3, <1>4, <2>1
  <2> QED
    BY <1>2, <1>3, <2>2 DEF Matched
<1>10. /\ TextsOf(x, q) \in Seq(T) /\ Len(TextsOf(x, q)) = Len(x)
       /\ \A i \in 1 .. Len(x) : TextsOf(x, q)[i] = TextAt(x, q, i)
  <2>1. Texted(C, x, q, TextsOf(x, q))
    BY <1>9, TextsOfType
  <2> QED
    BY <2>1 DEF T, Texted
<1> DEFINE s == TextsOf(a, o)
           t == TextsOf(b, p)
           y == Cat(s, t)
           z == TextsOf(x, q)
<1>11. /\ y \in Seq(T) /\ Len(y) = m + n
       /\ \A i \in 1 .. m : y[i] = s[i]
       /\ \A i \in 1 .. n : y[m + i] = t[i]
  <2> HIDE DEF y, s, t
  <2>1. IsCat(T, y, s, t)
    <3>1. s \in Seq(T) /\ t \in Seq(T)
      BY <1>5, <1>6 DEF s, t
    <3> QED
      BY <3>1, CatIs DEF y
  <2>2. Len(s) = m /\ Len(t) = n
    BY <1>5, <1>6 DEF s, t
  <2> QED
    BY <2>1, <2>2 DEF IsCat
<1> HIDE DEF y, z, s, t
<1>12. ASSUME NEW i \in 1 .. m + n PROVE z[i] = y[i]
  <2>1. CASE i \in 1 .. m
    <3>1. i \in 0 .. m
      BY <1>2, <2>1
    <3>2. x[i] = a[i] /\ Count(x, i) = Count(a, i) /\ (a[i] = Unk => q[Count(a, i)] = o[Count(a, i)])
      BY <1>2, <1>3, <1>4, <1>7, <2>1, <3>1
    <3>3. TextAt(x, q, i) = TextAt(a, o, i)
      BY <3>2 DEF TextAt
    <3>4. y[i] = TextAt(a, o, i)
      BY <1>5, <1>11, <2>1 DEF s
    <3> QED
      BY <1>2, <1>10, <3>3, <3>4 DEF z
  <2>2. CASE i \notin 1 .. m
    <3> DEFINE j == i - m
    <3>1. j \in 1 .. n /\ j \in 0 .. n /\ i = m + j
      BY <1>2, <2>2
    <3> HIDE DEF j
    <3>2. x[i] = b[j] /\ Count(x, i) = k + Count(b, j) /\ (b[j] = Unk => q[k + Count(b, j)] = p[Count(b, j)])
      BY <1>2, <1>3, <1>4, <1>8, <3>1
    <3>3. TextAt(x, q, i) = TextAt(b, p, j)
      BY <3>2 DEF TextAt
    <3>4. y[i] = TextAt(b, p, j)
      BY <1>6, <1>11, <3>1 DEF t
    <3> QED
      BY <1>2, <1>10, <3>3, <3>4 DEF z
  <2> QED
    BY <2>1, <2>2
<1>13. z = y
  BY <1>2, <1>10, <1>11, <1>12, SeqEqual DEF z
<1> QED
  BY <1>9, <1>13 DEF x, q, y, z, s, t

\* Tokens are their own text.
LEMMA TextsOfTokens ==
  ASSUME NEW v, NEW C, v \subseteq Seq(C), Unk \notin v, NEW x \in Seq(v), NEW e, e = <<>>
  PROVE  Matched(v, C, x, e) /\ TextsOf(x, e) = x
<1> DEFINE n == Len(x)
<1>1. n \in Nat /\ DOMAIN x = 1 .. n /\ x = [i \in 1 .. n |-> x[i]] /\ \A i \in 1 .. n : x[i] \in v
  OBVIOUS
<1> HIDE DEF n
<1>2. \A i \in 1 .. n : x[i] # Unk
  BY <1>1
<1>3. UnkIn(x, n) = {}
  BY <1>2 DEF UnkIn
<1>4. Count(x, n) = 0
  BY <1>3, FS_EmptySet DEF Count
<1>5. x \in Seq(LabelSet(v))
  BY SeqMonotonic DEF LabelSet
<1>6. e \in Seq(C) /\ Len(e) = 0
  OBVIOUS
<1>7. Matched(v, C, x, e)
  BY <1>4, <1>5, <1>6 DEF Matched, n
<1>8. \A i \in 1 .. n : TextAt(x, e, i) = x[i]
  BY <1>2 DEF TextAt
<1>9. TextsOf(x, e) = x
  BY <1>1, <1>8 DEF TextsOf
<1> QED
  BY <1>7, <1>9

\* An unknown character is the text of unk.
LEMMA TextsOfUnk ==
  ASSUME NEW v, NEW C, NEW c \in C
  PROVE  Matched(v, C, One(Unk), One(c)) /\ TextsOf(One(Unk), One(c)) = One(One(c))
<1> DEFINE u == One(Unk)
           o == One(c)
           w == One(o)
<1>1. u \in Seq(LabelSet(v)) /\ o \in Seq(C)
  <2>1. Unk \in LabelSet(v)
    BY DEF LabelSet
  <2> QED
    BY <2>1, CatAlgebra
<1>2. /\ Len(u) = 1 /\ Len(o) = 1 /\ u[1] = Unk /\ o[1] = c /\ DOMAIN u = 1 .. 1
      /\ w = [i \in 1 .. 1 |-> o]
  BY DEF One
<1> HIDE DEF u, o, w
<1>3. Count(u, 1) = 1
  <2>1. Count(u, 0) = 0 /\ Count(u, 0 + 1) = CountNext(u, 0)
    BY CountFacts
  <2>2. CountNext(u, 0) = 1
    BY <1>2, <2>1 DEF CountNext
  <2> QED
    BY <2>1, <2>2
<1>4. Matched(v, C, u, o)
  BY <1>1, <1>2, <1>3 DEF Matched
<1>5. TextAt(u, o, 1) = o
  BY <1>2, <1>3 DEF TextAt, o
<1>6. TextsOf(u, o) = [i \in 1 .. 1 |-> TextAt(u, o, i)]
  BY <1>2 DEF TextsOf
<1>7. TextsOf(u, o) = w
  <2>1. \A i \in 1 .. 1 : TextAt(u, o, i) = o
    BY <1>5
  <2> QED
    BY <1>2, <1>6, <2>1
<1> QED
  BY <1>4, <1>7 DEF u, o, w
-----------------------------------------------------------------------------
\* The text of the labels and what is pending are the text that was read.
TextKept(v, C, tx, st, ol, ov) ==
  Matched(v, C, ol, ov) /\ Cat(Flat(TextsOf(ol, ov)), Pending(v, st)) = BegunText(v, tx)

\* They still are with a character that comes out of more labels or is pending.
LEMMA TextStep ==
  ASSUME NEW v, NEW C, v \subseteq Seq(C), Space \in C, NEW tx \in Seq(C), NEW c \in C,
         NEW st, NEW ol, NEW ov, TextKept(v, C, tx, st, ol, ov), Pending(v, st) \in Seq(C),
         NEW more, NEW om, Matched(v, C, more, om), NEW to, Pending(v, to) \in Seq(C),
         Cat(Pending(v, st), One(c)) = Cat(Flat(TextsOf(more, om)), Pending(v, to))
  PROVE  TextKept(v, C, Append(tx, c), to, Cat(ol, more), Cat(ov, om))
<1> DEFINE s == TextsOf(ol, ov)
           t == TextsOf(more, om)
           f == Flat(s)
           g == Flat(t)
           b == Pending(v, st)
           d == Pending(v, to)
           o == One(c)
           x == BegunText(v, tx)
           y == BegunText(v, Append(tx, c))
           e == <<>>
           T == Seq(C)
<1>1. Matched(v, C, ol, ov) /\ Cat(f, b) = x
  BY DEF TextKept
<1>2. /\ Matched(v, C, Cat(ol, more), Cat(ov, om))
      /\ TextsOf(Cat(ol, more), Cat(ov, om)) = Cat(s, t)
  BY <1>1, TextsOfCat
<1>3. s \in Seq(T) /\ t \in Seq(T)
  BY <1>1, TextsOfType DEF Texted
<1>4. o \in T /\ e \in T
  BY CatAlgebra
<1>5. x \in T /\ Append(tx, c) \in T
  BY <1>4, BegunOn
<1>6. y \in T /\ Cat(y, e) = Cat(x, Cat(o, e))
  <2>1. Cat(y, e) = Cat(x, Cat(o, e))
    <3>1. e \in Seq(C)
      BY <1>4
    <3> HIDE DEF e
    <3> QED
      BY <3>1, BegunOn
  <2>2. y \in T
    <3> DEFINE n == Append(tx, c)
    <3>1. n \in Seq(C)
      BY <1>5
    <3> HIDE DEF n
    <3>2. BegunText(v, n) \in Seq(C)
      BY <3>1, BegunOn
    <3> QED
      BY <3>2 DEF n
  <2> QED
    BY <2>1, <2>2
<1> HIDE DEF s, t
<1>7. Flat(Cat(s, t)) = Cat(f, g) /\ f \in T /\ g \in T
  BY <1>3, FlatCat, FlatIsPart
<1>8. b \in T /\ d \in T /\ Cat(b, o) = Cat(g, d)
  BY DEF t
<1> HIDE DEF f, g, b, d, o, x, y, e, T
<1>9. f \in Seq(C) /\ g \in Seq(C) /\ b \in Seq(C) /\ d \in Seq(C) /\ o \in Seq(C) /\ x \in Seq(C) /\ y \in Seq(C)
  BY <1>4, <1>5, <1>6, <1>7, <1>8 DEF T
<1>10. Cat(y, e) = y /\ Cat(o, e) = o
  BY <1>9, CatAlgebra DEF e
<1>11. Cat(Cat(f, g), d) = Cat(f, Cat(g, d))
  BY <1>9, CatAlgebra
<1>12. Cat(Cat(f, b), o) = Cat(f, Cat(b, o))
  BY <1>9, CatAlgebra
<1>13. Cat(Flat(Cat(s, t)), d) = y
  BY <1>1, <1>6, <1>7, <1>8, <1>10, <1>11, <1>12
<1> QED
  BY <1>2, <1>13 DEF TextKept, s, t, d, y

\* A known character.
LEMMA KnownText ==
  ASSUME NEW C, NEW v, NEW P, NEW tx \in Seq(C), NEW st \in Trie(v), NEW ol, NEW ov,
         NEW c \in ExtractCharacters(v), NEW step,
         GoodVocab(v), Unk \notin v, v \subseteq Seq(C), ExtractCharacters(v) \subseteq C, Space \in C,
         Minimal(ExtractCharacters(v), v, P),
         step = MakeTransitions(Trie(v), P, st, c), TextKept(v, C, tx, st, ol, ov)
  PROVE  TextKept(v, C, Append(tx, c), step.to, Cat(ol, step.out), ov) /\ step.out \in Seq(v)
<1> DEFINE E == ExtractCharacters(v)
           b == Pending(v, st)
           m == step.out
           e == <<>>
<1>1. b \in Seq(E) /\ b \in Seq(C)
  BY RepIn
<1>2. Moved(E, v, b, Len(st), c, step)
  <2>1. Table(E, v, TRUE, P, Len(st)) /\ Len(st) \in Nat
    BY TrieLen DEF Works, Minimal, Table
  <2>2. Moved(E, v, Pending(v, st), Len(st), c, MakeTransitions(Trie(v), P, st, c))
    BY <2>1, GoRight DEF Pending
  <2> QED
    BY <2>2
<1>3. m \in Seq(v) /\ Cat(b, One(c)) = Cat(Flat(m), step.to)
  <2> HIDE DEF b
  <2> QED
    BY <1>1, <1>2, MovedText
<1>4. step.to \in Trie(v) /\ Pending(v, step.to) = step.to /\ step.to \in Seq(C)
  <2>1. step.to \in Trie(v) /\ ~Leaf(Trie(v), step.to)
    BY <1>2 DEF Moved
  <2>2. Pending(v, step.to) = step.to
    BY <2>1 DEF Pending, Rep
  <2> QED
    BY <2>1, <2>2, TrieIn
<1>5. Matched(v, C, m, e) /\ TextsOf(m, e) = m
  <2> HIDE DEF m
  <2> QED
    BY <1>3, TextsOfTokens
<1>6. c \in C /\ ov \in Seq(C)
  BY DEF TextKept, Matched
<1> HIDE DEF m, b, e
<1>7. TextKept(v, C, Append(tx, c), step.to, Cat(ol, m), Cat(ov, e))
  <2>1. Pending(v, step.to) \in Seq(C) /\ Pending(v, st) \in Seq(C)
    BY <1>1, <1>4 DEF b
  <2>2. Cat(Pending(v, st), One(c)) = Cat(Flat(TextsOf(m, e)), Pending(v, step.to))
    BY <1>3, <1>4, <1>5 DEF b
  <2> QED
    BY <1>5, <1>6, <2>1, <2>2, TextStep
<1>8. Cat(ov, e) = ov
  BY <1>6, CatAlgebra DEF e
<1> QED
  BY <1>3, <1>7, <1>8 DEF m

\* An unknown one.
LEMMA UnknownText ==
  ASSUME NEW C, NEW v, NEW P, NEW tx \in Seq(C), NEW st \in Trie(v), NEW ol, NEW ov, NEW c \in C, NEW x,
         GoodVocab(v), Unk \notin v, v \subseteq Seq(C), ExtractCharacters(v) \subseteq C, Space \in C,
         Minimal(C, v, P), Minimal(ExtractCharacters(v), v, P),
         x = ExitOutput(Trie(v), P, st), TextKept(v, C, tx, st, ol, ov)
  PROVE  TextKept(v, C, Append(tx, c), Start, Cat(ol, Cat(x, One(Unk))), Append(ov, c)) /\ x \in Seq(v)
<1> DEFINE b == Pending(v, st)
           u == One(Unk)
           o == One(c)
           w == One(o)
           e == <<>>
           m == Cat(x, u)
<1>1. b \in Seq(C) /\ x \in Seq(v) /\ x \in Seq(Seq(C)) /\ LPM(v, b) = x
  BY RepIn, ExitKnown
<1>2. Flat(x) = b
  <2> HIDE DEF b
  <2> QED
    BY <1>1, LPMFlat
<1>3. Matched(v, C, x, e) /\ TextsOf(x, e) = x
  BY <1>1, TextsOfTokens
<1>4. Matched(v, C, u, o) /\ TextsOf(u, o) = w
  BY TextsOfUnk
<1>5. o \in Seq(C) /\ e \in Seq(C)
  BY CatAlgebra
<1>6. w \in Seq(Seq(C)) /\ Flat(w) = o
  <2> HIDE DEF o
  <2> QED
    BY <1>5, CatAlgebra, FlatSmall
<1> HIDE DEF b, u, o, w, e
<1>7. Matched(v, C, m, Cat(e, o)) /\ TextsOf(m, Cat(e, o)) = Cat(x, w)
  <2>1. Matched(v, C, Cat(x, u), Cat(e, o)) /\ TextsOf(Cat(x, u), Cat(e, o)) = Cat(TextsOf(x, e), TextsOf(u, o))
    BY <1>3, <1>4, TextsOfCat
  <2> QED
    BY <1>3, <1>4, <2>1
<1>8. Cat(e, o) = o
  BY <1>5, CatAlgebra DEF e
<1>9. Flat(Cat(x, w)) = Cat(b, o)
  <2>1. Flat(Cat(x, w)) = Cat(Flat(x), Flat(w))
    BY <1>1, <1>6, FlatCat
  <2> QED
    BY <1>2, <1>6, <2>1
<1>10. Cat(b, o) \in Seq(C)
  BY <1>1, <1>5, CatAlgebra
<1>11. Pending(v, Start) = e /\ e \in Seq(C)
  BY <1>5, StartFacts DEF Pending, Rep, Start, e
<1> DEFINE z == Cat(b, o)
<1>12. Cat(z, e) = z
  <2>1. z \in Seq(C)
    BY <1>10
  <2> HIDE DEF z
  <2> QED
    BY <2>1, CatAlgebra DEF e
<1> HIDE DEF m
<1>13. TextKept(v, C, Append(tx, c), Start, Cat(ol, m), Cat(ov, o))
  <2>1. Matched(v, C, m, o)
    BY <1>7, <1>8
  <2>2. Cat(Pending(v, st), One(c)) = Cat(Flat(TextsOf(m, o)), Pending(v, Start))
    BY <1>7, <1>8, <1>9, <1>11, <1>12 DEF b, o
  <2>3. Pending(v, st) \in Seq(C) /\ Pending(v, Start) \in Seq(C)
    BY <1>1, <1>11 DEF b
  <2> QED
    BY <2>1, <2>2, <2>3, TextStep
<1>14. Append(ov, c) = Cat(ov, o)
  <2>1. ov \in Seq(C)
    BY DEF TextKept, Matched
  <2> QED
    BY <2>1, CatAlgebra DEF o
<1> QED
  BY <1>1, <1>13, <1>14 DEF m, u
-----------------------------------------------------------------------------
\* What was typed is what was read, and no part of it was lost.
TextInv ==
  /\ query \in Seq(Typed) /\ text = Spaced(query)
  /\ TextKept(vocab, CharsOf(vocab), text, state, olabels, oovs)

\* Tokens are texts, and unk is none.
LEMMA VocabTexts ==
  ASSUME NEW v \in Vocabs
  PROVE  v \subseteq Seq(CharsOf(v)) /\ Unk \notin v
<1>1. Unk \notin v
  BY TypingAssumption DEF Read!VocabulariesOK
<1>2. GoodVocab(v) /\ ExtractCharacters(v) \subseteq CharsOf(v)
  BY VocabFacts
<1> DEFINE E == ExtractCharacters(v)
           C == CharsOf(v)
<1>3. v \subseteq Seq(E) /\ E \subseteq C
  BY <1>2 DEF GoodVocab
<1> HIDE DEF E, C
<1>4. v \subseteq Seq(C)
  BY <1>3, SeqMonotonic
<1> QED
  BY <1>1, <1>4 DEF C

\* One more character.
LEMMA SpacedOn ==
  ASSUME NEW S, NEW q \in Seq(S), NEW c \in S
  PROVE  Spaced(Append(q, c)) = Append(Spaced(q), Spaced(<<c>>)[1])
<1> DEFINE Sp(k) == IF k = Blank THEN Space ELSE k
           p == Append(q, c)
           n == Len(q)
           o == <<c>>
           D == S \cup {Space}
           x == Spaced(q)
           y == Spaced(p)
           d == Sp(c)
           z == Append(x, d)
<1>1. /\ p \in Seq(S) /\ Len(p) = n + 1 /\ n \in Nat /\ p[n + 1] = c
      /\ \A i \in 1 .. n : p[i] = q[i]
  BY AppendProperties
<1>2. Spaced(o)[1] = d
  <2>1. Len(o) = 1 /\ o[1] = c /\ 1 \in 1 .. Len(o)
    OBVIOUS
  <2> HIDE DEF o
  <2> QED
    BY <2>1 DEF Spaced, ReplaceAll
<1>3. x = [i \in 1 .. n |-> Sp(q[i])]
  BY DEF Spaced, ReplaceAll
<1>4. y = [i \in 1 .. n + 1 |-> Sp(p[i])]
  <2> HIDE DEF p
  <2> QED
    BY <1>1 DEF Spaced, ReplaceAll
<1>5. \A i \in 1 .. n : q[i] \in S
  OBVIOUS
<1>6. \A i \in 1 .. n + 1 : p[i] \in S
  BY <1>1
<1>7. \A k \in S : Sp(k) \in D
  OBVIOUS
<1> HIDE DEF Sp, p, n, o, D, x, y, d, z
<1>8. x \in Seq(D) /\ Len(x) = n /\ \A i \in 1 .. n : x[i] = Sp(q[i])
  <2>1. x \in Seq(D) /\ DOMAIN x = 1 .. n /\ \A i \in 1 .. n : x[i] = Sp(q[i])
    BY <1>1, <1>3, <1>5, <1>7
  <2> QED
    BY <1>1, <2>1, LenProperties
<1>9. y \in Seq(D) /\ Len(y) = n + 1 /\ \A i \in 1 .. n + 1 : y[i] = Sp(p[i])
  <2>1. y \in Seq(D) /\ DOMAIN y = 1 .. n + 1 /\ \A i \in 1 .. n + 1 : y[i] = Sp(p[i])
    BY <1>1, <1>4, <1>6, <1>7
  <2> QED
    BY <1>1, <2>1, LenProperties
<1>10. d \in D /\ d = Sp(c)
  BY <1>7 DEF d
<1>11. z \in Seq(D) /\ Len(z) = n + 1 /\ z[n + 1] = d /\ \A i \in 1 .. n : z[i] = x[i]
  BY <1>8, <1>10, AppendProperties DEF z
<1>12. \A i \in 1 .. n + 1 : y[i] = z[i]
  <2> SUFFICES ASSUME NEW i \in 1 .. n + 1 PROVE y[i] = z[i]
    OBVIOUS
  <2>1. CASE i = n + 1
    BY <1>1, <1>9, <1>10, <1>11, <2>1
  <2>2. CASE i # n + 1
    <3>1. i \in 1 .. n
      BY <1>1, <2>2
    <3> QED
      BY <1>1, <1>8, <1>9, <1>11, <3>1
  <2> QED
    BY <2>1, <2>2
<1>13. y = z
  BY <1>9, <1>11, <1>12, SeqEqual
<1> QED
  BY <1>2, <1>13 DEF y, z, p, x, o

\* It holds where a query begins,
LEMMA TextInit == Init => TextInv
<1> SUFFICES ASSUME Init PROVE TextInv
  OBVIOUS
<1> DEFINE v == vocab
           C == CharsOf(v)
           b == <<Space>>
           e == <<>>
           p == Pending(v, b)
<1>1. v \in Vocabs /\ query = e /\ text = e /\ state = b /\ olabels = e /\ oovs = e
  BY ReadDefs, ReadPhi DEF Init, CandidatesInit, Read!Init, Read!Begin
<1>2. /\ GoodVocab(v) /\ b \in Trie(v) /\ ExtractCharacters(v) \subseteq C /\ Space \in C
      /\ v \subseteq Seq(C) /\ Unk \notin v
  BY <1>1, VocabFacts, VocabTexts
<1>3. query \in Seq(Typed)
  BY <1>1
<1>4. text = Spaced(query)
  <2>1. \A q : q = <<>> => Spaced(q) = <<>>
    <3> SUFFICES ASSUME NEW q, q = <<>> PROVE Spaced(q) = <<>>
      OBVIOUS
    <3>1. Len(q) = 0
      OBVIOUS
    <3>2. 1 .. Len(q) = {}
      BY <3>1
    <3>3. Spaced(q) = [i \in {} |-> IF q[i] = Blank THEN Space ELSE q[i]]
      BY <3>2 DEF Spaced, ReplaceAll
    <3> QED
      BY <3>3
  <2> QED
    BY <1>1, <2>1
<1>5. Matched(v, C, e, e) /\ TextsOf(e, e) = e
  <2>1. e \in Seq(v)
    OBVIOUS
  <2> HIDE DEF C
  <2> QED
    BY <1>2, <2>1, TextsOfTokens
<1>6. Flat(e) = e
  BY FlatSmall
<1>7. p \in Seq(C)
  <2> HIDE DEF C, b
  <2> QED
    BY <1>2, RepIn
<1>8. BegunText(v, e) = p
  <2>1. Cat(b, e) = b
    <3>1. b \in Seq(C)
      BY <1>2
    <3> HIDE DEF b, C
    <3> QED
      BY <3>1, CatAlgebra
  <2>2. BegunText(v, e) = IF Leaf(Trie(v), b) THEN e ELSE b
    BY <2>1 DEF BegunText
  <2>3. p = IF Leaf(Trie(v), b) THEN e ELSE b
    BY DEF Pending, Rep, Start
  <2> QED
    BY <2>2, <2>3
<1> HIDE DEF p
<1>9. Cat(e, p) = p
  <2> HIDE DEF C
  <2> QED
    BY <1>7, CatAlgebra
<1>10. Cat(Flat(TextsOf(e, e)), Pending(v, b)) = BegunText(v, e)
  BY <1>5, <1>6, <1>8, <1>9 DEF p
<1>11. TextKept(v, C, e, b, e, e)
  <2> HIDE DEF e, b, C
  <2> QED
    BY <1>5, <1>10 DEF TextKept
<1> QED
  BY <1>1, <1>3, <1>4, <1>11 DEF TextInv

\* a character that is typed keeps it,
LEMMA TextType ==
  ASSUME EncInv, TextInv, NEW k \in Typed, Type(k)
  PROVE  TextInv'
<1> DEFINE v == vocab
           C == CharsOf(vocab)
           P == Minimized(Trie(vocab), PhiTable(vocab))
           c == Spaced(<<k>>)[1]
<1>1. /\ vocab \in Vocabs /\ trie = Trie(vocab) /\ phi = P
      /\ text \in Seq(C) /\ state \in Trie(vocab)
  BY DEF EncInv
<1>2. /\ GoodVocab(v) /\ ExtractCharacters(v) \subseteq C /\ Space \in C
      /\ Minimal(C, v, P) /\ Minimal(ExtractCharacters(v), v, P)
      /\ v \subseteq Seq(C) /\ Unk \notin v
  BY <1>1, VocabFacts, VocabTexts
<1>3. c \in C
  BY DEF CharsOf
<1>4. /\ query \in Seq(Typed) /\ text = Spaced(query) /\ TextKept(v, C, text, state, olabels, oovs)
  BY DEF TextInv
<1>5. /\ query' = Append(query, k) /\ text' = Append(text, c)
      /\ Read!ReadKnown(c) \/ Read!ReadUnknown(c)
  <2>1. query' = Append(query, k) /\ (Read!ReadKnown(c) \/ Read!ReadUnknown(c))
    BY DEF Type
  <2> HIDE DEF c
  <2>2. text' = Append(text, c)
    BY <2>1 DEF Read!ReadKnown, Read!ReadUnknown
  <2> QED
    BY <2>1, <2>2
<1>6. query' \in Seq(Typed) /\ text' = Spaced(query')
  <2>1. Append(query, k) \in Seq(Typed)
    BY <1>4, AppendProperties
  <2>2. Spaced(Append(query, k)) = Append(Spaced(query), c)
    BY <1>4, SpacedOn
  <2> HIDE DEF c
  <2> QED
    BY <1>4, <1>5, <2>1, <2>2
<1> HIDE DEF P, C, c
<1>7. /\ vocab' = vocab
      /\ TextKept(v, C, text', state', olabels', oovs')
  <2>1. CASE Read!ReadKnown(c)
    <3> DEFINE step == MakeTransitions(Trie(v), P, state, c)
    <3>1. Read!MakeTransitions(trie, phi, state, c) = step
      BY <1>1, ReadMakeTransitions
    <3>2. c \in ExtractCharacters(v)
      BY <2>1, ReadDefs DEF Read!ReadKnown
    <3> HIDE DEF step
    <3>3. state' = step.to /\ olabels' = Cat(olabels, step.out) /\ oovs' = oovs /\ vocab' = vocab
      BY <2>1, <3>1 DEF Read!ReadKnown, Cat
    <3>4. TextKept(v, C, Append(text, c), step.to, Cat(olabels, step.out), oovs)
      BY <1>1, <1>2, <1>4, <3>2, KnownText DEF step
    <3> QED
      BY <1>5, <3>3, <3>4
  <2>2. CASE Read!ReadUnknown(c)
    <3> DEFINE x == ExitOutput(Trie(v), P, state)
    <3>1. Read!ExitOutput(trie, phi, state) = x
      BY <1>1, ReadExitOutput
    <3> HIDE DEF x
    <3>2. /\ state' = Start /\ olabels' = Cat(olabels, Cat(x, One(Unk))) /\ oovs' = Append(oovs, c)
          /\ vocab' = vocab
      BY <2>2, <3>1, ReadDefs DEF Read!ReadUnknown, Read!Left, Cat, One
    <3>3. TextKept(v, C, Append(text, c), Start, Cat(olabels, Cat(x, One(Unk))), Append(oovs, c))
      BY <1>1, <1>2, <1>3, <1>4, UnknownText DEF x
    <3> QED
      BY <1>5, <3>2, <3>3
  <2> QED
    BY <1>5, <2>1, <2>2
<1>8. TextInv' <=> /\ query' \in Seq(Typed) /\ text' = Spaced(query')
                   /\ TextKept(vocab', CharsOf(vocab'), text', state', olabels', oovs')
  BY DEF TextInv
<1> QED
  BY <1>6, <1>7, <1>8 DEF C

\* and so does every step.
LEMMA TextNext == EncInv /\ TextInv /\ [Next]_vars => TextInv'
<1> SUFFICES ASSUME EncInv, TextInv, [Next]_vars PROVE TextInv'
  OBVIOUS
<1> DEFINE Same == /\ vocab' = vocab /\ text' = text /\ state' = state /\ olabels' = olabels
                   /\ oovs' = oovs /\ query' = query
<1>1. CASE Same
  BY <1>1 DEF TextInv
<1>2. CASE Construct
  BY <1>1, <1>2 DEF Construct, CandidatesNext, Arrive, Follow, Filter, Store, fstVars, readVars, callVars
<1>3. CASE Complete
  BY <1>1, <1>3 DEF Complete, fstVars, readVars
<1>4. ASSUME NEW k \in Typed, Type(k) PROVE TextInv'
  BY <1>4, TextType
<1>5. CASE UNCHANGED vars
  BY <1>1, <1>5 DEF vars, fstVars, readVars, callVars
<1> QED
  BY <1>2, <1>3, <1>4, <1>5 DEF Next
-----------------------------------------------------------------------------
(* The words of a text *)

NoWords == [words |-> <<>>, word |-> <<>>]
WordsOf(C) == [words : Seq(Seq(C)), word : Seq(C)]

\* Split, character by character.
ReadStep(s, c) == IF c \in Blanks THEN [words |-> Words(s), word |-> <<>>]
                  ELSE [s EXCEPT !.word = Append(@, c)]
WordsReadAt(x, f, i) == IF i = 0 THEN NoWords ELSE ReadStep(f[i - 1], x[i])
WordsRead(x) == CHOOSE f : f = [i \in 0 .. Len(x) |-> WordsReadAt(x, f, i)]

\* It returns the words of the whole text.
LEMMA SplitIs ==
  ASSUME NEW x
  PROVE  Split(x) = Words(WordsRead(x)[Len(x)])
BY DEF Split, WordsRead, WordsReadAt, ReadStep, NoWords

\* What a character makes of words.
LEMMA ReadStepType ==
  ASSUME NEW C, NEW s \in WordsOf(C), NEW c \in C
  PROVE  /\ Words(s) \in Seq(Seq(C)) /\ ReadStep(s, c) \in WordsOf(C)
         /\ s.words \in Seq(Seq(C)) /\ s.word \in Seq(C)
         /\ c \in Blanks => ReadStep(s, c).words = Words(s) /\ ReadStep(s, c).word = <<>>
         /\ c \notin Blanks => ReadStep(s, c).words = s.words /\ ReadStep(s, c).word = Append(s.word, c)
<1>1. s.words \in Seq(Seq(C)) /\ s.word \in Seq(C)
  BY DEF WordsOf
<1>2. Words(s) \in Seq(Seq(C))
  <2> DEFINE ws == s.words
             w == s.word
             T == Seq(C)
  <2>1. ws \in Seq(T) /\ w \in T
    BY <1>1
  <2>2. Words(s) = IF w = <<>> THEN ws ELSE Append(ws, w)
    BY DEF Words
  <2> HIDE DEF ws, w, T
  <2>3. Append(ws, w) \in Seq(T)
    BY <2>1, AppendProperties
  <2> QED
    BY <2>1, <2>2, <2>3 DEF T
<1>3. CASE c \in Blanks
  <2>1. ReadStep(s, c) = [words |-> Words(s), word |-> <<>>]
    BY <1>3 DEF ReadStep
  <2> QED
    BY <1>1, <1>2, <1>3, <2>1 DEF WordsOf
<1>4. CASE c \notin Blanks
  <2> DEFINE w == Append(s.word, c)
  <2>1. w \in Seq(C)
    BY <1>1, AppendProperties
  <2>2. ReadStep(s, c) = [s EXCEPT !.word = w]
    BY <1>4 DEF ReadStep
  <2> HIDE DEF w
  <2>3. ReadStep(s, c).words = s.words /\ ReadStep(s, c).word = w /\ ReadStep(s, c) \in WordsOf(C)
    BY <2>1, <2>2 DEF WordsOf
  <2> QED
    BY <1>1, <1>2, <1>4, <2>3 DEF w
<1> QED
  BY <1>3, <1>4

\* Split is defined on every text.
LEMMA WordsReadFacts ==
  ASSUME NEW C, NEW x \in Seq(C)
  PROVE  /\ WordsRead(x)[0] = NoWords
         /\ \A i \in 1 .. Len(x) : WordsRead(x)[i] = ReadStep(WordsRead(x)[i - 1], x[i])
         /\ \A i \in 0 .. Len(x) : WordsRead(x)[i] \in WordsOf(C)
<1> DEFINE n == Len(x)
           W == WordsOf(C)
           Is(f) == f = [i \in 0 .. n |-> WordsReadAt(x, f, i)]
<1>1. n \in Nat /\ \A i \in 1 .. n : x[i] \in C
  BY ElementOfSeq
<1>2. NoWords \in W
  BY DEF NoWords, WordsOf
<1>3. \E f \in [0 .. n -> W] : Is(f)
  <2> DEFINE h == [i \in 1 .. n |-> [s \in W |-> ReadStep(s, x[i])]]
  <2>1. \A i \in 1 .. n : \A s \in W : ReadStep(s, x[i]) \in W
    BY <1>1, ReadStepType
  <2>2. h \in [1 .. n -> [W -> W]] /\ \A i \in 1 .. n : \A s \in W : h[i][s] = ReadStep(s, x[i])
    BY <2>1
  <2> HIDE DEF h, W, n
  <2>3. PICK g \in [0 .. n -> W] : IsRec(n, NoWords, h, g)
    BY <1>1, <1>2, <2>2, RecExists
  <2>4. \A i \in 0 .. n : RecAt(NoWords, h, g, i) = WordsReadAt(x, g, i)
    <3> SUFFICES ASSUME NEW i \in 0 .. n PROVE RecAt(NoWords, h, g, i) = WordsReadAt(x, g, i)
      OBVIOUS
    <3>1. CASE i = 0
      BY <3>1 DEF RecAt, WordsReadAt
    <3>2. CASE i # 0
      <4>1. i \in 1 .. n /\ i - 1 \in 0 .. n
        BY <1>1, <3>2
      <4>2. g[i - 1] \in W
        BY <4>1
      <4>3. h[i][g[i - 1]] = ReadStep(g[i - 1], x[i])
        BY <2>2, <4>1, <4>2
      <4> QED
        BY <3>2, <4>3 DEF RecAt, WordsReadAt
    <3> QED
      BY <3>1, <3>2
  <2>5. g = [i \in 0 .. n |-> RecAt(NoWords, h, g, i)]
    BY <2>3 DEF IsRec
  <2>6. Is(g)
    BY <2>4, <2>5
  <2> QED
    BY <2>6
<1> DEFINE R == WordsRead(x)
<1>4. \A f, g : Is(f) /\ f \in [0 .. n -> W] /\ Is(g) => g = f
  <2> SUFFICES ASSUME NEW f, NEW g, Is(f), f \in [0 .. n -> W], Is(g) PROVE g = f
    OBVIOUS
  <2>1. \A i \in 0 .. n : f[i] = WordsReadAt(x, f, i)
    <3>1. Is(f)
      OBVIOUS
    <3> QED
      BY <3>1
  <2>2. \A i \in 0 .. n : g[i] = WordsReadAt(x, g, i)
    <3>1. Is(g)
      OBVIOUS
    <3> QED
      BY <3>1
  <2>3. f = [i \in 0 .. n |-> f[i]]
    OBVIOUS
  <2>4. g = [i \in 0 .. n |-> g[i]]
    OBVIOUS
  <2> DEFINE K == {i \in Nat : i <= n => g[i] = f[i]}
  <2> HIDE DEF Is, n, W
  <2>5. ASSUME NEW i \in Nat, \A j \in 0 .. i - 1 : j \in K PROVE i \in K
    <3> SUFFICES ASSUME i <= n PROVE g[i] = f[i]
      OBVIOUS
    <3>1. i \in 0 .. n
      BY <1>1
    <3>2. CASE i = 0
      BY <2>1, <2>2, <3>1, <3>2 DEF WordsReadAt
    <3>3. CASE i # 0
      <4>1. i - 1 \in 0 .. i - 1 /\ i - 1 \in Nat /\ i - 1 <= n
        BY <1>1, <3>3
      <4>2. g[i - 1] = f[i - 1]
        BY <2>5, <4>1
      <4> QED
        BY <2>1, <2>2, <3>1, <3>3, <4>2 DEF WordsReadAt
    <3> QED
      BY <3>2, <3>3
  <2>6. \A i \in Nat : i \in K
    <3> HIDE DEF K
    <3> QED
      BY <2>5, SetInduction
  <2>7. \A i \in 0 .. n : g[i] = f[i]
    BY <1>1, <2>6
  <2> QED
    BY <2>3, <2>4, <2>7
<1>5. R \in [0 .. n -> W] /\ Is(R)
  <2>1. R = CHOOSE f : Is(f)
    BY DEF WordsRead
  <2> HIDE DEF R, W, n, Is
  <2>2. Is(R)
    BY <1>3, <2>1
  <2>3. PICK f \in [0 .. n -> W] : Is(f)
    BY <1>3
  <2>4. R = f
    BY <1>4, <2>2, <2>3
  <2> QED
    BY <2>2, <2>4
<1>6. \A i \in 0 .. n : R[i] = WordsReadAt(x, R, i)
  <2>1. R = [i \in 0 .. n |-> WordsReadAt(x, R, i)]
    BY <1>5
  <2> HIDE DEF R, n
  <2> QED
    BY <2>1
<1> HIDE DEF R, n, W, Is
<1>7. R[0] = NoWords
  <2>1. 0 \in 0 .. n
    BY <1>1
  <2> QED
    BY <1>6, <2>1 DEF WordsReadAt
<1>8. \A i \in 1 .. n : R[i] = ReadStep(R[i - 1], x[i])
  <2>1. \A i \in 1 .. n : i \in 0 .. n /\ i # 0
    BY <1>1
  <2> QED
    BY <1>6, <2>1 DEF WordsReadAt
<1>9. \A i \in 0 .. n : R[i] \in W
  BY <1>5
<1> QED
  BY <1>7, <1>8, <1>9 DEF R, n, W

\* The next n characters are the same.
Alike(x, m, y, k, n) == m + n <= Len(x) /\ k + n <= Len(y) /\ \A i \in 1 .. n : x[m + i] = y[k + i]

\* Words that were read alike go on alike.
LEMMA ReadAlike ==
  ASSUME NEW C, NEW x \in Seq(C), NEW y \in Seq(C), NEW m \in Nat, NEW k \in Nat, NEW n \in Nat,
         Alike(x, m, y, k, n), WordsRead(x)[m] = WordsRead(y)[k]
  PROVE  WordsRead(x)[m + n] = WordsRead(y)[k + n]
<1>1. /\ Len(x) \in Nat /\ Len(y) \in Nat /\ m + n <= Len(x) /\ k + n <= Len(y)
      /\ \A i \in 1 .. n : x[m + i] = y[k + i]
  BY DEF Alike
<1>2. \A i \in 1 .. Len(x) : WordsRead(x)[i] = ReadStep(WordsRead(x)[i - 1], x[i])
  BY WordsReadFacts
<1>3. \A i \in 1 .. Len(y) : WordsRead(y)[i] = ReadStep(WordsRead(y)[i - 1], y[i])
  BY WordsReadFacts
<1> DEFINE K == {i \in Nat : i <= n => WordsRead(x)[m + i] = WordsRead(y)[k + i]}
<1>4. ASSUME NEW i \in Nat, \A j \in 0 .. i - 1 : j \in K PROVE i \in K
  <2> SUFFICES ASSUME i <= n PROVE WordsRead(x)[m + i] = WordsRead(y)[k + i]
    OBVIOUS
  <2>1. CASE i = 0
    BY <2>1
  <2>2. CASE i # 0
    <3> DEFINE j == i - 1
               p == m + i
               q == k + i
    <3>1. /\ j \in 0 .. i - 1 /\ j \in Nat /\ j <= n /\ i \in 1 .. n
          /\ p \in 1 .. Len(x) /\ q \in 1 .. Len(y) /\ p - 1 = m + j /\ q - 1 = k + j
      BY <1>1, <2>2
    <3>2. WordsRead(x)[m + j] = WordsRead(y)[k + j]
      BY <1>4, <3>1
    <3>3. x[p] = y[q]
      BY <1>1, <3>1
    <3> HIDE DEF j, p, q
    <3>4. WordsRead(x)[p] = ReadStep(WordsRead(x)[p - 1], x[p])
      BY <1>2, <3>1
    <3>5. WordsRead(y)[q] = ReadStep(WordsRead(y)[q - 1], y[q])
      BY <1>3, <3>1
    <3> QED
      BY <3>1, <3>2, <3>3, <3>4, <3>5 DEF p, q
  <2> QED
    BY <2>1, <2>2
<1>5. \A i \in Nat : i \in K
  <2> HIDE DEF K
  <2> QED
    BY <1>4, SetInduction
<1> QED
  BY <1>5
-----------------------------------------------------------------------------
(* Words with one blank between two of them *)

Shown(s) == Join(Words(s))
BlanksPut(ws) == [i \in DOMAIN ws |-> IF i = Len(ws) THEN ws[i] ELSE Append(ws[i], Blank)]

\* One more text at the end of texts.
LEMMA FlatAppend ==
  ASSUME NEW C, NEW s \in Seq(Seq(C)), NEW x \in Seq(C)
  PROVE  /\ Append(s, x) \in Seq(Seq(C)) /\ Flat(Append(s, x)) = Cat(Flat(s), x)
         /\ Flat(s) \in Seq(C)
<1> DEFINE T == Seq(C)
<1>1. s \in Seq(T) /\ x \in T
  OBVIOUS
<1>2. Flat(One(x)) = x
  BY FlatSmall
<1> HIDE DEF T
<1>3. Append(s, x) \in Seq(T) /\ Append(s, x) = Cat(s, One(x)) /\ One(x) \in Seq(T)
  BY <1>1, AppendProperties, CatAlgebra
<1>4. Flat(Cat(s, One(x))) = Cat(Flat(s), Flat(One(x)))
  BY <1>3, FlatCat DEF T
<1>5. Flat(s) \in Seq(C)
  BY FlatIsPart
<1> QED
  BY <1>2, <1>3, <1>4, <1>5 DEF T

\* The word before it gets one.
BlanksPutAt(ws, w, p, b) ==
  /\ BlanksPut(ws) = Append(p, b)
  /\ BlanksPut(Append(ws, w)) = Append(Append(p, Append(b, Blank)), w)

\* Where blanks are put when there is one more word.
LEMMA BlanksPutOn ==
  ASSUME NEW T, NEW ws \in Seq(T), NEW w \in T, ws # <<>>, \A x \in T : Append(x, Blank) \in T
  PROVE  \E p \in Seq(T), b \in T : BlanksPutAt(ws, w, p, b)
<1> DEFINE n == Len(ws)
           us == Append(ws, w)
           A(i) == Append(ws[i], Blank)
           p == [i \in 1 .. n - 1 |-> A(i)]
           b == ws[n]
           x == Append(p, b)
           y == Append(p, Append(b, Blank))
           z == Append(y, w)
           r == BlanksPut(ws)
           s == BlanksPut(us)
<1>1. n \in Nat /\ n # 0 /\ n - 1 \in Nat /\ n \in 1 .. n /\ (n - 1) + 1 = n /\ DOMAIN ws = 1 .. n
  BY EmptySeq
<1>2. \A i \in 1 .. n : ws[i] \in T /\ A(i) \in T
  OBVIOUS
<1>3. /\ us \in Seq(T) /\ Len(us) = n + 1 /\ us[n + 1] = w /\ \A i \in 1 .. n : us[i] = ws[i]
  BY AppendProperties
<1>4. p \in Seq(T) /\ Len(p) = n - 1 /\ \A i \in 1 .. n - 1 : p[i] = A(i)
  <2>1. \A i \in 1 .. n - 1 : i \in 1 .. n
    BY <1>1
  <2> HIDE DEF A, n
  <2>2. p \in Seq(T) /\ DOMAIN p = 1 .. n - 1 /\ \A i \in 1 .. n - 1 : p[i] = A(i)
    BY <1>1, <1>2, <2>1
  <2> HIDE DEF p
  <2> QED
    BY <1>1, <2>2, LenProperties
<1>5. b \in T /\ Append(b, Blank) \in T /\ Append(b, Blank) = A(n)
  BY <1>1, <1>2
<1>6. r = [i \in 1 .. n |-> IF i = n THEN ws[i] ELSE A(i)]
  BY <1>1 DEF BlanksPut
<1>7. s = [i \in 1 .. n + 1 |-> IF i = n + 1 THEN us[i] ELSE Append(us[i], Blank)]
  <2>1. DOMAIN us = 1 .. n + 1
    BY <1>1, <1>3, LenProperties
  <2> HIDE DEF us, n
  <2> QED
    BY <1>3, <2>1 DEF BlanksPut
<1>8. \A i \in 1 .. n : Append(us[i], Blank) = A(i)
  BY <1>3
<1> HIDE DEF n, us, A, p, b
<1>9. x \in Seq(T) /\ Len(x) = n /\ x[n] = b /\ \A i \in 1 .. n - 1 : x[i] = A(i)
  BY <1>1, <1>4, <1>5, AppendProperties
<1> DEFINE a == Append(b, Blank)
<1>10. y \in Seq(T) /\ Len(y) = n /\ y[n] = A(n) /\ \A i \in 1 .. n - 1 : y[i] = A(i)
  <2>1. a \in T /\ a = A(n)
    BY <1>5
  <2> HIDE DEF a
  <2>2. Append(p, a) \in Seq(T) /\ Len(Append(p, a)) = n /\ Append(p, a)[n] = A(n)
        /\ \A i \in 1 .. n - 1 : Append(p, a)[i] = A(i)
    BY <1>1, <1>4, <2>1, AppendProperties
  <2> QED
    BY <2>2 DEF a
<1> HIDE DEF x, y
<1>11. z \in Seq(T) /\ Len(z) = n + 1 /\ z[n + 1] = w /\ \A i \in 1 .. n : z[i] = A(i)
  <2>1. Len(z) = n + 1 /\ z \in Seq(T) /\ z[n + 1] = w /\ \A i \in 1 .. n : z[i] = y[i]
    BY <1>1, <1>10, AppendProperties
  <2>2. \A i \in 1 .. n : i = n \/ i \in 1 .. n - 1
    BY <1>1
  <2> QED
    BY <1>10, <2>1, <2>2
<1> HIDE DEF z, r, s
<1>12. r = x
  <2>1. x = [i \in 1 .. n |-> x[i]]
    BY <1>9
  <2>2. \A i \in 1 .. n : x[i] = IF i = n THEN ws[i] ELSE A(i)
    <3>1. \A i \in 1 .. n : i = n \/ i \in 1 .. n - 1
      BY <1>1
    <3> QED
      BY <1>9, <3>1 DEF b
  <2> QED
    BY <1>6, <2>1, <2>2
<1>13. s = z
  <2>1. z = [i \in 1 .. n + 1 |-> z[i]]
    BY <1>11
  <2>2. \A i \in 1 .. n + 1 : z[i] = IF i = n + 1 THEN us[i] ELSE Append(us[i], Blank)
    <3>1. \A i \in 1 .. n + 1 : i = n + 1 \/ (i # n + 1 /\ i \in 1 .. n)
      BY <1>1
    <3> QED
      BY <1>3, <1>8, <1>11, <3>1
  <2> QED
    BY <1>7, <2>1, <2>2
<1> QED
  <2>1. BlanksPutAt(ws, w, p, b)
    BY <1>12, <1>13 DEF r, s, x, y, z, us, BlanksPutAt
  <2> QED
    BY <1>4, <1>5, <2>1

\* What was joined is still there when a word is added.
LEMMA JoinOn ==
  ASSUME NEW C, Blank \in C, NEW ws \in Seq(Seq(C)), NEW w \in Seq(C)
  PROVE  /\ Join(Append(ws, w)) = IF ws = <<>> THEN w ELSE Cat(Join(ws), Cat(One(Blank), w))
         /\ Join(ws) \in Seq(C)
         /\ ws = <<>> => Join(ws) = <<>>
<1> DEFINE T == Seq(C)
<1>1. ws \in Seq(T) /\ w \in T
  OBVIOUS
<1>2. \A x \in T : Append(x, Blank) \in T /\ Append(x, Blank) = Cat(x, One(Blank))
  BY AppendProperties, CatAlgebra
<1>3. \A us : Join(us) = Flat(BlanksPut(us))
  BY DEF Join, Flat, BlanksPut
<1>4. CASE ws = <<>>
  <2> DEFINE o == One(w)
             e == <<>>
  <2>1. Append(ws, w) = o
    BY <1>4 DEF One
  <2>2. BlanksPut(o) = o
    BY DEF BlanksPut, One
  <2>3. BlanksPut(e) = e
    BY DEF BlanksPut
  <2>4. Flat(o) = w /\ Flat(e) = e
    BY FlatSmall
  <2>5. e \in T
    OBVIOUS
  <2> QED
    BY <1>3, <1>4, <2>1, <2>2, <2>3, <2>4, <2>5
<1>5. CASE ws # <<>>
  <2> HIDE DEF T
  <2>1. PICK p \in Seq(T), b \in T : BlanksPutAt(ws, w, p, b)
    <3>1. \A x \in T : Append(x, Blank) \in T
      BY <1>2
    <3> QED
      BY <1>1, <1>5, <3>1, BlanksPutOn
  <2> DEFINE f == Flat(p)
             k == One(Blank)
             a == Append(b, Blank)
             q == Append(p, a)
  <2>2. Flat(Append(p, b)) = Cat(f, b) /\ f \in Seq(C)
    BY FlatAppend DEF T
  <2>3. a \in T /\ a = Cat(b, k)
    BY <1>2
  <2> HIDE DEF a
  <2>4. q \in Seq(T) /\ Flat(q) = Cat(f, a)
    BY <2>3, FlatAppend DEF T
  <2> HIDE DEF q
  <2>5. Flat(Append(q, w)) = Cat(Cat(f, a), w)
    BY <2>4, FlatAppend DEF T
  <2>6. f \in Seq(C) /\ b \in Seq(C) /\ k \in Seq(C) /\ w \in Seq(C) /\ a \in Seq(C)
    <3>1. k \in Seq(C)
      BY CatAlgebra
    <3> QED
      BY <2>2, <2>3, <3>1 DEF T
  <2> HIDE DEF f, k
  <2>7. Cat(Cat(f, a), w) = Cat(Cat(f, b), Cat(k, w)) /\ Cat(f, b) \in Seq(C)
    <3>1. Cat(k, w) \in Seq(C) /\ Cat(f, b) \in Seq(C)
      BY <2>6, CatAlgebra
    <3>2. Cat(f, Cat(b, k)) = Cat(Cat(f, b), k)
      BY <2>6, CatAlgebra
    <3>3. Cat(Cat(Cat(f, b), k), w) = Cat(Cat(f, b), Cat(k, w))
      BY <2>6, <3>1, CatAlgebra
    <3> QED
      BY <2>3, <3>1, <3>2, <3>3
  <2>8. Join(ws) = Cat(f, b)
    BY <1>3, <2>1, <2>2 DEF BlanksPutAt
  <2>9. Join(Append(ws, w)) = Cat(Cat(f, a), w)
    BY <1>3, <2>1, <2>5 DEF q, a, BlanksPutAt
  <2> QED
    BY <1>5, <2>7, <2>8, <2>9 DEF k
<1> QED
  BY <1>4, <1>5

\* A sequence begins with itself, and with what a beginning of it begins with.
LEMMA StartsOn ==
  ASSUME NEW C, NEW a \in Seq(C), NEW b \in Seq(C), NEW c \in Seq(C)
  PROVE  /\ Starts(C, a, a) /\ Starts(C, a, Cat(a, b))
         /\ Starts(C, a, b) /\ Starts(C, b, c) => Starts(C, a, c)
<1>1. Starts(C, a, Cat(a, b))
  BY DEF Starts
<1>2. Starts(C, a, a)
  <2>1. a = Cat(a, <<>>) /\ <<>> \in Seq(C)
    BY CatAlgebra
  <2> QED
    BY <2>1 DEF Starts
<1>3. ASSUME Starts(C, a, b), Starts(C, b, c) PROVE Starts(C, a, c)
  <2>1. PICK x \in Seq(C) : b = Cat(a, x)
    BY <1>3 DEF Starts
  <2>2. PICK y \in Seq(C) : c = Cat(b, y)
    BY <1>3 DEF Starts
  <2>3. c = Cat(a, Cat(x, y)) /\ Cat(x, y) \in Seq(C)
    <3>1. Cat(Cat(a, x), y) = Cat(a, Cat(x, y)) /\ Cat(x, y) \in Seq(C)
      BY CatAlgebra
    <3> QED
      BY <2>1, <2>2, <3>1
  <2> QED
    BY <2>3 DEF Starts
<1> QED
  BY <1>1, <1>2, <1>3

\* What is shown after a character begins with what was before.
LEMMA ShownOn ==
  ASSUME NEW C, Blank \in C, NEW s \in WordsOf(C), NEW c \in C
  PROVE  Shown(s) \in Seq(C) /\ Starts(C, Shown(s), Shown(ReadStep(s, c)))
<1> DEFINE t == ReadStep(s, c)
           ws == s.words
           w == s.word
           T == Seq(C)
<1>1. /\ Words(s) \in Seq(T) /\ ws \in Seq(T) /\ w \in T /\ t \in WordsOf(C)
      /\ c \in Blanks => t.words = Words(s) /\ t.word = <<>>
      /\ c \notin Blanks => t.words = ws /\ t.word = Append(w, c)
  BY ReadStepType
<1>2. Words(t) \in Seq(T)
  BY <1>1, ReadStepType
<1>3. Shown(s) \in Seq(C) /\ Shown(t) \in Seq(C)
  BY <1>1, <1>2, JoinOn DEF Shown
<1>4. CASE c \in Blanks
  <2>1. Words(t) = Words(s)
    BY <1>1, <1>4 DEF Words
  <2>2. Shown(t) = Shown(s)
    BY <2>1 DEF Shown
  <2> QED
    BY <1>3, <2>2, StartsOn
<1>5. CASE c \notin Blanks
  <2> DEFINE o == One(c)
             u == Append(w, c)
             j == Join(ws)
             k == One(Blank)
  <2>1. u \in T /\ u # <<>> /\ u = Cat(w, o) /\ o \in T
    <3>1. w \in Seq(C)
      BY <1>1
    <3> HIDE DEF w
    <3>2. Append(w, c) \in Seq(C) /\ Append(w, c) # <<>>
      BY <3>1, AppendProperties
    <3>3. One(c) \in Seq(C) /\ Append(w, c) = Cat(w, One(c))
      BY <3>1, CatAlgebra
    <3> QED
      BY <3>2, <3>3
  <2>2. Words(t) = Append(ws, u)
    BY <1>1, <1>5, <2>1 DEF Words
  <2> HIDE DEF u, o, t
  <2>3. Join(Append(ws, u)) = (IF ws = <<>> THEN u ELSE Cat(j, Cat(k, u))) /\ j \in T /\ (ws = <<>> => j = <<>>)
    BY <1>1, <2>1, JoinOn
  <2>4. Shown(t) = IF ws = <<>> THEN u ELSE Cat(j, Cat(k, u))
    BY <2>2, <2>3 DEF Shown
  <2>5. k \in T
    BY CatAlgebra
  <2>6. Cat(k, u) \in T /\ \A x \in T : Cat(<<>>, x) = x
    BY <2>1, <2>5, CatAlgebra
  <2>7. CASE w = <<>>
    <3>1. Shown(s) = j
      BY <2>7 DEF Shown, Words
    <3> DEFINE z == IF ws = <<>> THEN u ELSE Cat(k, u)
    <3>2. z \in Seq(C)
      BY <2>1, <2>6
    <3>3. Shown(t) = Cat(j, z)
      BY <2>1, <2>3, <2>4, <2>6
    <3> HIDE DEF z
    <3>4. Starts(C, j, Cat(j, z))
      BY <3>2 DEF Starts
    <3> QED
      BY <1>3, <3>1, <3>3, <3>4 DEF t
  <2>8. CASE w # <<>>
    <3>1. Shown(s) = Join(Append(ws, w))
      BY <2>8 DEF Shown, Words
    <3>2. Join(Append(ws, w)) = IF ws = <<>> THEN w ELSE Cat(j, Cat(k, w))
      BY <1>1, JoinOn
    <3> HIDE DEF j, k, w, ws
    <3>3. ws # <<>> => Cat(j, Cat(k, u)) = Cat(Cat(j, Cat(k, w)), o)
      <4>0. j \in Seq(C) /\ k \in Seq(C) /\ w \in Seq(C) /\ o \in Seq(C)
        BY <1>1, <2>1, <2>3, <2>5
      <4>1. Cat(k, Cat(w, o)) = Cat(Cat(k, w), o) /\ Cat(k, w) \in Seq(C)
        BY <4>0, CatAlgebra
      <4>2. Cat(Cat(j, Cat(k, w)), o) = Cat(j, Cat(Cat(k, w), o))
        BY <4>0, <4>1, CatAlgebra
      <4> QED
        BY <2>1, <4>1, <4>2
    <3>4. Shown(t) = Cat(Shown(s), o)
      BY <2>1, <2>4, <3>1, <3>2, <3>3
    <3>5. o \in Seq(C)
      BY <2>1
    <3> QED
      BY <1>3, <3>4, <3>5 DEF Starts, t
  <2> QED
    BY <2>7, <2>8 DEF t
<1> QED
  BY <1>3, <1>4, <1>5

\* So is what was shown of any beginning of a text.
LEMMA ShownOfMore ==
  ASSUME NEW C, Blank \in C, NEW x \in Seq(C), NEW m \in 0 .. Len(x)
  PROVE  Starts(C, Shown(WordsRead(x)[m]), Shown(WordsRead(x)[Len(x)]))
<1> DEFINE R == WordsRead(x)
           n == Len(x) - m
<1>1. /\ \A i \in 1 .. Len(x) : R[i] = ReadStep(R[i - 1], x[i])
      /\ \A i \in 0 .. Len(x) : R[i] \in WordsOf(C)
      /\ Len(x) \in Nat /\ \A i \in 1 .. Len(x) : x[i] \in C
  BY WordsReadFacts
<1>2. n \in Nat /\ m + n = Len(x) /\ m \in Nat
  BY <1>1
<1> HIDE DEF R, n
<1> DEFINE K == {i \in Nat : i <= n => Starts(C, Shown(R[m]), Shown(R[m + i]))}
<1>3. \A i \in 0 .. Len(x) : Shown(R[i]) \in Seq(C)
  <2> SUFFICES ASSUME NEW i \in 0 .. Len(x) PROVE Shown(R[i]) \in Seq(C)
    OBVIOUS
  <2> DEFINE s == R[i]
  <2>1. s \in WordsOf(C)
    BY <1>1
  <2> HIDE DEF s
  <2>2. Shown(s) \in Seq(C)
    BY <2>1, ShownOn
  <2> QED
    BY <2>2 DEF s
<1>4. ASSUME NEW i \in Nat, \A j \in 0 .. i - 1 : j \in K PROVE i \in K
  <2> SUFFICES ASSUME i <= n PROVE Starts(C, Shown(R[m]), Shown(R[m + i]))
    OBVIOUS
  <2> DEFINE a == Shown(R[m])
  <2>0. a \in Seq(C)
    BY <1>1, <1>2, <1>3
  <2>1. CASE i = 0
    <3>1. R[m + i] = R[m]
      BY <1>2, <2>1
    <3>2. Starts(C, a, a)
      <4> HIDE DEF a
      <4> QED
        BY <2>0, StartsOn
    <3> QED
      BY <3>1, <3>2
  <2>2. CASE i # 0
    <3> DEFINE j == i - 1
               p == m + j
               q == m + i
               s == R[p]
               t == R[q]
               b == Shown(s)
               c == Shown(t)
    <3>1. /\ j \in 0 .. i - 1 /\ j \in Nat /\ j <= n
          /\ p \in 0 .. Len(x) /\ q \in 1 .. Len(x) /\ q \in 0 .. Len(x) /\ q - 1 = p
      BY <1>1, <1>2, <2>2
    <3>2. Starts(C, a, b)
      BY <1>4, <3>1
    <3>3. s \in WordsOf(C) /\ x[q] \in C /\ t = ReadStep(s, x[q])
      BY <1>1, <3>1
    <3>4. b \in Seq(C) /\ c \in Seq(C)
      BY <1>3, <3>1
    <3> HIDE DEF a, s, t, p, q
    <3>5. Starts(C, b, c)
      BY <3>3, ShownOn
    <3> HIDE DEF b, c
    <3>6. Starts(C, a, c)
      BY <2>0, <3>2, <3>4, <3>5, StartsOn
    <3> QED
      BY <3>6 DEF a, c, t, q
  <2> QED
    BY <2>1, <2>2
<1>5. \A i \in Nat : i \in K
  <2> HIDE DEF K
  <2> QED
    BY <1>4, SetInduction
<1>6. Starts(C, Shown(R[m]), Shown(R[m + n]))
  BY <1>2, <1>5
<1> QED
  BY <1>2, <1>6 DEF R

\* A text that goes on is shown like it, and goes on.
LEMMA SplitOn ==
  ASSUME NEW C, Blank \in C, NEW a \in Seq(C), NEW b \in Seq(C)
  PROVE  /\ Starts(C, Join(Split(a)), Join(Split(Cat(a, b))))
         /\ Join(Split(a)) \in Seq(C) /\ Join(Split(Cat(a, b))) \in Seq(C)
<1> DEFINE x == Cat(a, b)
           m == Len(a)
<1>1. /\ x \in Seq(C) /\ Len(x) = m + Len(b) /\ m \in Nat /\ Len(b) \in Nat
      /\ \A i \in 1 .. m : x[i] = a[i]
  <2>1. IsCat(C, x, a, b)
    BY CatIs
  <2> HIDE DEF x
  <2> QED
    BY <2>1 DEF IsCat
<1> HIDE DEF x
<1>2. \A y \in Seq(C) : Join(Split(y)) = Shown(WordsRead(y)[Len(y)])
  BY SplitIs DEF Shown
<1>3. \A y \in Seq(C) : Join(Split(y)) \in Seq(C)
  <2> SUFFICES ASSUME NEW y \in Seq(C) PROVE Join(Split(y)) \in Seq(C)
    OBVIOUS
  <2> DEFINE s == WordsRead(y)[Len(y)]
  <2>1. s \in WordsOf(C)
    <3>1. Len(y) \in 0 .. Len(y)
      OBVIOUS
    <3> QED
      BY <3>1, WordsReadFacts
  <2> HIDE DEF s
  <2>2. Shown(s) \in Seq(C)
    BY <2>1, ShownOn
  <2> QED
    BY <1>2, <2>2 DEF s
<1>4. WordsRead(x)[m] = WordsRead(a)[m]
  <2> DEFINE z == 0
  <2>1. z \in Nat /\ z + m <= Len(x) /\ z + m <= Len(a) /\ z + m = m
    BY <1>1
  <2>2. WordsRead(x)[z] = WordsRead(a)[z]
    BY <1>1, WordsReadFacts
  <2>3. Alike(x, z, a, z, m)
    BY <1>1, <2>1 DEF Alike
  <2> HIDE DEF z, m
  <2>4. WordsRead(x)[z + m] = WordsRead(a)[z + m]
    BY <1>1, <2>1, <2>2, <2>3, ReadAlike
  <2> QED
    BY <2>1, <2>4
<1>5. Starts(C, Shown(WordsRead(x)[m]), Shown(WordsRead(x)[Len(x)]))
  <2>1. m \in 0 .. Len(x)
    BY <1>1
  <2> HIDE DEF m
  <2> QED
    BY <1>1, <2>1, ShownOfMore
<1> QED
  BY <1>1, <1>2, <1>3, <1>4, <1>5 DEF x

\* A blank at the front is not shown.
LEMMA SplitSkip ==
  ASSUME NEW C, NEW a \in Seq(C), NEW c \in C, c \in Blanks
  PROVE  Split(Cat(One(c), a)) = Split(a)
<1> DEFINE o == One(c)
           x == Cat(o, a)
           n == Len(a)
<1>1. /\ x \in Seq(C) /\ Len(x) = 1 + n /\ n \in Nat /\ x[1] = c
      /\ \A i \in 1 .. n : x[1 + i] = a[i]
  <2>1. o \in Seq(C) /\ Len(o) = 1 /\ o[1] = c
    BY CatAlgebra DEF One
  <2> HIDE DEF o
  <2>2. IsCat(C, x, o, a)
    BY <2>1, CatIs
  <2> HIDE DEF x
  <2> QED
    BY <2>1, <2>2 DEF IsCat
<1> HIDE DEF x, n
<1>2. WordsRead(x)[0] = NoWords /\ WordsRead(a)[0] = NoWords
  BY <1>1, WordsReadFacts
<1>3. WordsRead(x)[1] = ReadStep(NoWords, c)
  <2>1. \A i \in 1 .. Len(x) : WordsRead(x)[i] = ReadStep(WordsRead(x)[i - 1], x[i])
    BY <1>1, WordsReadFacts
  <2>2. 1 \in 1 .. Len(x) /\ 1 - 1 = 0
    BY <1>1
  <2> QED
    BY <1>1, <1>2, <2>1, <2>2
<1>4. ReadStep(NoWords, c) = NoWords
  BY DEF ReadStep, NoWords, Words
<1>5. WordsRead(x)[1 + n] = WordsRead(a)[n]
  <2> DEFINE z == 0
             k == 1
  <2>1. z \in Nat /\ k \in Nat /\ k + n <= Len(x) /\ z + n <= Len(a) /\ z + n = n
    BY <1>1 DEF n
  <2>2. WordsRead(x)[k] = WordsRead(a)[z]
    BY <1>2, <1>3, <1>4
  <2>3. Alike(x, k, a, z, n)
    BY <1>1, <2>1 DEF Alike
  <2> HIDE DEF z, k
  <2>4. WordsRead(x)[k + n] = WordsRead(a)[z + n]
    BY <1>1, <2>1, <2>2, <2>3, ReadAlike
  <2> QED
    BY <2>1, <2>4 DEF k
<1> QED
  BY <1>1, <1>5, SplitIs DEF x, n, o
-----------------------------------------------------------------------------
(* What Complete makes of the stable prefix and a candidate *)

\* Element by element.
Through(g, x) == [i \in DOMAIN x |-> g[x[i]]]

\* What becomes of the elements, in their order.
ThroughIs(T, g, x, y) ==
  y \in Seq(T) /\ Len(y) = Len(x) /\ Len(x) \in Nat /\ \A i \in 1 .. Len(x) : y[i] = g[x[i]]

\* They are of the type the function gives them.
LEMMA ThroughType ==
  ASSUME NEW S, NEW T, NEW g \in [S -> T], NEW x \in Seq(S)
  PROVE  ThroughIs(T, g, x, Through(g, x))
<1> DEFINE n == Len(x)
           y == Through(g, x)
<1>1. n \in Nat /\ DOMAIN x = 1 .. n /\ \A i \in 1 .. n : x[i] \in S
  OBVIOUS
<1>2. y = [i \in 1 .. n |-> g[x[i]]] /\ \A i \in 1 .. n : g[x[i]] \in T
  BY <1>1 DEF Through
<1> HIDE DEF n, y
<1>3. y \in Seq(T) /\ DOMAIN y = 1 .. n /\ \A i \in 1 .. n : y[i] = g[x[i]]
  BY <1>1, <1>2
<1>4. Len(y) = n
  BY <1>1, <1>3, LenProperties
<1> QED
  BY <1>1, <1>3, <1>4 DEF n, y, ThroughIs

\* Those of two sequences.
LEMMA ThroughCat ==
  ASSUME NEW S, NEW T, NEW g \in [S -> T], NEW a \in Seq(S), NEW b \in Seq(S)
  PROVE  /\ Through(g, Cat(a, b)) = Cat(Through(g, a), Through(g, b))
         /\ Through(g, a) \in Seq(T) /\ Through(g, b) \in Seq(T)
<1> DEFINE x == Cat(a, b)
           m == Len(a)
           n == Len(b)
           s == Through(g, a)
           t == Through(g, b)
           y == Cat(s, t)
           z == Through(g, x)
<1>1. /\ Len(x) = m + n /\ m \in Nat /\ n \in Nat /\ x \in Seq(S)
      /\ \A i \in 1 .. m : x[i] = a[i]
      /\ \A i \in 1 .. n : x[m + i] = b[i]
  <2>1. IsCat(S, x, a, b)
    BY CatIs
  <2> HIDE DEF x
  <2> QED
    BY <2>1 DEF IsCat
<1>2. s \in Seq(T) /\ Len(s) = m /\ \A i \in 1 .. m : s[i] = g[a[i]]
  <2>1. ThroughIs(T, g, a, s)
    BY ThroughType
  <2> QED
    BY <2>1 DEF ThroughIs
<1>3. t \in Seq(T) /\ Len(t) = n /\ \A i \in 1 .. n : t[i] = g[b[i]]
  <2>1. ThroughIs(T, g, b, t)
    BY ThroughType
  <2> QED
    BY <2>1 DEF ThroughIs
<1> HIDE DEF x, m, n, s, t
<1>4. z \in Seq(T) /\ Len(z) = Len(x) /\ \A i \in 1 .. Len(x) : z[i] = g[x[i]]
  <2>1. ThroughIs(T, g, x, z)
    BY <1>1, ThroughType
  <2> QED
    BY <2>1 DEF ThroughIs
<1>5. /\ y \in Seq(T) /\ Len(y) = m + n
      /\ \A i \in 1 .. m : y[i] = s[i]
      /\ \A i \in 1 .. n : y[m + i] = t[i]
  <2>1. IsCat(T, y, s, t)
    BY <1>2, <1>3, CatIs
  <2> HIDE DEF y
  <2> QED
    BY <1>2, <1>3, <2>1 DEF IsCat
<1> HIDE DEF y, z
<1>6. ASSUME NEW i \in 1 .. m + n PROVE z[i] = y[i]
  <2>1. CASE i \in 1 .. m
    BY <1>1, <1>2, <1>4, <1>5, <2>1
  <2>2. CASE i \notin 1 .. m
    <3> DEFINE j == i - m
    <3>1. j \in 1 .. n /\ i = m + j
      BY <1>1, <2>2
    <3> HIDE DEF j
    <3>2. x[i] = b[j] /\ y[i] = t[j] /\ z[i] = g[x[i]] /\ t[j] = g[b[j]]
      BY <1>1, <1>3, <1>4, <1>5, <3>1
    <3> QED
      BY <3>2
  <2> QED
    BY <2>1, <2>2
<1>7. z = y
  BY <1>1, <1>4, <1>5, <1>6, SeqEqual
<1> QED
  BY <1>2, <1>3, <1>7 DEF x, y, z, s, t

\* SPACE becomes a blank again.
Blanked(S) == [c \in S |-> IF c = Space THEN Blank ELSE c]

\* This is what Unspaced does.
LEMMA UnspacedIs ==
  ASSUME NEW S, NEW x \in Seq(S)
  PROVE  Unspaced(x) = Through(Blanked(S), x) /\ Blanked(S) \in [S -> S \cup {Blank}]
<1>1. DOMAIN x = 1 .. Len(x) /\ \A i \in 1 .. Len(x) : x[i] \in S
  OBVIOUS
<1>2. Unspaced(x) = [i \in 1 .. Len(x) |-> IF x[i] = Space THEN Blank ELSE x[i]]
  BY DEF Unspaced, ReplaceAll
<1>3. \A i \in 1 .. Len(x) : Blanked(S)[x[i]] = IF x[i] = Space THEN Blank ELSE x[i]
  BY <1>1 DEF Blanked
<1>4. Through(Blanked(S), x) = [i \in 1 .. Len(x) |-> Blanked(S)[x[i]]]
  BY <1>1 DEF Through
<1>5. Unspaced(x) = Through(Blanked(S), x)
  BY <1>2, <1>3, <1>4
<1> QED
  BY <1>5 DEF Blanked

\* In two texts, one after the other.
LEMMA UnspacedCat ==
  ASSUME NEW S, NEW a \in Seq(S), NEW b \in Seq(S)
  PROVE  /\ Unspaced(Cat(a, b)) = Cat(Unspaced(a), Unspaced(b))
         /\ Unspaced(a) \in Seq(S \cup {Blank}) /\ Unspaced(b) \in Seq(S \cup {Blank})
<1> DEFINE g == Blanked(S)
           T == S \cup {Blank}
           x == Cat(a, b)
<1>1. g \in [S -> T] /\ Unspaced(a) = Through(g, a) /\ Unspaced(b) = Through(g, b)
  BY UnspacedIs
<1>2. x \in Seq(S)
  BY CatAlgebra
<1> HIDE DEF x, g, T
<1>3. Unspaced(x) = Through(g, x)
  BY <1>2, UnspacedIs DEF g
<1>4. Through(g, Cat(a, b)) = Cat(Through(g, a), Through(g, b)) /\ Through(g, a) \in Seq(T) /\ Through(g, b) \in Seq(T)
  BY <1>1, ThroughCat
<1> QED
  BY <1>1, <1>3, <1>4 DEF x, T

\* Neither it nor the blank it stands for is told apart afterwards.
LEMMA UnspacedSpaced ==
  ASSUME NEW S, NEW q \in Seq(S)
  PROVE  /\ Unspaced(Spaced(q)) = Unspaced(q)
         /\ Spaced(q) = <<>> => q = <<>>
<1> DEFINE n == Len(q)
           Sp(k) == IF k = Blank THEN Space ELSE k
           Bl(k) == IF k = Space THEN Blank ELSE k
           x == Spaced(q)
<1>1. n \in Nat /\ (n = 0 => q = <<>>)
  BY EmptySeq
<1>2. x = [i \in 1 .. n |-> Sp(q[i])]
  BY DEF Spaced, ReplaceAll
<1>3. \A k : Bl(Sp(k)) = Bl(k)
  OBVIOUS
<1>4. \A y : Unspaced(y) = [i \in 1 .. Len(y) |-> Bl(y[i])]
  BY DEF Unspaced, ReplaceAll
<1> HIDE DEF Sp, Bl, x, n
<1>5. Len(x) = n /\ \A i \in 1 .. n : x[i] = Sp(q[i])
  <2> DEFINE W == {Sp(q[i]) : i \in 1 .. n}
  <2>1. \A i \in 1 .. n : Sp(q[i]) \in W
    OBVIOUS
  <2> HIDE DEF W
  <2>2. x \in Seq(W) /\ DOMAIN x = 1 .. n /\ \A i \in 1 .. n : x[i] = Sp(q[i])
    BY <1>1, <1>2, <2>1
  <2> QED
    BY <1>1, <2>2, LenProperties
<1>6. \A i \in 1 .. n : Bl(x[i]) = Bl(q[i])
  BY <1>3, <1>5
<1>7. Unspaced(x) = [i \in 1 .. n |-> Bl(x[i])] /\ Unspaced(q) = [i \in 1 .. n |-> Bl(q[i])]
  BY <1>4, <1>5 DEF n
<1>8. Unspaced(x) = Unspaced(q)
  BY <1>6, <1>7
<1>9. x = <<>> => n = 0
  BY <1>5
<1> QED
  BY <1>1, <1>8, <1>9 DEF x
-----------------------------------------------------------------------------
\* The stable prefix is the text of the labels.
LEMMA StablePrefixIs == Read!StablePrefix = Flat(TextsOf(olabels, oovs))
<1>1. \A labels, i : Read!TextOf(labels, i) = TextAt(labels, oovs, i)
  BY ReadUnks DEF Read!TextOf, TextAt, One
<1>2. \A x : Read!FlattenSeq(x) = Flat(x)
  BY DEF Read!FlattenSeq, FlattenSeq, Flat
<1>3. [i \in DOMAIN olabels |-> Read!TextOf(olabels, i)] = TextsOf(olabels, oovs)
  BY <1>1 DEF TextsOf
<1>4. Read!StablePrefix = Read!FlattenSeq([i \in DOMAIN olabels |-> Read!TextOf(olabels, i)])
  BY DEF Read!StablePrefix
<1> QED
  BY <1>2, <1>3, <1>4

\* What tokens are spelled like.
Spells(v) == [t \in v \cup {Unk} |-> Spelling(t)]

\* Tokens are spelled like themselves, so Complete adds the text of the candidate.
LEMMA SpellsFacts ==
  ASSUME NEW v, NEW C, v \subseteq Seq(C), Unk \notin v, NEW a \in Seq(v), NEW b \in Seq(v \cup {Unk})
  PROVE  /\ Spells(v) \in [v \cup {Unk} -> Seq(C)] /\ Through(Spells(v), a) = a
         /\ [i \in DOMAIN Cat(a, b) |-> Spelling(Cat(a, b)[i])] = Cat(a, Through(Spells(v), b))
         /\ Through(Spells(v), b) \in Seq(Seq(C)) /\ a \in Seq(Seq(C))
<1> DEFINE g == Spells(v)
           V == v \cup {Unk}
           T == Seq(C)
           x == Cat(a, b)
<1>1. g \in [V -> T]
  BY DEF Spells, Spelling
<1>2. \A t \in V : g[t] = Spelling(t)
  BY DEF Spells
<1>3. \A t \in v : g[t] = t
  BY DEF Spells, Spelling
<1>4. Through(g, a) = a
  <2>1. a = [i \in 1 .. Len(a) |-> a[i]] /\ DOMAIN a = 1 .. Len(a) /\ \A i \in 1 .. Len(a) : a[i] \in v
    OBVIOUS
  <2> HIDE DEF g
  <2>2. \A i \in 1 .. Len(a) : g[a[i]] = a[i]
    BY <1>3, <2>1
  <2> QED
    BY <2>1, <2>2 DEF Through
<1>5. a \in Seq(V) /\ b \in Seq(V) /\ a \in Seq(T)
  <2>1. a \in Seq(V)
    BY SeqMonotonic
  <2>2. a \in Seq(T)
    BY SeqMonotonic
  <2> QED
    BY <2>1, <2>2
<1> HIDE DEF g, V, T
<1>6. x \in Seq(V)
  BY <1>5, CatAlgebra
<1>7. Through(g, Cat(a, b)) = Cat(Through(g, a), Through(g, b)) /\ Through(g, b) \in Seq(T)
  BY <1>1, <1>5, ThroughCat
<1> HIDE DEF x
<1>8. [i \in DOMAIN x |-> Spelling(x[i])] = Through(g, x)
  <2>1. \A i \in DOMAIN x : g[x[i]] = Spelling(x[i])
    BY <1>2, <1>6
  <2> QED
    BY <2>1 DEF Through
<1> QED
  BY <1>1, <1>4, <1>5, <1>7, <1>8 DEF x, g, V, T

\* What Complete puts together goes on from what was read.
LEMMA OutputOn ==
  ASSUME SearchInv, EncInv, TextInv, pc = "ready",
         NEW beam \in encoderTransitions[Node(<<>>, state)], NEW more \in Texts(vocab \cup {Unk}, MaxMore),
         NEW output,
         output = Cat(Read!StablePrefix, FlattenSeq([i \in DOMAIN Cat(beam, more) |-> Spelling(Cat(beam, more)[i])]))
  PROVE  Starts(CharsOf(vocab), BegunText(vocab, text), output)
<1> DEFINE v == vocab
           C == CharsOf(v)
           E == ExtractCharacters(v)
           n == Node(<<>>, state)
           f == Flat(TextsOf(olabels, oovs))
           b == Pending(v, state)
           g == BegunText(v, text)
           T == Seq(C)
<1>1. v \in Vocabs /\ text \in Seq(C) /\ state \in Trie(v)
  BY DEF EncInv
<1>2. GoodVocab(v) /\ E \subseteq C /\ Space \in C /\ v \subseteq Seq(C) /\ Unk \notin v
  BY <1>1, VocabFacts, VocabTexts
<1>3. Cat(f, b) = g /\ f \in Seq(C)
  <2>1. Matched(v, C, olabels, oovs) /\ Cat(f, b) = g
    BY DEF TextInv, TextKept
  <2> DEFINE s == TextsOf(olabels, oovs)
  <2>2. s \in Seq(Seq(C))
    BY <1>2, <2>1, TextsOfType DEF Texted
  <2> HIDE DEF s, C
  <2>3. Flat(s) \in Seq(C)
    BY <2>2, FlatIsPart
  <2> QED
    BY <2>1, <2>3 DEF s
<1>4. b \in Seq(E) /\ b \in Seq(C)
  BY <1>1, <1>2, RepIn
<1>5. more \in Seq(v \cup {Unk})
  BY TypingAssumption, TextsAreTexts
<1>6. beam \in Seq(v) /\ Starts(E, Base(v, n), Flat(beam))
  <2>1. Stored(v, n, encoderTransitions[n])
    BY StoredForState
  <2> QED
    BY <2>1 DEF Stored, OnwardTo
<1>7. Base(v, n) = b
  <2>1. n.chain = <<>> /\ n.state = state
    BY DEF Node
  <2>2. Flat(<<>>) = <<>>
    BY FlatSmall
  <2>3. Base(v, n) = Cat(<<>>, b)
    BY <2>1, <2>2 DEF Base
  <2> HIDE DEF b
  <2> QED
    BY <1>4, <2>3, CatAlgebra
<1> DEFINE w == Through(Spells(v), more)
           m == Flat(w)
<1>8. /\ [i \in DOMAIN Cat(beam, more) |-> Spelling(Cat(beam, more)[i])] = Cat(beam, w)
      /\ w \in Seq(T) /\ beam \in Seq(T)
  <2> HIDE DEF C
  <2> QED
    BY <1>2, <1>5, <1>6, SpellsFacts
<1> HIDE DEF w
<1>9. m \in Seq(C) /\ Flat(Cat(beam, w)) = Cat(Flat(beam), m)
  <2> HIDE DEF C
  <2> QED
    BY <1>8, FlatCat, FlatIsPart
<1>10. PICK u \in Seq(E) : Flat(beam) = Cat(b, u)
  BY <1>6, <1>7 DEF Starts
<1>11. u \in Seq(C)
  <2> HIDE DEF C, E
  <2> QED
    BY <1>2, <1>10, SeqMonotonic
<1>12. output = Cat(f, Cat(Cat(b, u), m))
  <2>1. FlattenSeq(Cat(beam, w)) = Cat(Cat(b, u), m)
    BY <1>9, <1>10 DEF Flat
  <2> HIDE DEF w, m, f, b
  <2> QED
    BY <1>8, <2>1, StablePrefixIs DEF f
<1> HIDE DEF f, b, g, m, C, E, T
<1> DEFINE z == Cat(u, m)
<1>13. z \in Seq(C) /\ Cat(Cat(b, u), m) = Cat(b, z) /\ Cat(f, Cat(b, z)) = Cat(Cat(f, b), z)
  <2>1. z \in Seq(C) /\ Cat(Cat(b, u), m) = Cat(b, z)
    BY <1>4, <1>9, <1>11, CatAlgebra
  <2> HIDE DEF z
  <2>2. Cat(f, Cat(b, z)) = Cat(Cat(f, b), z)
    BY <1>3, <1>4, <2>1, CatAlgebra
  <2> QED
    BY <2>1, <2>2
<1>14. output = Cat(g, z)
  BY <1>3, <1>12, <1>13
<1> HIDE DEF z
<1> QED
  BY <1>13, <1>14 DEF Starts, C, g
-----------------------------------------------------------------------------
\* It is shown like what was typed, and goes on.
LEMMA OutputShown ==
  ASSUME EncInv, TextInv, NEW output, Starts(CharsOf(vocab), BegunText(vocab, text), output)
  PROVE  /\ IsPrefix(Join(Split(Unspaced(query))), Join(Split(Unspaced(output))))
         /\ output = <<>> => query = <<>> /\ Leaf(trie, <<Space>>)
<1> DEFINE C == CharsOf(vocab)
           D == C \cup {Blank}
           g == BegunText(vocab, text)
           o == One(Space)
           k == One(Blank)
           p == Unspaced(query)
<1>1. vocab \in Vocabs /\ text \in Seq(C) /\ trie = Trie(vocab)
  BY DEF EncInv
<1>2. Space \in C
  BY <1>1, VocabFacts
<1>3. query \in Seq(Typed) /\ text = Spaced(query)
  BY DEF TextInv
<1>4. Unspaced(text) = p /\ (text = <<>> => query = <<>>)
  BY <1>3, UnspacedSpaced
<1>5. g = IF Leaf(trie, <<Space>>) THEN text ELSE Cat(o, text)
  BY <1>1 DEF BegunText, One
<1> HIDE DEF C, g
<1>6. o \in Seq(C) /\ k \in Seq(D) /\ Unspaced(o) = k
  <2>1. o \in Seq(C)
    BY <1>2, CatAlgebra
  <2>2. k \in Seq(D)
    <3>1. Blank \in D
      OBVIOUS
    <3> HIDE DEF D
    <3> QED
      BY <3>1, CatAlgebra
  <2>3. Unspaced(o) = k
    BY DEF Unspaced, ReplaceAll, One
  <2> QED
    BY <2>1, <2>2, <2>3
<1> HIDE DEF o, p, k
<1>7. g \in Seq(C) /\ p \in Seq(D)
  <2>1. Cat(o, text) \in Seq(C)
    BY <1>1, <1>6, CatAlgebra
  <2>2. Unspaced(text) \in Seq(D)
    BY <1>1, UnspacedCat
  <2> QED
    BY <1>1, <1>4, <1>5, <2>1, <2>2
<1>8. Split(Unspaced(g)) = Split(p)
  <2>1. CASE Leaf(trie, <<Space>>)
    BY <1>4, <1>5, <2>1
  <2>2. CASE ~Leaf(trie, <<Space>>)
    <3>1. Unspaced(Cat(o, text)) = Cat(k, p)
      <4>1. Unspaced(Cat(o, text)) = Cat(Unspaced(o), Unspaced(text))
        BY <1>1, <1>6, UnspacedCat
      <4> QED
        BY <1>4, <1>6, <4>1
    <3>2. Blank \in D /\ Blank \in Blanks
      BY TextAssumption
    <3> HIDE DEF D
    <3>3. Split(Cat(k, p)) = Split(p)
      BY <1>7, <3>2, SplitSkip DEF k
    <3> QED
      BY <1>5, <2>2, <3>1, <3>3
  <2> QED
    BY <2>1, <2>2
<1>9. PICK z \in Seq(C) : output = Cat(g, z)
  BY DEF Starts, C, g
<1> DEFINE x == Unspaced(g)
           y == Unspaced(z)
<1>10. Unspaced(output) = Cat(x, y) /\ x \in Seq(D) /\ y \in Seq(D)
  BY <1>7, <1>9, UnspacedCat
<1>11. IsPrefix(Join(Split(p)), Join(Split(Unspaced(output))))
  <2>1. Blank \in D
    OBVIOUS
  <2> HIDE DEF x, y, D
  <2>2. /\ Starts(D, Join(Split(x)), Join(Split(Cat(x, y))))
        /\ Join(Split(x)) \in Seq(D) /\ Join(Split(Cat(x, y))) \in Seq(D)
    BY <1>10, <2>1, SplitOn
  <2>3. IsPrefix(Join(Split(x)), Join(Split(Cat(x, y))))
    <3> DEFINE i == Join(Split(x))
               j == Join(Split(Cat(x, y)))
    <3>1. i \in Seq(D) /\ j \in Seq(D) /\ Starts(D, i, j)
      BY <2>2
    <3> HIDE DEF i, j
    <3>2. IsPrefix(i, j)
      BY <3>1, StartsIsPrefix
    <3> QED
      BY <3>2 DEF i, j
  <2>4. Split(x) = Split(p)
    BY <1>8 DEF x
  <2> QED
    BY <1>10, <2>3, <2>4
<1>12. ASSUME output = <<>> PROVE query = <<>> /\ Leaf(trie, <<Space>>)
  <2>1. g = <<>>
    <3>1. Len(Cat(g, z)) = Len(g) + Len(z) /\ Len(g) \in Nat /\ Len(z) \in Nat
      BY <1>7, <1>9, CatLen
    <3>2. Len(Cat(g, z)) = 0
      BY <1>9, <1>12
    <3>3. \A i, j \in Nat : i + j = 0 => i = 0
      OBVIOUS
    <3>4. Len(g) = 0
      BY <3>1, <3>2, <3>3
    <3> QED
      BY <1>7, <3>4, EmptySeq
  <2>2. Leaf(trie, <<Space>>)
    <3> SUFFICES ASSUME ~Leaf(trie, <<Space>>) PROVE FALSE
      OBVIOUS
    <3>1. Len(Cat(o, text)) = Len(o) + Len(text) /\ Len(text) \in Nat
      BY <1>1, <1>6, CatLen
    <3>2. Len(o) = 1
      BY DEF o, One
    <3>3. Len(Cat(o, text)) = 0
      BY <1>5, <2>1
    <3>4. \A i \in Nat : 1 + i # 0
      OBVIOUS
    <3> QED
      BY <3>1, <3>2, <3>3, <3>4
  <2> QED
    BY <1>4, <1>5, <2>1, <2>2
<1> QED
  BY <1>11, <1>12 DEF p

\* It holds of what a call returns, and until the next character is typed.
CallInv == SuggestionExtends /\ ThrowsOnlyIfBare

\* Complete keeps it,
LEMMA CallComplete ==
  ASSUME SearchInv, EncInv, TextInv, Complete
  PROVE  CallInv'
<1>1. PICK beam \in encoderTransitions[Node(<<>>, state)], more \in Texts(vocab \cup {Unk}, MaxMore) :
        Suggest(beam \o more)
  BY DEF Complete
<1>2. pc = "ready" /\ query' = query /\ trie' = trie
  BY DEF Complete, fstVars
<1> DEFINE tokens == Cat(beam, more)
           text1 == FlattenSeq([i \in DOMAIN tokens |-> Spelling(tokens[i])])
           output == Cat(Read!StablePrefix, text1)
<1>3. IF HasString(output)
        THEN outcome' = "suggested" /\ suggestion' = Join(Split(Unspaced(output)))
        ELSE outcome' = "thrown"
  BY <1>1 DEF Suggest, Cat
<1>4. Starts(CharsOf(vocab), BegunText(vocab, text), output)
  BY <1>2, OutputOn
<1> HIDE DEF output
<1>5. /\ IsPrefix(Join(Split(Unspaced(query))), Join(Split(Unspaced(output))))
      /\ output = <<>> => query = <<>> /\ Leaf(trie, <<Space>>)
  BY <1>4, OutputShown
<1>6. /\ outcome' = "suggested" => suggestion' = Join(Split(Unspaced(output)))
      /\ outcome' = "thrown" => output = <<>>
  BY <1>3 DEF HasString
<1>7. SuggestionExtends' <=> (outcome' = "suggested" => IsPrefix(Join(Split(Unspaced(query'))), suggestion'))
  BY DEF SuggestionExtends
<1>8. ThrowsOnlyIfBare' <=> (outcome' = "thrown" => query' = <<>> /\ Leaf(trie', <<Space>>))
  BY DEF ThrowsOnlyIfBare
<1>9. SuggestionExtends'
  BY <1>2, <1>5, <1>6, <1>7
<1>10. ThrowsOnlyIfBare'
  BY <1>2, <1>5, <1>6, <1>8
<1> QED
  BY <1>9, <1>10 DEF CallInv

\* and no other step makes a suggestion.
LEMMA CallNext == SearchInv /\ EncInv /\ TextInv /\ CallInv /\ [Next]_vars => CallInv'
<1> SUFFICES ASSUME SearchInv, EncInv, TextInv, CallInv, [Next]_vars PROVE CallInv'
  OBVIOUS
<1>1. SuggestionExtends' <=> (outcome' = "suggested" => IsPrefix(Join(Split(Unspaced(query'))), suggestion'))
  BY DEF SuggestionExtends
<1>2. ThrowsOnlyIfBare' <=> (outcome' = "thrown" => query' = <<>> /\ Leaf(trie', <<Space>>))
  BY DEF ThrowsOnlyIfBare
<1> DEFINE Same == outcome' = outcome /\ suggestion' = suggestion /\ query' = query /\ trie' = trie
<1>3. ASSUME Same PROVE CallInv'
  <2>1. SuggestionExtends'
    BY <1>1, <1>3 DEF CallInv, SuggestionExtends
  <2>2. ThrowsOnlyIfBare'
    BY <1>2, <1>3 DEF CallInv, ThrowsOnlyIfBare
  <2> QED
    BY <2>1, <2>2 DEF CallInv
<1>4. CASE Construct
  <2>1. Same
    BY <1>4 DEF Construct, CandidatesNext, Arrive, Follow, Filter, Store, fstVars, callVars
  <2> HIDE DEF Same
  <2> QED
    BY <1>3, <2>1
<1>5. CASE Complete
  BY <1>5, CallComplete
<1>6. ASSUME NEW c \in Typed, Type(c) PROVE CallInv'
  <2>1. outcome' = "none"
    BY <1>6 DEF Type
  <2> QED
    BY <1>1, <1>2, <2>1 DEF CallInv
<1>7. CASE UNCHANGED vars
  <2>1. Same
    BY <1>7 DEF vars, fstVars, callVars
  <2> HIDE DEF Same
  <2> QED
    BY <1>3, <2>1
<1> QED
  BY <1>4, <1>5, <1>6, <1>7 DEF Next

\* Nothing was suggested at first.
LEMMA AlwaysCallInv == Spec => []CallInv
<1>1. Init => CallInv
  BY DEF Init, CallInv, SuggestionExtends, ThrowsOnlyIfBare
<1>2. Spec => []TextInv
  <2>1. Spec => []EncInv
    BY TypingInv, PTL
  <2> QED
    BY <2>1, TextInit, TextNext, PTL DEF Spec
<1> QED
  BY <1>1, <1>2, TypingInv, CallNext, PTL DEF Spec

(* Whatever is typed, in whichever vocabulary and however the characters and *)
(* the blanks are encoded: every suggestion begins with it, blanks merged.   *)
THEOREM SuggestionsExtend == Spec => []SuggestionExtends
<1>1. CallInv => SuggestionExtends
  BY DEF CallInv
<1> QED
  BY <1>1, AlwaysCallInv, PTL

(* Complete throws for want of text only before anything was typed, and in   *)
(* an encoder in which no token goes on after a space.                       *)
THEOREM ThrowsBare == Spec => []ThrowsOnlyIfBare
<1>1. CallInv => ThrowsOnlyIfBare
  BY DEF CallInv
<1> QED
  BY <1>1, AlwaysCallInv, PTL
-----------------------------------------------------------------------------
(* Unknown characters next to each other *)

AdjacentUnks(labels, n) == \E i \in 2 .. n : labels[i - 1] = Unk /\ labels[i] = Unk
AdjacentOovs(E, x) == \E i \in 2 .. Len(x) : x[i - 1] \notin E /\ x[i] \notin E
EndsWithOov(E, x) == x # <<>> /\ x[Len(x)] \notin E

\* A token adds none.
LEMMA OovsToken ==
  ASSUME NEW C, NEW E, E \subseteq C, NEW x \in Seq(C), NEW t \in Seq(E), t # <<>>
  PROVE  /\ AdjacentOovs(E, Cat(x, t)) <=> AdjacentOovs(E, x)
         /\ ~EndsWithOov(E, Cat(x, t))
<1> DEFINE y == Cat(x, t)
           m == Len(x)
           n == Len(t)
<1>1. t \in Seq(C)
  BY SeqMonotonic
<1>2. /\ Len(y) = m + n /\ m \in Nat /\ n \in Nat
      /\ \A i \in 1 .. m : y[i] = x[i]
      /\ \A i \in 1 .. n : y[m + i] = t[i]
  <2>1. IsCat(C, y, x, t)
    BY <1>1, CatIs
  <2> HIDE DEF y
  <2> QED
    BY <2>1 DEF IsCat
<1>3. n # 0 /\ \A i \in 1 .. n : t[i] \in E
  BY EmptySeq
<1> HIDE DEF y, m, n
<1>4. \A i \in m + 1 .. m + n : y[i] \in E
  <2> SUFFICES ASSUME NEW i \in m + 1 .. m + n PROVE y[i] \in E
    OBVIOUS
  <2> DEFINE j == i - m
  <2>1. j \in 1 .. n /\ i = m + j
    BY <1>2
  <2> HIDE DEF j
  <2> QED
    BY <1>2, <1>3, <2>1
<1>5. ASSUME NEW i \in 2 .. m + n, y[i - 1] \notin E, y[i] \notin E
      PROVE  i \in 2 .. m /\ x[i - 1] \notin E /\ x[i] \notin E
  <2>1. i \in 2 .. m
    BY <1>2, <1>4, <1>5
  <2>2. i \in 1 .. m /\ i - 1 \in 1 .. m
    BY <1>2, <2>1
  <2> QED
    BY <1>2, <1>5, <2>1, <2>2
<1>6. ASSUME NEW i \in 2 .. m, x[i - 1] \notin E, x[i] \notin E
      PROVE  i \in 2 .. m + n /\ y[i - 1] \notin E /\ y[i] \notin E
  <2>1. i \in 1 .. m /\ i - 1 \in 1 .. m /\ i \in 2 .. m + n
    BY <1>2
  <2> QED
    BY <1>2, <1>6, <2>1
<1>7. AdjacentOovs(E, y) <=> \E i \in 2 .. m + n : y[i - 1] \notin E /\ y[i] \notin E
  BY <1>2 DEF AdjacentOovs
<1>8. AdjacentOovs(E, x) <=> \E i \in 2 .. m : x[i - 1] \notin E /\ x[i] \notin E
  BY DEF AdjacentOovs, m
<1>9. AdjacentOovs(E, y) <=> AdjacentOovs(E, x)
  BY <1>5, <1>6, <1>7, <1>8
<1>10. ~EndsWithOov(E, y)
  <2>1. m + n \in m + 1 .. m + n
    BY <1>2, <1>3
  <2> QED
    BY <1>2, <1>4, <2>1 DEF EndsWithOov
<1> QED
  BY <1>9, <1>10 DEF y

\* An unknown character adds one if another one is before it.
LEMMA OovsUnknown ==
  ASSUME NEW C, NEW E, NEW x \in Seq(C), NEW c \in C, c \notin E
  PROVE  /\ AdjacentOovs(E, Cat(x, One(c))) <=> AdjacentOovs(E, x) \/ EndsWithOov(E, x)
         /\ EndsWithOov(E, Cat(x, One(c)))
<1> DEFINE y == Cat(x, One(c))
           m == Len(x)
<1>1. y = Append(x, c)
  BY CatAlgebra
<1>2. /\ Len(y) = m + 1 /\ m \in Nat /\ y[m + 1] = c /\ y # <<>>
      /\ \A i \in 1 .. m : y[i] = x[i]
  <2>1. y \in Seq(C) /\ Len(y) = m + 1 /\ m \in Nat /\ y[m + 1] = c /\ \A i \in 1 .. m : y[i] = x[i]
    BY <1>1, AppendProperties
  <2> HIDE DEF y
  <2>2. y # <<>>
    BY <2>1
  <2> QED
    BY <2>1, <2>2
<1>3. x # <<>> <=> m # 0
  BY EmptySeq
<1> HIDE DEF y, m
<1>4. AdjacentOovs(E, y) <=> \E i \in 2 .. m + 1 : y[i - 1] \notin E /\ y[i] \notin E
  BY <1>2 DEF AdjacentOovs
<1>5. AdjacentOovs(E, x) <=> \E i \in 2 .. m : x[i - 1] \notin E /\ x[i] \notin E
  BY DEF AdjacentOovs, m
<1>6. EndsWithOov(E, x) <=> m # 0 /\ x[m] \notin E
  BY <1>3 DEF EndsWithOov, m
<1>7. ASSUME NEW i \in 2 .. m + 1, y[i - 1] \notin E, y[i] \notin E
      PROVE  AdjacentOovs(E, x) \/ EndsWithOov(E, x)
  <2>1. CASE i = m + 1
    <3>1. i - 1 = m /\ m \in 1 .. m /\ m # 0
      BY <1>2, <2>1
    <3> QED
      BY <1>2, <1>6, <1>7, <3>1
  <2>2. CASE i # m + 1
    <3>1. i \in 2 .. m /\ i \in 1 .. m /\ i - 1 \in 1 .. m
      BY <1>2, <2>2
    <3> QED
      BY <1>2, <1>5, <1>7, <3>1
  <2> QED
    BY <2>1, <2>2
<1>8. ASSUME AdjacentOovs(E, x) PROVE AdjacentOovs(E, y)
  <2>1. PICK i \in 2 .. m : x[i - 1] \notin E /\ x[i] \notin E
    BY <1>5, <1>8
  <2>2. i \in 2 .. m + 1 /\ i \in 1 .. m /\ i - 1 \in 1 .. m
    BY <1>2
  <2> QED
    BY <1>2, <1>4, <2>1, <2>2
<1>9. ASSUME EndsWithOov(E, x) PROVE AdjacentOovs(E, y)
  <2> DEFINE i == m + 1
  <2>1. i \in 2 .. m + 1 /\ i - 1 = m /\ m \in 1 .. m /\ i = m + 1
    BY <1>2, <1>6, <1>9
  <2> HIDE DEF i
  <2>2. y[i - 1] \notin E /\ y[i] \notin E
    BY <1>2, <1>6, <1>9, <2>1
  <2> QED
    BY <1>4, <2>1, <2>2
<1>10. EndsWithOov(E, y)
  BY <1>2 DEF EndsWithOov
<1> QED
  BY <1>4, <1>7, <1>8, <1>9, <1>10 DEF y

\* A known character at the front adds none.
LEMMA OovsFront ==
  ASSUME NEW C, NEW E, NEW x \in Seq(C), NEW c \in C, c \in E
  PROVE  AdjacentOovs(E, Cat(One(c), x)) <=> AdjacentOovs(E, x)
<1> DEFINE o == One(c)
           y == Cat(o, x)
           m == Len(x)
<1>1. /\ Len(y) = 1 + m /\ m \in Nat /\ y[1] = c
      /\ \A i \in 1 .. m : y[1 + i] = x[i]
  <2>1. o \in Seq(C) /\ Len(o) = 1 /\ o[1] = c
    BY CatAlgebra DEF One
  <2> HIDE DEF o
  <2>2. IsCat(C, y, o, x)
    BY <2>1, CatIs
  <2> HIDE DEF y
  <2> QED
    BY <2>1, <2>2 DEF IsCat
<1> HIDE DEF y, m
<1>2. AdjacentOovs(E, y) <=> \E i \in 2 .. 1 + m : y[i - 1] \notin E /\ y[i] \notin E
  BY <1>1 DEF AdjacentOovs
<1>3. AdjacentOovs(E, x) <=> \E i \in 2 .. m : x[i - 1] \notin E /\ x[i] \notin E
  BY DEF AdjacentOovs, m
<1>4. ASSUME NEW i \in 2 .. 1 + m, y[i - 1] \notin E, y[i] \notin E PROVE AdjacentOovs(E, x)
  <2> DEFINE j == i - 1
             k == i - 2
  <2>1. i = 1 + j /\ j = 1 + k /\ i - 1 = j /\ j - 1 = k /\ j \in 1 .. m /\ (k = 0 \/ (k \in 1 .. m /\ j \in 2 .. m))
    BY <1>1
  <2> HIDE DEF j, k
  <2>2. CASE k = 0
    <3>1. j = 1
      BY <2>1, <2>2
    <3> QED
      BY <1>1, <1>4, <2>1, <3>1
  <2>3. CASE k # 0
    <3>1. y[i] = x[j] /\ y[j] = x[k]
      BY <1>1, <2>1, <2>3
    <3> QED
      BY <1>3, <1>4, <2>1, <2>3, <3>1
  <2> QED
    BY <2>2, <2>3
<1>5. ASSUME NEW j \in 2 .. m, x[j - 1] \notin E, x[j] \notin E PROVE AdjacentOovs(E, y)
  <2> DEFINE i == 1 + j
             k == j - 1
  <2>1. i \in 2 .. 1 + m /\ i - 1 = j /\ j = 1 + k /\ j \in 1 .. m /\ k \in 1 .. m
    BY <1>1
  <2>2. y[i] = x[j] /\ y[j] = x[k]
    BY <1>1, <2>1
  <2> HIDE DEF i
  <2> QED
    BY <1>2, <1>5, <2>1, <2>2
<1> QED
  BY <1>2, <1>3, <1>4, <1>5 DEF y, o
-----------------------------------------------------------------------------
\* So far they are where unks are.
OovsAt(E, labels, s, n) ==
  /\ AdjacentUnks(labels, n) <=> AdjacentOovs(E, Part(s, n))
  /\ EndsWithOov(E, Part(s, n)) <=> n # 0 /\ labels[n] = Unk

\* One more label.
LEMMA OovsNext ==
  ASSUME NEW C, NEW E, E \subseteq C, NEW labels, NEW s, NEW k \in Nat, OovsAt(E, labels, s, k),
         NEW x \in Seq(C), x = Part(s, k), NEW t, Part(s, k + 1) = Cat(x, t),
         \/ labels[k + 1] = Unk /\ \E c \in C \ E : t = One(c)
         \/ labels[k + 1] # Unk /\ t \in Seq(E) /\ t # <<>>
  PROVE  OovsAt(E, labels, s, k + 1)
<1> DEFINE n == k + 1
           y == Part(s, n)
<1>1. n \in Nat /\ n # 0 /\ n - 1 = k /\ y = Cat(x, t)
  OBVIOUS
<1>2. /\ AdjacentUnks(labels, k) <=> AdjacentOovs(E, x)
      /\ EndsWithOov(E, x) <=> k # 0 /\ labels[k] = Unk
  BY DEF OovsAt
<1>3. \A i : i \in 2 .. n <=> i \in 2 .. k \/ (k # 0 /\ i = n)
  OBVIOUS
<1>4. \/ labels[n] = Unk /\ \E c \in C \ E : t = One(c)
      \/ labels[n] # Unk /\ t \in Seq(E) /\ t # <<>>
  OBVIOUS
<1> HIDE DEF n, y
<1>5. AdjacentUnks(labels, n) <=> AdjacentUnks(labels, k) \/ (k # 0 /\ labels[k] = Unk /\ labels[n] = Unk)
  <2>1. AdjacentUnks(labels, n) <=> \E i \in 2 .. n : labels[i - 1] = Unk /\ labels[i] = Unk
    BY DEF AdjacentUnks
  <2>2. AdjacentUnks(labels, k) <=> \E i \in 2 .. k : labels[i - 1] = Unk /\ labels[i] = Unk
    BY DEF AdjacentUnks
  <2> QED
    BY <1>1, <1>3, <2>1, <2>2
<1>6. CASE labels[n] = Unk
  <2>1. PICK c \in C \ E : t = One(c)
    BY <1>4, <1>6
  <2>2. /\ AdjacentOovs(E, Cat(x, One(c))) <=> AdjacentOovs(E, x) \/ EndsWithOov(E, x)
        /\ EndsWithOov(E, Cat(x, One(c)))
    BY OovsUnknown
  <2>3. /\ AdjacentUnks(labels, n) <=> AdjacentOovs(E, y)
        /\ EndsWithOov(E, y) <=> n # 0 /\ labels[n] = Unk
    BY <1>1, <1>2, <1>5, <1>6, <2>1, <2>2
  <2> QED
    BY <2>3 DEF OovsAt, n, y
<1>7. CASE labels[n] # Unk
  <2>1. t \in Seq(E) /\ t # <<>>
    BY <1>4, <1>7
  <2>2. (AdjacentOovs(E, Cat(x, t)) <=> AdjacentOovs(E, x)) /\ ~EndsWithOov(E, Cat(x, t))
    BY <2>1, OovsToken
  <2>3. /\ AdjacentUnks(labels, n) <=> AdjacentOovs(E, y)
        /\ EndsWithOov(E, y) <=> n # 0 /\ labels[n] = Unk
    BY <1>1, <1>2, <1>5, <1>7, <2>2
  <2> QED
    BY <2>3 DEF OovsAt, n, y
<1> QED
  BY <1>6, <1>7

\* Unks are next to each other where unknown characters are.
LEMMA OovsOfTexts ==
  ASSUME NEW v, NEW C, NEW E, E \subseteq C, v \subseteq Seq(C), v \subseteq Seq(E), \A t \in v : t # <<>>,
         NEW labels, NEW ov \in Seq(C \ E), Matched(v, C, labels, ov)
  PROVE  AdjacentUnks(labels, Len(labels)) <=> AdjacentOovs(E, Flat(TextsOf(labels, ov)))
<1> DEFINE s == TextsOf(labels, ov)
           m == Len(labels)
           T == Seq(C)
<1>1. s \in Seq(T) /\ Len(s) = m /\ m \in Nat /\ \A i \in 1 .. m : s[i] = TextAt(labels, ov, i)
  BY TextsOfType DEF Texted
<1>2. labels \in Seq(LabelSet(v)) /\ Count(labels, m) = Len(ov)
  BY DEF Matched
<1>3. \A i \in 1 .. m : labels[i] = Unk => Count(labels, i) \in 1 .. Len(ov)
  BY <1>1, <1>2, CountBetween
<1> HIDE DEF s, m
<1>4. /\ Part(s, 0) = <<>>
      /\ \A n \in 1 .. m : Part(s, n) = Cat(Part(s, n - 1), s[n])
      /\ \A n \in 0 .. m : Part(s, n) \in Seq(C)
  BY <1>1, PartFacts
<1>5. Flat(s) = Part(s, m)
  BY <1>1, FlatIsPart
<1> DEFINE K == {n \in Nat : n <= m => OovsAt(E, labels, s, n)}
<1>6. ASSUME NEW n \in Nat, \A j \in 0 .. n - 1 : j \in K PROVE n \in K
  <2> SUFFICES ASSUME n <= m PROVE OovsAt(E, labels, s, n)
    OBVIOUS
  <2>1. CASE n = 0
    <3>1. ~AdjacentUnks(labels, 0)
      BY DEF AdjacentUnks
    <3>2. ~AdjacentOovs(E, <<>>) /\ ~EndsWithOov(E, <<>>)
      BY DEF AdjacentOovs, EndsWithOov
    <3> QED
      BY <1>4, <2>1, <3>1, <3>2 DEF OovsAt
  <2>2. CASE n # 0
    <3> DEFINE k == n - 1
               x == Part(s, k)
               t == s[n]
    <3>1. k \in 0 .. n - 1 /\ k \in Nat /\ k + 1 = n /\ n \in 1 .. m /\ k \in 0 .. m /\ k <= m
      BY <1>1, <2>2
    <3>2. OovsAt(E, labels, s, k) /\ x \in Seq(C) /\ Part(s, n) = Cat(x, t)
      BY <1>4, <1>6, <3>1
    <3>3. t = TextAt(labels, ov, n)
      BY <1>1, <3>1
    <3>4. \/ labels[n] = Unk /\ \E c \in C \ E : t = One(c)
          \/ labels[n] # Unk /\ t \in Seq(E) /\ t # <<>>
      <4>1. CASE labels[n] = Unk
        <5> DEFINE c == ov[Count(labels, n)]
        <5>1. c \in C \ E
          BY <1>3, <3>1, <4>1
        <5>2. t = One(c)
          BY <3>3, <4>1 DEF TextAt
        <5> QED
          BY <4>1, <5>1, <5>2
      <4>2. CASE labels[n] # Unk
        <5>1. labels[n] \in LabelSet(v)
          BY <1>2, <3>1 DEF m
        <5>2. labels[n] \in v /\ t = labels[n]
          BY <3>3, <4>2, <5>1 DEF LabelSet, TextAt
        <5> QED
          BY <4>2, <5>2
      <4> QED
        BY <4>1, <4>2
    <3> HIDE DEF k, x, t
    <3>5. OovsAt(E, labels, s, k + 1)
      <4>1. x = Part(s, k) /\ Part(s, k + 1) = Cat(x, t)
        BY <3>1, <3>2 DEF x
      <4>2. \/ labels[k + 1] = Unk /\ \E c \in C \ E : t = One(c)
            \/ labels[k + 1] # Unk /\ t \in Seq(E) /\ t # <<>>
        BY <3>1, <3>4
      <4> QED
        BY <3>1, <3>2, <4>1, <4>2, OovsNext
    <3> QED
      BY <3>1, <3>5
  <2> QED
    BY <2>1, <2>2
<1>7. \A n \in Nat : n \in K
  <2> HIDE DEF K
  <2> QED
    BY <1>6, SetInduction
<1>8. OovsAt(E, labels, s, m)
  BY <1>1, <1>7
<1> QED
  BY <1>5, <1>8 DEF OovsAt, s, m
-----------------------------------------------------------------------------
(* The line that encode.cc writes *)

\* Written, label by label.
OutputAt(labels, f, i) ==
  IF i = 0 THEN <<>>
  ELSE IF labels[i] = Unk /\ Read!PrevOov(labels, i)
    THEN Append(Read!Front(f[i - 1]), Read!Last(f[i - 1]) \o Read!TextOf(labels, i))
  ELSE Append(f[i - 1], Read!TextOf(labels, i))
Outputs(labels) == CHOOSE f : f = [i \in 0 .. Len(labels) |-> OutputAt(labels, f, i)]

\* It is what is output for all labels.
LEMMA WrittenIs == Read!Written = Outputs(Read!Encoded)[Len(Read!Encoded)]
BY DEF Read!Written, Outputs, OutputAt

\* One more text, which is joined to the last one or put after it.
Merged(labels, i) == labels[i] = Unk /\ i > 1 /\ labels[i - 1] = Unk
Output(s, merged, t) ==
  IF merged /\ s # <<>> THEN Append(Front(s), Cat(Last(s), t)) ELSE Append(s, t)

\* Their text is the same.
OutputIs(C, s, merged, t, y) ==
  /\ y \in Seq(Seq(C)) /\ y # <<>> /\ Flat(y) = Cat(Flat(s), t) /\ Len(s) \in Nat /\ Len(y) \in Nat
  /\ merged /\ s # <<>> => Len(y) = Len(s)
  /\ ~merged => Len(y) = Len(s) + 1 /\ y[Len(y)] = t /\ \A i \in 1 .. Len(s) : y[i] = s[i]
  /\ Len(y) <= Len(s) + 1

\* No text is lost by joining, and what is not joined is kept as it is.
LEMMA OutputFacts ==
  ASSUME NEW C, NEW s \in Seq(Seq(C)), NEW merged, NEW t \in Seq(C)
  PROVE  OutputIs(C, s, merged, t, Output(s, merged, t))
<1> DEFINE T == Seq(C)
           y == Output(s, merged, t)
           n == Len(s)
<1>1. s \in Seq(T) /\ t \in T /\ n \in Nat
  OBVIOUS
<1>2. CASE merged /\ s # <<>>
  <2> DEFINE p == Front(s)
             l == Last(s)
             k == Cat(l, t)
  <2>1. y = Append(p, k)
    BY <1>2 DEF Output
  <2>2. p \in Seq(T) /\ Len(p) = n - 1 /\ l \in T /\ s = Append(p, l)
    <3> HIDE DEF T
    <3> QED
      BY <1>1, <1>2, FrontFacts
  <2>3. k \in T
    <3>1. l \in Seq(C)
      BY <2>2
    <3> HIDE DEF l
    <3> QED
      BY <3>1, CatAlgebra
  <2> HIDE DEF p, l
  <2>4. Flat(Append(p, l)) = Cat(Flat(p), l) /\ Flat(p) \in Seq(C)
    BY <2>2, FlatAppend
  <2>5. Cat(Flat(p), k) = Cat(Cat(Flat(p), l), t)
    <3> DEFINE f == Flat(p)
    <3>1. f \in Seq(C) /\ l \in Seq(C)
      BY <2>2, <2>4
    <3> HIDE DEF f
    <3>2. Cat(Cat(f, l), t) = Cat(f, Cat(l, t))
      BY <3>1, CatAlgebra
    <3> QED
      BY <3>2 DEF f
  <2> HIDE DEF k
  <2>6. Flat(Append(p, k)) = Cat(Flat(p), k)
    BY <2>2, <2>3, FlatAppend
  <2>7. Append(p, k) \in Seq(T) /\ Len(Append(p, k)) = n /\ Append(p, k) # <<>>
    <3> HIDE DEF T, n
    <3>1. Append(p, k) \in Seq(T) /\ Len(Append(p, k)) = Len(p) + 1 /\ Append(p, k) # <<>>
      BY <2>2, <2>3, AppendProperties
    <3>2. (n - 1) + 1 = n
      BY <1>1
    <3> QED
      BY <2>2, <3>1, <3>2
  <2>8. Flat(y) = Cat(Flat(s), t)
    BY <2>1, <2>2, <2>4, <2>5, <2>6
  <2> HIDE DEF y
  <2>9. y \in Seq(T) /\ y # <<>> /\ Len(y) = n
    BY <2>1, <2>7
  <2>10. merged
    BY <1>2
  <2>11. Len(s) = n
    OBVIOUS
  <2> HIDE DEF n
  <2>12. n <= n + 1
    BY <1>1
  <2>13. OutputIs(C, s, merged, t, y)
    BY <1>1, <2>8, <2>9, <2>10, <2>11, <2>12 DEF OutputIs
  <2> QED
    BY <2>13 DEF y
<1>3. CASE ~(merged /\ s # <<>>)
  <2>1. y = Append(s, t)
    BY <1>3 DEF Output
  <2>2. Flat(y) = Cat(Flat(s), t)
    BY <2>1, FlatAppend
  <2>3. y \in Seq(T) /\ Len(y) = n + 1 /\ y # <<>> /\ y[n + 1] = t /\ \A i \in 1 .. n : y[i] = s[i]
    <3> HIDE DEF T, y
    <3> QED
      BY <1>1, <2>1, AppendProperties
  <2> HIDE DEF y
  <2> QED
    BY <1>1, <1>3, <2>2, <2>3 DEF OutputIs, y
<1> QED
  BY <1>2, <1>3

\* What is output up to any label: by induction.
OutputsAre(C, labels, t, f) ==
  /\ f[0] = <<>>
  /\ \A i \in 0 .. Len(labels) : f[i] \in Seq(Seq(C))
  /\ \A i \in 1 .. Len(labels) : f[i - 1] = <<>> => ~Merged(labels, i)
  /\ \A i \in 1 .. Len(labels) : f[i] = Output(f[i - 1], Merged(labels, i), t[i])

\* What Written outputs for labels with their texts is that.
LEMMA OutputsFacts ==
  ASSUME NEW C, NEW labels, NEW t, Texted(C, labels, oovs, t)
  PROVE  OutputsAre(C, labels, t, Outputs(labels))
<1> DEFINE n == Len(labels)
           T == Seq(C)
           W == Seq(T)
           Is(f) == f = [i \in 0 .. n |-> OutputAt(labels, f, i)]
           M(i) == Merged(labels, i)
<1>1. n \in Nat /\ \A i \in 1 .. n : t[i] \in T /\ t[i] = TextAt(labels, oovs, i)
  BY DEF Texted
<1>2. \A i \in 1 .. n : Read!TextOf(labels, i) = t[i]
  BY <1>1, ReadUnks DEF Read!TextOf, TextAt, One
<1>3. \A s, i : Read!Front(s) = Front(s) /\ Read!Last(s) = Last(s)
  BY DEF Read!Front, Front, Read!Last, Last
<1>4. \A i \in 1 .. n : (labels[i] = Unk /\ Read!PrevOov(labels, i)) <=> M(i)
  BY DEF Merged, Read!PrevOov
<1>5. \A f, i : i \in 1 .. n /\ f[i - 1] # <<>> => OutputAt(labels, f, i) = Output(f[i - 1], M(i), t[i])
  <2> SUFFICES ASSUME NEW f, NEW i \in 1 .. n, f[i - 1] # <<>>
               PROVE  OutputAt(labels, f, i) = Output(f[i - 1], M(i), t[i])
    OBVIOUS
  <2> DEFINE s == f[i - 1]
             r == t[i]
  <2>1. i # 0 /\ s # <<>>
    BY <1>1
  <2>2. OutputAt(labels, f, i) = IF M(i) THEN Append(Front(s), Cat(Last(s), r)) ELSE Append(s, r)
    <3> HIDE DEF M
    <3>1. OutputAt(labels, f, i) =
            IF labels[i] = Unk /\ Read!PrevOov(labels, i)
              THEN Append(Read!Front(s), Cat(Read!Last(s), Read!TextOf(labels, i)))
            ELSE Append(s, Read!TextOf(labels, i))
      BY <2>1 DEF OutputAt, Cat
    <3> HIDE DEF s, r
    <3> QED
      BY <1>2, <1>3, <1>4, <3>1 DEF r
  <2> QED
    BY <2>1, <2>2 DEF Output
<1>6. \A f, i : i \in 1 .. n /\ ~M(i) => OutputAt(labels, f, i) = Output(f[i - 1], M(i), t[i])
  <2> SUFFICES ASSUME NEW f, NEW i \in 1 .. n, ~M(i)
               PROVE  OutputAt(labels, f, i) = Output(f[i - 1], M(i), t[i])
    OBVIOUS
  <2>1. i # 0 /\ ~(labels[i] = Unk /\ Read!PrevOov(labels, i))
    BY <1>1, <1>4
  <2>2. OutputAt(labels, f, i) = Append(f[i - 1], Read!TextOf(labels, i))
    BY <2>1 DEF OutputAt
  <2> HIDE DEF M
  <2>3. OutputAt(labels, f, i) = Append(f[i - 1], t[i])
    BY <1>2, <2>2
  <2> QED
    BY <2>3 DEF Output
<1>7. ~M(1)
  BY DEF Merged
<1>8. \A s \in W : \A i \in 1 .. n : Output(s, M(i), t[i]) \in W /\ Output(s, M(i), t[i]) # <<>>
  <2> SUFFICES ASSUME NEW s \in W, NEW i \in 1 .. n
               PROVE  Output(s, M(i), t[i]) \in W /\ Output(s, M(i), t[i]) # <<>>
    OBVIOUS
  <2> DEFINE r == t[i]
             k == M(i)
  <2>1. r \in Seq(C) /\ s \in Seq(Seq(C))
    BY <1>1
  <2> HIDE DEF r, k
  <2>2. OutputIs(C, s, k, r, Output(s, k, r))
    BY <2>1, OutputFacts
  <2> QED
    BY <2>2 DEF OutputIs, r, k
<1> DEFINE e == <<>>
<1>9. e \in W
  OBVIOUS
<1> HIDE DEF T, W, M, n
<1>10. \E f : Is(f)
  <2> DEFINE h == [i \in 1 .. n |-> [s \in W |-> Output(s, M(i), t[i])]]
  <2>1. h \in [1 .. n -> [W -> W]] /\ \A i \in 1 .. n : \A s \in W : h[i][s] = Output(s, M(i), t[i])
    BY <1>8
  <2> HIDE DEF h, e
  <2>2. PICK g \in [0 .. n -> W] : IsRec(n, e, h, g)
    BY <1>1, <1>9, <2>1, RecExists
  <2>3. g = [i \in 0 .. n |-> RecAt(e, h, g, i)]
    BY <2>2 DEF IsRec
  <2>4. \A i \in 0 .. n : g[i] = RecAt(e, h, g, i)
    BY <2>2 DEF IsRec
  <2>5. \A i \in 1 .. n : g[i] = Output(g[i - 1], M(i), t[i])
    <3> SUFFICES ASSUME NEW i \in 1 .. n PROVE g[i] = Output(g[i - 1], M(i), t[i])
      OBVIOUS
    <3>1. i \in 0 .. n /\ i # 0 /\ i - 1 \in 0 .. n
      BY <1>1
    <3>2. g[i - 1] \in W /\ g[i] = h[i][g[i - 1]]
      BY <2>4, <3>1 DEF RecAt
    <3> QED
      BY <2>1, <3>2
  <2>6. \A i \in 1 .. n : g[i] # <<>>
    <3> SUFFICES ASSUME NEW i \in 1 .. n PROVE g[i] # <<>>
      OBVIOUS
    <3>1. i - 1 \in 0 .. n
      BY <1>1
    <3>2. g[i - 1] \in W
      BY <3>1
    <3> QED
      BY <1>8, <2>5, <3>2
  <2>7. \A i \in 0 .. n : RecAt(e, h, g, i) = OutputAt(labels, g, i)
    <3> SUFFICES ASSUME NEW i \in 0 .. n PROVE RecAt(e, h, g, i) = OutputAt(labels, g, i)
      OBVIOUS
    <3>1. CASE i = 0
      BY <3>1 DEF RecAt, OutputAt, e
    <3>2. CASE i # 0
      <4>1. i \in 1 .. n /\ (i = 1 \/ i - 1 \in 1 .. n)
        BY <1>1, <3>2
      <4>2. g[i] = RecAt(e, h, g, i) /\ g[i] = Output(g[i - 1], M(i), t[i])
        BY <2>4, <2>5, <4>1
      <4>3. CASE i = 1
        BY <1>6, <1>7, <4>1, <4>2, <4>3
      <4>4. CASE i - 1 \in 1 .. n
        BY <1>5, <2>6, <4>1, <4>2, <4>4
      <4> QED
        BY <4>1, <4>3, <4>4
    <3> QED
      BY <3>1, <3>2
  <2>8. Is(g)
    BY <2>3, <2>7
  <2> QED
    BY <2>8
<1> DEFINE f == Outputs(labels)
<1>11. Is(f)
  <2>1. f = CHOOSE g : Is(g)
    BY DEF Outputs, n
  <2> HIDE DEF f, Is
  <2> QED
    BY <1>10, <2>1
<1>12. \A i \in 0 .. n : f[i] = OutputAt(labels, f, i)
  <2> HIDE DEF f
  <2>1. f = [i \in 0 .. n |-> OutputAt(labels, f, i)]
    BY <1>11
  <2> QED
    BY <2>1
<1> HIDE DEF f, Is
<1>13. f[0] = e
  <2>1. 0 \in 0 .. n
    BY <1>1
  <2> QED
    BY <1>12, <2>1 DEF OutputAt
<1> DEFINE Fine(i) == /\ f[i] \in W
                      /\ i # 0 => f[i] # <<>> /\ f[i] = Output(f[i - 1], M(i), t[i])
           K == {i \in Nat : i <= n => Fine(i)}
<1>14. ASSUME NEW i \in Nat, \A j \in 0 .. i - 1 : j \in K PROVE i \in K
  <2> SUFFICES ASSUME i <= n PROVE Fine(i)
    OBVIOUS
  <2>1. CASE i = 0
    BY <1>9, <1>13, <2>1
  <2>2. CASE i # 0
    <3>1. i - 1 \in 0 .. i - 1 /\ i - 1 \in Nat /\ i - 1 <= n /\ i \in 1 .. n /\ i \in 0 .. n
      BY <1>1, <2>2
    <3>2. Fine(i - 1)
      BY <1>14, <3>1
    <3>3. f[i] = OutputAt(labels, f, i)
      BY <1>12, <3>1
    <3>4. OutputAt(labels, f, i) = Output(f[i - 1], M(i), t[i])
      <4>1. CASE i = 1
        BY <1>6, <1>7, <3>1, <4>1
      <4>2. CASE i # 1
        <5>1. i - 1 # 0
          BY <4>2
        <5>2. f[i - 1] # <<>>
          BY <3>2, <5>1
        <5> QED
          BY <1>5, <3>1, <5>2
      <4> QED
        BY <4>1, <4>2
    <3>5. f[i - 1] \in W
      BY <3>2
    <3> QED
      BY <1>8, <3>1, <3>3, <3>4, <3>5
  <2> QED
    BY <2>1, <2>2
<1>15. \A i \in Nat : i \in K
  <2> HIDE DEF K
  <2> QED
    BY <1>14, SetInduction
<1>16. \A i \in 0 .. n : Fine(i)
  BY <1>1, <1>15
<1>17. \A i \in 1 .. n : f[i - 1] = <<>> => ~M(i)
  <2> SUFFICES ASSUME NEW i \in 1 .. n, f[i - 1] = <<>> PROVE ~M(i)
    OBVIOUS
  <2>1. i - 1 \in 0 .. n
    BY <1>1
  <2>2. i - 1 = 0
    BY <1>16, <2>1
  <2>3. i = 1
    BY <1>1, <2>2
  <2> QED
    BY <1>7, <2>3
<1>18. \A i \in 1 .. n : f[i] = Output(f[i - 1], M(i), t[i])
  <2>1. \A i \in 1 .. n : i \in 0 .. n /\ i # 0
    BY <1>1
  <2> QED
    BY <1>16, <2>1
<1>19. \A i \in 0 .. n : f[i] \in W
  BY <1>16
<1> QED
  BY <1>13, <1>17, <1>18, <1>19 DEF OutputsAre, f, e, n, M, W, T
-----------------------------------------------------------------------------
\* What is output for i labels: their text, and a token for each unless two
\* unks are next to each other.
WrittenAt(labels, t, y, i) ==
  /\ Flat(y) = Part(t, i)
  /\ Len(y) \in Nat /\ Len(y) <= i
  /\ AdjacentUnks(labels, i) => Len(y) < i
  /\ ~AdjacentUnks(labels, i) => Len(y) = i /\ \A j \in 1 .. i : y[j] = t[j]

\* One more label is next to another unk or not.
LEMMA AdjacentNext ==
  ASSUME NEW labels, NEW k \in Nat
  PROVE  AdjacentUnks(labels, k + 1) <=> AdjacentUnks(labels, k) \/ Merged(labels, k + 1)
<1> DEFINE n == k + 1
<1>1. n \in Nat /\ \A i : i \in 2 .. n <=> i \in 2 .. k \/ (n > 1 /\ i = n)
  OBVIOUS
<1> HIDE DEF n
<1>2. AdjacentUnks(labels, n) <=> \E i \in 2 .. n : labels[i - 1] = Unk /\ labels[i] = Unk
  BY DEF AdjacentUnks
<1>3. AdjacentUnks(labels, k) <=> \E i \in 2 .. k : labels[i - 1] = Unk /\ labels[i] = Unk
  BY DEF AdjacentUnks
<1>4. Merged(labels, n) <=> (labels[n] = Unk /\ n > 1 /\ labels[n - 1] = Unk)
  BY DEF Merged
<1>5. AdjacentUnks(labels, n) <=> AdjacentUnks(labels, k) \/ Merged(labels, n)
  BY <1>1, <1>2, <1>3, <1>4
<1> QED
  BY <1>5 DEF n

\* One more label.
LEMMA WrittenNext ==
  ASSUME NEW C, NEW labels, NEW t, NEW k \in Nat, NEW s \in Seq(Seq(C)), WrittenAt(labels, t, s, k),
         NEW r \in Seq(C), r = t[k + 1], Part(t, k + 1) = Cat(Part(t, k), r),
         NEW merged, merged <=> Merged(labels, k + 1), s = <<>> => ~merged
  PROVE  WrittenAt(labels, t, Output(s, merged, r), k + 1)
<1> DEFINE y == Output(s, merged, r)
           n == k + 1
<1>1. OutputIs(C, s, merged, r, y)
  BY OutputFacts
<1>2. n \in Nat /\ (\A m \in Nat : m <= k => m + 1 <= n /\ (m < k => m + 1 < n) /\ m < n /\ m <= n)
      /\ \A j : j \in 1 .. n <=> j \in 1 .. k \/ j = n
  OBVIOUS
<1>3. AdjacentUnks(labels, n) <=> AdjacentUnks(labels, k) \/ merged
  BY AdjacentNext
<1>4. r = t[n] /\ Part(t, n) = Cat(Part(t, k), r) /\ n = k + 1
  OBVIOUS
<1> HIDE DEF y, n
<1>5. /\ Flat(y) = Cat(Flat(s), r) /\ Len(s) \in Nat /\ Len(y) \in Nat
      /\ merged /\ s # <<>> => Len(y) = Len(s)
      /\ ~merged => Len(y) = Len(s) + 1 /\ y[Len(y)] = r /\ \A i \in 1 .. Len(s) : y[i] = s[i]
  BY <1>1 DEF OutputIs
<1>6. /\ Flat(s) = Part(t, k) /\ Len(s) <= k
      /\ AdjacentUnks(labels, k) => Len(s) < k
      /\ ~AdjacentUnks(labels, k) => Len(s) = k /\ \A j \in 1 .. k : s[j] = t[j]
  BY DEF WrittenAt
<1>7. Flat(y) = Part(t, n)
  BY <1>4, <1>5, <1>6
<1>8. CASE merged
  <2>1. Len(y) = Len(s)
    BY <1>5, <1>8
  <2>2. Len(y) < n /\ Len(y) <= n
    <3>1. Len(s) \in Nat /\ Len(s) <= k
      BY <1>5, <1>6
    <3>2. Len(s) < n /\ Len(s) <= n
      BY <1>2, <3>1
    <3> QED
      BY <2>1, <3>2
  <2>3. AdjacentUnks(labels, n)
    BY <1>3, <1>8
  <2> QED
    BY <1>5, <1>7, <2>2, <2>3 DEF WrittenAt, y, n
<1>9. CASE ~merged
  <2>1. Len(y) = Len(s) + 1 /\ y[Len(y)] = r /\ \A i \in 1 .. Len(s) : y[i] = s[i]
    BY <1>5, <1>9
  <2>2. Len(y) <= n
    BY <1>2, <1>5, <1>6, <2>1
  <2>3. AdjacentUnks(labels, n) <=> AdjacentUnks(labels, k)
    BY <1>3, <1>9
  <2>4. AdjacentUnks(labels, n) => Len(y) < n
    BY <1>2, <1>5, <1>6, <2>1, <2>3
  <2>5. ASSUME ~AdjacentUnks(labels, n) PROVE Len(y) = n /\ \A j \in 1 .. n : y[j] = t[j]
    <3>1. Len(s) = k /\ \A j \in 1 .. k : s[j] = t[j]
      BY <1>6, <2>3, <2>5
    <3>2. Len(y) = n
      BY <1>4, <2>1, <3>1
    <3>3. \A j \in 1 .. k : y[j] = t[j]
      BY <2>1, <3>1
    <3>4. y[n] = t[n]
      BY <1>4, <2>1, <3>2
    <3> QED
      BY <1>2, <3>2, <3>3, <3>4
  <2> QED
    BY <1>5, <1>7, <2>2, <2>4, <2>5 DEF WrittenAt, y, n
<1> QED
  BY <1>8, <1>9

\* All labels.
LEMMA WrittenOfAll ==
  ASSUME NEW C, NEW labels, NEW t, NEW f, Texted(C, labels, oovs, t), OutputsAre(C, labels, t, f)
  PROVE  LET n == Len(labels) IN f[n] \in Seq(Seq(C)) /\ WrittenAt(labels, t, f[n], n)
<1> DEFINE n == Len(labels)
<1>1. n \in Nat /\ t \in Seq(Seq(C)) /\ Len(t) = n
  BY DEF Texted
<1>2. /\ f[0] = <<>>
      /\ \A i \in 0 .. n : f[i] \in Seq(Seq(C))
      /\ \A i \in 1 .. n : f[i - 1] = <<>> => ~Merged(labels, i)
      /\ \A i \in 1 .. n : f[i] = Output(f[i - 1], Merged(labels, i), t[i])
  BY DEF OutputsAre
<1>3. /\ Part(t, 0) = <<>>
      /\ \A i \in 1 .. n : Part(t, i) = Cat(Part(t, i - 1), t[i])
  BY <1>1, PartFacts
<1>4. \A i \in 1 .. n : t[i] \in Seq(C)
  BY <1>1
<1> HIDE DEF n
<1> DEFINE K == {i \in Nat : i <= n => WrittenAt(labels, t, f[i], i)}
<1>5. ASSUME NEW i \in Nat, \A j \in 0 .. i - 1 : j \in K PROVE i \in K
  <2> SUFFICES ASSUME i <= n PROVE WrittenAt(labels, t, f[i], i)
    OBVIOUS
  <2>1. CASE i = 0
    <3>1. Flat(<<>>) = <<>>
      BY FlatSmall
    <3>2. ~AdjacentUnks(labels, 0)
      BY DEF AdjacentUnks
    <3>3. WrittenAt(labels, t, <<>>, 0)
      BY <1>3, <3>1, <3>2 DEF WrittenAt
    <3> QED
      BY <1>2, <2>1, <3>3
  <2>2. CASE i # 0
    <3> DEFINE k == i - 1
               s == f[k]
               r == t[i]
               m == Merged(labels, i)
    <3>1. k \in Nat /\ k \in 0 .. i - 1 /\ k <= n /\ k + 1 = i /\ i \in 1 .. n /\ k \in 0 .. n
      BY <1>1, <2>2
    <3>2. WrittenAt(labels, t, s, k)
      BY <1>5, <3>1
    <3>3. s \in Seq(Seq(C)) /\ r \in Seq(C) /\ f[i] = Output(s, m, r) /\ (s = <<>> => ~m)
      BY <1>2, <1>4, <3>1
    <3>4. Part(t, i) = Cat(Part(t, k), r)
      BY <1>3, <3>1
    <3> HIDE DEF k, s, m
    <3>5. r = t[k + 1] /\ Part(t, k + 1) = Cat(Part(t, k), r) /\ (m <=> Merged(labels, k + 1))
      BY <3>1, <3>4 DEF m
    <3> HIDE DEF r
    <3>6. WrittenAt(labels, t, Output(s, m, r), k + 1)
      BY <3>1, <3>2, <3>3, <3>5, WrittenNext
    <3> QED
      BY <3>1, <3>3, <3>6
  <2> QED
    BY <2>1, <2>2
<1>6. \A i \in Nat : i \in K
  <2> HIDE DEF K
  <2> QED
    BY <1>5, SetInduction
<1>7. WrittenAt(labels, t, f[n], n)
  BY <1>1, <1>6
<1>8. f[n] \in Seq(Seq(C))
  BY <1>1, <1>2
<1> QED
  BY <1>7, <1>8 DEF n

\* It has the labels it was written for unless two unks are next to each other.
LEMMA WrittenLabels ==
  ASSUME NEW v, NEW C, NEW E, E \subseteq C, v \subseteq Seq(C), v \subseteq Seq(E),
         NEW labels, NEW ov \in Seq(C \ E), Matched(v, C, labels, ov),
         NEW w \in Seq(Seq(C)), WrittenAt(labels, TextsOf(labels, ov), w, Len(labels))
  PROVE  Lab(v, w) = labels <=> ~AdjacentUnks(labels, Len(labels))
<1> DEFINE n == Len(labels)
           t == TextsOf(labels, ov)
           L == Lab(v, w)
<1>1. n \in Nat /\ \A i \in 1 .. n : t[i] = TextAt(labels, ov, i)
  BY TextsOfType DEF Texted
<1>2. L \in Seq(LabelSet(v)) /\ Len(L) = Len(w) /\ \A i \in 1 .. Len(w) : L[i] = LabelAt(v, w[i])
  <2> DEFINE T == Seq(C)
  <2>1. w \in Seq(T)
    OBVIOUS
  <2> HIDE DEF T
  <2> QED
    BY <2>1, LabType
<1>3. labels \in Seq(LabelSet(v)) /\ Count(labels, n) = Len(ov)
  BY DEF Matched
<1>4. \A i \in 1 .. n : labels[i] = Unk => Count(labels, i) \in 1 .. Len(ov)
  BY <1>1, <1>3, CountBetween
<1>5. \A i \in 1 .. n : labels[i] \in v \/ labels[i] = Unk
  BY <1>3 DEF LabelSet
<1> HIDE DEF n, t, L
<1>6. /\ AdjacentUnks(labels, n) => Len(w) < n
      /\ ~AdjacentUnks(labels, n) => Len(w) = n /\ \A j \in 1 .. n : w[j] = t[j]
      /\ Len(w) \in Nat
  BY DEF WrittenAt, n, t
<1>7. ASSUME AdjacentUnks(labels, n) PROVE L # labels
  <2>1. Len(L) < n /\ Len(w) \in Nat
    BY <1>2, <1>6, <1>7
  <2>2. \A i \in Nat : i < n => i # n
    BY <1>1
  <2>3. Len(L) # n
    BY <1>2, <2>1, <2>2
  <2> QED
    BY <2>3 DEF n
<1>8. ASSUME ~AdjacentUnks(labels, n) PROVE L = labels
  <2>1. Len(w) = n /\ \A j \in 1 .. n : w[j] = t[j]
    BY <1>6, <1>8
  <2>2. \A i \in 1 .. n : L[i] = labels[i]
    <3> SUFFICES ASSUME NEW i \in 1 .. n PROVE L[i] = labels[i]
      OBVIOUS
    <3>1. L[i] = LabelAt(v, TextAt(labels, ov, i))
      BY <1>1, <1>2, <2>1
    <3>2. CASE labels[i] # Unk
      <4>1. labels[i] \in v
        BY <1>5, <3>2
      <4> QED
        BY <3>1, <3>2, <4>1 DEF TextAt, LabelAt
    <3>3. CASE labels[i] = Unk
      <4> DEFINE c == ov[Count(labels, i)]
      <4>1. c \in C \ E
        BY <1>4, <3>3
      <4>2. TextAt(labels, ov, i) = One(c)
        BY <3>3 DEF TextAt
      <4> HIDE DEF c
      <4>3. One(c) \notin v
        <5>1. One(c) \in Seq(E) => c \in E
          BY DEF One
        <5> QED
          BY <4>1, <5>1
      <4> QED
        BY <3>1, <3>3, <4>2, <4>3 DEF LabelAt
    <3> QED
      BY <3>2, <3>3
  <2>3. Len(L) = n
    BY <1>2, <2>1
  <2> HIDE DEF Lab
  <2> QED
    BY <1>2, <1>3, <2>2, <2>3, SeqEqual DEF n
<1> QED
  BY <1>7, <1>8 DEF n, L
-----------------------------------------------------------------------------
\* What is kept aside is unknown.
OovInv == oovs \in Seq(CharsOf(vocab) \ ExtractCharacters(vocab))

\* Only unknown characters are kept aside.
LEMMA OovNext == EncInv /\ OovInv /\ [Next]_vars => OovInv'
<1> SUFFICES ASSUME EncInv, OovInv, [Next]_vars PROVE OovInv'
  OBVIOUS
<1>1. OovInv' <=> oovs' \in Seq(CharsOf(vocab') \ ExtractCharacters(vocab'))
  BY DEF OovInv
<1> DEFINE Same == vocab' = vocab /\ oovs' = oovs
<1>2. CASE Same
  BY <1>1, <1>2 DEF OovInv
<1>3. CASE Construct
  BY <1>2, <1>3 DEF Construct, CandidatesNext, Arrive, Follow, Filter, Store, fstVars, readVars, callVars
<1>4. CASE Complete
  BY <1>2, <1>4 DEF Complete, fstVars, readVars
<1>5. ASSUME NEW k \in Typed, Type(k) PROVE OovInv'
  <2> DEFINE c == Spaced(<<k>>)[1]
             D == CharsOf(vocab) \ ExtractCharacters(vocab)
  <2>1. Read!ReadKnown(c) \/ Read!ReadUnknown(c)
    BY <1>5 DEF Type
  <2>2. c \in CharsOf(vocab)
    BY DEF CharsOf
  <2> HIDE DEF c
  <2>3. CASE Read!ReadKnown(c)
    BY <1>2, <2>3 DEF Read!ReadKnown
  <2>4. CASE Read!ReadUnknown(c)
    <3>1. vocab' = vocab /\ oovs' = Append(oovs, c) /\ c \in D
      BY <2>2, <2>4, ReadDefs DEF Read!ReadUnknown
    <3>2. oovs \in Seq(D)
      BY DEF OovInv
    <3> HIDE DEF D
    <3>3. Append(oovs, c) \in Seq(D)
      BY <3>1, <3>2, AppendProperties
    <3> QED
      BY <1>1, <3>1, <3>3 DEF D
  <2> QED
    BY <2>1, <2>3, <2>4
<1>6. CASE UNCHANGED vars
  BY <1>2, <1>6 DEF vars, fstVars, readVars
<1> QED
  BY <1>3, <1>4, <1>5, <1>6 DEF Next

\* Nothing was kept aside at first.
LEMMA AlwaysOovInv == Spec => []OovInv
<1>1. Init => OovInv
  BY DEF Init, Read!Init, OovInv
<1> QED
  BY <1>1, TypingInv, OovNext, PTL DEF Spec

\* A text that begins with a space has as many unknown characters in a row.
LEMMA BegunOovs ==
  ASSUME NEW v \in Vocabs, NEW x \in Seq(CharsOf(v))
  PROVE  AdjacentOovs(ExtractCharacters(v), BegunText(v, x)) <=> AdjacentOovs(ExtractCharacters(v), x)
<1> DEFINE E == ExtractCharacters(v)
           C == CharsOf(v)
           o == One(Space)
<1>1. Space \in E /\ Space \in C
  BY VocabFacts
<1>2. BegunText(v, x) = IF Leaf(Trie(v), <<Space>>) THEN x ELSE Cat(o, x)
  BY DEF BegunText, One
<1> HIDE DEF E, C, o
<1>3. AdjacentOovs(E, Cat(o, x)) <=> AdjacentOovs(E, x)
  BY <1>1, OovsFront DEF o, C
<1> QED
  BY <1>2, <1>3 DEF E

\* What is written has the text of the line, and its labels.
LEMMA InvWrittenIsLine == EncInv /\ TextInv /\ OovInv => WrittenIsLine
<1> DEFINE v == vocab
           C == CharsOf(v)
           E == ExtractCharacters(v)
           P == Minimized(Trie(v), PhiTable(v))
           x == ExitOutput(Trie(v), P, state)
           ol == olabels
           ov == oovs
           labels == Cat(ol, x)
           t == TextsOf(labels, ov)
           w == Read!Written
           g == BegunText(v, text)
           m == Len(labels)
           e == <<>>
<1> SUFFICES ASSUME EncInv, TextInv, OovInv PROVE WrittenIsLine
  OBVIOUS
<1>1. /\ v \in Vocabs /\ trie = Trie(v) /\ phi = P
      /\ text \in Seq(C) /\ state \in Trie(v)
  BY DEF EncInv
<1>2. /\ GoodVocab(v) /\ E \subseteq C /\ Space \in C
      /\ Minimal(C, v, P) /\ Minimal(E, v, P)
      /\ v \subseteq Seq(C) /\ Unk \notin v
  BY <1>1, VocabFacts, VocabTexts
<1>3. v \subseteq Seq(E) /\ \A k \in v : k # <<>>
  BY <1>2 DEF GoodVocab
<1>4. /\ Matched(v, C, ol, ov) /\ Cat(Flat(TextsOf(ol, ov)), Pending(v, state)) = g
  BY DEF TextInv, TextKept
<1>5. ov \in Seq(C \ E)
  BY DEF OovInv
<1>6. Read!Encoded = labels
  BY <1>1, ReadExitOutput DEF Read!Encoded, Cat
<1>7. x \in Seq(v) /\ x \in Seq(Seq(C)) /\ LPM(v, Pending(v, state)) = x
  <2> HIDE DEF C, E, P
  <2> QED
    BY <1>1, <1>2, ExitKnown DEF E
<1>8. Pending(v, state) \in Seq(C)
  <2>1. Pending(v, state) \in Seq(E)
    BY <1>1, <1>2, RepIn
  <2> HIDE DEF C, E
  <2> QED
    BY <1>2, <2>1, SeqMonotonic
<1>9. Flat(x) = Pending(v, state)
  <2> DEFINE p == Pending(v, state)
  <2>1. Flat(LPM(v, p)) = p
    BY <1>8, LPMFlat
  <2> HIDE DEF x
  <2> QED
    BY <1>7, <2>1
<1> HIDE DEF x, C, E, P
<1>10. Matched(v, C, x, e) /\ TextsOf(x, e) = x
  BY <1>2, <1>7, TextsOfTokens
<1>11. Cat(ov, e) = ov
  <2>1. ov \in Seq(C)
    BY <1>4 DEF Matched
  <2> QED
    BY <2>1, CatAlgebra
<1> HIDE DEF e, ol, ov
<1>12. Matched(v, C, labels, ov) /\ t = Cat(TextsOf(ol, ov), x)
  <2>1. /\ Matched(v, C, Cat(ol, x), Cat(ov, e))
        /\ TextsOf(Cat(ol, x), Cat(ov, e)) = Cat(TextsOf(ol, ov), TextsOf(x, e))
    BY <1>2, <1>4, <1>10, TextsOfCat
  <2> QED
    BY <1>10, <1>11, <2>1
<1>13. Flat(t) = g
  <2> DEFINE a == TextsOf(ol, ov)
             T == Seq(C)
  <2>1. a \in Seq(Seq(C))
    BY <1>2, <1>4, TextsOfType DEF Texted
  <2> HIDE DEF a
  <2>2. Flat(Cat(a, x)) = Cat(Flat(a), Flat(x))
    BY <1>7, <2>1, FlatCat
  <2> QED
    BY <1>4, <1>9, <1>12, <2>2 DEF a, ol, ov
<1> HIDE DEF labels
<1>14. Texted(C, labels, ov, t)
  BY <1>2, <1>12, TextsOfType
<1> HIDE DEF t
<1>15. w \in Seq(Seq(C)) /\ WrittenAt(labels, t, w, m)
  <2> DEFINE f == Outputs(labels)
  <2>1. w = f[m]
    BY <1>6, WrittenIs
  <2>2. OutputsAre(C, labels, t, f)
    BY <1>14, OutputsFacts DEF ov
  <2> HIDE DEF f, w
  <2>3. f[m] \in Seq(Seq(C)) /\ WrittenAt(labels, t, f[m], m)
    BY <1>14, <2>2, WrittenOfAll DEF ov
  <2> QED
    BY <2>1, <2>3
<1> HIDE DEF w, g, m
<1>16. Flat(w) = g
  <2>1. t \in Seq(Seq(C)) /\ Len(t) = m
    BY <1>14 DEF Texted, m
  <2>2. Flat(t) = Part(t, m)
    BY <2>1, FlatIsPart
  <2> QED
    BY <1>13, <1>15, <2>2 DEF WrittenAt
<1>17. Lab(v, w) = labels <=> ~AdjacentUnks(labels, m)
  BY <1>2, <1>3, <1>5, <1>12, <1>15, WrittenLabels DEF t, m
<1>18. AdjacentUnks(labels, m) <=> AdjacentOovs(E, text)
  <2>1. AdjacentUnks(labels, m) <=> AdjacentOovs(E, Flat(t))
    BY <1>2, <1>3, <1>5, <1>12, OovsOfTexts DEF t, m
  <2>2. AdjacentOovs(E, g) <=> AdjacentOovs(E, text)
    BY <1>1, BegunOovs DEF E, C, g
  <2> QED
    BY <1>13, <2>1, <2>2
<1>19. Read!Begun(text) = g
  <2>1. Read!Leaf(trie, <<Space>>) = Leaf(Trie(v), <<Space>>)
    BY <1>1, ReadDefs
  <2> QED
    BY <2>1 DEF Read!Begun, Read!Begin, BegunText, Cat, g
<1>20. Read!Labels(w) = Lab(v, w)
  BY DEF Read!Labels, Lab, LabelAt
<1>21. Read!FlattenSeq(w) = Flat(w)
  BY DEF Read!FlattenSeq, Flat, FlattenSeq
<1>22. Read!ExtractCharacters(vocab) = E
  BY ReadDefs DEF E
<1>23. WrittenIsLine <=>
         /\ Read!FlattenSeq(w) = Read!Begun(text)
         /\ Read!Labels(w) = Read!Encoded <=>
              ~\E i \in 2 .. Len(text) :
                text[i - 1] \notin Read!ExtractCharacters(vocab) /\ text[i] \notin Read!ExtractCharacters(vocab)
  BY DEF WrittenIsLine, Read!WrittenIsLine, w
<1>24. AdjacentOovs(E, text) <=> \E i \in 2 .. Len(text) : text[i - 1] \notin E /\ text[i] \notin E
  BY DEF AdjacentOovs
<1>25. Read!Labels(w) = Read!Encoded <=> ~AdjacentOovs(E, text)
  BY <1>6, <1>17, <1>18, <1>20
<1> QED
  BY <1>16, <1>19, <1>21, <1>22, <1>23, <1>24, <1>25

(* For every vocabulary and every line: the text of what encode.cc writes is *)
(* the line itself, and it is cut as Complete would cut that line, unless    *)
(* two characters that the encoder does not know are next to each other.     *)
THEOREM LinesWritten == Spec => []WrittenIsLine
<1>1. Spec => []TextInv
  BY TypingInv, TextInit, TextNext, PTL DEF Spec
<1> QED
  BY <1>1, TypingInv, AlwaysOovInv, InvWrittenIsLine, PTL
=============================================================================
