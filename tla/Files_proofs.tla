---------------------------- MODULE Files_proofs ----------------------------
(***************************************************************************)
(* Proofs about what one process saves and another one loads: the beam     *)
(* search results of a QueryBlazer (ResultFile), for any models, configs   *)
(* and number of objects, and the most popular completions (Mpc), for      *)
(* every set of logs, every alphabet and every K.                          *)
(*                                                                         *)
(* The completions are right because the FST has one state per prefix and  *)
(* the vectors say what its queries are (TrieOK), because the recursion of *)
(* TopK finds the best queries below every state from the lists of its     *)
(* children (StackOK), and because whatever files a server could be        *)
(* constructed from belong to tries of one size, and to the same trie if   *)
(* they come from the same log (Bfs).                                      *)
(***************************************************************************)
EXTENDS ResultFile, Mpc, SequenceTheorems, FiniteSetTheorems, NaturalsInduction, TLAPS

(* ResultFile *)

\* The results of one state are whole, and their makers have topk k and models
\* of n states.
Fit(makers, k, n) ==
  \A m \in makers : m \in Makers /\ m.config.topk = k /\ NumStates[m.model] = n

\* A file holds what its header says, and a result for every state.
FilesFit ==
  \A f \in file : \A s \in 1 .. Len(f.results) :
    f.results[s] # {} /\ Fit(f.results[s], f.topk, f.size)

\* So does an object, and without topArcs no state's result is missing; one
\* that precomputed never loads.
ObjectFits ==
  \A o \in object :
    /\ o.precompute => ~broken /\ ~topArcs
    /\ ~broken =>
         /\ Len(topResults) = NumStates[o.maker.model]
         /\ \A s \in 1 .. Len(topResults) :
              /\ Fit(topResults[s], o.maker.config.topk, NumStates[o.maker.model])
              /\ ~topArcs => topResults[s] # {}

\* There is one object at a time.
OneObject == \A o1, o2 \in object : o1 = o2

IndInv == TypeOK /\ OneObject /\ OnlyBrokenThrows /\ FilesFit /\ ObjectFits

LEMMA ResultFileInitInv == ResultFileInit => IndInv
<1> SUFFICES ASSUME ResultFileInit PROVE IndInv
  OBVIOUS
<1>1. TypeOK
  <2>1. <<>> \in Seq(Results)
    OBVIOUS
  <2> QED
    BY <2>1 DEF ResultFileInit, TypeOK
<1>2. (OneObject /\ OnlyBrokenThrows)
  BY DEF ResultFileInit, OneObject, OnlyBrokenThrows
<1>3. FilesFit /\ ObjectFits
  BY DEF ResultFileInit, FilesFit, ObjectFits
<1> QED
  BY <1>1, <1>2, <1>3 DEF IndInv

LEMMA AllType ==
  ASSUME NEW n \in Nat, NEW S, NEW r \in S
  PROVE  All(n, r) \in Seq(S) /\ Len(All(n, r)) = n /\ \A s \in 1 .. n : All(n, r)[s] = r
  BY DEF All

LEMMA QueryBlazerInv ==
  ASSUME IndInv, NEW m \in Makers, NEW precompute \in BOOLEAN, QueryBlazer(m, precompute)
  PROVE  IndInv'
<1> DEFINE r == IF precompute THEN {m} ELSE {}
<1>1. NumStates[m.model] \in Nat /\ r \in Results
  BY ResultFileAssumption DEF Makers, Results
<1>2. /\ topResults' \in Seq(Results) /\ Len(topResults') = NumStates[m.model]
      /\ \A s \in 1 .. Len(topResults') : topResults'[s] = r
  <2>1. topResults' = All(NumStates[m.model], r)
    BY DEF QueryBlazer
  <2> DEFINE n == NumStates[m.model]
  <2>2. n \in Nat /\ r \in Results
    BY <1>1
  <2>3. topResults' = All(n, r)
    BY <2>1
  <2> HIDE DEF n, r
  <2>4. /\ All(n, r) \in Seq(Results) /\ Len(All(n, r)) = n
        /\ \A s \in 1 .. n : All(n, r)[s] = r
    BY <2>2, AllType
  <2>5. topResults' \in Seq(Results) /\ Len(topResults') = n
    BY <2>3, <2>4
  <2>6. \A s \in 1 .. Len(topResults') : topResults'[s] = r
    BY <2>3, <2>4
  <2> QED
    BY <2>5, <2>6 DEF n
<1>0. /\ \A o \in object' : /\ o.maker = m /\ o.precompute = precompute
                             /\ o \in [maker : Makers, precompute : BOOLEAN]
      /\ topArcs' = ~precompute /\ broken' = FALSE /\ outcome' = "ok" /\ file' = file
  BY DEF QueryBlazer
<1>3. TypeOK'
  <2>1. \A o \in object' : o \in [maker : Makers, precompute : BOOLEAN]
                            /\ Len(topResults') <= NumStates[o.maker.model]
    BY <1>0, <1>1, <1>2
  <2>2. topArcs' \in BOOLEAN /\ broken' \in BOOLEAN /\ outcome' \in {"ok", "false", "failed", "threw"}
    BY <1>0
  <2>3. \A f \in file' : f.results \in Seq(Results) /\ f.size = Len(f.results)
    BY <1>0 DEF IndInv, TypeOK
  <2> QED
    BY <1>2, <2>1, <2>2, <2>3 DEF TypeOK
<1>4. (OneObject /\ OnlyBrokenThrows /\ FilesFit)'
  BY DEF IndInv, OneObject, OnlyBrokenThrows, FilesFit, QueryBlazer
<1>5. ObjectFits'
  BY <1>0, <1>1, <1>2 DEF ObjectFits, Fit
<1> QED
  BY <1>3, <1>4, <1>5 DEF IndInv

LEMMA ProcessExitInv == ASSUME IndInv, ProcessExit PROVE IndInv'
<1>1. TypeOK'
  <2>1. <<>> \in Seq(Results)
    OBVIOUS
  <2> QED
    BY <2>1 DEF IndInv, TypeOK, ProcessExit
<1>2. (OneObject /\ OnlyBrokenThrows /\ FilesFit /\ ObjectFits)'
  BY DEF IndInv, OneObject, OnlyBrokenThrows, FilesFit, ObjectFits, ProcessExit
<1> QED
  BY <1>1, <1>2 DEF IndInv

LEMMA SaveElsewhereInv ==
  ASSUME IndInv, NEW m \in Makers, NEW short \in BOOLEAN, SaveElsewhere(m, short)
  PROVE  IndInv'
<1> DEFINE n == NumStates[m.model]
<1>1. n \in Nat /\ {m} \in Results
  BY ResultFileAssumption DEF Makers, Results
<1>2. /\ All(n, {m}) \in Seq(Results) /\ Len(All(n, {m})) = n
      /\ \A s \in 1 .. n : All(n, {m})[s] = {m}
  BY <1>1, AllType
<1>3. TypeOK'
  BY <1>2 DEF IndInv, TypeOK, SaveElsewhere, Saved
<1>4. FilesFit'
  <2>1. \A f \in file' : f.results = All(n, {m}) /\ f.topk = m.config.topk /\ f.size = n
    BY <1>2 DEF SaveElsewhere, Saved
  <2> QED
    BY <1>2, <2>1 DEF FilesFit, Fit
<1>5. (OneObject /\ OnlyBrokenThrows /\ ObjectFits)'
  BY DEF IndInv, OneObject, OnlyBrokenThrows, ObjectFits, SaveElsewhere
<1> QED
  BY <1>3, <1>4, <1>5 DEF IndInv

LEMMA SavePrecomputedInv ==
  ASSUME IndInv, NEW o \in object, NEW short \in BOOLEAN, SavePrecomputed(o, short)
  PROVE  IndInv'
<1>1. TypeOK'
  BY DEF IndInv, TypeOK, SavePrecomputed, Saved
<1>2. FilesFit'
  <2>1. ~broken /\ ~topArcs
    BY DEF IndInv, ObjectFits, SavePrecomputed
  <2>2. /\ Len(topResults) = NumStates[o.maker.model]
        /\ \A s \in 1 .. Len(topResults) :
             Fit(topResults[s], o.maker.config.topk, Len(topResults)) /\ topResults[s] # {}
    BY <2>1 DEF IndInv, ObjectFits
  <2> QED
    BY <2>2 DEF FilesFit, SavePrecomputed, Saved
<1>3. (OneObject /\ OnlyBrokenThrows /\ ObjectFits)'
  BY DEF IndInv, OneObject, OnlyBrokenThrows, ObjectFits, SavePrecomputed
<1> QED
  BY <1>1, <1>2, <1>3 DEF IndInv

LEMMA LoadInv ==
  ASSUME IndInv, NEW o \in object, NEW f \in file, Load(o, f)
  PROVE  IndInv'
<1>1. f.results \in Seq(Results) /\ f.size = Len(f.results)
  BY DEF IndInv, TypeOK
<1>2. /\ Len(topResults') = NumStates[o.maker.model]
      /\ \A s \in 1 .. Len(topResults') :
           /\ topResults'[s] # {}
           /\ Fit(topResults'[s], o.maker.config.topk, NumStates[o.maker.model])
  BY <1>1 DEF IndInv, FilesFit, Load, MatchesFile
<1>3. \A x \in object : x = o
  BY DEF IndInv, OneObject
<1>4. ObjectFits'
  BY <1>2, <1>3 DEF ObjectFits, Load
<1>5. TypeOK'
  BY <1>1, <1>3 DEF IndInv, TypeOK, Load, MatchesFile
<1>6. (OneObject /\ OnlyBrokenThrows /\ FilesFit)'
  BY DEF IndInv, OneObject, OnlyBrokenThrows, FilesFit, Load
<1> QED
  BY <1>4, <1>5, <1>6 DEF IndInv

LEMMA LoadThrewInv ==
  ASSUME IndInv, NEW o \in object, NEW f \in file, LoadMismatch(o, f) \/ LoadShort(o, f)
  PROVE  IndInv'
<1>1. f.results \in Seq(Results) /\ f.size = Len(f.results)
  BY DEF IndInv, TypeOK
<1>2. \A x \in object : x = o
  BY DEF IndInv, OneObject
<1>3. topResults' \in Seq(Results) /\ Len(topResults') <= Len(topResults)
  <2>1. CASE LoadMismatch(o, f)
    <3>1. topResults' = f.results /\ f.size = Len(topResults)
      BY <2>1 DEF LoadMismatch, MatchesFile
    <3>2. Len(f.results) \in Nat
      BY <1>1
    <3> QED
      BY <1>1, <3>1, <3>2
  <2>3. ASSUME f.size = Len(topResults), NEW n \in 0 .. Len(f.results) - 1,
               topResults' = SubSeq(f.results, 1, n)
        PROVE  topResults' \in Seq(Results) /\ Len(topResults') <= Len(topResults)
    <3>1. Len(f.results) \in Nat /\ DOMAIN f.results = 1 .. Len(f.results) /\ n \in Nat
      BY <1>1
    <3>2. Len(topResults') = n
      BY <2>3, <3>1
    <3>3. \A i \in 1 .. n : f.results[i] \in Results /\ topResults'[i] = f.results[i]
      BY <1>1, <2>3, <3>1
    <3> QED
      BY <1>1, <2>3, <3>1, <3>2, <3>3
  <2>2. ASSUME f.size = Len(topResults), NEW n \in 0 .. Len(f.results) - 1, NEW r \in {{}, {Torn}},
               topResults' = [s \in DOMAIN f.results |-> IF s <= n THEN f.results[s]
                                                       ELSE IF s = n + 1 THEN r ELSE {}]
        PROVE  topResults' \in Seq(Results) /\ Len(topResults') <= Len(topResults)
    <3>1. Len(f.results) \in Nat /\ DOMAIN f.results = 1 .. Len(f.results)
      BY <1>1
    <3>2. {} \in Results /\ r \in Results
      BY DEF Results
    <3>3. \A i \in 1 .. Len(f.results) : topResults'[i] \in Results
      BY <1>1, <2>2, <3>1, <3>2
    <3>4. topResults' \in [1 .. Len(f.results) -> Results]
      BY <2>2, <3>1, <3>3
    <3>5. topResults' \in Seq(Results) /\ Len(topResults') = Len(f.results)
      BY <3>1, <3>4
    <3> QED
      BY <1>1, <2>2, <3>1, <3>5
  <2>4. CASE LoadShort(o, f)
    <3>1. PICK n \in 0 .. Len(f.results) - 1 : topResults' \in Restored(f.results, n)
      BY <2>4 DEF LoadShort
    <3> QED
      BY <2>2, <2>3, <2>4, <3>1 DEF LoadShort, MatchesFile, Restored
  <2> QED
    BY <2>1, <2>4
<1>4. TypeOK'
  <2>1. /\ o \in [maker : Makers, precompute : BOOLEAN]
        /\ Len(topResults) <= NumStates[o.maker.model]
    BY DEF IndInv, TypeOK
  <2>2. NumStates[o.maker.model] \in Nat
    BY <2>1, ResultFileAssumption DEF Makers
  <2>3. Len(topResults) \in Nat /\ Len(topResults') \in Nat
    BY <1>3 DEF IndInv, TypeOK
  <2>4. Len(topResults') <= NumStates[o.maker.model]
    BY <1>3, <2>1, <2>2, <2>3
  <2> QED
    BY <1>2, <1>3, <2>1, <2>4 DEF IndInv, TypeOK, LoadMismatch, LoadShort
<1>5. ObjectFits'
  BY <1>2 DEF ObjectFits, LoadMismatch, LoadShort
<1>6. (OneObject /\ OnlyBrokenThrows /\ FilesFit)'
  BY DEF IndInv, OneObject, OnlyBrokenThrows, FilesFit, LoadMismatch, LoadShort
<1> QED
  BY <1>4, <1>5, <1>6 DEF IndInv

LEMMA UnchangedInv ==
  ASSUME IndInv, outcome' \in {"ok", "false", "failed"},
         UNCHANGED <<object, starts, topResults, topArcs, broken, file>>
  PROVE  IndInv'
<1>1. TypeOK'
  BY DEF IndInv, TypeOK
<1> QED
  BY <1>1 DEF IndInv, OneObject, OnlyBrokenThrows, FilesFit, ObjectFits

LEMMA SearchInv ==
  ASSUME IndInv, NEW o \in object, NEW s, Search(o, s)
  PROVE  IndInv'
<1>1. \A x \in object : x = o
  BY DEF IndInv, OneObject
<1>2. o \in [maker : Makers, precompute : BOOLEAN] /\ topResults \in Seq(Results)
  BY DEF IndInv, TypeOK
<1>0. o.maker \in Makers /\ {o.maker} \in Results
  BY <1>2 DEF Results
<1>3. /\ topResults' \in Seq(Results) /\ Len(topResults') = Len(topResults)
      /\ \A t \in 1 .. Len(topResults) :
           topResults'[t] = IF t = s THEN {o.maker} ELSE topResults[t]
  BY <1>0, <1>2 DEF Search
<1>4. TypeOK'
  BY <1>3 DEF IndInv, TypeOK, Search
<1>5. ObjectFits'
  BY <1>0, <1>1, <1>3 DEF IndInv, ObjectFits, Fit, Search
<1>6. (OneObject /\ OnlyBrokenThrows /\ FilesFit)'
  BY DEF IndInv, OneObject, OnlyBrokenThrows, FilesFit, Search
<1> QED
  BY <1>4, <1>5, <1>6 DEF IndInv

LEMMA ThrowInv ==
  ASSUME IndInv, NEW o \in object, NEW s \in 1 .. NumStates[o.maker.model], Throw(s)
  PROVE  IndInv'
<1>1. broken
  <2>1. topResults \in Seq(Results)
    BY DEF IndInv, TypeOK
  <2>2. SUFFICES ASSUME ~broken PROVE FALSE
    BY DEF IndInv, TypeOK
  <2>3. s \in DOMAIN topResults
    BY <2>1, <2>2 DEF IndInv, ObjectFits
  <2>4. topResults[s] = {} /\ ~topArcs
    BY <2>3 DEF Throw, NeedsSearch
  <2> QED
    BY <2>1, <2>2, <2>3, <2>4 DEF IndInv, ObjectFits
<1> QED
  BY <1>1 DEF IndInv, TypeOK, OneObject, OnlyBrokenThrows, FilesFit, ObjectFits, Throw

LEMMA ResultFileStepInv == IndInv /\ [ResultFileNext]_resultFileVars => IndInv'
<1> SUFFICES ASSUME IndInv, [ResultFileNext]_resultFileVars PROVE IndInv'
  OBVIOUS
<1>1. CASE UNCHANGED resultFileVars
  BY <1>1 DEF IndInv, TypeOK, OneObject, OnlyBrokenThrows, FilesFit, ObjectFits, resultFileVars
<1>2. ASSUME NEW m \in Makers, NEW precompute \in BOOLEAN, QueryBlazer(m, precompute) PROVE IndInv'
  BY <1>2, QueryBlazerInv
<1>3. CASE ProcessExit
  BY <1>3, ProcessExitInv
<1>4. ASSUME NEW m \in Makers, NEW short \in BOOLEAN, SaveElsewhere(m, short) PROVE IndInv'
  BY <1>4, SaveElsewhereInv
<1>5. ASSUME NEW o \in object, NEW short \in BOOLEAN, SavePrecomputed(o, short) PROVE IndInv'
  BY <1>5, SavePrecomputedInv
<1>6. ASSUME NEW o \in object, NEW f \in file,
             \/ Refuse(o, f) \/ Load(o, f)
             \/ LoadMismatch(o, f) \/ LoadNoHeader(o, f) \/ LoadShort(o, f)
      PROVE  IndInv'
  BY <1>6, UnchangedInv, LoadInv, LoadThrewInv DEF Refuse, LoadNoHeader
<1>7. ASSUME NEW o \in object,
             SaveRefused(o) \/ SaveUnopened(o) \/ LoadRefused(o) \/ LoadUnopened(o)
      PROVE  IndInv'
  BY <1>7, UnchangedInv DEF SaveRefused, SaveUnopened, LoadRefused, LoadUnopened
<1>8. ASSUME NEW o \in object, NEW s \in 1 .. NumStates[o.maker.model],
             Reuse(s) \/ Search(o, s) \/ Throw(s)
      PROVE  IndInv'
  BY <1>8, UnchangedInv, SearchInv, ThrowInv DEF Reuse
<1> QED
  BY <1>1, <1>2, <1>3, <1>4, <1>5, <1>6, <1>7, <1>8 DEF ResultFileNext

(* The type invariant, in every reachable state.                            *)
THEOREM TypeCorrect == ResultFileSpec => []TypeOK
<1>1. IndInv => TypeOK
  BY DEF IndInv
<1> QED
  BY <1>1, ResultFileInitInv, ResultFileStepInv, PTL DEF ResultFileSpec

(* No call of GetTopResult throws unless a load broke the object and no     *)
(* later one repaired it.                                                   *)
THEOREM ThrowsExplained == ResultFileSpec => []OnlyBrokenThrows
<1>1. IndInv => OnlyBrokenThrows
  BY DEF IndInv
<1> QED
  BY <1>1, ResultFileInitInv, ResultFileStepInv, PTL DEF ResultFileSpec

(* What SavePrecomputed stores and LoadPrecomputed compares is enough for   *)
(* an object to hold only results with its topk and number of states.       *)
THEOREM LoadedFits == ResultFileSpec => []ResultsFit
<1>1. IndInv => ResultsFit
  BY DEF IndInv, TypeOK, ObjectFits, Fit, ResultsFit
<1> QED
  BY <1>1, ResultFileInitInv, ResultFileStepInv, PTL DEF ResultFileSpec
-----------------------------------------------------------------------------
(* Mpc *)

(* A nonempty set of numbers has a least one. *)
LEMMA Least ==
  ASSUME NEW S \in SUBSET Nat, S # {}
  PROVE  \E n \in S : \A m \in S : n <= m
<1> DEFINE Less == OpToRel(<, Nat)
<1>1. PICK n \in S : \A m \in S : <<m, n>> \notin Less
  <2>1. IsWellFoundedOn(Less, Nat)
    BY NatLessThanWellFounded
  <2> HIDE DEF Less
  <2> QED
    BY <2>1, WFMin
<1>2. \A m \in S : ~(m < n)
  BY <1>1 DEF OpToRel
<1> QED
  BY <1>2

(* A set of numbers that has 0, and the next of each, has all of them. *)
LEMMA SetInduction ==
  ASSUME NEW S, 0 \in S, \A n \in Nat : n \in S => n + 1 \in S
  PROVE  Nat \subseteq S
<1> SUFFICES ASSUME Nat \ S # {} PROVE FALSE
  OBVIOUS
<1>1. PICK n \in Nat \ S : \A m \in Nat \ S : n <= m
  BY Least
<1>2. n # 0 /\ n - 1 \in Nat
  OBVIOUS
<1>3. n - 1 \in S
  BY <1>1, <1>2
<1> QED
  BY <1>2, <1>3
-----------------------------------------------------------------------------
(* Words and their prefixes *)

Word == Seq(ToSet(Chars))

(* A prefix agrees with the word at its own positions. *)
LEMMA PrefixPointwise ==
  ASSUME NEW p \in Word, NEW q \in Word
  PROVE  IsPrefix(p, q) <=> Len(p) <= Len(q) /\ \A i \in 1 .. Len(p) : p[i] = q[i]
<1>1. Len(p) \in Nat /\ Len(q) \in Nat
  BY DEF Word
<1>2. SubSeq(p, 1, Len(p)) = p
  BY DEF Word
<1> SUFFICES ASSUME Len(p) <= Len(q)
             PROVE  p = SubSeq(q, 1, Len(p)) <=> \A i \in 1 .. Len(p) : p[i] = q[i]
  BY <1>2 DEF IsPrefix
<1> DEFINE r == SubSeq(q, 1, Len(p))
<1>3. r \in Word /\ Len(r) = Len(p) /\ \A i \in 1 .. Len(p) : r[i] = q[i]
  BY <1>1 DEF Word
<1> HIDE DEF r
<1>4. (\A i \in 1 .. Len(p) : p[i] = r[i]) => p = r
  BY <1>1, <1>3, SeqEqual DEF Word
<1>5. p = r <=> \A i \in 1 .. Len(p) : p[i] = q[i]
  BY <1>3, <1>4
<1> QED
  BY <1>5 DEF r

(* Prefixes are ordered, and a word has one of each length. *)
LEMMA PrefixOrder ==
  /\ \A p \in Word : IsPrefix(p, p) /\ IsPrefix(Root, p) /\ Root \in Word
  /\ \A p, q, r \in Word : IsPrefix(p, q) /\ IsPrefix(q, r) => IsPrefix(p, r)
  /\ \A p, q, r \in Word : IsPrefix(p, r) /\ IsPrefix(q, r) /\ Len(p) = Len(q) => p = q
<1>1. Root \in Word /\ Len(Root) = 0
  BY DEF Word, Root
<1>2. ASSUME NEW p \in Word PROVE IsPrefix(p, p) /\ IsPrefix(Root, p)
  <2>1. Len(p) \in Nat
    BY DEF Word
  <2>2. IsPrefix(p, p)
    BY <2>1, PrefixPointwise
  <2>3. Len(Root) <= Len(p) /\ \A i \in 1 .. Len(Root) : Root[i] = p[i]
    BY <1>1, <2>1
  <2> QED
    BY <1>1, <2>2, <2>3, PrefixPointwise
<1>3. ASSUME NEW p \in Word, NEW q \in Word, NEW r \in Word, IsPrefix(p, q), IsPrefix(q, r)
      PROVE  IsPrefix(p, r)
  <2>1. Len(p) \in Nat /\ Len(q) \in Nat /\ Len(r) \in Nat
    BY DEF Word
  <2>2. Len(p) <= Len(q) /\ \A i \in 1 .. Len(p) : p[i] = q[i]
    BY <1>3, PrefixPointwise
  <2>3. Len(q) <= Len(r) /\ \A i \in 1 .. Len(q) : q[i] = r[i]
    BY <1>3, PrefixPointwise
  <2> QED
    BY <2>1, <2>2, <2>3, PrefixPointwise
<1>4. ASSUME NEW p \in Word, NEW q \in Word, NEW r \in Word,
             IsPrefix(p, r), IsPrefix(q, r), Len(p) = Len(q)
      PROVE  p = q
  <2>1. Len(p) \in Nat /\ Len(q) \in Nat
    BY DEF Word
  <2>2. \A i \in 1 .. Len(p) : p[i] = r[i] /\ q[i] = r[i]
    BY <1>4, PrefixPointwise
  <2> QED
    BY <1>4, <2>1, <2>2, SeqEqual DEF Word
<1> QED
  BY <1>1, <1>2, <1>3, <1>4

(* The first n characters of a word are a prefix of it. *)
LEMMA CutFacts ==
  ASSUME NEW q \in Word, NEW n \in 0 .. Len(q)
  PROVE  /\ SubSeq(q, 1, n) \in Word /\ Len(SubSeq(q, 1, n)) = n
         /\ \A i \in 1 .. n : SubSeq(q, 1, n)[i] = q[i]
         /\ IsPrefix(SubSeq(q, 1, n), q)
<1>1. /\ SubSeq(q, 1, n) \in Word /\ Len(SubSeq(q, 1, n)) = n
      /\ \A i \in 1 .. n : SubSeq(q, 1, n)[i] = q[i]
  BY DEF Word
<1>2. n <= Len(q)
  BY DEF Word
<1> QED
  BY <1>1, <1>2, PrefixPointwise

\* Kept folded, as the provers read Append of bound variables badly.
Longer(p, c) == Append(p, c)

(* A word with one more character. *)
LEMMA LongerFacts ==
  ASSUME NEW p \in Word, NEW c \in ToSet(Chars)
  PROVE  /\ Longer(p, c) \in Word /\ Longer(p, c) # Root
         /\ Len(Longer(p, c)) = Len(p) + 1 /\ Len(p) \in Nat
         /\ Front(Longer(p, c)) = p
         /\ Longer(p, c)[Len(p) + 1] = c
         /\ IsPrefix(p, Longer(p, c))
<1>1. /\ Longer(p, c) \in Word /\ Longer(p, c) # Root
      /\ Len(Longer(p, c)) = Len(p) + 1 /\ Len(p) \in Nat
      /\ Longer(p, c)[Len(p) + 1] = c
      /\ \A i \in 1 .. Len(p) : Longer(p, c)[i] = p[i]
  BY DEF Word, Longer, Root
<1>2. IsPrefix(p, Longer(p, c))
  BY <1>1, PrefixPointwise
<1>3. Front(Longer(p, c)) = p
  <2> DEFINE q == Longer(p, c)
             r == SubSeq(q, 1, Len(p))
  <2>1. r \in Word /\ Len(r) = Len(p) /\ \A i \in 1 .. Len(p) : r[i] = q[i]
    BY <1>1, CutFacts
  <2>2. Front(q) = r
    BY <1>1 DEF Front
  <2> HIDE DEF r, q
  <2>3. \A i \in 1 .. Len(p) : q[i] = p[i]
    BY <1>1 DEF q
  <2>4. r = p
    BY <1>1, <2>1, <2>3, SeqEqual DEF Word
  <2> QED
    BY <2>2, <2>4 DEF q
<1> QED
  BY <1>1, <1>2, <1>3

(* A word that is not empty is longer than its front by its last character. *)
LEMMA FrontFacts ==
  ASSUME NEW q \in Word, q # Root
  PROVE  /\ Front(q) \in Word /\ Len(q) \in Nat \ {0} /\ Len(Front(q)) = Len(q) - 1
         /\ q[Len(q)] \in ToSet(Chars)
         /\ q = Longer(Front(q), q[Len(q)])
         /\ IsPrefix(Front(q), q)
<1>1. Len(q) \in Nat \ {0} /\ q[Len(q)] \in ToSet(Chars)
  BY DEF Word, Root
<1> DEFINE f == SubSeq(q, 1, Len(q) - 1)
<1>2. /\ f \in Word /\ Len(f) = Len(q) - 1 /\ IsPrefix(f, q)
      /\ \A i \in 1 .. Len(q) - 1 : f[i] = q[i]
  <2>1. Len(q) - 1 \in 0 .. Len(q)
    BY <1>1
  <2> QED
    BY <2>1, CutFacts
<1>3. Front(q) = f
  BY DEF Front
<1> HIDE DEF f
<1> DEFINE r == Longer(f, q[Len(q)])
<1>4. r \in Word /\ Len(r) = Len(q) /\ \A i \in 1 .. Len(q) : r[i] = q[i]
  BY <1>1, <1>2 DEF Word, Longer
<1> HIDE DEF r
<1>5. r = q
  BY <1>1, <1>4, SeqEqual DEF Word
<1> QED
  BY <1>1, <1>2, <1>3, <1>5 DEF r

(* The next character of a longer word makes a longer prefix. *)
LEMMA PrefixNext ==
  ASSUME NEW p \in Word, NEW q \in Word, IsPrefix(p, q), p # q
  PROVE  /\ q[Len(p) + 1] \in ToSet(Chars)
         /\ IsPrefix(Longer(p, q[Len(p) + 1]), q)
<1>1. Len(p) \in Nat /\ Len(q) \in Nat
  BY DEF Word
<1>2. Len(p) <= Len(q) /\ \A i \in 1 .. Len(p) : p[i] = q[i]
  BY PrefixPointwise
<1>3. Len(p) # Len(q)
  BY <1>2, <1>1, SeqEqual DEF Word
<1>4. Len(p) + 1 \in 1 .. Len(q)
  BY <1>1, <1>2, <1>3
<1>5. q[Len(p) + 1] \in ToSet(Chars)
  BY <1>4 DEF Word
<1> DEFINE r == Longer(p, q[Len(p) + 1])
<1>6. r \in Word /\ Len(r) = Len(p) + 1 /\ r[Len(p) + 1] = q[Len(p) + 1]
  BY <1>5, LongerFacts
<1>7. \A i \in 1 .. Len(p) : r[i] = p[i]
  BY <1>5 DEF Longer, Word
<1> HIDE DEF r
<1>8. \A i \in 1 .. Len(p) + 1 : r[i] = q[i]
  BY <1>1, <1>2, <1>6, <1>7
<1>9. IsPrefix(r, q)
  BY <1>1, <1>4, <1>6, <1>8, PrefixPointwise
<1> QED
  BY <1>5, <1>9 DEF r

(* The trie has all prefixes of what it has. *)
LEMMA InTriePrefix ==
  ASSUME NEW lines \in Seq(Word), NEW p \in Word, NEW q \in Word, IsPrefix(p, q), InTrie(q, lines)
  PROVE  InTrie(p, lines)
<1>1. PICK i \in DOMAIN lines : IsPrefix(q, lines[i])
  BY DEF InTrie
<1>2. lines[i] \in Word
  OBVIOUS
<1> QED
  BY <1>1, <1>2, PrefixOrder DEF InTrie
-----------------------------------------------------------------------------
(* Choosing from a sequence *)

IsChosen(seq, T, N, f) ==
  f = [n \in 0 .. N |-> IF n = 0 THEN <<>>
                        ELSE IF seq[n] \in T THEN Append(f[n - 1], seq[n])
                        ELSE f[n - 1]]

\* One more element has been looked at.
Look(x, T, s) == IF x \in T THEN Append(s, x) ELSE s
IsLooked(seq, T, N, f) ==
  f = [n \in 0 .. N |-> IF n = 0 THEN <<>> ELSE Look(seq[n], T, f[n - 1])]

(* Chosen looks at the elements one after the other. *)
LEMMA LookedIsChosen ==
  ASSUME NEW seq, NEW T, NEW N, NEW f
  PROVE  IsChosen(seq, T, N, f) <=> IsLooked(seq, T, N, f)
BY DEF IsChosen, IsLooked, Look

(* There is a function that does. *)
LEMMA ChosenExists ==
  ASSUME NEW seq, NEW T
  PROVE  \A N \in Nat : \E f : IsChosen(seq, T, N, f)
<1> DEFINE S == {N \in Nat : \E f : IsChosen(seq, T, N, f)}
<1>1. 0 \in S
  <2>1. IsLooked(seq, T, 0, [n \in 0 .. 0 |-> <<>>])
    BY DEF IsLooked
  <2> QED
    BY <2>1, LookedIsChosen
<1>2. ASSUME NEW N \in Nat, N \in S PROVE N + 1 \in S
  <2>1. PICK f : IsLooked(seq, T, N, f)
    BY <1>2, LookedIsChosen
  <2> DEFINE new == [n \in 0 .. N + 1 |->
                       IF n = N + 1 THEN Look(seq[N + 1], T, f[N]) ELSE f[n]]
  <2>2. IsLooked(seq, T, N + 1, new)
    BY <2>1 DEF IsLooked
  <2>3. N + 1 \in Nat
    OBVIOUS
  <2> HIDE DEF new
  <2> QED
    BY <2>2, <2>3, LookedIsChosen
<1>3. Nat \subseteq S
  <2> HIDE DEF S
  <2> QED
    BY <1>1, <1>2, SetInduction
<1> QED
  BY <1>3

\* s has the members of T among the first n of seq, each once.
ChosenUpTo(C, seq, T, n, s) ==
  /\ s \in Seq(C)
  /\ \A j \in 1 .. Len(s) : s[j] \in T /\ \E i \in 1 .. n : s[j] = seq[i]
  /\ \A i \in 1 .. n : seq[i] \in T => \E j \in 1 .. Len(s) : s[j] = seq[i]
  /\ \A j, k \in 1 .. Len(s) : s[j] = s[k] => j = k

(* Chosen takes exactly the members of T, each once if each is there once. *)
LEMMA ChosenFacts ==
  ASSUME NEW C, NEW seq \in Seq(C), NEW T,
         \A i, j \in 1 .. Len(seq) : seq[i] = seq[j] => i = j
  PROVE  ChosenUpTo(C, seq, T, Len(seq), Chosen(seq, T))
<1> DEFINE N == Len(seq)
           f == CHOOSE g : IsChosen(seq, T, N, g)
<1>0. N \in Nat
  OBVIOUS
<1>1. Chosen(seq, T) = f[N]
  BY DEF Chosen, IsChosen
<1>2. IsChosen(seq, T, N, f)
  <2>1. \E g : IsChosen(seq, T, N, g)
    BY <1>0, ChosenExists
  <2> HIDE DEF N
  <2> QED
    BY <2>1, Zenon
<1> HIDE DEF f
<1>3. /\ f[0] = <<>>
      /\ \A n \in Nat : n + 1 <= N => f[n + 1] = Look(seq[n + 1], T, f[n])
  <2>1. IsLooked(seq, T, N, f)
    BY <1>2, LookedIsChosen
  <2> HIDE DEF N
  <2>2. f[0] = <<>>
    BY <1>0, <2>1 DEF IsLooked
  <2>3. \A n \in Nat : n + 1 <= N => f[n + 1] = Look(seq[n + 1], T, f[n])
    BY <1>0, <2>1 DEF IsLooked
  <2> QED
    BY <2>2, <2>3
<1> DEFINE S == {n \in Nat : n <= N => ChosenUpTo(C, seq, T, n, f[n])}
<1>4. 0 \in S
  <2>1. ChosenUpTo(C, seq, T, 0, <<>>)
    BY DEF ChosenUpTo
  <2> QED
    BY <1>3, <2>1
<1>5. ASSUME NEW n \in Nat, n \in S PROVE n + 1 \in S
  <2> SUFFICES ASSUME n + 1 <= N PROVE ChosenUpTo(C, seq, T, n + 1, f[n + 1])
    OBVIOUS
  <2> DEFINE s == f[n]
             x == seq[n + 1]
  <2>1. ChosenUpTo(C, seq, T, n, s)
    BY <1>0, <1>5
  <2>2. n + 1 \in 1 .. Len(seq) /\ x \in C
    OBVIOUS
  <2>3. f[n + 1] = IF x \in T THEN Append(s, x) ELSE s
    BY <1>3 DEF Look
  <2>4. \A i \in 1 .. n : seq[i] # x
    BY <2>2
  <2> HIDE DEF s, x
  <2>5. CASE x \notin T
    <3>1. f[n + 1] = s
      BY <2>3, <2>5
    <3>2. \A i \in 1 .. n + 1 : i \in 1 .. n \/ i = n + 1
      OBVIOUS
    <3>3. \A i \in 1 .. n : i \in 1 .. n + 1
      OBVIOUS
    <3> QED
      BY <2>1, <2>5, <3>1, <3>2, <3>3 DEF ChosenUpTo, x
  <2>6. CASE x \in T
    <3> DEFINE r == Append(s, x)
    <3>1. s \in Seq(C) /\ Len(s) \in Nat
      BY <2>1 DEF ChosenUpTo
    <3>2. /\ r \in Seq(C) /\ Len(r) = Len(s) + 1 /\ r[Len(s) + 1] = x
          /\ \A j \in 1 .. Len(s) : r[j] = s[j]
      BY <2>2, <3>1
    <3> HIDE DEF r
    <3>3. \A j \in 1 .. Len(r) : j \in 1 .. Len(s) \/ j = Len(s) + 1
      BY <3>1, <3>2
    <3>4. \A j \in 1 .. Len(s) : j \in 1 .. Len(r)
      BY <3>1, <3>2
    <3>5. Len(s) + 1 \in 1 .. Len(r) /\ n + 1 \in 1 .. n + 1 /\ \A i \in 1 .. n : i \in 1 .. n + 1
      BY <3>1, <3>2
    <3>6. \A j \in 1 .. Len(r) : r[j] \in T /\ \E i \in 1 .. n + 1 : r[j] = seq[i]
      <4>1. \A j \in 1 .. Len(s) : s[j] \in T /\ \E i \in 1 .. n : s[j] = seq[i]
        BY <2>1 DEF ChosenUpTo
      <4> QED
        BY <4>1, <2>6, <3>2, <3>3, <3>5 DEF x
    <3>7. \A i \in 1 .. n + 1 : seq[i] \in T => \E j \in 1 .. Len(r) : r[j] = seq[i]
      <4>1. \A i \in 1 .. n : seq[i] \in T => \E j \in 1 .. Len(s) : s[j] = seq[i]
        BY <2>1 DEF ChosenUpTo
      <4>2. \A i \in 1 .. n + 1 : i \in 1 .. n \/ i = n + 1
        OBVIOUS
      <4> QED
        BY <4>1, <4>2, <3>2, <3>4, <3>5 DEF x
    <3>8. \A j, k \in 1 .. Len(r) : r[j] = r[k] => j = k
      <4>1. \A j, k \in 1 .. Len(s) : s[j] = s[k] => j = k
        BY <2>1 DEF ChosenUpTo
      <4>2. \A j \in 1 .. Len(s) : s[j] # x
        <5> HIDE DEF x
        <5>1. \A j \in 1 .. Len(s) : \E i \in 1 .. n : s[j] = seq[i]
          BY <2>1 DEF ChosenUpTo
        <5> QED
          BY <2>4, <5>1
      <4> QED
        BY <4>1, <4>2, <3>2, <3>3
    <3>9. f[n + 1] = r
      BY <2>3, <2>6 DEF r
    <3> QED
      BY <3>2, <3>6, <3>7, <3>8, <3>9 DEF ChosenUpTo
  <2> QED
    BY <2>5, <2>6
<1>6. Nat \subseteq S
  <2> HIDE DEF S
  <2> QED
    BY <1>4, <1>5, SetInduction
<1>7. ChosenUpTo(C, seq, T, N, f[N])
  BY <1>0, <1>6
<1> QED
  BY <1>1, <1>7
-----------------------------------------------------------------------------
(* Copying the trie *)

(* Frequency counts, and is positive for the queries of the log. *)
LEMMA FrequencyFacts ==
  ASSUME NEW lines \in Seq(Word), NEW q
  PROVE  /\ Frequency(q, lines) \in Nat
         /\ Frequency(q, lines) > 0 <=> q \in ToSet(lines)
<1> DEFINE S == {i \in DOMAIN lines : lines[i] = q}
<1>1. IsFiniteSet(DOMAIN lines)
  <2>1. DOMAIN lines = 1 .. Len(lines) /\ Len(lines) \in Int
    OBVIOUS
  <2>2. IsFiniteSet(1 .. Len(lines))
    BY <2>1, FS_Interval
  <2> QED
    BY <2>1, <2>2
<1>2. IsFiniteSet(S) /\ Cardinality(S) \in Nat
  <2>1. S \in SUBSET DOMAIN lines
    OBVIOUS
  <2> QED
    BY <1>1, <2>1, FS_Subset, FS_CardinalityType
<1>3. Cardinality(S) = 0 <=> S = {}
  BY <1>2, FS_EmptySet
<1>4. S # {} <=> q \in ToSet(lines)
  BY DEF ToSet
<1>5. Frequency(q, lines) = Cardinality(S)
  BY DEF Frequency
<1> QED
  BY <1>2, <1>3, <1>4, <1>5

(* The children of a node, each once. *)
LEMMA ChildrenFacts ==
  ASSUME NEW p \in Word, NEW lines
  PROVE  LET new == Children(p, lines) IN
         /\ new \in Seq(Word)
         /\ \A k \in 1 .. Len(new) :
              InTrie(new[k], lines) /\ \E c \in ToSet(Chars) : new[k] = Longer(p, c)
         /\ \A c \in ToSet(Chars) :
              InTrie(Longer(p, c), lines) => \E k \in 1 .. Len(new) : new[k] = Longer(p, c)
         /\ \A k, l \in 1 .. Len(new) : new[k] = new[l] => k = l
<1> DEFINE longer == [i \in 1 .. Len(Chars) |-> Longer(p, Chars[i])]
           T == {q \in ToSet(longer) : InTrie(q, lines)}
           new == Chosen(longer, T)
<1>1. Children(p, lines) = new
  BY DEF Children, Longer
<1>2. /\ Len(Chars) \in Nat /\ DOMAIN Chars = 1 .. Len(Chars)
      /\ \A i \in 1 .. Len(Chars) : Chars[i] \in ToSet(Chars)
      /\ \A c \in ToSet(Chars) : \E i \in 1 .. Len(Chars) : Chars[i] = c
      /\ \A i, j \in 1 .. Len(Chars) : Chars[i] = Chars[j] => i = j
  <2>1. Chars \in Seq(ToSet(Chars)) /\ IsInjective(Chars)
    BY MpcAssumption
  <2>2. Len(Chars) \in Nat /\ DOMAIN Chars = 1 .. Len(Chars)
    BY <2>1
  <2>3. \A i, j \in 1 .. Len(Chars) : Chars[i] = Chars[j] => i = j
    BY <2>1, <2>2 DEF IsInjective
  <2> QED
    BY <2>2, <2>3 DEF ToSet
<1>3. longer \in Seq(Word) /\ Len(longer) = Len(Chars) /\ DOMAIN longer = 1 .. Len(Chars)
  <2>1. \A i \in 1 .. Len(Chars) : Longer(p, Chars[i]) \in Word
    BY <1>2, LongerFacts
  <2> QED
    BY <1>2, <2>1
<1>4. \A i, j \in 1 .. Len(longer) : longer[i] = longer[j] => i = j
  <2> SUFFICES ASSUME NEW i \in 1 .. Len(Chars), NEW j \in 1 .. Len(Chars),
                      Longer(p, Chars[i]) = Longer(p, Chars[j])
               PROVE  i = j
    BY <1>3
  <2>1. Longer(p, Chars[i])[Len(p) + 1] = Chars[i] /\ Longer(p, Chars[j])[Len(p) + 1] = Chars[j]
    BY <1>2, LongerFacts
  <2> QED
    BY <1>2, <2>1
<1>5. \A i \in 1 .. Len(Chars) : longer[i] = Longer(p, Chars[i])
  OBVIOUS
<1>6. \A q : q \in T <=> InTrie(q, lines) /\ \E i \in 1 .. Len(Chars) : q = Longer(p, Chars[i])
  BY <1>3, <1>5 DEF ToSet
<1> HIDE DEF longer, T
<1>7. ChosenUpTo(Word, longer, T, Len(longer), new)
  BY <1>3, <1>4, ChosenFacts
<1> HIDE DEF new
<1>8. new \in Seq(Word) /\ \A k, l \in 1 .. Len(new) : new[k] = new[l] => k = l
  BY <1>7 DEF ChosenUpTo
<1>9. \A k \in 1 .. Len(new) :
        InTrie(new[k], lines) /\ \E c \in ToSet(Chars) : new[k] = Longer(p, c)
  BY <1>2, <1>6, <1>7 DEF ChosenUpTo
<1>10. \A c \in ToSet(Chars) :
         InTrie(Longer(p, c), lines) => \E k \in 1 .. Len(new) : new[k] = Longer(p, c)
  <2> SUFFICES ASSUME NEW c \in ToSet(Chars), InTrie(Longer(p, c), lines)
               PROVE  \E k \in 1 .. Len(new) : new[k] = Longer(p, c)
    OBVIOUS
  <2>1. PICK i \in 1 .. Len(Chars) : Chars[i] = c
    BY <1>2
  <2>2. longer[i] = Longer(p, c) /\ longer[i] \in T /\ i \in 1 .. Len(longer)
    BY <1>3, <1>5, <1>6, <2>1
  <2> QED
    BY <1>7, <2>2 DEF ChosenUpTo
<1> QED
  BY <1>1, <1>8, <1>9, <1>10

\* The first `done` states have been taken from the queue; nd: the prefix of each.
TrieOK(nd, done, lines) ==
  /\ lines \in Seq(Word)
  /\ nd \in Seq(Word) /\ Len(nd) \in Nat \ {0}
  /\ done \in 0 .. Len(nd)
  /\ nd[1] = Root
  /\ \A i, j \in 1 .. Len(nd) : nd[i] = nd[j] => i = j
  /\ \A j \in 1 .. Len(nd) :
       nd[j] # Root => /\ InTrie(nd[j], lines)
                       /\ \E i \in 1 .. done : nd[i] = Front(nd[j])
  /\ \A i \in 1 .. done, c \in ToSet(Chars) :
       InTrie(Longer(nd[i], c), lines) => \E j \in 1 .. Len(nd) : nd[j] = Longer(nd[i], c)

\* The next node is taken from the queue.
Take(nd, n, lines) == nd \o Children(nd[n], lines)

(* Taking a node appends its children. *)
LEMMA TakeFacts ==
  ASSUME NEW nd \in Seq(Word), NEW lines, NEW n \in 1 .. Len(nd)
  PROVE  /\ Take(nd, n, lines) \in Seq(Word)
         /\ Len(Children(nd[n], lines)) \in Nat
         /\ Len(Take(nd, n, lines)) = Len(nd) + Len(Children(nd[n], lines))
         /\ \A i \in 1 .. Len(nd) : Take(nd, n, lines)[i] = nd[i]
         /\ \A i \in 1 .. Len(Children(nd[n], lines)) :
              Take(nd, n, lines)[Len(nd) + i] = Children(nd[n], lines)[i]
<1> DEFINE new == Children(nd[n], lines)
<1>1. new \in Seq(Word)
  BY ChildrenFacts
<1> HIDE DEF new
<1>2. Len(nd) \in Nat /\ Len(new) \in Nat
  BY <1>1
<1>3. /\ nd \o new \in Seq(Word)
      /\ Len(nd \o new) = Len(nd) + Len(new)
      /\ \A i \in 1 .. Len(nd) + Len(new) :
           (nd \o new)[i] = IF i <= Len(nd) THEN nd[i] ELSE new[i - Len(nd)]
  BY <1>1, ConcatProperties
<1> DEFINE all == nd \o new
<1> HIDE DEF all
<1>4. /\ all \in Seq(Word) /\ Len(all) = Len(nd) + Len(new)
      /\ \A i \in 1 .. Len(nd) + Len(new) :
           all[i] = IF i <= Len(nd) THEN nd[i] ELSE new[i - Len(nd)]
  BY <1>3 DEF all
<1>5. \A i \in 1 .. Len(nd) : all[i] = nd[i]
  BY <1>2, <1>4
<1>6. \A i \in 1 .. Len(new) : all[Len(nd) + i] = new[i]
  BY <1>2, <1>4
<1> QED
  BY <1>2, <1>4, <1>5, <1>6 DEF all, Take, new

(* Taking a node keeps the trie right. *)
LEMMA TrieTake ==
  ASSUME NEW nd, NEW done, NEW lines, TrieOK(nd, done, lines), done < Len(nd)
  PROVE  TrieOK(Take(nd, done + 1, lines), done + 1, lines)
<1> DEFINE p == nd[done + 1]
           new == Children(p, lines)
           all == Take(nd, done + 1, lines)
           L == Len(nd)
           M == Len(new)
<1>1. /\ lines \in Seq(Word) /\ nd \in Seq(Word) /\ L \in Nat \ {0} /\ done \in 0 .. L
      /\ nd[1] = Root
  BY DEF TrieOK
<1>2. done \in Nat /\ done + 1 \in 1 .. L /\ p \in Word
  BY <1>1
<1>3. /\ all \in Seq(Word) /\ M \in Nat /\ Len(all) = L + M
      /\ \A i \in 1 .. L : all[i] = nd[i]
      /\ \A i \in 1 .. M : all[L + i] = new[i]
  <2> HIDE DEF p, new, all, L, M
  <2> DEFINE k == done + 1
  <2> HIDE DEF k
  <2>1. nd \in Seq(Word) /\ k \in 1 .. Len(nd)
    BY <1>1, <1>2 DEF L, k
  <2>2. /\ Take(nd, k, lines) \in Seq(Word)
        /\ Len(Children(nd[k], lines)) \in Nat
        /\ Len(Take(nd, k, lines)) = Len(nd) + Len(Children(nd[k], lines))
        /\ \A i \in 1 .. Len(nd) : Take(nd, k, lines)[i] = nd[i]
        /\ \A i \in 1 .. Len(Children(nd[k], lines)) :
             Take(nd, k, lines)[Len(nd) + i] = Children(nd[k], lines)[i]
    BY <2>1, TakeFacts
  <2> QED
    BY <2>2 DEF p, new, all, L, M, k
<1>4. /\ \A k \in 1 .. M :
           InTrie(new[k], lines) /\ \E c \in ToSet(Chars) : new[k] = Longer(p, c)
      /\ \A c \in ToSet(Chars) :
           InTrie(Longer(p, c), lines) => \E k \in 1 .. M : new[k] = Longer(p, c)
      /\ \A k, l \in 1 .. M : new[k] = new[l] => k = l
  BY <1>2, ChildrenFacts
<1> HIDE DEF p, all, new, L, M
<1>5. \A k \in 1 .. M : new[k] # Root /\ Front(new[k]) = p
  BY <1>2, <1>4, LongerFacts
<1>6. \A j \in 1 .. Len(all) : j \in 1 .. L \/ \E k \in 1 .. M : j = L + k
  <2> SUFFICES ASSUME NEW j \in 1 .. L + M, j \notin 1 .. L PROVE \E k \in 1 .. M : j = L + k
    BY <1>3
  <2>1. j - L \in 1 .. M /\ j = L + (j - L)
    BY <1>1, <1>3
  <2> QED
    BY <2>1
<1>7. /\ \A j \in 1 .. L : j \in 1 .. Len(all)
      /\ \A k \in 1 .. M : L + k \in 1 .. Len(all)
  BY <1>1, <1>3
<1>8. \A i \in 1 .. done + 1 : i \in 1 .. L /\ (i \in 1 .. done \/ i = done + 1)
  BY <1>1, <1>2
<1>9. /\ \A i, j \in 1 .. L : nd[i] = nd[j] => i = j
      /\ \A j \in 1 .. L : nd[j] # Root => /\ InTrie(nd[j], lines)
                                           /\ \E i \in 1 .. done : nd[i] = Front(nd[j])
      /\ \A i \in 1 .. done, c \in ToSet(Chars) :
           InTrie(Longer(nd[i], c), lines) => \E j \in 1 .. L : nd[j] = Longer(nd[i], c)
  BY DEF TrieOK, L
<1>10. \A j \in 1 .. L, k \in 1 .. M : nd[j] # new[k]
  <2> SUFFICES ASSUME NEW j \in 1 .. L, NEW k \in 1 .. M, nd[j] = new[k] PROVE FALSE
    OBVIOUS
  <2>1. nd[j] # Root /\ Front(nd[j]) = p
    BY <1>5
  <2>2. PICK i \in 1 .. done : nd[i] = p
    BY <1>9, <2>1
  <2>3. i \in 1 .. L /\ i # done + 1
    BY <1>1
  <2> QED
    BY <1>2, <1>9, <2>2, <2>3 DEF p
<1>11. \A i, j \in 1 .. Len(all) : all[i] = all[j] => i = j
  <2> SUFFICES ASSUME NEW i \in 1 .. Len(all), NEW j \in 1 .. Len(all), all[i] = all[j]
               PROVE  i = j
    OBVIOUS
  <2>1. CASE i \in 1 .. L /\ j \in 1 .. L
    BY <2>1, <1>3, <1>9
  <2>2. CASE i \in 1 .. L /\ j \notin 1 .. L
    BY <2>2, <1>3, <1>6, <1>10
  <2>3. CASE i \notin 1 .. L /\ j \in 1 .. L
    BY <2>3, <1>3, <1>6, <1>10
  <2>4. CASE i \notin 1 .. L /\ j \notin 1 .. L
    BY <2>4, <1>3, <1>4, <1>6
  <2> QED
    BY <2>1, <2>2, <2>3, <2>4
<1>12. \A j \in 1 .. Len(all) :
         all[j] # Root => /\ InTrie(all[j], lines)
                          /\ \E i \in 1 .. done + 1 : all[i] = Front(all[j])
  <2> SUFFICES ASSUME NEW j \in 1 .. Len(all), all[j] # Root
               PROVE  /\ InTrie(all[j], lines)
                      /\ \E i \in 1 .. done + 1 : all[i] = Front(all[j])
    OBVIOUS
  <2>1. CASE j \in 1 .. L
    <3>1. all[j] = nd[j]
      BY <2>1, <1>3
    <3>2. PICK i \in 1 .. done : nd[i] = Front(nd[j])
      BY <2>1, <3>1, <1>9
    <3>3. i \in 1 .. done + 1 /\ i \in 1 .. L
      BY <1>1, <1>2
    <3> QED
      BY <2>1, <3>1, <3>2, <3>3, <1>3, <1>9
  <2>2. CASE j \notin 1 .. L
    <3>1. PICK k \in 1 .. M : j = L + k
      BY <2>2, <1>6
    <3>2. all[j] = new[k] /\ all[done + 1] = p /\ done + 1 \in 1 .. done + 1
      BY <3>1, <1>2, <1>3 DEF p
    <3> QED
      BY <3>2, <1>4, <1>5
  <2> QED
    BY <2>1, <2>2
<1>13. \A i \in 1 .. done + 1, c \in ToSet(Chars) :
         InTrie(Longer(all[i], c), lines) => \E j \in 1 .. Len(all) : all[j] = Longer(all[i], c)
  <2> SUFFICES ASSUME NEW i \in 1 .. done + 1, NEW c \in ToSet(Chars),
                      InTrie(Longer(all[i], c), lines)
               PROVE  \E j \in 1 .. Len(all) : all[j] = Longer(all[i], c)
    OBVIOUS
  <2>1. all[i] = nd[i]
    BY <1>3, <1>8
  <2>2. CASE i \in 1 .. done
    <3>1. PICK j \in 1 .. L : nd[j] = Longer(nd[i], c)
      BY <2>1, <2>2, <1>9
    <3> QED
      BY <2>1, <3>1, <1>3, <1>7
  <2>3. CASE i = done + 1
    <3>1. PICK k \in 1 .. M : new[k] = Longer(p, c)
      BY <2>1, <2>3, <1>4 DEF p
    <3> QED
      BY <2>1, <2>3, <3>1, <1>3, <1>7 DEF p
  <2> QED
    BY <2>2, <2>3, <1>8
<1>14. all[1] = Root /\ done + 1 \in 0 .. Len(all) /\ Len(all) \in Nat \ {0}
  BY <1>1, <1>2, <1>3
<1> QED
  BY <1>1, <1>3, <1>11, <1>12, <1>13, <1>14 DEF TrieOK, all

\* The vectors that are filled as states are taken from the queue.
VectorsOK(nd, cnt, qs, done, lines) ==
  /\ cnt = [j \in 1 .. Len(nd) |-> IF j <= done THEN Frequency(nd[j], lines) ELSE 0]
  /\ qs = [j \in 1 .. Len(nd) |->
             IF j <= done /\ Frequency(nd[j], lines) > 0 THEN nd[j] ELSE Root]

\* f[n]: the states when n have been taken from the queue.
IsBfs(lines, N, f) ==
  /\ f[0] = <<Root>>
  /\ \A n \in 0 .. N - 1 : n < Len(f[n]) /\ f[n + 1] = Take(f[n], n + 1, lines)
Bfs(lines, N, nd) == \E f : IsBfs(lines, N, f) /\ f[N] = nd

(* Which states a log has, and in which order, does not depend on the build. *)
LEMMA BfsUnique ==
  ASSUME NEW lines, NEW nd, NEW md, Len(nd) \in Nat, Len(md) \in Nat,
         Bfs(lines, Len(nd), nd), Bfs(lines, Len(md), md), Len(nd) <= Len(md)
  PROVE  nd = md
<1> DEFINE N == Len(nd)
           M == Len(md)
<1>1. PICK f : IsBfs(lines, N, f) /\ f[N] = nd
  BY DEF Bfs
<1>2. PICK g : IsBfs(lines, M, g) /\ g[M] = md
  BY DEF Bfs
<1> DEFINE S == {n \in Nat : n <= N => f[n] = g[n]}
<1>3. 0 \in S
  BY <1>1, <1>2 DEF IsBfs
<1>4. ASSUME NEW n \in Nat, n \in S PROVE n + 1 \in S
  <2> SUFFICES ASSUME n + 1 <= N PROVE f[n + 1] = g[n + 1]
    OBVIOUS
  <2>1. n \in 0 .. N - 1 /\ n \in 0 .. M - 1 /\ f[n] = g[n]
    BY <1>4
  <2> QED
    BY <2>1, <1>1, <1>2 DEF IsBfs
<1>5. Nat \subseteq S
  <2> HIDE DEF S
  <2> QED
    BY <1>3, <1>4, SetInduction
<1>6. g[N] = nd
  BY <1>1, <1>5
<1>7. ~(N < M)
  <2> SUFFICES ASSUME N < M PROVE FALSE
    OBVIOUS
  <2>1. N \in 0 .. M - 1
    OBVIOUS
  <2> QED
    BY <2>1, <1>2, <1>6 DEF IsBfs
<1> QED
  BY <1>2, <1>6, <1>7

(* Taking the next node is the next step of the walk. *)
LEMMA BfsTake ==
  ASSUME NEW lines, NEW n \in Nat, NEW nd, Bfs(lines, n, nd), n < Len(nd)
  PROVE  Bfs(lines, n + 1, Take(nd, n + 1, lines))
<1>1. PICK f : IsBfs(lines, n, f) /\ f[n] = nd
  BY DEF Bfs
<1> DEFINE g == [k \in 0 .. n + 1 |-> IF k = n + 1 THEN Take(nd, n + 1, lines) ELSE f[k]]
<1>2. g[0] = <<Root>> /\ g[n + 1] = Take(nd, n + 1, lines)
  BY <1>1 DEF IsBfs
<1>3. \A k \in 0 .. (n + 1) - 1 : k < Len(g[k]) /\ g[k + 1] = Take(g[k], k + 1, lines)
  <2>0. (n + 1) - 1 = n
    OBVIOUS
  <2> SUFFICES ASSUME NEW k \in 0 .. n
               PROVE  k < Len(g[k]) /\ g[k + 1] = Take(g[k], k + 1, lines)
    <3> HIDE DEF g
    <3> QED
      BY <2>0
  <2>1. g[k] = f[k]
    OBVIOUS
  <2>2. CASE k = n
    BY <2>1, <2>2, <1>1
  <2>3. CASE k # n
    <3>1. k \in 0 .. n - 1 /\ g[k + 1] = f[k + 1]
      BY <2>3
    <3> QED
      BY <2>1, <3>1, <1>1 DEF IsBfs
  <2> QED
    BY <2>2, <2>3
<1> HIDE DEF g
<1>4. IsBfs(lines, n + 1, g)
  BY <1>2, <1>3 DEF IsBfs
<1> QED
  BY <1>2, <1>4 DEF Bfs
\* A vector in which the entry of the state just taken is set, with one more
\* entry for each of its children.
Grow(seq, n, k, v, new, none) ==
  [seq EXCEPT ![n] = IF k > 0 THEN v ELSE @] \o [i \in DOMAIN new |-> none]

Grown(S, seq, n, k, v, m, none, r) ==
  /\ r \in Seq(S) /\ Len(r) = Len(seq) + m
  /\ \A i \in 1 .. Len(seq) + m :
       r[i] = IF i > Len(seq) THEN none ELSE IF i = n /\ k > 0 THEN v ELSE seq[i]

(* A vector gets the entry of the node taken, and none for its children. *)
LEMMA GrowFacts ==
  ASSUME NEW S, NEW seq \in Seq(S), NEW n \in 1 .. Len(seq), NEW k \in Nat, NEW v \in S,
         NEW new \in Seq(Word), NEW none \in S
  PROVE  Grown(S, seq, n, k, v, Len(new), none, Grow(seq, n, k, v, new, none))
<1> DEFINE a == [seq EXCEPT ![n] = IF k > 0 THEN v ELSE @]
           b == [i \in DOMAIN new |-> none]
<1>1. /\ a \in Seq(S) /\ Len(a) = Len(seq)
      /\ \A i \in 1 .. Len(seq) : a[i] = IF i = n /\ k > 0 THEN v ELSE seq[i]
  <2>1. (IF k > 0 THEN v ELSE seq[n]) \in S
    OBVIOUS
  <2> QED
    BY <2>1
<1>2. /\ b \in Seq(S) /\ Len(b) = Len(new) /\ Len(new) \in Nat /\ Len(seq) \in Nat
      /\ \A i \in 1 .. Len(new) : b[i] = none
  <2>1. DOMAIN new = 1 .. Len(new) /\ Len(new) \in Nat /\ Len(seq) \in Nat
    OBVIOUS
  <2> QED
    BY <2>1
<1>3. Grow(seq, n, k, v, new, none) = a \o b
  BY DEF Grow
<1> HIDE DEF a, b
<1> DEFINE r == a \o b
<1>4. /\ r \in Seq(S) /\ Len(r) = Len(seq) + Len(new)
      /\ \A i \in 1 .. Len(seq) + Len(new) :
           r[i] = IF i <= Len(seq) THEN a[i] ELSE b[i - Len(seq)]
  <2>1. /\ a \o b \in Seq(S) /\ Len(a \o b) = Len(a) + Len(b)
        /\ \A i \in 1 .. Len(a) + Len(b) :
             (a \o b)[i] = IF i <= Len(a) THEN a[i] ELSE b[i - Len(a)]
    BY <1>1, <1>2, ConcatProperties
  <2>2. Len(a) = Len(seq) /\ Len(b) = Len(new)
    BY <1>1, <1>2
  <2> QED
    BY <2>1, <2>2
<1> HIDE DEF r
<1>5. \A i \in 1 .. Len(seq) + Len(new) :
        r[i] = IF i > Len(seq) THEN none ELSE IF i = n /\ k > 0 THEN v ELSE seq[i]
  <2> SUFFICES ASSUME NEW i \in 1 .. Len(seq) + Len(new)
               PROVE  r[i] = IF i > Len(seq) THEN none ELSE IF i = n /\ k > 0 THEN v ELSE seq[i]
    OBVIOUS
  <2>1. CASE i > Len(seq)
    <3>1. i - Len(seq) \in 1 .. Len(new)
      BY <2>1, <1>2
    <3>2. b[i - Len(seq)] = none
      BY <3>1, <1>2
    <3>3. ~(i <= Len(seq))
      BY <2>1, <1>2
    <3> QED
      BY <2>1, <3>2, <3>3, <1>4
  <2>2. CASE ~(i > Len(seq))
    <3>1. i \in 1 .. Len(seq) /\ i <= Len(seq)
      BY <2>2, <1>2
    <3>2. r[i] = a[i]
      BY <3>1, <1>4
    <3>3. a[i] = IF i = n /\ k > 0 THEN v ELSE seq[i]
      BY <3>1, <1>1
    <3> QED
      BY <2>2, <3>2, <3>3
  <2> QED
    BY <2>1, <2>2
<1>6. Grown(S, seq, n, k, v, Len(new), none, r)
  BY <1>4, <1>5 DEF Grown
<1> QED
  BY <1>3, <1>6 DEF r

(* Taking a node keeps the vectors right. *)
LEMMA VectorsTake ==
  ASSUME NEW nd, NEW cnt, NEW qs, NEW done, NEW lines,
         TrieOK(nd, done, lines), VectorsOK(nd, cnt, qs, done, lines), done < Len(nd)
  PROVE  LET p == nd[done + 1]
             n == Frequency(p, lines)
             new == Children(p, lines)
         IN VectorsOK(Take(nd, done + 1, lines), Grow(cnt, done + 1, n, n, new, 0),
                      Grow(qs, done + 1, n, p, new, Root), done + 1, lines)
<1> DEFINE p == nd[done + 1]
           n == Frequency(p, lines)
           new == Children(p, lines)
           all == Take(nd, done + 1, lines)
           cnt2 == Grow(cnt, done + 1, n, n, new, 0)
           qs2 == Grow(qs, done + 1, n, p, new, Root)
           L == Len(nd)
<1>1. /\ lines \in Seq(Word) /\ nd \in Seq(Word) /\ L \in Nat \ {0} /\ done \in 0 .. L
      /\ done \in Nat /\ done + 1 \in 1 .. L
  BY DEF TrieOK
<1>2. p \in Word /\ n \in Nat /\ Root \in Word /\ 0 \in Nat
  BY <1>1, FrequencyFacts DEF Word, Root
<1>3. new \in Seq(Word) /\ Len(new) \in Nat
  <2>1. new \in Seq(Word)
    BY <1>2, ChildrenFacts
  <2> QED
    BY <2>1
<1>4. cnt \in Seq(Nat) /\ Len(cnt) = L
  <2>1. \A j \in 1 .. L : (IF j <= done THEN Frequency(nd[j], lines) ELSE 0) \in Nat
    BY <1>1, FrequencyFacts
  <2>2. cnt = [j \in 1 .. L |-> IF j <= done THEN Frequency(nd[j], lines) ELSE 0]
    BY DEF VectorsOK
  <2> QED
    BY <1>1, <2>1, <2>2
<1>5. qs \in Seq(Word) /\ Len(qs) = L
  <2>1. \A j \in 1 .. L :
          (IF j <= done /\ Frequency(nd[j], lines) > 0 THEN nd[j] ELSE Root) \in Word
    BY <1>1, <1>2
  <2>2. qs = [j \in 1 .. L |-> IF j <= done /\ Frequency(nd[j], lines) > 0 THEN nd[j] ELSE Root]
    BY DEF VectorsOK
  <2> QED
    BY <1>1, <2>1, <2>2
<1>6. /\ Len(all) = L + Len(new)
      /\ \A i \in 1 .. L : all[i] = nd[i]
  BY <1>1, TakeFacts
<1>8. cnt2 = [i \in 1 .. L + Len(new) |->
               IF i > L THEN 0 ELSE IF i = done + 1 /\ n > 0 THEN n ELSE cnt[i]]
  <2> HIDE DEF n, new, p
  <2>1. done + 1 \in 1 .. Len(cnt)
    BY <1>1, <1>4
  <2>2. \A m \in 1 .. Len(cnt), z \in Nat :
          Grown(Nat, cnt, m, n, n, Len(new), z, Grow(cnt, m, n, n, new, z))
    BY <1>2, <1>3, <1>4, GrowFacts
  <2>5. Grown(Nat, cnt, done + 1, n, n, Len(new), 0, cnt2)
    BY <1>2, <2>1, <2>2
  <2>3. /\ cnt2 \in Seq(Nat) /\ Len(cnt2) = L + Len(new)
        /\ \A i \in 1 .. L + Len(new) :
             cnt2[i] = IF i > L THEN 0 ELSE IF i = done + 1 /\ n > 0 THEN n ELSE cnt[i]
    BY <1>4, <2>5 DEF Grown
  <2>4. DOMAIN cnt2 = 1 .. L + Len(new) /\ cnt2 = [i \in DOMAIN cnt2 |-> cnt2[i]]
    <3> HIDE DEF cnt2, L
    <3> QED
      BY <2>3
  <2> HIDE DEF cnt2, L
  <2> QED
    BY <2>3, <2>4
<1>9. qs2 = [i \in 1 .. L + Len(new) |->
              IF i > L THEN Root ELSE IF i = done + 1 /\ n > 0 THEN p ELSE qs[i]]
  <2> HIDE DEF n, new, p
  <2>1. done + 1 \in 1 .. Len(qs)
    BY <1>1, <1>5
  <2>2. \A m \in 1 .. Len(qs), z \in Word :
          Grown(Word, qs, m, n, p, Len(new), z, Grow(qs, m, n, p, new, z))
    BY <1>2, <1>3, <1>5, GrowFacts
  <2>5. Grown(Word, qs, done + 1, n, p, Len(new), Root, qs2)
    BY <1>2, <2>1, <2>2
  <2>3. /\ qs2 \in Seq(Word) /\ Len(qs2) = L + Len(new)
        /\ \A i \in 1 .. L + Len(new) :
             qs2[i] = IF i > L THEN Root ELSE IF i = done + 1 /\ n > 0 THEN p ELSE qs[i]
    BY <1>5, <2>5 DEF Grown
  <2>4. DOMAIN qs2 = 1 .. L + Len(new) /\ qs2 = [i \in DOMAIN qs2 |-> qs2[i]]
    <3> HIDE DEF qs2, L
    <3> QED
      BY <2>3
  <2> HIDE DEF qs2, L
  <2> QED
    BY <2>3, <2>4
<1>10. \A i \in 1 .. L : /\ cnt[i] = IF i <= done THEN Frequency(nd[i], lines) ELSE 0
                         /\ qs[i] = IF i <= done /\ Frequency(nd[i], lines) > 0 THEN nd[i] ELSE Root
  BY DEF VectorsOK
<1> HIDE DEF all, new, cnt2, qs2, L
<1>11. \A i \in 1 .. L + Len(new) :
         (IF i > L THEN 0 ELSE IF i = done + 1 /\ n > 0 THEN n ELSE cnt[i])
           = IF i <= done + 1 THEN Frequency(all[i], lines) ELSE 0
  <2> SUFFICES ASSUME NEW i \in 1 .. L + Len(new)
               PROVE  (IF i > L THEN 0 ELSE IF i = done + 1 /\ n > 0 THEN n ELSE cnt[i])
                        = IF i <= done + 1 THEN Frequency(all[i], lines) ELSE 0
    OBVIOUS
  <2>1. CASE i > L
    BY <2>1, <1>1
  <2>2. CASE i = done + 1
    <3>1. i \in 1 .. L /\ ~(i > L) /\ all[i] = p /\ cnt[i] = 0
      BY <2>2, <1>1, <1>6, <1>10
    <3> QED
      BY <3>1, <2>2, <1>2
  <2>3. CASE i <= done
    <3>1. i \in 1 .. L /\ ~(i > L) /\ i # done + 1 /\ i <= done + 1
      BY <2>3, <1>1, <1>3
    <3> QED
      BY <3>1, <2>3, <1>6, <1>10
  <2>4. CASE i <= L /\ i > done + 1
    <3>1. i \in 1 .. L /\ ~(i > L) /\ i # done + 1 /\ ~(i <= done) /\ ~(i <= done + 1)
      BY <2>4, <1>1, <1>3
    <3> QED
      BY <3>1, <1>10
  <2> QED
    BY <2>1, <2>2, <2>3, <2>4, <1>1, <1>3
<1>12. \A i \in 1 .. L + Len(new) :
         (IF i > L THEN Root ELSE IF i = done + 1 /\ n > 0 THEN p ELSE qs[i])
           = IF i <= done + 1 /\ Frequency(all[i], lines) > 0 THEN all[i] ELSE Root
  <2> SUFFICES ASSUME NEW i \in 1 .. L + Len(new)
               PROVE  (IF i > L THEN Root ELSE IF i = done + 1 /\ n > 0 THEN p ELSE qs[i])
                        = IF i <= done + 1 /\ Frequency(all[i], lines) > 0 THEN all[i] ELSE Root
    OBVIOUS
  <2>1. CASE i > L
    BY <2>1, <1>1
  <2>2. CASE i = done + 1
    <3>1. i \in 1 .. L /\ ~(i > L) /\ all[i] = p /\ qs[i] = Root
      BY <2>2, <1>1, <1>6, <1>10
    <3> QED
      BY <3>1, <2>2, <1>1, <1>2
  <2>3. CASE i <= done
    <3>1. i \in 1 .. L /\ ~(i > L) /\ i # done + 1 /\ i <= done + 1
      BY <2>3, <1>1, <1>3
    <3> QED
      BY <3>1, <2>3, <1>6, <1>10
  <2>4. CASE i <= L /\ i > done + 1
    <3>1. i \in 1 .. L /\ ~(i > L) /\ i # done + 1 /\ ~(i <= done) /\ ~(i <= done + 1)
      BY <2>4, <1>1, <1>3
    <3> QED
      BY <3>1, <1>10
  <2> QED
    BY <2>1, <2>2, <2>3, <2>4, <1>1, <1>3
<1> HIDE DEF p, n
<1>13. /\ cnt2 = [i \in 1 .. Len(all) |-> IF i <= done + 1 THEN Frequency(all[i], lines) ELSE 0]
       /\ qs2 = [i \in 1 .. Len(all) |->
                  IF i <= done + 1 /\ Frequency(all[i], lines) > 0 THEN all[i] ELSE Root]
  BY <1>6, <1>8, <1>9, <1>11, <1>12
<1> QED
  BY <1>13 DEF VectorsOK, all, cnt2, qs2, p, n, new

(* Before the first node is taken. *)
LEMMA FstStart ==
  ASSUME NEW lines \in Seq(Word)
  PROVE  /\ TrieOK(<<Root>>, 0, lines)
         /\ VectorsOK(<<Root>>, <<0>>, <<Root>>, 0, lines)
         /\ Bfs(lines, 0, <<Root>>)
<1>1. /\ <<Root>> \in Seq(Word) /\ Len(<<Root>>) = 1 /\ <<Root>>[1] = Root
      /\ Root \in Word
  BY DEF Root, Word
<1>2. TrieOK(<<Root>>, 0, lines)
  BY <1>1 DEF TrieOK
<1>3. VectorsOK(<<Root>>, <<0>>, <<Root>>, 0, lines)
  BY DEF VectorsOK
<1>4. Bfs(lines, 0, <<Root>>)
  <2> DEFINE f == [n \in {0} |-> <<Root>>]
  <2>1. f[0] = <<Root>> /\ 0 .. 0 - 1 = {}
    OBVIOUS
  <2> HIDE DEF f
  <2> QED
    BY <2>1 DEF Bfs, IsBfs
<1> QED
  BY <1>2, <1>3, <1>4

\* All prefixes have been copied.
Full(nd, lines) == TrieOK(nd, Len(nd), lines) /\ Bfs(lines, Len(nd), nd)

(* When the queue is empty there is a state for each prefix. *)
LEMMA FullFacts ==
  ASSUME NEW nd, NEW lines, Full(nd, lines)
  PROVE  \A q \in Word : InTrie(q, lines) => \E t \in 1 .. Len(nd) : nd[t] = q
<1> DEFINE S == {n \in Nat : \A q \in Word : InTrie(q, lines) /\ Len(q) = n
                                => \E t \in 1 .. Len(nd) : nd[t] = q}
<1>1. /\ lines \in Seq(Word) /\ nd \in Seq(Word) /\ Len(nd) \in Nat \ {0} /\ nd[1] = Root
      /\ \A i \in 1 .. Len(nd), c \in ToSet(Chars) :
           InTrie(Longer(nd[i], c), lines) => \E j \in 1 .. Len(nd) : nd[j] = Longer(nd[i], c)
  BY DEF Full, TrieOK
<1>2. 0 \in S
  <2>1. \A q \in Word : Len(q) = 0 => q = Root
    BY EmptySeq DEF Word, Root
  <2>2. 1 \in 1 .. Len(nd)
    BY <1>1
  <2> QED
    BY <1>1, <2>1, <2>2
<1>3. ASSUME NEW n \in Nat, n \in S PROVE n + 1 \in S
  <2> SUFFICES ASSUME NEW q \in Word, InTrie(q, lines), Len(q) = n + 1
               PROVE  \E t \in 1 .. Len(nd) : nd[t] = q
    OBVIOUS
  <2>1. q # Root
    BY DEF Root, Word
  <2>2. /\ Front(q) \in Word /\ Len(Front(q)) = n
        /\ q[Len(q)] \in ToSet(Chars) /\ q = Longer(Front(q), q[Len(q)])
        /\ IsPrefix(Front(q), q)
    BY <2>1, FrontFacts
  <2>3. InTrie(Front(q), lines)
    BY <1>1, <2>2, InTriePrefix
  <2>4. PICK i \in 1 .. Len(nd) : nd[i] = Front(q)
    BY <1>3, <2>2, <2>3
  <2> QED
    BY <1>1, <2>2, <2>4
<1>4. Nat \subseteq S
  <2> HIDE DEF S
  <2> QED
    BY <1>2, <1>3, SetInduction
<1>5. \A q \in Word : Len(q) \in Nat
  BY DEF Word
<1> QED
  BY <1>4, <1>5
-----------------------------------------------------------------------------
(* The best queries below a state *)

IsQuery(nd, lines, t) == t \in 1 .. Len(nd) /\ nd[t] # Root /\ Frequency(nd[t], lines) > 0
Pair(nd, lines, t) == [count |-> Frequency(nd[t], lines), idx |-> t]
Pairs(nd, lines) == {Pair(nd, lines, t) : t \in 1 .. Len(nd)}
Below(nd, s, t) == IsPrefix(nd[s], nd[t])
Child(nd, s, t) == nd[t] # Root /\ Front(nd[t]) = nd[s]

(* A pair is determined by its state. *)
LEMMA PairFacts ==
  ASSUME NEW nd, NEW lines \in Seq(Word)
  PROVE  /\ \A x \in Pairs(nd, lines) :
              /\ x.idx \in 1 .. Len(nd) /\ x.count \in Nat /\ x.idx \in Int
              /\ x.count = Frequency(nd[x.idx], lines)
              /\ x = Pair(nd, lines, x.idx)
         /\ \A t \in 1 .. Len(nd) :
              Pair(nd, lines, t) \in Pairs(nd, lines) /\ Pair(nd, lines, t).idx = t
<1>1. ASSUME NEW t \in 1 .. Len(nd)
      PROVE  /\ Pair(nd, lines, t) \in Pairs(nd, lines) /\ Pair(nd, lines, t).idx = t
             /\ Pair(nd, lines, t).count = Frequency(nd[t], lines)
             /\ Pair(nd, lines, t).count \in Nat
  BY FrequencyFacts DEF Pair, Pairs
<1>2. \A x \in Pairs(nd, lines) : \E t \in 1 .. Len(nd) : x = Pair(nd, lines, t)
  BY DEF Pairs
<1>3. \A t \in 1 .. Len(nd) : t \in Int
  OBVIOUS
<1> QED
  BY <1>1, <1>2, <1>3

\* std::greater on different pairs is a total order.
LEMMA GreaterOrder ==
  ASSUME NEW nd, NEW lines \in Seq(Word)
  PROVE  /\ \A x, y \in Pairs(nd, lines) :
              x.idx # y.idx /\ ~Greater(x, y) => Greater(y, x)
         /\ \A x, y \in Pairs(nd, lines) : ~(Greater(x, y) /\ Greater(y, x))
         /\ \A x, y, z \in Pairs(nd, lines) : Greater(x, y) /\ Greater(y, z) => Greater(x, z)
<1>1. \A x \in Pairs(nd, lines) : x.idx \in Int /\ x.count \in Int
  BY PairFacts
<1> QED
  BY <1>1 DEF Greater

\* The sequence has queries at or below s, each once.
ListOK(nd, lines, s, seq) ==
  /\ seq \in Seq(Pairs(nd, lines))
  /\ \A i \in 1 .. Len(seq) : IsQuery(nd, lines, seq[i].idx) /\ Below(nd, s, seq[i].idx)
  /\ \A i, j \in 1 .. Len(seq) : seq[i].idx = seq[j].idx => i = j

Has(seq, t) == \E i \in 1 .. Len(seq) : seq[i].idx = t
\* K queries in the sequence rank above t.
Beaten(nd, lines, seq, t) ==
  \E D \in SUBSET (1 .. Len(seq)) :
    Cardinality(D) = K /\ \A d \in D : Greater(seq[d], Pair(nd, lines, t))

\* What TopK(s) is to put into completions.
Answered(nd, lines, s, seq) ==
  /\ ListOK(nd, lines, s, seq)
  /\ Len(seq) <= K
  /\ \A i, j \in 1 .. Len(seq) : i < j => Greater(seq[i], seq[j])
  /\ \A t \in 1 .. Len(nd) :
       IsQuery(nd, lines, t) /\ Below(nd, s, t) =>
         \/ Has(seq, t)
         \/ Len(seq) = K /\ \A i \in 1 .. Len(seq) : Greater(seq[i], Pair(nd, lines, t))

\* What a call of TopK(s) has collected when the states in todo are still to come.
FrameOK(nd, lines, s, todo, result) ==
  /\ s \in 1 .. Len(nd)
  /\ todo \in Seq(1 .. Len(nd))
  /\ \A i \in 1 .. Len(todo) : Child(nd, s, todo[i])
  /\ \A i, j \in 1 .. Len(todo) : todo[i] = todo[j] => i = j
  /\ ListOK(nd, lines, s, result)
  /\ \A i \in 1 .. Len(todo), j \in 1 .. Len(result) : ~Below(nd, todo[i], result[j].idx)
  /\ \A t \in 1 .. Len(nd) :
       IsQuery(nd, lines, t) /\ Below(nd, s, t) =>
         \/ Has(result, t)
         \/ \E i \in 1 .. Len(todo) : Below(nd, todo[i], t)
         \/ Beaten(nd, lines, result, t)

(* partial_sort and erase leave the K best queries of a finished call. *)
LEMMA BestIsAnswer ==
  ASSUME NEW nd, NEW lines \in Seq(Word), NEW s, NEW todo, NEW result, Len(todo) = 0,
         FrameOK(nd, lines, s, todo, result), NEW best \in Best(result)
  PROVE  Answered(nd, lines, s, best)
<1> DEFINE N == Len(result)
           m == IF N < K THEN N ELSE K
<1>1. K \in Nat \ {0}
  BY MpcAssumption
<1>2. result \in Seq(Pairs(nd, lines)) /\ N \in Nat /\ DOMAIN result = 1 .. N
  BY DEF FrameOK, ListOK
<1>3. m \in Nat /\ m <= N /\ m <= K
  BY <1>1, <1>2
<1>4. PICK p \in [1 .. m -> 1 .. N] :
        /\ \A i, j \in 1 .. m : i < j => p[i] # p[j] /\ ~Greater(result[p[j]], result[p[i]])
        /\ \A x \in (1 .. N) \ ToSet(p), i \in 1 .. m : ~Greater(result[x], result[p[i]])
        /\ best = [i \in 1 .. m |-> result[p[i]]]
  BY <1>2 DEF Best
<1> HIDE DEF m
<1> HIDE DEF N
<1>5. /\ \A i \in 1 .. m : p[i] \in 1 .. N
      /\ \A i, j \in 1 .. m : p[i] = p[j] => i = j
  <2>1. \A i, j \in 1 .. m : i = j \/ i < j \/ j < i
    BY <1>3
  <2> QED
    BY <1>4, <2>1
<1>6. /\ best \in Seq(Pairs(nd, lines)) /\ Len(best) = m
      /\ \A i \in 1 .. m : best[i] = result[p[i]] /\ best[i] \in Pairs(nd, lines)
  <2>1. \A i \in 1 .. m : result[p[i]] \in Pairs(nd, lines)
    BY <1>2, <1>5 DEF N
  <2>2. best = [i \in 1 .. m |-> result[p[i]]]
    BY <1>4
  <2> QED
    BY <2>1, <2>2, <1>3
<1>7. /\ \A i \in 1 .. N : IsQuery(nd, lines, result[i].idx) /\ Below(nd, s, result[i].idx)
      /\ \A i, j \in 1 .. N : result[i].idx = result[j].idx => i = j
  BY DEF FrameOK, ListOK, N
<1>8. ListOK(nd, lines, s, best)
  <2>1. \A i \in 1 .. m : IsQuery(nd, lines, best[i].idx) /\ Below(nd, s, best[i].idx)
    BY <1>5, <1>6, <1>7
  <2>2. \A i, j \in 1 .. m : best[i].idx = best[j].idx => i = j
    <3> SUFFICES ASSUME NEW i \in 1 .. m, NEW j \in 1 .. m, best[i].idx = best[j].idx
                 PROVE  i = j
      OBVIOUS
    <3>1. /\ best[i] = result[p[i]] /\ p[i] \in 1 .. N
          /\ best[j] = result[p[j]] /\ p[j] \in 1 .. N
      BY <1>5, <1>6
    <3>2. p[i] = p[j]
      BY <3>1, <1>7
    <3> QED
      BY <3>2, <1>5
  <2> QED
    BY <1>6, <2>1, <2>2 DEF ListOK
<1>9. \A i, j \in 1 .. Len(best) : i < j => Greater(best[i], best[j])
  <2> SUFFICES ASSUME NEW i \in 1 .. m, NEW j \in 1 .. m, i < j
               PROVE  Greater(best[i], best[j])
    BY <1>6
  <2>1. best[i].idx # best[j].idx
    <3>1. i # j
      BY <1>3
    <3> QED
      BY <3>1, <1>5, <1>6, <1>7
  <2>2. ~Greater(best[j], best[i])
    BY <1>4, <1>6
  <2> QED
    BY <2>1, <2>2, <1>6, GreaterOrder
<1>10. ASSUME NEW t \in 1 .. Len(nd), IsQuery(nd, lines, t), Below(nd, s, t), ~Has(best, t)
       PROVE  Len(best) = K /\ \A i \in 1 .. Len(best) : Greater(best[i], Pair(nd, lines, t))
  <2> DEFINE x == Pair(nd, lines, t)
  <2>1. x \in Pairs(nd, lines) /\ x.idx = t
    BY PairFacts
  <2>2. \A i \in 1 .. m : best[i].idx # x.idx
    BY <1>6, <1>10, <2>1 DEF Has
  <2>3. Has(result, t) \/ Beaten(nd, lines, result, t)
    BY <1>10 DEF FrameOK
  <2> HIDE DEF x
  <2>4. CASE Has(result, t)
    <3>1. PICK k \in 1 .. N : result[k].idx = t
      BY <2>4 DEF Has, N
    <3>2. k \notin ToSet(p)
      <4>1. \A i \in 1 .. m : p[i] # k
        BY <1>6, <2>1, <2>2, <3>1
      <4>2. DOMAIN p = 1 .. m
        BY <1>4
      <4> QED
        BY <4>1, <4>2 DEF ToSet
    <3>3. result[k] = x
      <4>1. result[k] \in Pairs(nd, lines)
        BY <1>2 DEF N
      <4> QED
        BY <3>1, <4>1, PairFacts DEF x
    <3>4. m = K
      <4> SUFFICES ASSUME m # K PROVE FALSE
        OBVIOUS
      <4>1. m = N /\ N \in Nat
        BY <1>2 DEF m
      <4>2. p \in Injection(1 .. N, 1 .. N)
        BY <1>4, <1>5, <4>1 DEF Injection, IsInjective
      <4>3. IsFiniteSet(1 .. N)
        BY <4>1, FS_Interval
      <4>4. p \in Surjection(1 .. N, 1 .. N)
        BY <4>2, <4>3, FS_Injection
      <4>5. PICK i \in 1 .. N : p[i] = k
        BY <4>4 DEF Surjection
      <4>6. DOMAIN p = 1 .. m
        BY <1>4
      <4> QED
        BY <3>2, <4>1, <4>5, <4>6 DEF ToSet
    <3>5. \A i \in 1 .. m : ~Greater(x, best[i])
      BY <1>4, <1>6, <3>1, <3>2, <3>3
    <3> QED
      BY <1>6, <2>1, <2>2, <3>4, <3>5, GreaterOrder DEF x
  <2>5. CASE Beaten(nd, lines, result, t)
    <3>1. PICK D \in SUBSET (1 .. N) : Cardinality(D) = K /\ \A d \in D : Greater(result[d], x)
      BY <2>5 DEF Beaten, N, x
    <3>2. IsFiniteSet(1 .. N) /\ Cardinality(1 .. N) = N
      <4>1. /\ IsFiniteSet(1 .. N)
            /\ Cardinality(1 .. N) = IF 1 > N THEN 0 ELSE N - 1 + 1
        BY <1>2, FS_Interval
      <4> QED
        BY <1>2, <4>1
    <3>3. K <= N /\ m = K
      <4>1. \A E \in SUBSET (1 .. N) : Cardinality(E) <= Cardinality(1 .. N)
        BY <3>2, FS_Subset
      <4>2. Cardinality(D) <= N
        BY <3>1, <3>2, <4>1
      <4> QED
        BY <1>1, <1>2, <3>1, <4>2 DEF m
    <3>4. ASSUME NEW i \in 1 .. m, ~Greater(best[i], x) PROVE FALSE
      <4>1. Greater(x, best[i])
        BY <3>4, <1>6, <2>1, <2>2, GreaterOrder
      <4>2. p[i] \notin D
        <5>1. p[i] \in D => Greater(best[i], x)
          BY <3>1, <1>6
        <5> QED
          BY <5>1, <3>4
      <4> DEFINE P == {p[k] : k \in 1 .. m}
      <4>3. \E d \in D : d \notin P
        <5> SUFFICES ASSUME D \subseteq P PROVE FALSE
          OBVIOUS
        <5>1. IsFiniteSet(1 .. m) /\ Cardinality(1 .. m) = m
          BY <1>3, FS_Interval
        <5>2. p \in Surjection(1 .. m, P)
          BY <1>4 DEF Surjection
        <5>3. IsFiniteSet(P) /\ Cardinality(P) <= m
          BY <5>1, <5>2, FS_Surjection
        <5>4. D \in SUBSET (P \ {p[i]}) /\ p[i] \in P
          BY <4>2
        <5> HIDE DEF P
        <5>5. IsFiniteSet(P \ {p[i]}) /\ Cardinality(P \ {p[i]}) = Cardinality(P) - 1
          BY <5>3, <5>4, FS_RemoveElement
        <5>6. Cardinality(D) <= Cardinality(P) - 1
          <6> DEFINE Q == P \ {p[i]}
          <6>1. D \in SUBSET Q /\ IsFiniteSet(Q) /\ Cardinality(Q) = Cardinality(P) - 1
            BY <5>4, <5>5
          <6> HIDE DEF Q
          <6>2. Cardinality(D) <= Cardinality(Q)
            BY <6>1, FS_Subset
          <6> QED
            BY <6>1, <6>2
        <5>7. Cardinality(P) \in Nat
          BY <5>3, FS_CardinalityType
        <5> QED
          BY <1>1, <3>1, <3>3, <5>3, <5>6, <5>7
      <4>4. PICK d \in D : d \notin P
        BY <4>3
      <4>5. d \in (1 .. N) \ ToSet(p)
        <5>1. DOMAIN p = 1 .. m
          BY <1>4
        <5> QED
          BY <3>1, <4>4, <5>1 DEF ToSet
      <4>6. ~Greater(result[d], best[i]) /\ Greater(result[d], x)
        BY <1>4, <1>6, <3>1, <4>4, <4>5
      <4>7. result[d] \in Pairs(nd, lines)
        BY <1>2, <4>5 DEF N
      <4> QED
        BY <4>1, <4>6, <4>7, <1>6, <2>1, GreaterOrder
    <3> QED
      BY <1>6, <3>3, <3>4 DEF x
  <2> QED
    BY <2>3, <2>4, <2>5
<1> QED
  BY <1>3, <1>6, <1>8, <1>9, <1>10 DEF Answered

(* Every state below another one is the same or is below a child of it. *)
LEMMA BelowChild ==
  ASSUME NEW nd, NEW lines, Full(nd, lines), NEW s \in 1 .. Len(nd), NEW t \in 1 .. Len(nd),
         Below(nd, s, t), t # s
  PROVE  \E c \in 1 .. Len(nd) : Child(nd, s, c) /\ Below(nd, c, t)
<1>1. /\ lines \in Seq(Word) /\ nd \in Seq(Word)
      /\ \A i, j \in 1 .. Len(nd) : nd[i] = nd[j] => i = j
      /\ \A j \in 1 .. Len(nd) : nd[j] # Root => InTrie(nd[j], lines)
  BY DEF Full, TrieOK
<1>2. nd[s] \in Word /\ nd[t] \in Word /\ nd[s] # nd[t] /\ IsPrefix(nd[s], nd[t])
  BY <1>1 DEF Below
<1> DEFINE c == nd[t][Len(nd[s]) + 1]
           q == Longer(nd[s], c)
<1>3. c \in ToSet(Chars) /\ IsPrefix(q, nd[t])
  BY <1>2, PrefixNext
<1>4. q \in Word /\ q # Root /\ Front(q) = nd[s]
  BY <1>2, <1>3, LongerFacts
<1>5. nd[t] # Root
  <2>1. Len(nd[t]) # 0
    <3>1. Len(q) <= Len(nd[t]) /\ Len(q) \in Nat /\ Len(q) = Len(nd[s]) + 1 /\ Len(nd[s]) \in Nat
      BY <1>2, <1>3, <1>4, PrefixPointwise, LongerFacts
    <3> QED
      BY <3>1
  <2> QED
    BY <2>1 DEF Root
<1>6. InTrie(q, lines)
  BY <1>1, <1>2, <1>3, <1>4, <1>5, InTriePrefix
<1> HIDE DEF q
<1>7. PICK k \in 1 .. Len(nd) : nd[k] = q
  BY <1>4, <1>6, FullFacts
<1> QED
  BY <1>3, <1>4, <1>7 DEF Child, Below

(* A child is strictly below, and two children have nothing below both. *)
LEMMA ChildFacts ==
  ASSUME NEW nd, NEW lines, Full(nd, lines), NEW s \in 1 .. Len(nd), NEW c \in 1 .. Len(nd),
         Child(nd, s, c)
  PROVE  /\ Below(nd, s, c) /\ ~Below(nd, c, s)
         /\ \A t \in 1 .. Len(nd) : Below(nd, c, t) => Below(nd, s, t)
         /\ \A d, t \in 1 .. Len(nd) :
              Child(nd, s, d) /\ Below(nd, c, t) /\ Below(nd, d, t) => c = d
<1>1. /\ nd \in Seq(Word)
      /\ \A i, j \in 1 .. Len(nd) : nd[i] = nd[j] => i = j
  BY DEF Full, TrieOK
<1>2. \A k \in 1 .. Len(nd) :
        Child(nd, s, k) => /\ IsPrefix(nd[s], nd[k]) /\ Len(nd[k]) = Len(nd[s]) + 1
                           /\ Len(nd[s]) \in Nat
  <2> SUFFICES ASSUME NEW k \in 1 .. Len(nd), Child(nd, s, k)
               PROVE  /\ IsPrefix(nd[s], nd[k]) /\ Len(nd[k]) = Len(nd[s]) + 1
                      /\ Len(nd[s]) \in Nat
    OBVIOUS
  <2>1. nd[k] \in Word /\ nd[k] # Root /\ Front(nd[k]) = nd[s]
    BY <1>1 DEF Child
  <2>2. /\ Len(nd[k]) \in Nat \ {0} /\ Len(Front(nd[k])) = Len(nd[k]) - 1
        /\ IsPrefix(Front(nd[k]), nd[k])
    BY <2>1, FrontFacts
  <2> QED
    BY <2>1, <2>2
<1>3. \A k \in 1 .. Len(nd) : nd[k] \in Word
  BY <1>1
<1>4. Below(nd, s, c) /\ ~Below(nd, c, s)
  <2>1. ~(Len(nd[c]) <= Len(nd[s]))
    BY <1>2
  <2>2. ~IsPrefix(nd[c], nd[s])
    BY <2>1, <1>3, PrefixPointwise
  <2> QED
    BY <1>2, <2>2 DEF Below
<1>5. ASSUME NEW t \in 1 .. Len(nd), Below(nd, c, t) PROVE Below(nd, s, t)
  BY <1>2, <1>3, <1>5, PrefixOrder DEF Below
<1>6. ASSUME NEW d \in 1 .. Len(nd), NEW t \in 1 .. Len(nd), Child(nd, s, d),
             Below(nd, c, t), Below(nd, d, t)
      PROVE  c = d
  <2>1. Len(nd[c]) = Len(nd[d])
    BY <1>2, <1>6
  <2>2. nd[c] = nd[d]
    BY <1>3, <1>6, <2>1, PrefixOrder DEF Below
  <2> QED
    BY <1>1, <2>2
<1> QED
  BY <1>4, <1>5, <1>6

(* A call begins with the state's own query, and all of its children to do. *)
LEMMA NewFrame ==
  ASSUME Full(nodes, log), VectorsOK(nodes, counts, queries, Len(nodes), log),
         NEW s \in 1 .. Len(nodes), NEW comp
  PROVE  /\ FrameOK(nodes, log, s, ChildStates(nodes, s), Own(s))
         /\ \A t \in 1 .. Len(nodes) :
              Below(nodes, s, t) /\ t # s =>
                \E i \in 1 .. Len(ChildStates(nodes, s)) : Below(nodes, ChildStates(nodes, s)[i], t)
<1> DEFINE L == Len(nodes)
           all == [t \in 1 .. L |-> t]
           T == {t \in DOMAIN nodes : nodes[t] # Root /\ Front(nodes[t]) = nodes[s]}
           todo == ChildStates(nodes, s)
           own == Own(s)
<1>1. /\ log \in Seq(Word) /\ nodes \in Seq(Word) /\ L \in Nat /\ DOMAIN nodes = 1 .. L
      /\ nodes[s] \in Word
  BY DEF Full, TrieOK
<1>2. ChosenUpTo(1 .. L, all, T, L, todo)
  <2>1. all \in Seq(1 .. L) /\ Len(all) = L /\ \A i, j \in 1 .. L : all[i] = all[j] => i = j
    BY <1>1
  <2>2. todo = Chosen(all, T)
    BY DEF ChildStates
  <2> HIDE DEF all, T, todo
  <2>3. ChosenUpTo(1 .. L, all, T, Len(all), Chosen(all, T))
    BY <2>1, ChosenFacts
  <2> QED
    BY <2>1, <2>2, <2>3
<1>3. \A t \in 1 .. L : all[t] = t /\ (t \in T <=> Child(nodes, s, t))
  BY <1>1 DEF Child
<1> HIDE DEF all, T, todo
<1>4. /\ todo \in Seq(1 .. L) /\ Len(todo) \in Nat
      /\ \A i \in 1 .. Len(todo) : todo[i] \in 1 .. L
      /\ \A i, j \in 1 .. Len(todo) : todo[i] = todo[j] => i = j
  <2>1. todo \in Seq(1 .. L) /\ \A i, j \in 1 .. Len(todo) : todo[i] = todo[j] => i = j
    BY <1>2 DEF ChosenUpTo
  <2> QED
    BY <2>1
<1>5. /\ \A i \in 1 .. Len(todo) : Child(nodes, s, todo[i])
      /\ \A t \in 1 .. L : Child(nodes, s, t) => \E i \in 1 .. Len(todo) : todo[i] = t
  <2>1. \A i \in 1 .. Len(todo) : todo[i] \in T
    BY <1>2, <1>3 DEF ChosenUpTo
  <2>2. \A t \in 1 .. L : t \in T => \E i \in 1 .. Len(todo) : todo[i] = t
    <3>1. \A t \in 1 .. L : all[t] \in T => \E i \in 1 .. Len(todo) : todo[i] = all[t]
      BY <1>2 DEF ChosenUpTo
    <3> QED
      BY <3>1, <1>3
  <2> QED
    BY <1>3, <1>4, <2>1, <2>2
<1>6. \A t \in 1 .. L : Below(nodes, s, t) /\ t # s =>
        \E i \in 1 .. Len(todo) : Below(nodes, todo[i], t)
  <2> SUFFICES ASSUME NEW t \in 1 .. L, Below(nodes, s, t), t # s
               PROVE  \E i \in 1 .. Len(todo) : Below(nodes, todo[i], t)
    OBVIOUS
  <2>1. PICK c \in 1 .. L : Child(nodes, s, c) /\ Below(nodes, c, t)
    BY BelowChild
  <2> QED
    BY <2>1, <1>5
<1>7. queries[s] # Root <=> IsQuery(nodes, log, s)
  <2>1. queries[s] = IF Frequency(nodes[s], log) > 0 THEN nodes[s] ELSE Root
    BY <1>1 DEF VectorsOK
  <2> QED
    BY <2>1 DEF IsQuery
<1>8. counts[s] = Frequency(nodes[s], log)
  BY <1>1 DEF VectorsOK
<1>9. /\ own \in Seq(Pairs(nodes, log)) /\ Len(own) \in {0, 1}
      /\ \A i \in 1 .. Len(own) : own[i].idx = s /\ IsQuery(nodes, log, s)
      /\ IsQuery(nodes, log, s) => Has(own, s)
  <2> DEFINE x == Pair(nodes, log, s)
  <2>1. x \in Pairs(nodes, log) /\ x.idx = s
    BY <1>1, PairFacts
  <2>2. own = IF IsQuery(nodes, log, s) THEN <<x>> ELSE <<>>
    BY <1>7, <1>8 DEF Own, Pair
  <2> HIDE DEF x, own
  <2>3. CASE IsQuery(nodes, log, s)
    <3>1. own = <<x>> /\ Len(own) = 1 /\ own[1] = x
      BY <2>2, <2>3
    <3>2. own \in Seq(Pairs(nodes, log))
      BY <2>1, <3>1
    <3>3. \A i \in 1 .. Len(own) : i = 1
      BY <3>1
    <3> QED
      BY <2>1, <2>3, <3>1, <3>2, <3>3 DEF Has
  <2>4. CASE ~IsQuery(nodes, log, s)
    BY <2>2, <2>4
  <2> QED
    BY <2>3, <2>4
<1> HIDE DEF own
<1>10. ListOK(nodes, log, s, own)
  <2>1. Below(nodes, s, s)
    BY <1>1, PrefixOrder DEF Below
  <2>2. \A i, j \in 1 .. Len(own) : i = j
    BY <1>9
  <2> QED
    BY <1>9, <2>1, <2>2 DEF ListOK
<1>11. \A i \in 1 .. Len(todo), j \in 1 .. Len(own) : ~Below(nodes, todo[i], own[j].idx)
  BY <1>4, <1>5, <1>9, ChildFacts
<1>12. \A t \in 1 .. L : IsQuery(nodes, log, t) /\ Below(nodes, s, t) =>
         Has(own, t) \/ \E i \in 1 .. Len(todo) : Below(nodes, todo[i], t)
  BY <1>6, <1>9
<1>13. FrameOK(nodes, log, s, todo, own)
  BY <1>4, <1>5, <1>10, <1>11, <1>12 DEF FrameOK
<1> QED
  BY <1>6, <1>13 DEF todo, own

(* The caller takes over what the call for its next child has found. *)
LEMMA ReturnFrame ==
  ASSUME NEW nd, NEW lines, Full(nd, lines), NEW s, NEW todo, NEW result,
         FrameOK(nd, lines, s, todo, result), todo # <<>>,
         NEW best, Answered(nd, lines, Head(todo), best)
  PROVE  FrameOK(nd, lines, s, Tail(todo), result \o best)
<1> DEFINE h == Head(todo)
           r == result \o best
           rest == Tail(todo)
           P == Pairs(nd, lines)
<1>1. /\ lines \in Seq(Word) /\ nd \in Seq(Word) /\ Len(nd) \in Nat
  BY DEF Full, TrieOK
<1>2. /\ s \in 1 .. Len(nd) /\ todo \in Seq(1 .. Len(nd))
      /\ \A i \in 1 .. Len(todo) : Child(nd, s, todo[i])
      /\ \A i, j \in 1 .. Len(todo) : todo[i] = todo[j] => i = j
  BY DEF FrameOK
<1>3. /\ Len(todo) \in Nat \ {0} /\ 1 \in 1 .. Len(todo)
      /\ \A i \in 1 .. Len(todo) : todo[i] \in 1 .. Len(nd)
      /\ h = todo[1]
  BY <1>2
<1>4. /\ rest \in Seq(1 .. Len(nd)) /\ Len(rest) = Len(todo) - 1
      /\ \A i \in 1 .. Len(rest) : rest[i] = todo[i + 1] /\ i + 1 \in 1 .. Len(todo)
  BY <1>2, <1>3
<1>5. /\ result \in Seq(P) /\ best \in Seq(P)
      /\ \A i \in 1 .. Len(result) :
           IsQuery(nd, lines, result[i].idx) /\ Below(nd, s, result[i].idx)
      /\ \A i \in 1 .. Len(best) :
           IsQuery(nd, lines, best[i].idx) /\ Below(nd, h, best[i].idx)
      /\ \A i, j \in 1 .. Len(result) : result[i].idx = result[j].idx => i = j
      /\ \A i, j \in 1 .. Len(best) : best[i].idx = best[j].idx => i = j
  BY DEF FrameOK, Answered, ListOK
<1>6. /\ \A i \in 1 .. Len(todo), j \in 1 .. Len(result) : ~Below(nd, todo[i], result[j].idx)
      /\ \A t \in 1 .. Len(nd) :
           IsQuery(nd, lines, t) /\ Below(nd, s, t) =>
             \/ Has(result, t)
             \/ \E i \in 1 .. Len(todo) : Below(nd, todo[i], t)
             \/ Beaten(nd, lines, result, t)
  BY DEF FrameOK
<1>7. \A t \in 1 .. Len(nd) :
        IsQuery(nd, lines, t) /\ Below(nd, h, t) =>
          \/ Has(best, t)
          \/ Len(best) = K /\ \A i \in 1 .. Len(best) : Greater(best[i], Pair(nd, lines, t))
  BY DEF Answered
<1>8. Len(result) \in Nat /\ Len(best) \in Nat
  BY <1>5
<1>9. /\ r \in Seq(P) /\ Len(r) = Len(result) + Len(best)
      /\ \A i \in 1 .. Len(result) + Len(best) :
           r[i] = IF i <= Len(result) THEN result[i] ELSE best[i - Len(result)]
  BY <1>5, ConcatProperties
<1> HIDE DEF h, r, rest
<1>10. /\ \A i \in 1 .. Len(result) : r[i] = result[i] /\ i \in 1 .. Len(r)
       /\ \A i \in 1 .. Len(best) : r[Len(result) + i] = best[i] /\ Len(result) + i \in 1 .. Len(r)
  <2>1. \A i \in 1 .. Len(result) : r[i] = result[i] /\ i \in 1 .. Len(r)
    BY <1>8, <1>9
  <2>2. ASSUME NEW i \in 1 .. Len(best)
        PROVE  r[Len(result) + i] = best[i] /\ Len(result) + i \in 1 .. Len(r)
    <3>1. /\ Len(result) + i \in 1 .. Len(result) + Len(best)
          /\ ~(Len(result) + i <= Len(result))
          /\ (Len(result) + i) - Len(result) = i
      BY <1>8
    <3> QED
      BY <3>1, <1>9
  <2> QED
    BY <2>1, <2>2
<1>11. \A j \in 1 .. Len(r) : j \in 1 .. Len(result) \/ \E k \in 1 .. Len(best) : j = Len(result) + k
  <2> SUFFICES ASSUME NEW j \in 1 .. Len(result) + Len(best), j \notin 1 .. Len(result)
               PROVE  \E k \in 1 .. Len(best) : j = Len(result) + k
    BY <1>9
  <2>1. j - Len(result) \in 1 .. Len(best) /\ j = Len(result) + (j - Len(result))
    BY <1>8
  <2> QED
    BY <2>1
<1>12. \A i \in 1 .. Len(result), j \in 1 .. Len(best) : result[i].idx # best[j].idx
  BY <1>3, <1>5, <1>6
<1>13. \A i \in 1 .. Len(best) : best[i].idx \in 1 .. Len(nd) /\ Below(nd, s, best[i].idx)
  BY <1>2, <1>3, <1>5, ChildFacts DEF IsQuery
<1>14. ListOK(nd, lines, s, r)
  <2>1. \A i \in 1 .. Len(r) : IsQuery(nd, lines, r[i].idx) /\ Below(nd, s, r[i].idx)
    <3> SUFFICES ASSUME NEW i \in 1 .. Len(r)
                 PROVE  IsQuery(nd, lines, r[i].idx) /\ Below(nd, s, r[i].idx)
      OBVIOUS
    <3>1. CASE i \in 1 .. Len(result)
      BY <3>1, <1>5, <1>10
    <3>2. CASE i \notin 1 .. Len(result)
      <4>1. PICK k \in 1 .. Len(best) : i = Len(result) + k
        BY <3>2, <1>11
      <4>2. r[i] = best[k]
        BY <4>1, <1>10
      <4> QED
        BY <4>2, <1>5, <1>13
    <3> QED
      BY <3>1, <3>2
  <2>2. \A i, j \in 1 .. Len(r) : r[i].idx = r[j].idx => i = j
    <3> SUFFICES ASSUME NEW i \in 1 .. Len(r), NEW j \in 1 .. Len(r), r[i].idx = r[j].idx
                 PROVE  i = j
      OBVIOUS
    <3>1. CASE i \in 1 .. Len(result) /\ j \in 1 .. Len(result)
      BY <3>1, <1>5, <1>10
    <3>2. CASE i \in 1 .. Len(result) /\ j \notin 1 .. Len(result)
      <4>1. PICK k \in 1 .. Len(best) : j = Len(result) + k
        BY <3>2, <1>11
      <4>2. r[j] = best[k] /\ r[i] = result[i]
        BY <3>2, <4>1, <1>10
      <4> QED
        BY <3>2, <4>2, <1>12
    <3>3. CASE i \notin 1 .. Len(result) /\ j \in 1 .. Len(result)
      <4>1. PICK k \in 1 .. Len(best) : i = Len(result) + k
        BY <3>3, <1>11
      <4>2. r[i] = best[k] /\ r[j] = result[j]
        BY <3>3, <4>1, <1>10
      <4> QED
        BY <3>3, <4>2, <1>12
    <3>4. CASE i \notin 1 .. Len(result) /\ j \notin 1 .. Len(result)
      <4>1. PICK k \in 1 .. Len(best) : i = Len(result) + k
        BY <3>4, <1>11
      <4>2. PICK l \in 1 .. Len(best) : j = Len(result) + l
        BY <3>4, <1>11
      <4>3. best[k].idx = best[l].idx
        BY <4>1, <4>2, <1>10
      <4> QED
        BY <4>1, <4>2, <4>3, <1>5
    <3> QED
      BY <3>1, <3>2, <3>3, <3>4
  <2> QED
    BY <1>9, <2>1, <2>2 DEF ListOK
<1>15. \A i \in 1 .. Len(rest), j \in 1 .. Len(r) : ~Below(nd, rest[i], r[j].idx)
  <2> SUFFICES ASSUME NEW i \in 1 .. Len(rest), NEW j \in 1 .. Len(r),
                      Below(nd, rest[i], r[j].idx)
               PROVE  FALSE
    OBVIOUS
  <2>1. rest[i] = todo[i + 1] /\ i + 1 \in 1 .. Len(todo) /\ i + 1 # 1
    BY <1>3, <1>4
  <2>2. j \notin 1 .. Len(result)
    BY <2>1, <1>6, <1>10
  <2>3. PICK k \in 1 .. Len(best) : j = Len(result) + k
    BY <2>2, <1>11
  <2>4. Below(nd, rest[i], best[k].idx) /\ Below(nd, h, best[k].idx)
    BY <2>3, <1>5, <1>10
  <2>5. rest[i] = h
    <3>1. /\ rest[i] \in 1 .. Len(nd) /\ Child(nd, s, rest[i])
          /\ h \in 1 .. Len(nd) /\ Child(nd, s, h) /\ best[k].idx \in 1 .. Len(nd)
      BY <2>1, <1>2, <1>3, <1>13
    <3>2. \A d, t \in 1 .. Len(nd) : Child(nd, s, d) /\ Below(nd, h, t) /\ Below(nd, d, t) => h = d
      BY <3>1, <1>2, ChildFacts
    <3> QED
      BY <3>1, <3>2, <2>4
  <2> QED
    BY <2>1, <2>5, <1>2, <1>3
<1>16. \A i, j \in 1 .. Len(rest) : rest[i] = rest[j] => i = j
  <2> SUFFICES ASSUME NEW i \in 1 .. Len(rest), NEW j \in 1 .. Len(rest), rest[i] = rest[j]
               PROVE  i = j
    OBVIOUS
  <2>1. i + 1 = j + 1
    BY <1>2, <1>4
  <2>2. Len(rest) \in Nat
    BY <1>3, <1>4
  <2> QED
    BY <2>1, <2>2
<1>17. ASSUME NEW t \in 1 .. Len(nd), IsQuery(nd, lines, t), Below(nd, s, t), ~Has(r, t),
              \A i \in 1 .. Len(rest) : ~Below(nd, rest[i], t)
       PROVE  Beaten(nd, lines, r, t)
  <2>1. ~Has(result, t) /\ ~Has(best, t)
    BY <1>10, <1>17 DEF Has
  <2>2. CASE Beaten(nd, lines, result, t)
    <3>1. PICK D \in SUBSET (1 .. Len(result)) :
            Cardinality(D) = K /\ \A d \in D : Greater(result[d], Pair(nd, lines, t))
      BY <2>2 DEF Beaten
    <3>2. D \in SUBSET (1 .. Len(r)) /\ \A d \in D : Greater(r[d], Pair(nd, lines, t))
      BY <3>1, <1>10
    <3> QED
      BY <3>1, <3>2 DEF Beaten
  <2>3. CASE \E i \in 1 .. Len(todo) : Below(nd, todo[i], t)
    <3>1. PICK i \in 1 .. Len(todo) : Below(nd, todo[i], t)
      BY <2>3
    <3>2. i = 1
      <4> SUFFICES ASSUME i # 1 PROVE FALSE
        OBVIOUS
      <4>1. i - 1 \in 1 .. Len(rest) /\ (i - 1) + 1 = i
        BY <1>3, <1>4
      <4> QED
        BY <3>1, <4>1, <1>4, <1>17
    <3>3. Len(best) = K /\ \A j \in 1 .. Len(best) : Greater(best[j], Pair(nd, lines, t))
      BY <2>1, <3>1, <3>2, <1>3, <1>7, <1>17
    <3> DEFINE D == (Len(result) + 1) .. (Len(result) + Len(best))
    <3>4. Cardinality(D) = K
      <4>1. Cardinality(D) =
              IF Len(result) + 1 > Len(result) + Len(best) THEN 0
              ELSE (Len(result) + Len(best)) - (Len(result) + 1) + 1
        <5>1. Len(result) + 1 \in Int /\ Len(result) + Len(best) \in Int
          BY <1>8
        <5> QED
          BY <5>1, FS_Interval
      <4> QED
        BY <4>1, <3>3, <1>8
    <3>5. \A d \in D : d \in 1 .. Len(r) /\ Greater(r[d], Pair(nd, lines, t))
      <4> SUFFICES ASSUME NEW d \in D
                   PROVE  d \in 1 .. Len(r) /\ Greater(r[d], Pair(nd, lines, t))
        OBVIOUS
      <4>1. d - Len(result) \in 1 .. Len(best) /\ d = Len(result) + (d - Len(result))
        BY <1>8
      <4>2. r[d] = best[d - Len(result)] /\ d \in 1 .. Len(r)
        BY <4>1, <1>10
      <4> QED
        BY <4>1, <4>2, <3>3
    <3> HIDE DEF D
    <3> QED
      BY <3>4, <3>5 DEF Beaten
  <2> QED
    BY <2>1, <2>2, <2>3, <1>6, <1>17
<1>18. \A i \in 1 .. Len(rest) : Child(nd, s, rest[i])
  BY <1>2, <1>4
<1>19. FrameOK(nd, lines, s, rest, r)
  BY <1>2, <1>4, <1>14, <1>15, <1>16, <1>17, <1>18 DEF FrameOK
<1> QED
  BY <1>19 DEF rest, r
-----------------------------------------------------------------------------
(* The calls of TopK *)

\* What is below s has been answered or is below a state still to be called for.
RestOK(nd, lines, comp, s, todo) ==
  \A t \in 1 .. Len(nd) :
    Below(nd, s, t) /\ t # s =>
      \/ Answered(nd, lines, t, comp[t])
      \/ \E i \in 1 .. Len(todo) : Below(nd, todo[i], t)

Frames(nd, lines) ==
  [state : 1 .. Len(nd), todo : Seq(1 .. Len(nd)), result : Seq(Pairs(nd, lines))]

GoodFrame(nd, lines, comp, f) ==
  /\ f \in Frames(nd, lines)
  /\ FrameOK(nd, lines, f.state, f.todo, f.result)
  /\ RestOK(nd, lines, comp, f.state, f.todo)

\* stk[i + 1] is the call for the first state that stk[i] has to do.
StackOK(nd, lines, stk, comp) ==
  /\ DOMAIN comp = 1 .. Len(nd)
  /\ stk \in Seq(Frames(nd, lines))
  /\ \A i \in 1 .. Len(stk) : GoodFrame(nd, lines, comp, stk[i])
  /\ stk # <<>> => stk[1].state = 1
  /\ \A i \in 1 .. Len(stk) - 1 : /\ stk[i].todo # <<>>
                                  /\ Head(stk[i].todo) = stk[i + 1].state
  /\ stk = <<>> => \A t \in 1 .. Len(nd) : Answered(nd, lines, t, comp[t])

(* A call of TopK begins with its own query and all children to do. *)
LEMMA FrameIsGood ==
  ASSUME Full(nodes, log), VectorsOK(nodes, counts, queries, Len(nodes), log),
         NEW s \in 1 .. Len(nodes), NEW comp
  PROVE  GoodFrame(nodes, log, comp, Frame(nodes, s)) /\ Frame(nodes, s).state = s
<1> DEFINE f == Frame(nodes, s)
<1>1. f = [state |-> s, todo |-> ChildStates(nodes, s), result |-> Own(s)]
  BY DEF Frame
<1>2. f.state = s /\ f.todo = ChildStates(nodes, s) /\ f.result = Own(s)
  BY <1>1
<1>3. /\ FrameOK(nodes, log, s, ChildStates(nodes, s), Own(s))
      /\ RestOK(nodes, log, comp, s, ChildStates(nodes, s))
  BY NewFrame DEF RestOK
<1>4. ChildStates(nodes, s) \in Seq(1 .. Len(nodes)) /\ Own(s) \in Seq(Pairs(nodes, log))
  BY <1>3 DEF FrameOK, ListOK
<1>5. f \in Frames(nodes, log)
  BY <1>1, <1>4 DEF Frames
<1> HIDE DEF f
<1>6. GoodFrame(nodes, log, comp, f)
  BY <1>2, <1>3, <1>5 DEF GoodFrame
<1> QED
  BY <1>2, <1>6 DEF f

(* FindCompletions calls TopK for the start state. *)
LEMMA StackStart ==
  ASSUME Full(nodes, log), VectorsOK(nodes, counts, queries, Len(nodes), log),
         NEW comp, DOMAIN comp = 1 .. Len(nodes)
  PROVE  StackOK(nodes, log, <<Frame(nodes, 1)>>, comp)
<1> DEFINE f == Frame(nodes, 1)
           stk == <<f>>
<1>1. 1 \in 1 .. Len(nodes)
  BY DEF Full, TrieOK
<1>2. GoodFrame(nodes, log, comp, f) /\ f.state = 1
  BY <1>1, FrameIsGood
<1>3. f \in Frames(nodes, log)
  BY <1>2 DEF GoodFrame
<1> HIDE DEF f
<1>4. stk \in Seq(Frames(nodes, log)) /\ Len(stk) = 1 /\ stk[1] = f /\ stk # <<>>
  BY <1>3
<1> HIDE DEF stk
<1>5. \A i \in 1 .. Len(stk) : stk[i] = f
  BY <1>4
<1>6. 1 .. Len(stk) - 1 = {}
  BY <1>4
<1>7. StackOK(nodes, log, stk, comp)
  BY <1>2, <1>4, <1>5, <1>6 DEF StackOK
<1> QED
  BY <1>7 DEF stk, f

(* TopK calls itself for the next child. *)
LEMMA StackCall ==
  ASSUME Full(nodes, log), VectorsOK(nodes, counts, queries, Len(nodes), log),
         NEW stk, NEW comp, StackOK(nodes, log, stk, comp), stk # <<>>,
         stk[Len(stk)].todo # <<>>
  PROVE  StackOK(nodes, log, Append(stk, Frame(nodes, Head(stk[Len(stk)].todo))), comp)
<1> DEFINE n == Len(stk)
           h == Head(stk[n].todo)
           f == Frame(nodes, h)
           new == Append(stk, f)
           F == Frames(nodes, log)
<1>1. /\ stk \in Seq(F) /\ DOMAIN comp = 1 .. Len(nodes)
      /\ \A i \in 1 .. n : GoodFrame(nodes, log, comp, stk[i])
      /\ stk[1].state = 1
      /\ \A i \in 1 .. n - 1 : stk[i].todo # <<>> /\ Head(stk[i].todo) = stk[i + 1].state
  BY DEF StackOK
<1>2. n \in Nat \ {0} /\ n \in 1 .. n
  BY <1>1
<1>3. h \in 1 .. Len(nodes)
  <2>1. stk[n].todo \in Seq(1 .. Len(nodes))
    BY <1>1, <1>2 DEF GoodFrame, FrameOK
  <2> QED
    BY <2>1
<1>4. GoodFrame(nodes, log, comp, f) /\ f.state = h
  BY <1>3, FrameIsGood
<1>5. f \in F
  BY <1>4 DEF GoodFrame
<1> HIDE DEF f, h
<1>6. /\ new \in Seq(F) /\ Len(new) = n + 1 /\ new[n + 1] = f
      /\ \A i \in 1 .. n : new[i] = stk[i]
  BY <1>1, <1>5, AppendProperties
<1> HIDE DEF new, F, n
<1>7. \A i \in 1 .. n + 1 : i \in 1 .. n \/ i = n + 1
  BY <1>2
<1>8. \A i \in 1 .. Len(new) : GoodFrame(nodes, log, comp, new[i])
  BY <1>1, <1>4, <1>6, <1>7
<1>9. new # <<>> /\ new[1].state = 1
  BY <1>1, <1>2, <1>6
<1>10. \A i \in 1 .. Len(new) - 1 : new[i].todo # <<>> /\ Head(new[i].todo) = new[i + 1].state
  <2> SUFFICES ASSUME NEW i \in 1 .. n
               PROVE  new[i].todo # <<>> /\ Head(new[i].todo) = new[i + 1].state
    BY <1>2, <1>6
  <2>1. CASE i = n
    BY <2>1, <1>2, <1>4, <1>6 DEF n, h
  <2>2. CASE i # n
    <3>1. i \in 1 .. n - 1 /\ i + 1 \in 1 .. n
      BY <2>2, <1>2
    <3> QED
      BY <3>1, <1>1, <1>6
  <2> QED
    BY <2>1, <2>2
<1>11. StackOK(nodes, log, new, comp)
  BY <1>1, <1>6, <1>8, <1>9, <1>10 DEF StackOK, F
<1> QED
  BY <1>11 DEF new, f, h, n

(* The calls below the last one. *)
LEMMA CallersFacts ==
  ASSUME NEW F, NEW stk \in Seq(F), Len(stk) \in Nat \ {0}
  PROVE  /\ Front(stk) \in Seq(F) /\ Len(Front(stk)) = Len(stk) - 1
         /\ \A i \in 1 .. Len(stk) - 1 : Front(stk)[i] = stk[i]
<1>1. Front(stk) = SubSeq(stk, 1, Len(stk) - 1)
  BY DEF Front
<1>2. \A k \in 0 .. Len(stk) : /\ SubSeq(stk, 1, k) \in Seq(F) /\ Len(SubSeq(stk, 1, k)) = k
                              /\ \A i \in 1 .. k : SubSeq(stk, 1, k)[i] = stk[i]
  OBVIOUS
<1>3. Len(stk) - 1 \in 0 .. Len(stk)
  OBVIOUS
<1> QED
  BY <1>1, <1>2, <1>3

(* A call returns. *)
LEMMA StackReturn ==
  ASSUME NEW nd, NEW lines, Full(nd, lines), NEW stk, NEW comp, StackOK(nd, lines, stk, comp),
         stk # <<>>, stk[Len(stk)].todo = <<>>, NEW best \in Best(stk[Len(stk)].result)
  PROVE  LET callers == Front(stk) IN
         StackOK(nd, lines,
                 IF callers = <<>> THEN <<>>
                 ELSE [callers EXCEPT ![Len(callers)] =
                         [state |-> @.state, todo |-> Tail(@.todo), result |-> @.result \o best]],
                 [comp EXCEPT ![stk[Len(stk)].state] = best])
<1> DEFINE n == Len(stk)
           f == stk[n]
           callers == Front(stk)
           new == IF callers = <<>> THEN <<>>
                  ELSE [callers EXCEPT ![Len(callers)] =
                          [state |-> @.state, todo |-> Tail(@.todo), result |-> @.result \o best]]
           comp2 == [comp EXCEPT ![f.state] = best]
           F == Frames(nd, lines)
           P == Pairs(nd, lines)
<1>1. /\ stk \in Seq(F) /\ DOMAIN comp = 1 .. Len(nd)
      /\ \A i \in 1 .. n : GoodFrame(nd, lines, comp, stk[i])
      /\ stk[1].state = 1
      /\ \A i \in 1 .. n - 1 : stk[i].todo # <<>> /\ Head(stk[i].todo) = stk[i + 1].state
  BY DEF StackOK
<1>2. /\ lines \in Seq(Word) /\ nd \in Seq(Word) /\ nd[1] = Root /\ 1 \in 1 .. Len(nd)
      /\ Len(nd) \in Nat
  BY DEF Full, TrieOK
<1>3. n \in Nat \ {0} /\ n \in 1 .. n
  BY <1>1
<1>4. /\ FrameOK(nd, lines, f.state, f.todo, f.result) /\ RestOK(nd, lines, comp, f.state, f.todo)
      /\ f.state \in 1 .. Len(nd)
  BY <1>1, <1>3 DEF GoodFrame, FrameOK
<1>5. Answered(nd, lines, f.state, best)
  <2>1. Len(f.todo) = 0
    OBVIOUS
  <2> QED
    BY <1>2, <1>4, <2>1, BestIsAnswer
<1>6. /\ DOMAIN comp2 = 1 .. Len(nd)
      /\ \A t \in 1 .. Len(nd) : comp2[t] = IF t = f.state THEN best ELSE comp[t]
  BY <1>1, <1>4
<1>7. \A i \in 1 .. Len(f.todo) : FALSE
  OBVIOUS
<1>8. callers \in Seq(F) /\ Len(callers) = n - 1 /\ \A i \in 1 .. n - 1 : callers[i] = stk[i]
  <2> HIDE DEF F
  <2> QED
    BY <1>1, <1>3, CallersFacts
<1> HIDE DEF f, comp2, n, F, callers
<1>9. \A t \in 1 .. Len(nd) :
        Answered(nd, lines, t, comp[t]) => Answered(nd, lines, t, comp2[t])
  BY <1>5, <1>6
<1>10. \A t \in 1 .. Len(nd) : Below(nd, f.state, t) => Answered(nd, lines, t, comp2[t])
  BY <1>4, <1>5, <1>6, <1>7, <1>9 DEF RestOK
<1>11. CASE n = 1
  <2>1. callers = <<>>
    BY <1>8, <1>11, EmptySeq
  <2>2. f.state = 1
    BY <1>1, <1>11 DEF f
  <2>3. \A t \in 1 .. Len(nd) : Below(nd, 1, t)
    BY <1>2, PrefixOrder DEF Below
  <2>4. \A t \in 1 .. Len(nd) : Answered(nd, lines, t, comp2[t])
    BY <1>10, <2>2, <2>3
  <2>5. new = <<>>
    BY <2>1
  <2> HIDE DEF new
  <2>6. new \in Seq(F) /\ Len(new) = 0
    BY <2>5
  <2>7. StackOK(nd, lines, new, comp2)
    BY <1>6, <2>4, <2>5, <2>6 DEF StackOK, F
  <2> QED
    BY <2>7 DEF new, callers, comp2, f, n
<1>12. CASE n # 1
  <2> DEFINE m == n - 1
             g == stk[m]
             h == [state |-> g.state, todo |-> Tail(g.todo), result |-> g.result \o best]
  <2>1. m \in Nat \ {0} /\ m \in 1 .. n /\ m \in 1 .. n - 1 /\ m + 1 = n
    BY <1>3, <1>12
  <2>2. /\ g \in F /\ GoodFrame(nd, lines, comp, g) /\ g.todo # <<>>
        /\ Head(g.todo) = f.state
    BY <1>1, <2>1 DEF f, n
  <2>3. callers # <<>> /\ Len(callers) = m /\ callers[m] = g
    BY <1>8, <2>1
  <2>4. new = [callers EXCEPT ![m] = h]
    <3> HIDE DEF g
    <3> QED
      BY <2>3
  <2> HIDE DEF new
  <2>5. /\ FrameOK(nd, lines, g.state, g.todo, g.result)
        /\ RestOK(nd, lines, comp, g.state, g.todo)
    BY <2>2 DEF GoodFrame
  <2>6. FrameOK(nd, lines, g.state, Tail(g.todo), g.result \o best)
    <3> HIDE DEF g
    <3>1. Answered(nd, lines, Head(g.todo), best)
      BY <1>5, <2>2
    <3> QED
      BY <2>2, <2>5, <3>1, ReturnFrame
  <2>7. h.state = g.state /\ h.todo = Tail(g.todo) /\ h.result = g.result \o best
    OBVIOUS
  <2>8. h \in F
    <3>1. /\ g.state \in 1 .. Len(nd) /\ Tail(g.todo) \in Seq(1 .. Len(nd))
          /\ g.result \o best \in Seq(P)
      BY <2>6 DEF FrameOK, ListOK
    <3> QED
      BY <3>1 DEF F, Frames
  <2>9. RestOK(nd, lines, comp2, g.state, Tail(g.todo))
    <3> SUFFICES ASSUME NEW t \in 1 .. Len(nd), Below(nd, g.state, t), t # g.state,
                        \A i \in 1 .. Len(Tail(g.todo)) : ~Below(nd, Tail(g.todo)[i], t)
                 PROVE  Answered(nd, lines, t, comp2[t])
      BY DEF RestOK
    <3>1. CASE Answered(nd, lines, t, comp[t])
      BY <3>1, <1>9
    <3>2. CASE \E i \in 1 .. Len(g.todo) : Below(nd, g.todo[i], t)
      <4>1. PICK i \in 1 .. Len(g.todo) : Below(nd, g.todo[i], t)
        BY <3>2
      <4>2. g.todo \in Seq(1 .. Len(nd))
        BY <2>5 DEF FrameOK
      <4> DEFINE todo == g.todo
      <4> HIDE DEF todo
      <4>3. i = 1
        <5> SUFFICES ASSUME i # 1 PROVE FALSE
          OBVIOUS
        <5>1. todo \in Seq(1 .. Len(nd)) /\ i \in 1 .. Len(todo) /\ i \in Nat
          BY <4>1, <4>2 DEF todo
        <5>2. i - 1 \in 1 .. Len(Tail(todo)) /\ Tail(todo)[i - 1] = todo[i]
          BY <5>1
        <5> QED
          BY <4>1, <5>2 DEF todo
      <4>4. Head(todo) = todo[1]
        BY <4>2 DEF todo
      <4> QED
        BY <1>10, <2>2, <4>1, <4>3, <4>4 DEF todo
    <3> QED
      BY <2>5, <3>1, <3>2 DEF RestOK
  <2>10. GoodFrame(nd, lines, comp2, h)
    <3> HIDE DEF h
    <3> QED
      BY <2>6, <2>7, <2>8, <2>9 DEF GoodFrame, F
  <2> HIDE DEF h, g, m
  <2>11. /\ new \in Seq(F) /\ Len(new) = m /\ new[m] = h
         /\ \A i \in 1 .. m : i # m => new[i] = stk[i]
    <3>1. m \in 1 .. Len(callers)
      BY <2>1, <2>3
    <3>2. /\ [callers EXCEPT ![m] = h] \in Seq(F)
          /\ Len([callers EXCEPT ![m] = h]) = Len(callers)
          /\ \A j \in 1 .. Len(callers) :
               [callers EXCEPT ![m] = h][j] = IF j = m THEN h ELSE callers[j]
      BY <1>8, <2>8, <3>1, ExceptSeq
    <3>3. m = n - 1
      BY DEF m
    <3> QED
      BY <1>8, <2>3, <2>4, <3>1, <3>2, <3>3
  <2>12. \A i \in 1 .. m : i \in 1 .. n
    BY <1>3, <2>1
  <2>13. \A i \in 1 .. Len(new) : GoodFrame(nd, lines, comp2, new[i])
    <3> SUFFICES ASSUME NEW i \in 1 .. m PROVE GoodFrame(nd, lines, comp2, new[i])
      BY <2>11
    <3>1. CASE i = m
      BY <3>1, <2>10, <2>11
    <3>2. CASE i # m
      <4>1. new[i] = stk[i] /\ GoodFrame(nd, lines, comp, stk[i])
        BY <3>2, <1>1, <2>11, <2>12
      <4>2. RestOK(nd, lines, comp2, stk[i].state, stk[i].todo)
        BY <4>1, <1>9 DEF GoodFrame, RestOK
      <4> QED
        BY <4>1, <4>2 DEF GoodFrame
    <3> QED
      BY <3>1, <3>2
  <2>14. new # <<>> /\ new[1].state = 1
    <3>1. 1 \in 1 .. m
      BY <2>1
    <3>2. CASE m = 1
      BY <3>2, <1>1, <2>1, <2>7, <2>11 DEF g
    <3>3. CASE m # 1
      BY <3>1, <3>3, <1>1, <2>1, <2>11
    <3>4. new # <<>>
      BY <2>1, <2>11
    <3> QED
      BY <3>2, <3>3, <3>4
  <2>15. \A i \in 1 .. Len(new) - 1 : new[i].todo # <<>> /\ Head(new[i].todo) = new[i + 1].state
    <3> SUFFICES ASSUME NEW i \in 1 .. m - 1
                 PROVE  new[i].todo # <<>> /\ Head(new[i].todo) = new[i + 1].state
      BY <2>11
    <3>1. i \in 1 .. m /\ i # m /\ i + 1 \in 1 .. m /\ i \in 1 .. n - 1
      BY <2>1
    <3>2. new[i] = stk[i]
      BY <3>1, <2>11
    <3>3. new[i + 1].state = stk[i + 1].state
      <4>1. CASE i + 1 = m
        BY <4>1, <2>7, <2>11 DEF g
      <4>2. CASE i + 1 # m
        BY <4>2, <3>1, <2>11
      <4> QED
        BY <4>1, <4>2
    <3> QED
      BY <3>1, <3>2, <3>3, <1>1
  <2>16. StackOK(nd, lines, new, comp2)
    BY <1>6, <2>11, <2>13, <2>14, <2>15 DEF StackOK, F
  <2> QED
    BY <2>16 DEF new, callers, comp2, f, n
<1> QED
  BY <1>11, <1>12
-----------------------------------------------------------------------------
(* The calls of TopK in any trie of the right size *)

PairsTo(n) == [count : Nat, idx : 1 .. n]
FramesTo(n) == [state : 1 .. n, todo : Seq(1 .. n), result : Seq(PairsTo(n))]

\* Calls and completions name no state beyond n.
RangeOK(n, stk, comp) ==
  /\ stk \in Seq(FramesTo(n))
  /\ \A i \in 1 .. Len(stk) - 1 : stk[i].todo # <<>>
  /\ comp \in [1 .. n -> Seq(PairsTo(n))]

(* A call of TopK in a trie with as many states as were counted. *)
LEMMA FrameInRange ==
  ASSUME Full(nodes, log), VectorsOK(nodes, counts, queries, Len(nodes), log),
         NEW nd, nd \in Seq(Word), Len(nd) = Len(nodes), NEW s \in 1 .. Len(nodes)
  PROVE  Frame(nd, s) \in FramesTo(Len(nodes))
<1> DEFINE L == Len(nodes)
           all == [t \in 1 .. L |-> t]
           T == {t \in DOMAIN nd : nd[t] # Root /\ Front(nd[t]) = nd[s]}
<1>1. L \in Nat /\ log \in Seq(Word)
  BY DEF Full, TrieOK
<1>2. ChildStates(nd, s) \in Seq(1 .. L)
  <2>1. all \in Seq(1 .. L) /\ Len(all) = L /\ \A i, j \in 1 .. L : all[i] = all[j] => i = j
    BY <1>1
  <2>2. ChildStates(nd, s) = Chosen(all, T)
    BY DEF ChildStates
  <2> HIDE DEF all, T
  <2>3. ChosenUpTo(1 .. L, all, T, Len(all), Chosen(all, T))
    BY <2>1, ChosenFacts
  <2> QED
    BY <2>2, <2>3 DEF ChosenUpTo
<1>3. Own(s) \in Seq(PairsTo(L))
  <2>1. counts[s] \in Nat
    <3>1. counts[s] = Frequency(nodes[s], log) \/ counts[s] = 0
      BY DEF VectorsOK
    <3> QED
      BY <1>1, <3>1, FrequencyFacts
  <2>2. [count |-> counts[s], idx |-> s] \in PairsTo(L)
    BY <2>1 DEF PairsTo
  <2> QED
    BY <2>2 DEF Own
<1> QED
  BY <1>2, <1>3 DEF Frame, FramesTo

(* FindCompletions calls TopK for the start state. *)
LEMMA RangeStart ==
  ASSUME NEW n \in Nat, NEW f \in FramesTo(n), NEW comp, comp = [s \in 1 .. n |-> <<>>]
  PROVE  RangeOK(n, <<f>>, comp)
<1>1. <<f>> \in Seq(FramesTo(n)) /\ Len(<<f>>) = 1
  OBVIOUS
<1>2. comp \in [1 .. n -> Seq(PairsTo(n))]
  OBVIOUS
<1>3. 1 .. Len(<<f>>) - 1 = {}
  BY <1>1
<1> QED
  BY <1>1, <1>2, <1>3 DEF RangeOK

(* TopK calls itself. *)
LEMMA RangeCall ==
  ASSUME NEW n \in Nat, NEW stk, NEW comp, RangeOK(n, stk, comp), stk # <<>>,
         stk[Len(stk)].todo # <<>>, NEW f \in FramesTo(n)
  PROVE  RangeOK(n, Append(stk, f), comp)
<1> DEFINE F == FramesTo(n)
           new == Append(stk, f)
<1>1. stk \in Seq(F) /\ f \in F /\ Len(stk) \in Nat \ {0}
  BY DEF RangeOK
<1> HIDE DEF F
<1>2. /\ new \in Seq(F) /\ Len(new) = Len(stk) + 1
      /\ \A i \in 1 .. Len(stk) : new[i] = stk[i]
  BY <1>1, AppendProperties
<1> HIDE DEF new
<1>3. \A i \in 1 .. Len(new) - 1 : new[i].todo # <<>>
  <2> SUFFICES ASSUME NEW i \in 1 .. Len(stk) PROVE stk[i].todo # <<>>
    BY <1>1, <1>2
  <2>1. i = Len(stk) \/ i \in 1 .. Len(stk) - 1
    BY <1>1
  <2> QED
    BY <2>1 DEF RangeOK
<1>4. RangeOK(n, new, comp)
  BY <1>2, <1>3 DEF RangeOK, F
<1> QED
  BY <1>4 DEF new

(* The best of a list are of the list. *)
LEMMA BestInRange ==
  ASSUME NEW S, NEW result \in Seq(S), NEW best \in Best(result)
  PROVE  best \in Seq(S)
<1> DEFINE m == IF Len(result) < K THEN Len(result) ELSE K
<1>1. m \in Nat
  BY MpcAssumption
<1>2. PICK p \in [1 .. m -> DOMAIN result] : best = [i \in 1 .. m |-> result[p[i]]]
  BY DEF Best
<1> HIDE DEF m
<1>3. \A i \in 1 .. m : result[p[i]] \in S
  BY <1>2
<1>4. best \in [1 .. m -> S]
  BY <1>2, <1>3
<1> QED
  BY <1>1, <1>4

(* A call returns. *)
LEMMA RangeReturn ==
  ASSUME NEW n \in Nat, NEW stk, NEW comp, RangeOK(n, stk, comp), stk # <<>>,
         NEW best \in Best(stk[Len(stk)].result)
  PROVE  LET callers == Front(stk) IN
         RangeOK(n,
                 IF callers = <<>> THEN <<>>
                 ELSE [callers EXCEPT ![Len(callers)] =
                         [state |-> @.state, todo |-> Tail(@.todo), result |-> @.result \o best]],
                 [comp EXCEPT ![stk[Len(stk)].state] = best])
<1> DEFINE F == FramesTo(n)
           P == PairsTo(n)
           callers == Front(stk)
           k == Len(callers)
           c == callers[k]
           d == [state |-> c.state, todo |-> Tail(c.todo), result |-> c.result \o best]
           comp2 == [comp EXCEPT ![stk[Len(stk)].state] = best]
<1>1. stk \in Seq(F) /\ Len(stk) \in Nat \ {0} /\ stk[Len(stk)] \in F
  BY DEF RangeOK
<1>2. best \in Seq(P)
  <2>1. stk[Len(stk)].result \in Seq(P)
    BY <1>1 DEF FramesTo
  <2> HIDE DEF P
  <2> QED
    BY <2>1, BestInRange
<1>3. comp2 \in [1 .. n -> Seq(P)]
  BY <1>2 DEF RangeOK
<1>4. /\ callers \in Seq(F) /\ k = Len(stk) - 1
      /\ \A i \in 1 .. k : callers[i] = stk[i] /\ callers[i].todo # <<>>
  <2>1. /\ callers \in Seq(F) /\ k = Len(stk) - 1
        /\ \A i \in 1 .. k : callers[i] = stk[i]
    BY <1>1, CallersFacts
  <2> QED
    BY <2>1 DEF RangeOK
<1>5. CASE callers = <<>>
  <2>1. <<>> \in Seq(F) /\ 1 .. Len(<<>>) - 1 = {}
    OBVIOUS
  <2>2. RangeOK(n, <<>>, comp2)
    BY <1>3, <2>1 DEF RangeOK
  <2> QED
    BY <1>5, <2>2
<1>6. CASE callers # <<>>
  <2> DEFINE new == [callers EXCEPT ![k] = d]
  <2>1. k \in Nat \ {0} /\ k \in 1 .. k
    BY <1>4, <1>6
  <2>2. c \in F /\ c.todo # <<>>
    BY <1>4, <2>1
  <2>3. c.state \in 1 .. n /\ c.todo \in Seq(1 .. n) /\ c.result \in Seq(P)
    BY <2>2 DEF FramesTo
  <2>4. Tail(c.todo) \in Seq(1 .. n) /\ c.result \o best \in Seq(P)
    BY <1>2, <2>2, <2>3, HeadTailProperties, ConcatProperties
  <2>5. d \in F
    BY <2>3, <2>4 DEF FramesTo
  <2> HIDE DEF F, d, callers, k
  <2>6. new \in Seq(F) /\ Len(new) = k /\ \A i \in 1 .. k - 1 : new[i] = callers[i]
    BY <1>4, <2>1, <2>5 DEF k
  <2>7. \A i \in 1 .. Len(new) - 1 : new[i].todo # <<>>
    BY <1>4, <2>1, <2>6
  <2>8. RangeOK(n, new, comp2)
    BY <1>3, <2>6, <2>7 DEF RangeOK, F
  <2>9. new = [callers EXCEPT ![k] =
                 [state |-> @.state, todo |-> Tail(@.todo), result |-> @.result \o best]]
    BY <1>4, <2>1 DEF d, c
  <2> QED
    BY <1>6, <2>8, <2>9 DEF k, callers
<1> QED
  BY <1>5, <1>6
-----------------------------------------------------------------------------
(* The inductive invariant *)

\* The states counted and copied so far; nothing when no build runs.
FstInv ==
  /\ pc \in {"none", "copy", "topk"}
  /\ TrieOK(nodes, copied, log)
  /\ VectorsOK(nodes, counts, queries, copied, log)
  /\ Bfs(log, copied, nodes)
  /\ pc = "none" => nodes = <<Root>> /\ counts = <<0>> /\ queries = <<Root>> /\ copied = 0

\* The calls of TopK begin when every state has been copied.  The trie they
\* read has as many states; only if it is of the log are they right.
CallInv ==
  pc = "topk" =>
    /\ copied = Len(nodes)
    /\ \A t, u \in trie : t = u
    /\ \A t \in trie : /\ Full(t.nodes, t.log) /\ Len(t.nodes) = Len(nodes)
                       /\ t.log = log => StackOK(nodes, log, stack, completions)
    /\ RangeOK(Len(nodes), stack, completions)

\* What Save writes for the states nd of a log.
SavedOK(nd, comp, qs, lines) ==
  /\ Full(nd, lines)
  /\ DOMAIN comp = 1 .. Len(nd)
  /\ \A t \in 1 .. Len(nd) : Answered(nd, lines, t, comp[t])
  /\ qs = [t \in 1 .. Len(nd) |-> IF Frequency(nd[t], lines) > 0 THEN nd[t] ELSE Root]

\* What it writes whatever trie TopK has read: n states and no others.
SavedInRange(n, comp, qs) == comp \in [1 .. n -> Seq(PairsTo(n))] /\ DOMAIN qs = 1 .. n

TrieFileOK(f) == Full(f.nodes, f.log)
MpcFileOK(f) ==
  /\ SavedInRange(f.n, f.completions, f.queries)
  /\ f.logs[1] = f.logs[2] =>
       \E nd : SavedOK(nd, f.completions, f.queries, f.logs[2]) /\ f.n = Len(nd)
FileInv == /\ \A f \in trieFile : TrieFileOK(f)
           /\ \A f \in mpcFile : MpcFileOK(f)

\* The two files of a server have tries of one size.
MemoryOK(m) ==
  /\ Full(m.nodes, m.logs[1])
  /\ SavedInRange(Len(m.nodes), m.completions, m.queries)
  /\ m.logs[2] = m.logs[3] =>
       \E nd : SavedOK(nd, m.completions, m.queries, m.logs[3]) /\ Len(nd) = Len(m.nodes)
ServerInv == \A m \in server : MemoryOK(m)

MpcInv == FstInv /\ CallInv /\ FileInv /\ ServerInv

(* The states of a build that has copied them all. *)
LEMMA CopiedAll ==
  ASSUME FstInv, copied = Len(nodes)
  PROVE  Full(nodes, log) /\ VectorsOK(nodes, counts, queries, Len(nodes), log)
BY DEF FstInv, Full

(* Two tries of one log and size are the same. *)
LEMMA SameTrie ==
  ASSUME NEW nd, NEW md, NEW lines, Full(nd, lines), Full(md, lines), Len(nd) = Len(md)
  PROVE  nd = md
<1>1. Bfs(lines, Len(nd), nd) /\ Bfs(lines, Len(md), md)
  BY DEF Full
<1>2. Len(nd) \in Nat /\ Len(md) \in Nat /\ Len(nd) <= Len(md)
  BY DEF Full, TrieOK
<1> QED
  BY <1>1, <1>2, BfsUnique

(* A process that ends leaves the initial states behind. *)
LEMMA ExitInv ==
  ASSUME Exit
  PROVE  FstInv' /\ CallInv'
<1>1. <<>> \in Seq(Word)
  OBVIOUS
<1>2. /\ TrieOK(<<Root>>, 0, <<>>)
      /\ VectorsOK(<<Root>>, <<0>>, <<Root>>, 0, <<>>)
      /\ Bfs(<<>>, 0, <<Root>>)
  BY <1>1, FstStart
<1>3. /\ pc' = "none" /\ log' = <<>> /\ nodes' = <<Root>> /\ counts' = <<0>>
      /\ queries' = <<Root>> /\ copied' = 0
  BY DEF Exit
<1>4. FstInv'
  BY <1>2, <1>3 DEF FstInv
<1>5. CallInv'
  BY <1>3 DEF CallInv
<1> QED
  BY <1>4, <1>5

(* Nothing is built or saved in the beginning. *)
LEMMA InitInv ==
  ASSUME Init
  PROVE  MpcInv
<1>1. <<>> \in Seq(Word)
  OBVIOUS
<1>2. /\ TrieOK(<<Root>>, 0, <<>>)
      /\ VectorsOK(<<Root>>, <<0>>, <<Root>>, 0, <<>>)
      /\ Bfs(<<>>, 0, <<Root>>)
  BY <1>1, FstStart
<1>3. FstInv
  BY <1>2 DEF Init, FstInv
<1>4. CallInv /\ FileInv /\ ServerInv
  BY DEF Init, CallInv, FileInv, ServerInv
<1> QED
  BY <1>3, <1>4 DEF MpcInv

(* A build starts from the initial states, whatever the log. *)
LEMMA RunInv ==
  ASSUME MpcInv, NEW lines \in Logs, Run(lines)
  PROVE  MpcInv'
<1>1. lines \in Seq(Word)
  BY MpcAssumption DEF Word
<1>2. /\ TrieOK(<<Root>>, 0, lines)
      /\ VectorsOK(<<Root>>, <<0>>, <<Root>>, 0, lines)
      /\ Bfs(lines, 0, <<Root>>)
  BY <1>1, FstStart
<1>3. /\ pc' = "copy" /\ log' = lines /\ nodes' = <<Root>> /\ counts' = <<0>>
      /\ queries' = <<Root>> /\ copied' = 0
  BY DEF Run, MpcInv, FstInv, fstVars
<1>4. FstInv' /\ CallInv'
  BY <1>2, <1>3 DEF FstInv, CallInv
<1>5. FileInv' /\ ServerInv'
  BY DEF Run, MpcInv, FileInv, ServerInv, files
<1> QED
  BY <1>4, <1>5 DEF MpcInv

(* One more node is taken from the queue. *)
LEMMA CopyNodeInv ==
  ASSUME MpcInv, CopyNode
  PROVE  MpcInv'
<1> DEFINE p == nodes[copied + 1]
           new == Children(p, log)
           n == Frequency(p, log)
<1>1. /\ TrieOK(nodes, copied, log) /\ VectorsOK(nodes, counts, queries, copied, log)
      /\ Bfs(log, copied, nodes) /\ copied < Len(nodes) /\ copied \in Nat
  BY DEF MpcInv, FstInv, CopyNode, TrieOK
<1>2. /\ pc' = "copy" /\ log' = log /\ copied' = copied + 1
      /\ nodes' = Take(nodes, copied + 1, log)
      /\ counts' = Grow(counts, copied + 1, n, n, new, 0)
      /\ queries' = Grow(queries, copied + 1, n, p, new, Root)
  BY DEF CopyNode, Take, Grow, NextState, buildVars
<1>3. TrieOK(Take(nodes, copied + 1, log), copied + 1, log)
  BY <1>1, TrieTake
<1>4. VectorsOK(Take(nodes, copied + 1, log), Grow(counts, copied + 1, n, n, new, 0),
                Grow(queries, copied + 1, n, p, new, Root), copied + 1, log)
  BY <1>1, VectorsTake
<1>5. Bfs(log, copied + 1, Take(nodes, copied + 1, log))
  BY <1>1, BfsTake
<1>6. /\ TrieOK(nodes', copied', log') /\ VectorsOK(nodes', counts', queries', copied', log')
      /\ Bfs(log', copied', nodes')
  BY <1>2, <1>3, <1>4, <1>5
<1>7. FstInv' /\ CallInv'
  BY <1>2, <1>6 DEF FstInv, CallInv
<1>8. FileInv' /\ ServerInv'
  BY DEF CopyNode, MpcInv, FileInv, ServerInv, files
<1> QED
  BY <1>7, <1>8 DEF MpcInv

(* Mpc has read a trie: TopK begins. *)
LEMMA FindCompletionsInv ==
  ASSUME MpcInv, copied = Len(nodes), NEW read, Full(read.nodes, read.log), FindCompletions(read)
  PROVE  FstInv' /\ CallInv'
<1> DEFINE L == Len(nodes)
           f == Frame(read.nodes, 1)
           comp == [s \in 1 .. L |-> <<>>]
<1>1. Full(nodes, log) /\ VectorsOK(nodes, counts, queries, L, log)
  BY CopiedAll DEF MpcInv
<1>2. L \in Nat /\ 1 \in 1 .. L /\ read.nodes \in Seq(Word)
  BY <1>1 DEF Full, TrieOK
<1>3. Len(counts) = L /\ DOMAIN queries = 1 .. L
  BY <1>1, <1>2 DEF VectorsOK
<1>4. /\ pc' = "topk" /\ trie' = {read} /\ Len(read.nodes) = L
      /\ log' = log /\ nodes' = nodes /\ counts' = counts /\ queries' = queries /\ copied' = copied
      /\ stack' = <<f>> /\ completions' = comp
  BY <1>3 DEF FindCompletions, SizeMatches, buildVars, fstVars
<1>5. FstInv'
  BY <1>4 DEF MpcInv, FstInv
<1>6. RangeOK(L, <<f>>, comp)
  <2>1. f \in FramesTo(L)
    BY <1>1, <1>2, <1>4, FrameInRange
  <2> HIDE DEF f, L, comp
  <2>2. comp = [s \in 1 .. L |-> <<>>]
    BY DEF comp
  <2> QED
    BY <1>2, <2>1, <2>2, RangeStart
<1>7. ASSUME read.log = log PROVE StackOK(nodes, log, <<f>>, comp)
  <2>1. read.nodes = nodes
    BY <1>1, <1>4, <1>7, SameTrie
  <2>2. DOMAIN comp = 1 .. L
    OBVIOUS
  <2> HIDE DEF comp
  <2>3. StackOK(nodes, log, <<Frame(nodes, 1)>>, comp)
    BY <1>1, <2>2, StackStart
  <2> QED
    BY <2>1, <2>3
<1>8. CallInv'
  <2> HIDE DEF f, comp
  <2> QED
    BY <1>4, <1>6, <1>7 DEF CallInv
<1> QED
  BY <1>5, <1>8

(* The trie is written, if it is, when it is complete, and some trie is read. *)
LEMMA WriteTrieInv ==
  ASSUME MpcInv, WriteTrie
  PROVE  MpcInv'
<1>1. Full(nodes, log) /\ copied = Len(nodes)
  BY CopiedAll DEF MpcInv, WriteTrie
<1>2. mpcFile' = mpcFile /\ server' = server
  BY DEF WriteTrie
<1>3. \A f \in trieFile' : TrieFileOK(f)
  <2>1. CASE trieFile' = {[nodes |-> nodes, log |-> log]}
    BY <1>1, <2>1 DEF TrieFileOK
  <2>2. CASE trieFile' = {} \/ trieFile' = trieFile
    BY <2>2 DEF MpcInv, FileInv
  <2> QED
    BY <2>1, <2>2 DEF WriteTrie
<1>4. FileInv' /\ ServerInv'
  BY <1>2, <1>3 DEF MpcInv, FileInv, ServerInv
<1>5. FstInv' /\ CallInv'
  <2>1. CASE Exit
    BY <2>1, ExitInv
  <2>2. ASSUME NEW read \in trieFile', FindCompletions(read) PROVE FstInv' /\ CallInv'
    <3>1. Full(read.nodes, read.log)
      BY <1>3 DEF TrieFileOK
    <3> QED
      BY <1>1, <2>2, <3>1, FindCompletionsInv
  <2> QED
    BY <2>1, <2>2 DEF WriteTrie
<1> QED
  BY <1>4, <1>5 DEF MpcInv

(* TopK calls itself for a child. *)
LEMMA CallChildInv ==
  ASSUME MpcInv, CallChild
  PROVE  MpcInv'
<1> DEFINE L == Len(nodes)
           h == Head(Caller.todo)
<1>1. /\ Full(nodes, log) /\ VectorsOK(nodes, counts, queries, L, log) /\ copied = L
      /\ RangeOK(L, stack, completions) /\ L \in Nat
  BY CopiedAll DEF MpcInv, CallInv, CallChild, Full, TrieOK
<1>2. PICK t \in trie : stack' = Append(stack, Frame(t.nodes, h))
  BY DEF CallChild
<1>3. /\ pc' = pc /\ log' = log /\ nodes' = nodes /\ counts' = counts /\ queries' = queries
      /\ copied' = copied /\ completions' = completions /\ trie' = trie
      /\ trieFile' = trieFile /\ mpcFile' = mpcFile /\ server' = server
  BY DEF CallChild, buildVars, fstVars, files
<1>4. FstInv' /\ FileInv' /\ ServerInv'
  BY <1>3 DEF MpcInv, FstInv, FileInv, ServerInv
<1>5. stack # <<>> /\ stack[Len(stack)].todo # <<>> /\ h = Head(stack[Len(stack)].todo)
  BY DEF CallChild, Caller
<1>6. /\ \A x \in trie : Full(x.nodes, x.log) /\ Len(x.nodes) = L
      /\ \A x, y \in trie : x = y
  BY DEF MpcInv, CallInv, CallChild
<1>7. RangeOK(L, stack', completions')
  <2>1. stack \in Seq(FramesTo(L)) /\ Len(stack) \in 1 .. Len(stack)
    BY <1>1, <1>5 DEF RangeOK
  <2>2. stack[Len(stack)].todo \in Seq(1 .. L)
    <3>1. stack[Len(stack)] \in FramesTo(L)
      BY <2>1
    <3> QED
      BY <3>1 DEF FramesTo
  <2>3. h \in 1 .. L
    BY <1>5, <2>2
  <2>4. t.nodes \in Seq(Word)
    BY <1>6 DEF Full, TrieOK
  <2>5. Frame(t.nodes, h) \in FramesTo(L)
    BY <1>1, <1>6, <2>3, <2>4, FrameInRange
  <2> QED
    BY <1>1, <1>2, <1>3, <1>5, <2>5, RangeCall
<1>8. ASSUME NEW x \in trie, x.log = log PROVE StackOK(nodes, log, stack', completions')
  <2>1. StackOK(nodes, log, stack, completions)
    BY <1>8 DEF MpcInv, CallInv, CallChild
  <2>2. StackOK(nodes, log, Append(stack, Frame(nodes, h)), completions)
    BY <1>1, <1>5, <2>1, StackCall
  <2>3. x = t
    BY <1>6
  <2>4. t.nodes = nodes
    BY <1>1, <1>6, <1>8, <2>3, SameTrie
  <2> QED
    BY <1>2, <1>3, <2>2, <2>4
<1>9. CallInv'
  BY <1>1, <1>3, <1>6, <1>7, <1>8 DEF CallInv
<1> QED
  BY <1>4, <1>9 DEF MpcInv

(* A call of TopK returns. *)
LEMMA ReturnTopKInv ==
  ASSUME MpcInv, ReturnTopK
  PROVE  MpcInv'
<1>1. /\ Full(nodes, log) /\ RangeOK(Len(nodes), stack, completions) /\ copied = Len(nodes)
      /\ Len(nodes) \in Nat
  BY CopiedAll DEF MpcInv, CallInv, ReturnTopK, Full, TrieOK
<1>2. stack # <<>> /\ stack[Len(stack)].todo = <<>>
  BY DEF ReturnTopK, Caller
<1>3. PICK best \in Best(stack[Len(stack)].result) :
        /\ completions' = [completions EXCEPT ![stack[Len(stack)].state] = best]
        /\ stack' = IF Front(stack) = <<>> THEN <<>>
                    ELSE [Front(stack) EXCEPT ![Len(Front(stack))] =
                            [state |-> @.state, todo |-> Tail(@.todo), result |-> @.result \o best]]
  BY DEF ReturnTopK, Caller
<1>4. RangeOK(Len(nodes), stack', completions')
  BY <1>1, <1>2, <1>3, RangeReturn
<1>5. /\ pc' = pc /\ log' = log /\ nodes' = nodes /\ counts' = counts /\ queries' = queries
      /\ copied' = copied /\ trie' = trie
      /\ trieFile' = trieFile /\ mpcFile' = mpcFile /\ server' = server
  BY DEF ReturnTopK, buildVars, fstVars, files
<1>6. FstInv' /\ FileInv' /\ ServerInv'
  BY <1>5 DEF MpcInv, FstInv, FileInv, ServerInv
<1>7. /\ \A t \in trie : Full(t.nodes, t.log) /\ Len(t.nodes) = Len(nodes)
      /\ \A t, u \in trie : t = u
  BY DEF MpcInv, CallInv, ReturnTopK
<1>8. ASSUME NEW t \in trie, t.log = log PROVE StackOK(nodes, log, stack', completions')
  <2>1. StackOK(nodes, log, stack, completions)
    BY <1>8 DEF MpcInv, CallInv, ReturnTopK
  <2> QED
    BY <1>1, <1>2, <1>3, <2>1, StackReturn
<1>9. CallInv'
  BY <1>1, <1>4, <1>5, <1>7, <1>8 DEF CallInv
<1> QED
  BY <1>6, <1>9 DEF MpcInv

(* The completions are saved, if they are, when every state has been answered. *)
LEMMA SaveInv ==
  ASSUME MpcInv, Save
  PROVE  MpcInv'
<1>1. /\ Full(nodes, log) /\ VectorsOK(nodes, counts, queries, Len(nodes), log)
      /\ RangeOK(Len(nodes), stack, completions)
  BY CopiedAll DEF MpcInv, CallInv, Save
<1>2. \A t \in trie : /\ Len(t.nodes) = Len(nodes)
                      /\ t.log = log => StackOK(nodes, log, stack, completions)
  BY DEF MpcInv, CallInv, Save
<1>3. queries = [t \in 1 .. Len(nodes) |-> IF Frequency(nodes[t], log) > 0 THEN nodes[t] ELSE Root]
  <2>1. queries = [t \in 1 .. Len(nodes) |->
                    IF t <= Len(nodes) /\ Frequency(nodes[t], log) > 0 THEN nodes[t] ELSE Root]
    BY <1>1 DEF VectorsOK
  <2>2. \A t \in 1 .. Len(nodes) : t <= Len(nodes)
    BY <1>1 DEF Full, TrieOK
  <2> QED
    BY <2>1, <2>2
<1>4. SavedInRange(Len(nodes), completions, queries)
  BY <1>1, <1>3 DEF SavedInRange, RangeOK
<1>5. ASSUME NEW t \in trie,
             mpcFile' = {[n |-> Len(t.nodes), completions |-> completions,
                          queries |-> queries, logs |-> <<t.log, log>>]}
      PROVE  \A f \in mpcFile' : MpcFileOK(f)
  <2>1. ASSUME t.log = log PROVE SavedOK(nodes, completions, queries, log)
    <3>1. StackOK(nodes, log, stack, completions)
      BY <1>2, <2>1
    <3>2. /\ DOMAIN completions = 1 .. Len(nodes)
          /\ \A s \in 1 .. Len(nodes) : Answered(nodes, log, s, completions[s])
      BY <3>1 DEF StackOK, Save
    <3> QED
      BY <1>1, <1>3, <3>2 DEF SavedOK
  <2>2. \A f \in mpcFile' :
          /\ f.n = Len(nodes) /\ f.completions = completions /\ f.queries = queries
          /\ f.logs[1] = t.log /\ f.logs[2] = log
    BY <1>2, <1>5
  <2> QED
    BY <1>4, <2>1, <2>2 DEF MpcFileOK
<1>6. FstInv' /\ CallInv'
  BY ExitInv DEF Save
<1>7. trieFile' = trieFile /\ server' = server
  BY DEF Save
<1>8. FileInv' /\ ServerInv'
  <2>1. \A f \in mpcFile' : MpcFileOK(f)
    <3>1. CASE mpcFile' = {} \/ mpcFile' = mpcFile
      BY <3>1 DEF MpcInv, FileInv
    <3> QED
      BY <1>5, <3>1 DEF Save
  <2> QED
    BY <1>7, <2>1 DEF MpcInv, FileInv, ServerInv
<1> QED
  BY <1>6, <1>8 DEF MpcInv

(* A server takes the files as they are. *)
LEMMA ConstructInv ==
  ASSUME MpcInv, NEW read \in trieFile, NEW mpc \in mpcFile, Construct(read, mpc)
  PROVE  MpcInv'
<1> DEFINE m == [nodes |-> read.nodes, completions |-> mpc.completions, queries |-> mpc.queries,
                 logs |-> <<read.log, mpc.logs[1], mpc.logs[2]>>]
<1>1. server' = {m} /\ mpc.n = Len(read.nodes)
  BY DEF Construct, Fits
<1>2. Full(read.nodes, read.log)
  BY DEF MpcInv, FileInv, TrieFileOK
<1>3. MpcFileOK(mpc)
  BY DEF MpcInv, FileInv
<1>4. /\ m.nodes = read.nodes /\ m.completions = mpc.completions /\ m.queries = mpc.queries
      /\ m.logs[1] = read.log /\ m.logs[2] = mpc.logs[1] /\ m.logs[3] = mpc.logs[2]
  OBVIOUS
<1> HIDE DEF m
<1>5. MemoryOK(m)
  BY <1>1, <1>2, <1>3, <1>4 DEF MemoryOK, MpcFileOK
<1>6. ServerInv'
  BY <1>1, <1>5 DEF ServerInv
<1>7. /\ pc' = pc /\ log' = log /\ nodes' = nodes /\ counts' = counts /\ queries' = queries
      /\ copied' = copied /\ trie' = trie /\ stack' = stack /\ completions' = completions
      /\ trieFile' = trieFile /\ mpcFile' = mpcFile
  BY DEF Construct, buildVars, fstVars, topkVars, files
<1>8. FstInv' /\ CallInv' /\ FileInv'
  BY <1>7 DEF MpcInv, FstInv, CallInv, FileInv
<1> QED
  BY <1>6, <1>8 DEF MpcInv

(* No step breaks the invariant. *)
LEMMA StepInv == MpcInv /\ [Next]_vars => MpcInv'
<1> SUFFICES ASSUME MpcInv, [Next]_vars PROVE MpcInv'
  OBVIOUS
<1>1. ASSUME NEW lines \in Logs, Run(lines) PROVE MpcInv'
  BY <1>1, RunInv
<1>2. CASE CopyNode
  BY <1>2, CopyNodeInv
<1>3. CASE WriteTrie
  BY <1>3, WriteTrieInv
<1>4. CASE CallChild
  BY <1>4, CallChildInv
<1>5. CASE ReturnTopK
  BY <1>5, ReturnTopKInv
<1>6. CASE Save
  BY <1>6, SaveInv
<1>7. CASE Crash
  <2>1. FstInv' /\ CallInv'
    BY <1>7, ExitInv DEF Crash
  <2>2. FileInv' /\ ServerInv'
    BY <1>7 DEF Crash, MpcInv, FileInv, ServerInv, files
  <2> QED
    BY <2>1, <2>2 DEF MpcInv
<1>8. ASSUME NEW read \in trieFile, NEW mpc \in mpcFile, Construct(read, mpc) PROVE MpcInv'
  BY <1>8, ConstructInv
<1>9. CASE UNCHANGED vars
  BY <1>9 DEF vars, buildVars, fstVars, topkVars, files, MpcInv, FstInv, CallInv, FileInv, ServerInv
<1> QED
  BY <1>1, <1>2, <1>3, <1>4, <1>5, <1>6, <1>7, <1>8, <1>9 DEF Next

(* The invariant holds in every state of every behaviour. *)
THEOREM MpcInvariant == Spec => []MpcInv
<1>1. Init => MpcInv
  BY InitInv
<1> QED
  BY <1>1, StepInv, PTL DEF Spec
-----------------------------------------------------------------------------
(* What the invariant means *)

(* While TopK runs, every prefix of a query has one state, and the entries *)
(* of a state's number are its own.                                        *)
THEOREM CountsRight == Spec => []CountsOfOwnState
<1>1. MpcInv => CountsOfOwnState
  <2> SUFFICES ASSUME MpcInv, pc = "topk"
               PROVE  /\ IsInjective(nodes)
                      /\ ToSet(nodes) = {Root} \cup UNION {{SubSeq(log[i], 1, n) : n \in 0 .. Len(log[i])}
                                                             : i \in DOMAIN log}
                      /\ \A s \in DOMAIN nodes :
                           /\ counts[s] = Frequency(nodes[s], log)
                           /\ queries[s] = IF counts[s] > 0 THEN nodes[s] ELSE Root
    BY DEF CountsOfOwnState
  <2>1. Full(nodes, log) /\ VectorsOK(nodes, counts, queries, Len(nodes), log)
    BY CopiedAll DEF MpcInv, CallInv
  <2>2. /\ log \in Seq(Word) /\ nodes \in Seq(Word) /\ Len(nodes) \in Nat \ {0}
        /\ DOMAIN nodes = 1 .. Len(nodes) /\ nodes[1] = Root
        /\ \A i, j \in 1 .. Len(nodes) : nodes[i] = nodes[j] => i = j
        /\ \A j \in 1 .. Len(nodes) : nodes[j] # Root => InTrie(nodes[j], log)
    BY <2>1 DEF Full, TrieOK
  <2>3. IsInjective(nodes)
    BY <2>2 DEF IsInjective
  <2> DEFINE cuts == {Root} \cup UNION {{SubSeq(log[i], 1, n) : n \in 0 .. Len(log[i])} : i \in DOMAIN log}
  <2>4. ASSUME NEW j \in 1 .. Len(nodes), nodes[j] # Root PROVE nodes[j] \in cuts
    <3>1. PICK i \in DOMAIN log : IsPrefix(nodes[j], log[i])
      BY <2>2, <2>4 DEF InTrie
    <3>2. nodes[j] \in Word /\ log[i] \in Word
      BY <2>2
    <3>3. /\ SubSeq(nodes[j], 1, Len(nodes[j])) = nodes[j]
          /\ Len(nodes[j]) \in Nat /\ Len(log[i]) \in Nat
      BY <3>2 DEF Word
    <3>4. nodes[j] = SubSeq(log[i], 1, Len(nodes[j])) /\ Len(nodes[j]) \in 0 .. Len(log[i])
      BY <3>1, <3>3 DEF IsPrefix
    <3> QED
      BY <3>4
  <2>5. ASSUME NEW i \in DOMAIN log, NEW n \in 0 .. Len(log[i])
        PROVE  \E t \in 1 .. Len(nodes) : nodes[t] = SubSeq(log[i], 1, n)
    <3>1. log[i] \in Word
      BY <2>2
    <3>2. SubSeq(log[i], 1, n) \in Word /\ IsPrefix(SubSeq(log[i], 1, n), log[i])
      BY <3>1, CutFacts
    <3>3. InTrie(SubSeq(log[i], 1, n), log)
      BY <3>2 DEF InTrie
    <3> QED
      BY <2>1, <3>2, <3>3, FullFacts
  <2>6. ToSet(nodes) \subseteq cuts
    BY <2>2, <2>4 DEF ToSet
  <2>7. cuts \subseteq ToSet(nodes)
    <3>1. Root \in ToSet(nodes)
      BY <2>2 DEF ToSet
    <3>2. \A i \in DOMAIN log : \A n \in 0 .. Len(log[i]) : SubSeq(log[i], 1, n) \in ToSet(nodes)
      BY <2>2, <2>5 DEF ToSet
    <3> SUFFICES ASSUME NEW x \in cuts, x # Root PROVE x \in ToSet(nodes)
      BY <3>1
    <3>3. PICK i \in DOMAIN log : x \in {SubSeq(log[i], 1, n) : n \in 0 .. Len(log[i])}
      OBVIOUS
    <3>4. PICK n \in 0 .. Len(log[i]) : x = SubSeq(log[i], 1, n)
      BY <3>3
    <3> QED
      BY <3>2, <3>4
  <2>8. \A s \in DOMAIN nodes : /\ counts[s] = Frequency(nodes[s], log)
                                /\ queries[s] = IF counts[s] > 0 THEN nodes[s] ELSE Root
    <3>1. \A s \in 1 .. Len(nodes) : s <= Len(nodes)
      BY <2>2
    <3> QED
      BY <2>1, <2>2, <3>1 DEF VectorsOK
  <2> QED
    BY <2>3, <2>6, <2>7, <2>8
<1> QED
  BY MpcInvariant, <1>1, PTL

(* No constructed server reads past a vector, whatever its files are from. *)
THEOREM InRange == Spec => []NeverOutOfRange
<1>1. MpcInv => NeverOutOfRange
  <2> SUFFICES ASSUME MpcInv, NEW m \in server, NEW s \in DOMAIN m.nodes
               PROVE  /\ s \in DOMAIN m.completions
                      /\ \A i \in DOMAIN m.completions[s] : m.completions[s][i].idx \in DOMAIN m.queries
    BY DEF NeverOutOfRange
  <2> DEFINE n == Len(m.nodes)
  <2>1. Full(m.nodes, m.logs[1]) /\ SavedInRange(n, m.completions, m.queries)
    BY DEF MpcInv, ServerInv, MemoryOK
  <2>2. s \in 1 .. n
    BY <2>1 DEF Full, TrieOK
  <2>3. DOMAIN m.completions = 1 .. n /\ DOMAIN m.queries = 1 .. n
    BY <2>1 DEF SavedInRange
  <2>4. m.completions[s] \in Seq(PairsTo(n))
    BY <2>1, <2>2 DEF SavedInRange
  <2>5. \A i \in DOMAIN m.completions[s] : m.completions[s][i].idx \in 1 .. n
    <3>1. \A i \in DOMAIN m.completions[s] : m.completions[s][i] \in PairsTo(n)
      BY <2>4
    <3> QED
      BY <3>1 DEF PairsTo
  <2> QED
    BY <2>2, <2>3, <2>5
<1> QED
  BY MpcInvariant, <1>1, PTL

Values(n, f) == {f[i] : i \in 1 .. n}

(* A function on 1..n has n values if they differ. *)
LEMMA ValuesCount ==
  ASSUME NEW n \in Nat, NEW f, DOMAIN f = 1 .. n,
         \A i, j \in 1 .. n : f[i] = f[j] => i = j
  PROVE  IsFiniteSet(Values(n, f)) /\ Cardinality(Values(n, f)) = n
<1> DEFINE T == Values(n, f)
           g == [i \in 1 .. n |-> f[i]]
<1>1. g \in Surjection(1 .. n, T) /\ g \in Injection(1 .. n, T)
  BY DEF Surjection, Injection, IsInjective, Values
<1>2. IsFiniteSet(1 .. n) /\ Cardinality(1 .. n) = n
  <2>1. IsFiniteSet(1 .. n) /\ Cardinality(1 .. n) = IF 1 > n THEN 0 ELSE n - 1 + 1
    BY FS_Interval
  <2> QED
    BY <2>1
<1> HIDE DEF g, T
<1>3. IsFiniteSet(T) /\ Cardinality(T) = n
  BY <1>1, <1>2, FS_Surjection
<1> QED
  BY <1>3 DEF T

(* A log has finitely many queries. *)
LEMMA QueriesFinite ==
  ASSUME NEW lines \in Seq(Word), NEW prefix
  PROVE  IsFiniteSet(Matches(prefix, lines))
<1>1. IsFiniteSet(1 .. Len(lines))
  <2>1. Len(lines) \in Int
    OBVIOUS
  <2> QED
    BY <2>1, FS_Interval
<1> DEFINE T == ToSet(lines)
           g == [i \in 1 .. Len(lines) |-> lines[i]]
<1>2. DOMAIN lines = 1 .. Len(lines)
  OBVIOUS
<1>3. g \in Surjection(1 .. Len(lines), T)
  BY <1>2 DEF Surjection, ToSet
<1> HIDE DEF g, T
<1>4. IsFiniteSet(T)
  BY <1>1, <1>3, FS_Surjection
<1>5. Matches(prefix, lines) \in SUBSET T
  BY DEF Matches, T
<1> QED
  BY <1>4, <1>5, FS_Subset

\* The queries of the pairs of a state, and their counts.
Texts(nd, seq) == {nd[seq[i].idx] : i \in DOMAIN seq}

(* What TopK puts into completions are the most frequent queries below. *)
LEMMA AnswerIsBest ==
  ASSUME NEW nd, NEW lines, Full(nd, lines), NEW s \in 1 .. Len(nd), NEW seq,
         Answered(nd, lines, s, seq)
  PROVE  LET given == Texts(nd, seq)
             all == Matches(nd[s], lines)
         IN /\ given \subseteq all
            /\ Cardinality(given) = Len(seq)
            /\ Len(seq) = (IF Cardinality(all) < K THEN Cardinality(all) ELSE K)
            /\ \A i \in DOMAIN seq : \A q \in all \ given : Frequency(q, lines) <= seq[i].count
<1> DEFINE given == Texts(nd, seq)
           all == Matches(nd[s], lines)
           n == Len(seq)
<1>1. /\ lines \in Seq(Word) /\ nd \in Seq(Word) /\ Len(nd) \in Nat
      /\ \A i, j \in 1 .. Len(nd) : nd[i] = nd[j] => i = j
  BY DEF Full, TrieOK
<1>2. /\ seq \in Seq(Pairs(nd, lines))
      /\ \A i \in 1 .. n : IsQuery(nd, lines, seq[i].idx) /\ Below(nd, s, seq[i].idx)
      /\ \A i, j \in 1 .. n : seq[i].idx = seq[j].idx => i = j
      /\ n <= K
      /\ \A t \in 1 .. Len(nd) :
           IsQuery(nd, lines, t) /\ Below(nd, s, t) =>
             \/ Has(seq, t)
             \/ n = K /\ \A i \in 1 .. n : Greater(seq[i], Pair(nd, lines, t))
  BY DEF Answered, ListOK
<1>3. n \in Nat /\ DOMAIN seq = 1 .. n
  BY <1>2
<1>4. ASSUME NEW i \in 1 .. n PROVE nd[seq[i].idx] \in all
  <2>1. /\ seq[i].idx \in 1 .. Len(nd) /\ nd[seq[i].idx] # Root
        /\ Frequency(nd[seq[i].idx], lines) > 0 /\ IsPrefix(nd[s], nd[seq[i].idx])
    BY <1>2 DEF IsQuery, Below
  <2>2. nd[seq[i].idx] \in ToSet(lines)
    BY <1>1, <2>1, FrequencyFacts
  <2> QED
    BY <2>1, <2>2 DEF Matches
<1>5. given \subseteq all
  BY <1>3, <1>4 DEF Texts
<1>6. IsFiniteSet(given) /\ Cardinality(given) = n
  <2> DEFINE f == [i \in 1 .. n |-> nd[seq[i].idx]]
  <2>1. \A i, j \in 1 .. n : f[i] = f[j] => i = j
    <3>1. \A i \in 1 .. n : seq[i].idx \in 1 .. Len(nd)
      BY <1>2 DEF IsQuery
    <3> QED
      BY <3>1, <1>1, <1>2
  <2>2. given = Values(n, f) /\ DOMAIN f = 1 .. n
    BY <1>3 DEF Texts, Values
  <2> HIDE DEF f, given, n
  <2> QED
    BY <1>3, <2>1, <2>2, ValuesCount
<1>7. IsFiniteSet(all)
  BY <1>1, QueriesFinite
<1>8. ASSUME NEW q \in all
      PROVE  \E t \in 1 .. Len(nd) : nd[t] = q /\ IsQuery(nd, lines, t) /\ Below(nd, s, t)
  <2>1. q \in ToSet(lines) /\ q # Root /\ IsPrefix(nd[s], q)
    BY DEF Matches
  <2>2. PICK i \in 1 .. Len(lines) : q = lines[i]
    BY <1>1, <2>1 DEF ToSet
  <2>3. q \in Word
    BY <1>1, <2>2
  <2>4. InTrie(q, lines)
    BY <1>1, <2>2, <2>3, PrefixOrder DEF InTrie
  <2>5. PICK t \in 1 .. Len(nd) : nd[t] = q
    BY <2>3, <2>4, FullFacts
  <2>6. Frequency(q, lines) > 0
    BY <1>1, <2>1, FrequencyFacts
  <2> QED
    BY <2>1, <2>5, <2>6 DEF IsQuery, Below
<1>9. ASSUME NEW q \in all \ given
      PROVE  n = K /\ \A i \in 1 .. n : Frequency(q, lines) <= seq[i].count
  <2>1. PICK t \in 1 .. Len(nd) : nd[t] = q /\ IsQuery(nd, lines, t) /\ Below(nd, s, t)
    BY <1>8
  <2>2. ~Has(seq, t)
    BY <1>3, <2>1 DEF Has, Texts
  <2>3. n = K /\ \A i \in 1 .. n : Greater(seq[i], Pair(nd, lines, t))
    BY <1>2, <2>1, <2>2
  <2>4. ASSUME NEW i \in 1 .. n PROVE Frequency(q, lines) <= seq[i].count
    <3>1. Frequency(q, lines) \in Nat /\ seq[i].count \in Nat
      <4>1. seq[i] \in Pairs(nd, lines)
        BY <1>2
      <4> QED
        BY <4>1, <1>1, FrequencyFacts, PairFacts
    <3>2. Pair(nd, lines, t).count = Frequency(q, lines)
      BY <2>1 DEF Pair
    <3>3. Greater(seq[i], Pair(nd, lines, t))
      BY <2>3
    <3> QED
      BY <3>1, <3>2, <3>3 DEF Greater
  <2> QED
    BY <2>3, <2>4
<1> HIDE DEF given, all, n
<1>10. n = (IF Cardinality(all) < K THEN Cardinality(all) ELSE K)
  <2>1. K \in Nat /\ Cardinality(all) \in Nat
    BY MpcAssumption, <1>7, FS_CardinalityType
  <2>2. n <= Cardinality(all)
    BY <1>5, <1>6, <1>7, FS_Subset
  <2>3. CASE n = K
    BY <2>1, <2>2, <2>3
  <2>4. CASE n # K
    <3>1. n = Cardinality(all)
      BY <1>5, <1>6, <1>9, <2>4
    <3>2. n <= K /\ n \in Nat
      BY <1>2, <1>3
    <3> QED
      BY <2>1, <2>4, <3>1, <3>2
  <2> QED
    BY <2>3, <2>4
<1> QED
  BY <1>3, <1>5, <1>6, <1>9, <1>10 DEF given, all, n

(* An Mpc from the files of one log answers with the K most frequent       *)
(* queries that begin with the prefix, the most frequent first.            *)
THEOREM BestCompletions == Spec => []MostPopular
<1>1. MpcInv => MostPopular
  <2> SUFFICES ASSUME MpcInv, NEW m \in server, OneLog(m), NEW s \in DOMAIN m.nodes
               PROVE  LET prefix == m.nodes[s]
                          answer == Complete(m, prefix)
                          given == {answer[i].query : i \in DOMAIN answer}
                          all == Matches(prefix, m.logs[1])
                      IN /\ given \subseteq all
                         /\ Cardinality(given) = Len(answer)
                         /\ Len(answer) = (IF Cardinality(all) < K THEN Cardinality(all) ELSE K)
                         /\ \A i \in DOMAIN answer :
                              /\ answer[i].count = Frequency(answer[i].query, m.logs[1])
                              /\ \A j \in DOMAIN answer : i < j => answer[i].count >= answer[j].count
                              /\ \A q \in all \ given : Frequency(q, m.logs[1]) <= answer[i].count
    BY DEF MostPopular
  <2> DEFINE lines == m.logs[1]
             nd == m.nodes
             best == m.completions[s]
             answer == Complete(m, nd[s])
             given == {answer[i].query : i \in DOMAIN answer}
  <2>1. Full(nd, lines)
    BY DEF MpcInv, ServerInv, MemoryOK
  <2>2. PICK md : SavedOK(md, m.completions, m.queries, lines) /\ Len(md) = Len(nd)
    BY DEF MpcInv, ServerInv, MemoryOK, OneLog
  <2>3. Len(nd) \in Nat /\ DOMAIN nd = 1 .. Len(nd) /\ lines \in Seq(Word)
    BY <2>1 DEF Full, TrieOK
  <2>4. nd = md
    <3>1. Full(md, lines)
      BY <2>2 DEF SavedOK
    <3> QED
      BY <2>1, <2>2, <3>1, SameTrie
  <2>5. s \in 1 .. Len(nd) /\ Answered(nd, lines, s, best)
    BY <2>2, <2>3, <2>4 DEF SavedOK
  <2>6. /\ best \in Seq(Pairs(nd, lines))
        /\ \A i \in 1 .. Len(best) : IsQuery(nd, lines, best[i].idx)
        /\ \A i, j \in 1 .. Len(best) : i < j => Greater(best[i], best[j])
    BY <2>5 DEF Answered, ListOK
  <2>7. DOMAIN best = 1 .. Len(best) /\ Len(best) \in Nat
    BY <2>6
  <2>8. answer = [i \in DOMAIN best |-> [query |-> m.queries[best[i].idx], count |-> best[i].count]]
    <3> DEFINE at == {t \in DOMAIN m.nodes : m.nodes[t] = nd[s]}
    <3>1. at = {s}
      BY <2>1, <2>3 DEF Full, TrieOK
    <3>2. (CHOOSE t \in at : TRUE) = s
      BY <3>1
    <3> QED
      BY <3>1, <3>2 DEF Complete
  <2>9. \A i \in 1 .. Len(best) : m.queries[best[i].idx] = nd[best[i].idx]
    BY <2>2, <2>4, <2>6 DEF SavedOK, IsQuery
  <2> HIDE DEF answer, best, nd, lines
  <2>10. /\ DOMAIN answer = 1 .. Len(best) /\ Len(answer) = Len(best)
         /\ \A i \in 1 .. Len(best) : answer[i].query = nd[best[i].idx] /\ answer[i].count = best[i].count
    BY <2>7, <2>8, <2>9
  <2>11. given = Texts(nd, best)
    BY <2>7, <2>10 DEF Texts
  <2> HIDE DEF given
  <2>12. /\ given \subseteq Matches(nd[s], lines)
         /\ Cardinality(given) = Len(answer)
         /\ Len(answer) = (IF Cardinality(Matches(nd[s], lines)) < K
                           THEN Cardinality(Matches(nd[s], lines)) ELSE K)
         /\ \A i \in DOMAIN answer : \A q \in Matches(nd[s], lines) \ given :
              Frequency(q, lines) <= answer[i].count
    BY <2>1, <2>5, <2>7, <2>10, <2>11, AnswerIsBest
  <2>13. ASSUME NEW i \in DOMAIN answer
         PROVE  /\ answer[i].count = Frequency(answer[i].query, lines)
                /\ \A j \in DOMAIN answer : i < j => answer[i].count >= answer[j].count
    <3>1. \A k \in 1 .. Len(best) : /\ best[k].count \in Nat
                                    /\ best[k].count = Frequency(nd[best[k].idx], lines)
      BY <2>3, <2>6, PairFacts
    <3>2. \A j \in 1 .. Len(best) : i < j => best[i].count >= best[j].count
      BY <2>6, <2>10, <3>1 DEF Greater
    <3> QED
      BY <2>10, <3>1, <3>2
  <2> QED
    BY <2>12, <2>13 DEF answer, given, nd, lines
<1> QED
  BY MpcInvariant, <1>1, PTL
=============================================================================
