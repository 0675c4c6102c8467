------------------------- MODULE BeamSearch_proofs -------------------------
(***************************************************************************)
(* Proofs about BeamSearch, for every model and every Config: results are  *)
(* priced as the model does, pruning loses nothing but what beam_size      *)
(* discards, and there are enough results.                                 *)
(*                                                                         *)
(* The provers do not instantiate the induction theorems of the library,   *)
(* whose hypothesis is an operator.  SetInduction has a set in its place;  *)
(* it follows from the well-foundedness of < on Nat, and is what facts     *)
(* about functions defined by recursion are proved with.                   *)
(***************************************************************************)
EXTENDS BeamSearch, SequenceTheorems, FiniteSetTheorems, NaturalsInduction, TLAPS

(* A nonempty set of numbers has a least one. *)
LEMMA Least ==
  ASSUME NEW S \in SUBSET Nat, S # {}
  PROVE  \E n \in S : \A m \in S : n <= m
<1> DEFINE Less == OpToRel(<, Nat)
<1>1. PICK n \in S : \A m \in S : <<m, n>> \notin Less
  <2>1. IsWellFoundedOn(Less, Nat)
    BY NatLessThanWellFounded
  <2> HIDE DEF Less
  <2> QED
    BY <2>1, WFMin
<1>2. \A m \in S : ~(m < n)
  BY <1>1 DEF OpToRel
<1> QED
  BY <1>2

(* A set of numbers that has 0, and the next of each, has all of them. *)
LEMMA SetInduction ==
  ASSUME NEW S, 0 \in S, \A n \in Nat : n \in S => n + 1 \in S
  PROVE  Nat \subseteq S
<1> SUFFICES ASSUME Nat \ S # {} PROVE FALSE
  OBVIOUS
<1>1. PICK n \in Nat \ S : \A m \in Nat \ S : n <= m
  BY Least
<1>2. n # 0 /\ n - 1 \in Nat
  OBVIOUS
<1>3. n - 1 \in S
  BY <1>1, <1>2
<1> QED
  BY <1>2, <1>3
-----------------------------------------------------------------------------
(* Walking a path *)

\* `at` is the walk along the first n tokens of the path.
IsWalk(m, s, path, unk, n, at) ==
  at = [i \in 0 .. n |->
          IF i = 0 THEN [state |-> s, cost |-> 0] ELSE Follow(m, at[i - 1], path[i], unk)]

LEMMA WalkExists ==
  ASSUME NEW m, NEW s, NEW path, NEW unk
  PROVE  \A n \in Nat : \E at : IsWalk(m, s, path, unk, n, at)
<1> DEFINE S == {n \in Nat : \E at : IsWalk(m, s, path, unk, n, at)}
<1>1. 0 \in S
  <2>1. IsWalk(m, s, path, unk, 0, [i \in 0 .. 0 |-> [state |-> s, cost |-> 0]])
    BY DEF IsWalk
  <2> QED
    BY <2>1
<1>2. ASSUME NEW n \in Nat, n \in S PROVE n + 1 \in S
  <2>1. PICK at : IsWalk(m, s, path, unk, n, at)
    BY <1>2
  <2> DEFINE new == [i \in 0 .. n + 1 |->
                       IF i = n + 1 THEN Follow(m, at[n], path[n + 1], unk) ELSE at[i]]
  <2>2. IsWalk(m, s, path, unk, n + 1, new)
    BY <2>1 DEF IsWalk
  <2>3. n + 1 \in Nat
    OBVIOUS
  <2> HIDE DEF new
  <2> QED
    BY <2>2, <2>3
<1>3. Nat \subseteq S
  <2> HIDE DEF S
  <2> QED
    BY <1>1, <1>2, SetInduction
<1> QED
  BY <1>3

\* Kept folded: the provers read a lemma about records of bound variables badly.
Origin(s) == [state |-> s, cost |-> 0]

(* Walk is the function that its recursive definition describes. *)
LEMMA WalkDef ==
  ASSUME NEW m, NEW s, NEW path, NEW unk, Len(path) \in Nat
  PROVE  /\ Walk(m, s, path, unk)[0] = Origin(s)
         /\ \A n \in 1 .. Len(path) :
              Walk(m, s, path, unk)[n] = Follow(m, Walk(m, s, path, unk)[n - 1], path[n], unk)
<1> DEFINE N == Len(path)
<1>1. \E at : IsWalk(m, s, path, unk, N, at)
  BY WalkExists
<1>2. IsWalk(m, s, path, unk, N, CHOOSE at : IsWalk(m, s, path, unk, N, at))
  <2> HIDE DEF N
  <2> QED
    BY <1>1, Zenon
<1>3. Walk(m, s, path, unk) = CHOOSE at : IsWalk(m, s, path, unk, N, at)
  BY DEF Walk, IsWalk
<1>4. IsWalk(m, s, path, unk, N, Walk(m, s, path, unk))
  BY <1>2, <1>3, Zenon
<1> DEFINE at == Walk(m, s, path, unk)
<1> HIDE DEF at
<1>5. at = [i \in 0 .. N |->
              IF i = 0 THEN [state |-> s, cost |-> 0] ELSE Follow(m, at[i - 1], path[i], unk)]
  BY <1>4 DEF IsWalk, at
<1>6. at[0] = Origin(s)
  BY <1>5 DEF Origin
<1>7. \A n \in 1 .. N : at[n] = Follow(m, at[n - 1], path[n], unk)
  BY <1>5
<1> QED
  BY <1>6, <1>7 DEF at

\* The paths have the same first k tokens.
Agree(p, q, k) == k <= Len(p) /\ k <= Len(q) /\ \A n \in 1 .. k : p[n] = q[n]

(* Where two paths agree, the walks along them do. *)
LEMMA WalkPrefix ==
  ASSUME NEW m, NEW s, NEW T, NEW p \in Seq(T), NEW q \in Seq(T), NEW unk,
         NEW k \in Nat, Agree(p, q, k)
  PROVE  Walk(m, s, p, unk)[k] = Walk(m, s, q, unk)[k]
<1> DEFINE P == Walk(m, s, p, unk)
           Q == Walk(m, s, q, unk)
           S == {n \in Nat : n <= k => P[n] = Q[n]}
<1>0. /\ Len(p) \in Nat /\ Len(q) \in Nat /\ k <= Len(p) /\ k <= Len(q)
      /\ \A n \in 1 .. k : p[n] = q[n]
  BY DEF Agree
<1>1. /\ P[0] = Q[0]
      /\ \A n \in 1 .. k : P[n] = Follow(m, P[n - 1], p[n], unk)
                           /\ Q[n] = Follow(m, Q[n - 1], p[n], unk)
  <2>1. /\ P[0] = Origin(s)
        /\ \A n \in 1 .. Len(p) : P[n] = Follow(m, P[n - 1], p[n], unk)
    BY <1>0, WalkDef
  <2>2. /\ Q[0] = Origin(s)
        /\ \A n \in 1 .. Len(q) : Q[n] = Follow(m, Q[n - 1], q[n], unk)
    BY <1>0, WalkDef
  <2> HIDE DEF P, Q
  <2>3. 1 .. k \subseteq 1 .. Len(p) /\ 1 .. k \subseteq 1 .. Len(q)
    BY <1>0
  <2> QED
    BY <1>0, <2>1, <2>2, <2>3
<1> HIDE DEF P, Q
<1>2. 0 \in S
  BY <1>1
<1>3. ASSUME NEW n \in Nat, n \in S PROVE n + 1 \in S
  <2>1. SUFFICES ASSUME n + 1 <= k PROVE P[n + 1] = Q[n + 1]
    OBVIOUS
  <2>2. n + 1 \in 1 .. k /\ (n + 1) - 1 = n
    BY <2>1
  <2>3. P[n] = Q[n]
    BY <1>3, <2>1
  <2>4. P[n + 1] = Follow(m, P[n], p[n + 1], unk) /\ Q[n + 1] = Follow(m, Q[n], p[n + 1], unk)
    BY <1>1, <2>2
  <2> QED
    BY <2>3, <2>4
<1>4. Nat \subseteq S
  <2> HIDE DEF S
  <2> QED
    BY <1>2, <1>3, SetInduction
<1> QED
  BY <1>4 DEF P, Q

LEMMA WalkAppend ==
  ASSUME NEW m, NEW s, NEW T, NEW p \in Seq(T), NEW t \in T, NEW unk
  PROVE  Walk(m, s, Append(p, t), unk)[Len(p) + 1] = Follow(m, Walk(m, s, p, unk)[Len(p)], t, unk)
<1>1. SUFFICES ASSUME NEW q, q = Append(p, t)
               PROVE  Walk(m, s, q, unk)[Len(p) + 1] = Follow(m, Walk(m, s, p, unk)[Len(p)], t, unk)
  OBVIOUS
<1>2. /\ q \in Seq(T) /\ Len(q) = Len(p) + 1
      /\ Len(p) \in Nat /\ Len(q) \in Nat /\ Agree(p, q, Len(p))
      /\ q[Len(p) + 1] = t
  BY <1>1 DEF Agree
<1>3. Walk(m, s, p, unk)[Len(p)] = Walk(m, s, q, unk)[Len(p)]
  BY <1>2, WalkPrefix
<1>4. \A n \in 1 .. Len(q) :
        Walk(m, s, q, unk)[n] = Follow(m, Walk(m, s, q, unk)[n - 1], q[n], unk)
  BY <1>2, WalkDef
<1>5. Walk(m, s, q, unk)[Len(p) + 1] = Follow(m, Walk(m, s, q, unk)[Len(p)], q[Len(p) + 1], unk)
  BY <1>2, <1>4
<1> QED
  BY <1>2, <1>3, <1>5

\* Every token of the path, or unk in its place, has an arc where it is reached.
Walkable(m, s, path, unk) ==
  \A n \in 1 .. Len(path) : {path[n], unk} \cap DOMAIN m.find[Walk(m, s, path, unk)[n - 1].state] # {}

LEMMA FollowType ==
  ASSUME NEW m, IsModel(States, Tokens, m), NEW at \in [state : States, cost : Nat],
         NEW t, NEW unk, {t, unk} \cap DOMAIN m.find[at.state] # {}
  PROVE  /\ Follow(m, at, t, unk) \in [state : States, cost : Nat]
         /\ at.cost <= Follow(m, at, t, unk).cost
<1> DEFINE find == m.find[at.state]
           token == IF t \in DOMAIN find THEN t ELSE unk
<1>1. \A u \in DOMAIN find : find[u].w \in Nat /\ find[u].to \in States
  BY DEF IsModel
<1>2. token \in DOMAIN find
  OBVIOUS
<1>3. Follow(m, at, t, unk) = [state |-> find[token].to, cost |-> at.cost + find[token].w]
  BY DEF Follow
<1>4. find[token].w \in Nat /\ find[token].to \in States
  BY <1>1, <1>2
<1>5. at.cost \in Nat
  OBVIOUS
<1> HIDE DEF find, token
<1> QED
  BY <1>3, <1>4, <1>5

(* A walk stays within the model, and its cost never falls. *)
LEMMA WalkType ==
  ASSUME NEW m, IsModel(States, Tokens, m), NEW s \in States, NEW path, Len(path) \in Nat,
         NEW unk, Walkable(m, s, path, unk)
  PROVE  /\ \A n \in 0 .. Len(path) : Walk(m, s, path, unk)[n] \in [state : States, cost : Nat]
         /\ \A k, n \in 0 .. Len(path) :
              k <= n => Walk(m, s, path, unk)[k].cost <= Walk(m, s, path, unk)[n].cost
<1> DEFINE P == Walk(m, s, path, unk)
           Hyp == [state : States, cost : Nat]
           S == {n \in Nat : n <= Len(path) => \A k \in 0 .. n : P[k] \in Hyp /\ P[k].cost <= P[n].cost}
<1>1. /\ P[0] = Origin(s)
      /\ \A n \in 1 .. Len(path) : P[n] = Follow(m, P[n - 1], path[n], unk)
  BY WalkDef
<1>2. \A n \in 1 .. Len(path) : {path[n], unk} \cap DOMAIN m.find[P[n - 1].state] # {}
  BY DEF Walkable
<1> HIDE DEF P
<1>3. 0 \in S
  BY <1>1 DEF Origin
<1>4. ASSUME NEW n \in Nat, n \in S PROVE n + 1 \in S
  <2> SUFFICES ASSUME n + 1 <= Len(path)
               PROVE  \A k \in 0 .. n + 1 : P[k] \in Hyp /\ P[k].cost <= P[n + 1].cost
    OBVIOUS
  <2>1. n + 1 \in 1 .. Len(path) /\ (n + 1) - 1 = n
    OBVIOUS
  <2>2. P[n] \in Hyp /\ \A k \in 0 .. n : P[k] \in Hyp /\ P[k].cost <= P[n].cost
    BY <1>4
  <2>3. P[n + 1] = Follow(m, P[n], path[n + 1], unk)
    BY <1>1, <2>1
  <2>4. {path[n + 1], unk} \cap DOMAIN m.find[P[n].state] # {}
    BY <1>2, <2>1
  <2>5. P[n + 1] \in Hyp /\ P[n].cost <= P[n + 1].cost
    <3>1. /\ Follow(m, P[n], path[n + 1], unk) \in Hyp
          /\ P[n].cost <= Follow(m, P[n], path[n + 1], unk).cost
      BY <2>2, <2>4, FollowType
    <3> QED
      BY <2>3, <3>1
  <2>6. \A k \in 0 .. n : P[k].cost <= P[n + 1].cost
    <3>1. \A c, d, e \in Nat : c <= d /\ d <= e => c <= e
      OBVIOUS
    <3> QED
      BY <2>2, <2>5, <3>1
  <2>7. P[n + 1].cost <= P[n + 1].cost
    BY <2>5
  <2>8. \A k \in 0 .. n + 1 : k \in 0 .. n \/ k = n + 1
    OBVIOUS
  <2> QED
    BY <2>2, <2>5, <2>6, <2>7, <2>8
<1>5. Nat \subseteq S
  <2> HIDE DEF S
  <2> QED
    BY <1>3, <1>4, SetInduction
<1>6. \A n \in 0 .. Len(path) : n \in S
  BY <1>5
<1> QED
  BY <1>6 DEF P
-----------------------------------------------------------------------------
(* Ranking *)

LEMMA UpTo ==
  ASSUME NEW n \in Nat
  PROVE  IsFiniteSet(1 .. n) /\ Cardinality(1 .. n) = n
<1>1. /\ IsFiniteSet(1 .. n)
      /\ Cardinality(1 .. n) = IF 1 > n THEN 0 ELSE n - 1 + 1
  BY FS_Interval
<1> QED
  BY <1>1

AtMost(costs, v) == {i \in DOMAIN costs : costs[i] <= v}

LEMMA AtMostFinite ==
  ASSUME NEW costs \in Seq(Nat), NEW v
  PROVE  /\ IsFiniteSet(AtMost(costs, v))
         /\ Cardinality(AtMost(costs, v)) \in Nat
         /\ Cardinality(AtMost(costs, v)) <= Len(costs)
<1>1. Len(costs) \in Nat /\ DOMAIN costs = 1 .. Len(costs)
  OBVIOUS
<1>2. IsFiniteSet(1 .. Len(costs)) /\ Cardinality(1 .. Len(costs)) = Len(costs)
  BY <1>1, UpTo
<1>3. AtMost(costs, v) \in SUBSET (1 .. Len(costs))
  BY <1>1 DEF AtMost
<1> QED
  BY <1>2, <1>3, FS_Subset, FS_CardinalityType

(* What is refused stays refused when it costs more, or more was accepted. *)
LEMMA RefusedStays ==
  ASSUME NEW costs \in Seq(Nat), NEW more \in Seq(Nat), NEW k \in Nat,
         Len(costs) <= Len(more), \A i \in 1 .. Len(costs) : more[i] = costs[i],
         NEW v \in Nat, NEW w \in Nat, v <= w,
         ~WithinTopK(k, costs, v)
  PROVE  ~WithinTopK(k, more, w)
<1>1. AtMost(costs, v) \in SUBSET AtMost(more, w)
  <2>1. /\ Len(costs) \in Nat /\ DOMAIN costs = 1 .. Len(costs)
        /\ Len(more) \in Nat /\ DOMAIN more = 1 .. Len(more)
    OBVIOUS
  <2>2. ASSUME NEW i \in 1 .. Len(costs), costs[i] <= v PROVE i \in 1 .. Len(more) /\ more[i] <= w
    <3>1. costs[i] \in Nat
      BY <2>1
    <3> QED
      BY <2>1, <2>2, <3>1
  <2> QED
    BY <2>1, <2>2 DEF AtMost
<1>2. Cardinality(AtMost(costs, v)) <= Cardinality(AtMost(more, w))
  BY <1>1, AtMostFinite, FS_Subset
<1>3. /\ Cardinality(AtMost(costs, v)) \in Nat
      /\ Cardinality(AtMost(more, w)) \in Nat
  BY AtMostFinite
<1>4. ~(Cardinality(AtMost(costs, v)) < k)
  BY DEF WithinTopK, AtMost
<1>5. ~(Cardinality(AtMost(more, w)) < k)
  BY <1>2, <1>3, <1>4
<1> QED
  BY <1>5 DEF WithinTopK, AtMost

LEMMA FewAccept ==
  ASSUME NEW costs \in Seq(Nat), NEW v, NEW k \in Nat, Len(costs) < k
  PROVE  WithinTopK(k, costs, v)
<1>1. Cardinality(AtMost(costs, v)) < k
  BY AtMostFinite
<1> QED
  BY <1>1 DEF WithinTopK, AtMost

\* k of k costs are at most v: all are.
LEMMA AllAtMost ==
  ASSUME NEW costs \in Seq(Nat), NEW v \in Nat, ~WithinTopK(Len(costs), costs, v)
  PROVE  \A i \in DOMAIN costs : costs[i] <= v
<1>1. Len(costs) \in Nat /\ DOMAIN costs = 1 .. Len(costs)
  OBVIOUS
<1>2. IsFiniteSet(1 .. Len(costs)) /\ Cardinality(1 .. Len(costs)) = Len(costs)
  BY <1>1, UpTo
<1>3. AtMost(costs, v) \in SUBSET (1 .. Len(costs))
  BY <1>1 DEF AtMost
<1>4. Cardinality(AtMost(costs, v)) = Len(costs)
  <2>1. ~(Cardinality(AtMost(costs, v)) < Len(costs))
    BY DEF WithinTopK, AtMost
  <2> QED
    BY <1>1, <2>1, AtMostFinite
<1>5. AtMost(costs, v) = 1 .. Len(costs)
  BY <1>2, <1>3, <1>4, FS_Subset
<1> QED
  BY <1>1, <1>5 DEF AtMost

(* What partial_sort leaves out costs no less than what it keeps; and if n  *)
(* of the costs are at most v, those it keeps are.                          *)
LEMMA SortedKeeps ==
  ASSUME NEW costs \in Seq(Nat), NEW n \in Nat, NEW o \in SortedCheapest(n, costs)
  PROVE  /\ DOMAIN o = 1 .. MinOf(n, Len(costs)) /\ MinOf(n, Len(costs)) \in Nat
         /\ \A i \in DOMAIN o : o[i] \in DOMAIN costs
         /\ \A i, j \in DOMAIN o : i < j => o[i] # o[j] /\ costs[o[i]] <= costs[o[j]]
         /\ \A x \in DOMAIN costs : \/ \E i \in DOMAIN o : o[i] = x
                                    \/ \A i \in DOMAIN o : costs[o[i]] <= costs[x]
         /\ \A v \in Nat : n <= Len(costs) /\ ~WithinTopK(n, costs, v)
                             => \A i \in DOMAIN o : costs[o[i]] <= v
<1> DEFINE m == MinOf(n, Len(costs))
<1>1. /\ Len(costs) \in Nat /\ DOMAIN costs = 1 .. Len(costs)
      /\ \A i \in DOMAIN costs : costs[i] \in Nat
  OBVIOUS
<1>2. m \in Nat /\ m <= n /\ m <= Len(costs)
  BY <1>1 DEF MinOf
<1>3. /\ o \in [1 .. m -> DOMAIN costs]
      /\ \A i, j \in 1 .. m : i < j => o[i] # o[j] /\ costs[o[i]] <= costs[o[j]]
      /\ m > 0 => \A x \in DOMAIN costs : costs[x] < costs[o[m]] => \E i \in 1 .. m : o[i] = x
  BY DEF SortedCheapest
<1>4. DOMAIN o = 1 .. m /\ \A i \in 1 .. m : o[i] \in DOMAIN costs /\ costs[o[i]] \in Nat
  BY <1>1, <1>3
<1>5. n <= Len(costs) => m = n
  BY <1>1 DEF MinOf
<1> HIDE DEF m
<1>6. ASSUME NEW i \in 1 .. m PROVE costs[o[i]] <= costs[o[m]]
  <2>1. m \in 1 .. m /\ (i = m \/ i < m)
    BY <1>2
  <2>2. costs[o[m]] <= costs[o[m]]
    BY <1>4, <2>1
  <2> QED
    BY <1>3, <2>1, <2>2
<1>7. ASSUME NEW x \in DOMAIN costs, \A i \in 1 .. m : o[i] # x, NEW i \in 1 .. m
      PROVE  costs[o[i]] <= costs[x]
  <2>1. m \in 1 .. m /\ m > 0
    BY <1>2
  <2>2. ~(costs[x] < costs[o[m]])
    BY <1>3, <1>7, <2>1
  <2>3. costs[x] \in Nat /\ costs[o[m]] \in Nat /\ costs[o[i]] \in Nat
    BY <1>1, <1>4, <2>1
  <2> QED
    BY <1>6, <2>2, <2>3
<1>8. ASSUME NEW v \in Nat, n <= Len(costs), ~WithinTopK(n, costs, v), NEW i \in 1 .. m
      PROVE  costs[o[i]] <= v
  <2>1. m = n /\ m \in 1 .. m /\ m > 0
    BY <1>2, <1>5, <1>8
  <2>2. SUFFICES ASSUME costs[o[m]] > v PROVE FALSE
    <3>1. costs[o[i]] \in Nat /\ costs[o[m]] \in Nat
      BY <1>4, <2>1
    <3> QED
      BY <1>6, <3>1
  <2> DEFINE Kept == {o[j] : j \in 1 .. m - 1}
             f == [j \in 1 .. m - 1 |-> o[j]]
  <2>3. IsFiniteSet(Kept) /\ Cardinality(Kept) <= m - 1
    <3>1. IsFiniteSet(1 .. m - 1) /\ Cardinality(1 .. m - 1) = m - 1
      <4>1. m - 1 \in Nat
        BY <2>1, <1>2
      <4> QED
        BY <4>1, UpTo
    <3>2. f \in Surjection(1 .. m - 1, Kept)
      BY DEF Surjection
    <3> HIDE DEF Kept, f
    <3> QED
      BY <3>1, <3>2, FS_Surjection
  <2>4. AtMost(costs, v) \in SUBSET Kept
    <3>1. ASSUME NEW x \in DOMAIN costs, costs[x] <= v PROVE x \in Kept
      <4>1. costs[x] < costs[o[m]]
        BY <1>1, <1>4, <2>1, <2>2, <3>1
      <4>2. PICK j \in 1 .. m : o[j] = x
        BY <1>3, <2>1, <4>1
      <4>3. j # m
        BY <1>4, <2>1, <4>1, <4>2
      <4>4. j \in 1 .. m - 1
        BY <4>3, <1>2
      <4> QED
        BY <4>2, <4>4
    <3> QED
      BY <3>1 DEF AtMost
  <2> HIDE DEF Kept
  <2>5. Cardinality(AtMost(costs, v)) <= m - 1
    <3>1. Cardinality(AtMost(costs, v)) <= Cardinality(Kept) /\ Cardinality(Kept) \in Nat
      BY <2>3, <2>4, FS_Subset, FS_CardinalityType
    <3> QED
      BY <2>3, <3>1, <1>2, AtMostFinite
  <2>6. ~(Cardinality(AtMost(costs, v)) < n)
    BY <1>8 DEF WithinTopK, AtMost
  <2> QED
    BY <2>1, <2>5, <2>6, <1>2, AtMostFinite
<1> QED
  BY <1>2, <1>3, <1>4, <1>7, <1>8 DEF m
-----------------------------------------------------------------------------
(* The inductive invariant *)

Hyp == [state : States, cost : Nat]

\* What the model says of a path from where the search began.
WalkTo(path, n) == Walk(model, start, path, Unk)[n]

\* The arcs that GetTopArcs may have kept at s.
Kept(s, arcs) ==
  /\ DOMAIN arcs # {} /\ DOMAIN arcs \subseteq DOMAIN model.find[s]
  /\ \A t \in DOMAIN arcs : arcs[t] = model.find[s][t]
ArcTable(T) == \A s \in States : T[s] = NoArcs \/ Kept(s, T[s])

TypeOK ==
  /\ model \in Models /\ start \in States
  /\ status \in {"search", "done", "failed"}
  /\ IsFiniteSet(DOMAIN tree) /\ DOMAIN tree \subseteq Seq(Tokens)
  /\ \A p \in DOMAIN tree : tree[p] \in Hyp
  /\ todo \subseteq batch /\ batch \subseteq DOMAIN tree
  /\ result \in Seq([path : Seq(Tokens), cost : Nat])
  /\ DOMAIN topArcs = States /\ ArcTable(topArcs)

\* Every hypothesis is what the model makes of its path, and so are results.
Priced ==
  /\ \A p \in DOMAIN tree : Walkable(model, start, p, Unk) /\ tree[p] = WalkTo(p, Len(p))
  /\ \A i \in DOMAIN result : /\ Walkable(model, start, result[i].path, Unk)
                              /\ result[i].cost = FullCost(result[i].path)
                              /\ Len(result[i].path) < LengthLimit

\* A round is about hypotheses of one length; what it adds is longer by one.
Levels ==
  /\ \A p, q \in batch : Len(p) = Len(q)
  /\ \A p \in batch, q \in DOMAIN tree \ batch : Len(q) = Len(p) + 1
  /\ \A p \in batch : \A i \in DOMAIN result : Len(result[i].path) <= Len(p)
  /\ batch = {} => DOMAIN tree = {}
  /\ Taken <= BeamSize

\* What was found is not found again.
Once ==
  /\ \A i \in DOMAIN result : result[i].path \notin todo
  /\ \A i, j \in DOMAIN result : result[i].path = result[j].path => i = j

\* A path below the length limit along the arcs that T keeps.
ArcsAt(T, s) == DOMAIN IF T[s] # NoArcs THEN T[s] ELSE model.find[s]
Along(T, h) ==
  /\ h \in Seq(Tokens) /\ Len(h) < LengthLimit
  /\ \A n \in 1 .. Len(h) : h[n] \in ArcsAt(T, WalkTo(h, n - 1).state)
IsHypothesis(h) == Along(topArcs, h)

Coming == todo \cup (DOMAIN tree \ batch)

\* Each one is accounted for.
Covered ==
  status = "search" =>
    \A h : IsHypothesis(h) =>
      \/ Below(h, cut)
      \/ \E i \in DOMAIN result : result[i].path = h
      \/ ~WillInsert(FullCost(h))
      \/ Below(h, Coming)

\* Until there are topk results every level adds one, and has another below.
Growing ==
  status = "search" /\ Len(result) < TopKSize /\ Len(result) < LengthLimit =>
    /\ batch # {}
    /\ \A p \in batch : Len(p) <= Len(result)
    /\ \A p \in batch \ todo : Len(p) < Len(result) /\ DOMAIN tree \ batch # {}

\* What holds at the end.
Answered ==
  status = "done" =>
    /\ MinOf(TopKSize, LengthLimit) <= Len(result) /\ Len(result) <= TopKSize
    /\ \A h : IsHypothesis(h) =>
         \/ Below(h, cut)
         \/ \E i \in DOMAIN result : result[i].path = h
         \/ Len(result) = TopKSize /\ \A i \in DOMAIN result : result[i].cost <= FullCost(h)

IndInv == TypeOK /\ Priced /\ Levels /\ Once /\ Covered /\ Growing /\ Answered
-----------------------------------------------------------------------------
(* Facts about one state *)

Results == [path : Seq(Tokens), cost : Nat]

LEMMA ModelFacts ==
  ASSUME ConfigOK, model \in Models
  PROVE  /\ IsModel(States, Tokens, model)
         /\ \A s \in States : (CHOOSE c \in model.exit[s] : TRUE) \in Nat
<1>1. IsModel(States, Tokens, model)
  BY DEF ConfigOK
<1>2. \A s \in States : model.exit[s] # {} /\ model.exit[s] \subseteq Nat
  BY <1>1 DEF IsModel
<1> QED
  BY <1>1, <1>2

LEMMA CostsFacts ==
  ASSUME NEW seq \in Seq(Results)
  PROVE  /\ Costs(seq) \in Seq(Nat) /\ Len(Costs(seq)) = Len(seq) /\ Len(seq) \in Nat
         /\ DOMAIN seq = 1 .. Len(seq) /\ DOMAIN Costs(seq) = 1 .. Len(seq)
         /\ \A i \in 1 .. Len(seq) : Costs(seq)[i] = seq[i].cost /\ seq[i] \in Results
<1>1. Len(seq) \in Nat /\ DOMAIN seq = 1 .. Len(seq)
  OBVIOUS
<1>2. \A i \in 1 .. Len(seq) : seq[i] \in Results
  BY <1>1, ElementOfSeq
<1>3. \A i \in 1 .. Len(seq) : seq[i].cost \in Nat
  BY <1>2 DEF Results
<1> QED
  BY <1>1, <1>2, <1>3 DEF Costs

(* A path that the model has, and its cost when it is ended. *)
LEMMA PathFacts ==
  ASSUME ConfigOK, model \in Models, start \in States,
         NEW path \in Seq(Tokens), Walkable(model, start, path, Unk)
  PROVE  /\ Len(path) \in Nat
         /\ \A n \in 0 .. Len(path) : WalkTo(path, n) \in Hyp
         /\ \A k, n \in 0 .. Len(path) : k <= n => WalkTo(path, k).cost <= WalkTo(path, n).cost
         /\ FullCost(path) \in Nat
         /\ \A n \in 0 .. Len(path) : WalkTo(path, n).cost <= FullCost(path)
<1>1. Len(path) \in Nat
  OBVIOUS
<1>2. /\ \A n \in 0 .. Len(path) : WalkTo(path, n) \in Hyp
      /\ \A k, n \in 0 .. Len(path) : k <= n => WalkTo(path, k).cost <= WalkTo(path, n).cost
  BY <1>1, ModelFacts, WalkType DEF WalkTo, Hyp
<1>3. WalkTo(path, Len(path)) \in Hyp
  BY <1>1, <1>2
<1> DEFINE end == WalkTo(path, Len(path))
           exit == CHOOSE c \in model.exit[end.state] : TRUE
<1>4. exit \in Nat /\ end.cost \in Nat
  BY <1>3, ModelFacts DEF Hyp
<1>5. FullCost(path) = end.cost + exit
  BY DEF FullCost, WalkTo
<1> HIDE DEF end, exit
<1>6. ASSUME NEW n \in 0 .. Len(path) PROVE WalkTo(path, n).cost <= FullCost(path)
  <2>1. WalkTo(path, n).cost <= end.cost
    BY <1>1, <1>2 DEF end
  <2>2. WalkTo(path, n).cost \in Nat
    BY <1>2 DEF Hyp
  <2> QED
    BY <1>4, <1>5, <2>1, <2>2
<1> QED
  BY <1>1, <1>2, <1>4, <1>5, <1>6

(* One token more, along an arc that FindOf gives. *)
LEMMA ChildFacts ==
  ASSUME ConfigOK, model \in Models, start \in States,
         NEW p \in Seq(Tokens), Walkable(model, start, p, Unk),
         NEW t \in DOMAIN model.find[WalkTo(p, Len(p)).state]
  PROVE  LET q == Append(p, t)
             arc == model.find[WalkTo(p, Len(p)).state][t]
         IN  /\ q \in Seq(Tokens) /\ Len(q) = Len(p) + 1 /\ Walkable(model, start, q, Unk)
             /\ WalkTo(q, Len(q)) = [state |-> arc.to, cost |-> WalkTo(p, Len(p)).cost + arc.w]
<1> DEFINE at == WalkTo(p, Len(p))
<1>1. at \in Hyp /\ Len(p) \in Nat
  BY PathFacts
<1>2. t \in Tokens
  BY <1>1, ModelFacts DEF IsModel, Hyp
<1>0. SUFFICES ASSUME NEW q, q = Append(p, t)
             PROVE  /\ q \in Seq(Tokens) /\ Len(q) = Len(p) + 1 /\ Walkable(model, start, q, Unk)
                    /\ WalkTo(q, Len(q)) = [state |-> model.find[at.state][t].to,
                                            cost |-> at.cost + model.find[at.state][t].w]
  OBVIOUS
<1>3. /\ q \in Seq(Tokens) /\ Len(q) = Len(p) + 1
      /\ \A n \in 1 .. Len(p) : p[n] = q[n]
      /\ q[Len(p) + 1] = t
  BY <1>0, <1>2
<1>4. WalkTo(q, Len(q)) = Follow(model, at, t, Unk)
  BY <1>0, <1>2, <1>3, WalkAppend DEF WalkTo
<1>5. WalkTo(q, Len(q)) = [state |-> model.find[at.state][t].to,
                           cost |-> at.cost + model.find[at.state][t].w]
  BY <1>4 DEF Follow
<1>6. \A n \in 0 .. Len(p) : WalkTo(q, n) = WalkTo(p, n)
  <2> TAKE n \in 0 .. Len(p)
  <2>1. n \in Nat /\ q \in Seq(Tokens) /\ Agree(p, q, n)
    BY <1>1, <1>3 DEF Agree
  <2>2. Walk(model, start, p, Unk)[n] = Walk(model, start, q, Unk)[n]
    BY <2>1, WalkPrefix
  <2> QED
    BY <2>2 DEF WalkTo
<1>7. Walkable(model, start, q, Unk)
  <2>1. SUFFICES ASSUME NEW n \in 1 .. Len(q)
                 PROVE  {q[n], Unk} \cap DOMAIN model.find[WalkTo(q, n - 1).state] # {}
    BY DEF Walkable, WalkTo
  <2>2. CASE n = Len(p) + 1
    BY <2>2, <1>1, <1>3, <1>6
  <2>3. CASE n \in 1 .. Len(p)
    <3>1. n - 1 \in 0 .. Len(p) /\ q[n] = p[n]
      BY <2>3, <1>1, <1>3
    <3>2. {p[n], Unk} \cap DOMAIN model.find[WalkTo(p, n - 1).state] # {}
      BY <2>3 DEF Walkable, WalkTo
    <3> QED
      BY <3>1, <3>2, <1>6
  <2> QED
    BY <2>2, <2>3, <1>1, <1>3
<1> QED
  BY <1>3, <1>5, <1>7

LEMMA HypothesisFacts ==
  ASSUME ConfigOK, model \in Models, start \in States,
         NEW T, ArcTable(T), NEW h, Along(T, h)
  PROVE  /\ h \in Seq(Tokens) /\ Len(h) \in Nat
         /\ Walkable(model, start, h, Unk)
         /\ \A n \in 0 .. Len(h) : /\ SubSeq(h, 1, n) \in Seq(Tokens)
                                   /\ Len(SubSeq(h, 1, n)) = n
                                   /\ WalkTo(SubSeq(h, 1, n), n) = WalkTo(h, n)
<1>1. h \in Seq(Tokens) /\ Len(h) \in Nat
  BY DEF Along
<1>2. \A s : ArcsAt(T, s) \subseteq DOMAIN model.find[s] \/ s \notin States
  BY DEF ArcTable, ArcsAt, Kept
<1>3. ASSUME NEW n \in 0 .. Len(h)
      PROVE  /\ SubSeq(h, 1, n) \in Seq(Tokens) /\ Len(SubSeq(h, 1, n)) = n
             /\ WalkTo(SubSeq(h, 1, n), n) = WalkTo(h, n)
  <2>0. SUFFICES ASSUME NEW g, g = SubSeq(h, 1, n)
               PROVE  g \in Seq(Tokens) /\ Len(g) = n /\ WalkTo(g, n) = WalkTo(h, n)
    OBVIOUS
  <2>1. /\ g \in Seq(Tokens) /\ Len(g) = n /\ n \in Nat /\ n <= Len(h)
        /\ \A i \in 1 .. n : g[i] = h[i]
    BY <1>1, <2>0
  <2>2. Walk(model, start, g, Unk)[n] = Walk(model, start, h, Unk)[n]
    <3>1. n \in Nat /\ g \in Seq(Tokens) /\ Agree(g, h, n)
      BY <1>1, <2>1 DEF Agree
    <3> QED
      BY <1>1, <3>1, WalkPrefix
  <2> QED
    BY <2>1, <2>2 DEF WalkTo
<1> DEFINE S == {n \in Nat : n <= Len(h) => WalkTo(h, n) \in Hyp}
           P == Walk(model, start, h, Unk)
<1>4. /\ P[0] = Origin(start)
      /\ \A n \in 1 .. Len(h) : P[n] = Follow(model, P[n - 1], h[n], Unk)
  BY <1>1, WalkDef
<1>5. 0 \in S
  BY <1>4 DEF WalkTo, Hyp, Origin
<1>6. ASSUME NEW n \in Nat, n \in S PROVE n + 1 \in S
  <2> SUFFICES ASSUME n + 1 <= Len(h) PROVE WalkTo(h, n + 1) \in Hyp
    OBVIOUS
  <2>1. n + 1 \in 1 .. Len(h) /\ n + 1 - 1 = n
    BY <1>1
  <2>2. WalkTo(h, n) \in Hyp
    BY <1>6
  <2>3. h[n + 1] \in DOMAIN model.find[WalkTo(h, n).state]
    BY <1>2, <2>1, <2>2 DEF Along, Hyp
  <2>4. P[n + 1] = Follow(model, P[n], h[n + 1], Unk)
    BY <1>4, <2>1
  <2>5. Follow(model, P[n], h[n + 1], Unk) \in Hyp
    BY <2>2, <2>3, ModelFacts, FollowType DEF WalkTo, Hyp
  <2> QED
    BY <2>4, <2>5 DEF WalkTo
<1>7. Nat \subseteq S
  <2> HIDE DEF S
  <2> QED
    BY <1>5, <1>6, SetInduction
<1>8. Walkable(model, start, h, Unk)
  <2>1. SUFFICES ASSUME NEW n \in 1 .. Len(h)
                 PROVE  h[n] \in DOMAIN model.find[WalkTo(h, n - 1).state]
    BY DEF Walkable, WalkTo
  <2>2. n - 1 \in Nat /\ n - 1 <= Len(h)
    BY <1>1
  <2>3. WalkTo(h, n - 1) \in Hyp
    BY <1>7, <2>2
  <2> QED
    BY <1>2, <2>3 DEF Along, Hyp
<1> QED
  BY <1>1, <1>3, <1>8
-----------------------------------------------------------------------------
(* Steps *)

\* A beam that the round comes to.
LEMMA BeamFacts ==
  ASSUME ConfigOK, IndInv, NEW p \in todo
  PROVE  /\ p \in batch /\ p \in DOMAIN tree /\ p \in Seq(Tokens) /\ Len(p) \in Nat
         /\ tree[p] \in Hyp /\ tree[p] = WalkTo(p, Len(p))
         /\ Walkable(model, start, p, Unk)
         /\ FullCost(p) \in Nat /\ tree[p].cost <= FullCost(p)
<1>1. /\ p \in batch /\ p \in DOMAIN tree /\ p \in Seq(Tokens) /\ Len(p) \in Nat
      /\ tree[p] \in Hyp
  BY DEF IndInv, TypeOK
<1>2. tree[p] = WalkTo(p, Len(p)) /\ Walkable(model, start, p, Unk)
  BY <1>1 DEF IndInv, Priced
<1>3. Len(p) \in 0 .. Len(p)
  BY <1>1
<1>4. FullCost(p) \in Nat /\ WalkTo(p, Len(p)).cost <= FullCost(p)
  BY <1>1, <1>2, <1>3, PathFacts DEF IndInv, TypeOK
<1> QED
  BY <1>1, <1>2, <1>4

(* Ending a beam adds it to the results unless TopK refuses it. *)
LEMMA EndedFacts ==
  ASSUME ConfigOK, IndInv, NEW p \in todo, WithinLimit(p)
  PROVE  /\ Ended(p) \in Seq(Results)
         /\ Len(result) <= Len(Ended(p)) /\ \A i \in 1 .. Len(result) : Ended(p)[i] = result[i]
         /\ \/ ~WillInsert(FullCost(p)) /\ Ended(p) = result
            \/ /\ Len(Ended(p)) = Len(result) + 1
               /\ Ended(p)[Len(result) + 1].path = p
               /\ Ended(p)[Len(result) + 1].cost = FullCost(p)
<1>1. /\ p \in Seq(Tokens) /\ tree[p] = WalkTo(p, Len(p)) /\ FullCost(p) \in Nat
  BY BeamFacts
<1>2. result \in Seq(Results) /\ Len(result) \in Nat
  BY DEF IndInv, TypeOK, Results
<1>3. Ended(p) = IF WillInsert(FullCost(p)) THEN Append(result, [path |-> p, cost |-> FullCost(p)])
                 ELSE result
  BY <1>1 DEF Ended, FullCost, WalkTo
<1>4. CASE WillInsert(FullCost(p))
  <2>0. SUFFICES ASSUME NEW r \in Results, r.path = p, r.cost = FullCost(p),
                        Ended(p) = Append(result, r)
                 PROVE  /\ Ended(p) \in Seq(Results) /\ Len(Ended(p)) = Len(result) + 1
                        /\ Ended(p)[Len(result) + 1] = r
                        /\ \A i \in 1 .. Len(result) : Ended(p)[i] = result[i]
    <3>1. [path |-> p, cost |-> FullCost(p)] \in Results
      BY <1>1 DEF Results
    <3> QED
      BY <1>2, <1>3, <1>4, <3>1
  <2> QED
    BY <1>2, <2>0
<1>5. CASE ~WillInsert(FullCost(p))
  BY <1>2, <1>3, <1>5
<1> QED
  BY <1>4, <1>5

\* What GetTopArcs may return: arcs of the state, and at least one.
LEMMA SelectedFacts ==
  ASSUME ConfigOK, TypeOK, NEW s \in States, NEW arcs \in Selected(s)
  PROVE  Kept(s, arcs)
<1>1. CASE topArcs[s] # NoArcs
  BY <1>1 DEF Selected, TypeOK, ArcTable
<1>2. CASE topArcs[s] = NoArcs
  <2> DEFINE all == model.find[s]
             cost == [t \in DOMAIN all |-> all[t].w]
  <2>1. PICK T \in Cheapest(BranchFactor, DOMAIN all, cost) : arcs = [t \in T |-> all[t]]
    BY <1>2 DEF Selected
  <2>2. ~(Cardinality(DOMAIN all) < BranchFactor)
    BY <1>2 DEF Selected
  <2>3. IsFiniteSet(DOMAIN all) /\ Cardinality(DOMAIN all) \in Nat
    <3>1. DOMAIN all \in SUBSET Tokens
      BY ModelFacts DEF IsModel, TypeOK
    <3> HIDE DEF all
    <3> QED
      BY <3>1, FS_Subset, FS_CardinalityType DEF ConfigOK
  <2>4. T \subseteq DOMAIN all /\ Cardinality(T) = MinOf(BranchFactor, Cardinality(DOMAIN all))
    BY <2>1 DEF Cheapest
  <2>5. T # {}
    <3>1. Cardinality(T) # 0
      <4> HIDE DEF all
      <4> QED
        BY <2>2, <2>3, <2>4 DEF MinOf, ConfigOK
    <3> QED
      BY <3>1, FS_EmptySet
  <2> QED
    BY <2>1, <2>4, <2>5 DEF Kept
<1> QED
  BY <1>1, <1>2

(* The arcs kept at a state do not change any more, so hypotheses only get *)
(* fewer.                                                                  *)
LEMMA ArcsShrink ==
  ASSUME ConfigOK, TypeOK, NEW s \in States, NEW arcs \in Selected(s),
         NEW T, T = [topArcs EXCEPT ![s] = arcs]
  PROVE  /\ ArcTable(T) /\ DOMAIN T = States /\ T[s] = arcs
         /\ \A h : Along(T, h) => IsHypothesis(h)
<1>1. DOMAIN T = States /\ T[s] = arcs /\ \A r \in States \ {s} : T[r] = topArcs[r]
  BY DEF TypeOK
<1>2. Kept(s, arcs)
  BY SelectedFacts
<1>3. ArcTable(T)
  BY <1>1, <1>2 DEF ArcTable, TypeOK
<1>4. arcs # NoArcs
  BY <1>2 DEF Kept, NoArcs
<1>5. ASSUME NEW r \in States PROVE ArcsAt(T, r) \subseteq ArcsAt(topArcs, r)
  <2>1. CASE r # s
    BY <1>1, <2>1 DEF ArcsAt
  <2>2. CASE r = s /\ topArcs[s] # NoArcs
    BY <1>1, <2>2 DEF ArcsAt, Selected
  <2>3. CASE r = s /\ topArcs[s] = NoArcs
    BY <1>1, <1>2, <1>4, <2>3 DEF ArcsAt, Kept
  <2> QED
    BY <2>1, <2>2, <2>3
<1>6. ASSUME NEW h, Along(T, h) PROVE IsHypothesis(h)
  <2>1. ASSUME NEW n \in 1 .. Len(h) PROVE h[n] \in ArcsAt(topArcs, WalkTo(h, n - 1).state)
    <3>1. Len(h) \in Nat /\ Walkable(model, start, h, Unk) /\ h \in Seq(Tokens)
      BY <1>3, <1>6, HypothesisFacts DEF TypeOK
    <3>2. n - 1 \in 0 .. Len(h)
      BY <3>1
    <3>3. WalkTo(h, n - 1).state \in States
      BY <3>1, <3>2, PathFacts DEF TypeOK, Hyp
    <3> QED
      BY <1>5, <1>6, <3>3 DEF Along
  <2> QED
    BY <1>6, <2>1 DEF Along, IsHypothesis
<1> QED
  BY <1>1, <1>3, <1>6

(* The children of a beam are what the model says of their paths, and one  *)
(* that is not among them is refused.                                      *)
LEMMA ChildrenFacts ==
  ASSUME ConfigOK, IndInv, NEW p \in todo, NEW arcs, Kept(tree[p].state, arcs),
         NEW costs \in Seq(Nat)
  PROVE  LET new == Children(p, arcs, costs) IN
         /\ IsFiniteSet(DOMAIN new)
         /\ \A q \in DOMAIN new :
              /\ q \in Seq(Tokens) /\ Len(q) = Len(p) + 1
              /\ Walkable(model, start, q, Unk)
              /\ new[q] = WalkTo(q, Len(q)) /\ new[q] \in Hyp
         /\ \A t \in DOMAIN arcs :
              \/ Append(p, t) \in DOMAIN new
              \/ ~WithinTopK(TopKSize, costs, WalkTo(Append(p, t), Len(p) + 1).cost)
<1> DEFINE find == model.find[tree[p].state]
           fit == {t \in DOMAIN arcs : Accepted(costs, Weight(p, arcs[t]))}
           new == Children(p, arcs, costs)
<1>1. /\ p \in Seq(Tokens) /\ Len(p) \in Nat /\ tree[p] = WalkTo(p, Len(p)) /\ tree[p] \in Hyp
      /\ Walkable(model, start, p, Unk) /\ model \in Models /\ start \in States
  BY BeamFacts DEF IndInv, TypeOK
<1>2. /\ DOMAIN arcs \subseteq DOMAIN find /\ \A t \in DOMAIN arcs : arcs[t] = find[t]
  BY DEF Kept
<1>3. ASSUME NEW t \in DOMAIN arcs
      PROVE  /\ Append(p, t) \in Seq(Tokens) /\ Len(Append(p, t)) = Len(p) + 1
             /\ Append(p, t)[Len(Append(p, t))] = t
             /\ Walkable(model, start, Append(p, t), Unk)
             /\ WalkTo(Append(p, t), Len(Append(p, t))) = [state |-> arcs[t].to, cost |-> Weight(p, arcs[t])]
             /\ [state |-> arcs[t].to, cost |-> Weight(p, arcs[t])] \in Hyp
  <2>1. t \in DOMAIN model.find[WalkTo(p, Len(p)).state] /\ arcs[t] = model.find[WalkTo(p, Len(p)).state][t]
    BY <1>1, <1>2
  <2>2. /\ Append(p, t) \in Seq(Tokens) /\ Len(Append(p, t)) = Len(p) + 1
        /\ Walkable(model, start, Append(p, t), Unk)
        /\ WalkTo(Append(p, t), Len(Append(p, t))) =
             [state |-> model.find[WalkTo(p, Len(p)).state][t].to,
              cost |-> WalkTo(p, Len(p)).cost + model.find[WalkTo(p, Len(p)).state][t].w]
    BY <1>1, <2>1, ChildFacts
  <2>3. /\ model.find[WalkTo(p, Len(p)).state][t].to \in States
        /\ model.find[WalkTo(p, Len(p)).state][t].w \in Nat
    <3>1. \A s \in States : \A u \in DOMAIN model.find[s] :
             model.find[s][u].to \in States /\ model.find[s][u].w \in Nat
      BY <1>1, ModelFacts DEF IsModel
    <3>2. WalkTo(p, Len(p)).state \in States
      BY <1>1 DEF Hyp
    <3> QED
      BY <2>1, <3>1, <3>2
  <2>4. Append(p, t)[Len(Append(p, t))] = t
    <3>1. t \in Tokens
      <4>1. \A s \in States : DOMAIN model.find[s] \subseteq Tokens
        BY <1>1, ModelFacts DEF IsModel
      <4> QED
        BY <4>1, <2>1, <1>1 DEF Hyp
    <3> QED
      BY <1>1, <3>1
  <2>5. WalkTo(p, Len(p)).cost \in Nat
    BY <1>1 DEF Hyp
  <2>6. Weight(p, arcs[t]) = WalkTo(p, Len(p)).cost + model.find[WalkTo(p, Len(p)).state][t].w
    BY <1>1, <2>1 DEF Weight
  <2>7. Weight(p, arcs[t]) \in Nat
    BY <2>3, <2>5, <2>6
  <2> QED
    BY <2>1, <2>2, <2>3, <2>4, <2>6, <2>7 DEF Hyp
<1>4. /\ DOMAIN new = {Append(p, t) : t \in fit}
      /\ \A q \in DOMAIN new : new[q] = [state |-> arcs[q[Len(q)]].to, cost |-> Weight(p, arcs[q[Len(q)]])]
  BY DEF Children
<1>5. IsFiniteSet(DOMAIN new)
  <2>1. fit \subseteq Tokens
    <3>1. DOMAIN find \subseteq Tokens
      BY <1>1, ModelFacts DEF IsModel, Hyp
    <3> QED
      BY <1>2, <3>1
  <2>2. IsFiniteSet(fit)
    BY <2>1, FS_Subset DEF ConfigOK
  <2> DEFINE f == [t \in fit |-> Append(p, t)]
             D == {Append(p, t) : t \in fit}
  <2>3. f \in Surjection(fit, D)
    BY DEF Surjection
  <2>4. IsFiniteSet(D)
    <3> HIDE DEF f, D, fit
    <3> QED
      BY <2>2, <2>3, FS_Surjection
  <2> QED
    BY <1>4, <2>4
<1>6. ASSUME NEW q \in DOMAIN new
      PROVE  /\ q \in Seq(Tokens) /\ Len(q) = Len(p) + 1 /\ Walkable(model, start, q, Unk)
             /\ new[q] = WalkTo(q, Len(q)) /\ new[q] \in Hyp
  <2>1. PICK t \in fit : q = Append(p, t)
    BY <1>4
  <2>2. t \in DOMAIN arcs /\ q[Len(q)] = t
    BY <1>3, <2>1
  <2>3. new[q] = [state |-> arcs[t].to, cost |-> Weight(p, arcs[t])]
    BY <1>4, <2>2
  <2> HIDE DEF fit, new
  <2> QED
    BY <1>3, <2>1, <2>2, <2>3
<1>7. ASSUME NEW t \in DOMAIN arcs, Append(p, t) \notin DOMAIN new
      PROVE  ~WithinTopK(TopKSize, costs, WalkTo(Append(p, t), Len(p) + 1).cost)
  <2>1. t \notin fit
    BY <1>4, <1>7
  <2>2. ~Accepted(costs, Weight(p, arcs[t]))
    BY <2>1
  <2>3. WalkTo(Append(p, t), Len(p) + 1) = [state |-> arcs[t].to, cost |-> Weight(p, arcs[t])]
    BY <1>3
  <2> QED
    BY <2>2, <2>3 DEF Accepted
<1> HIDE DEF new
<1> QED
  BY <1>5, <1>6, <1>7 DEF new

(* What refuses a hypothesis goes on refusing it and all that it leads to. *)
LEMMA RefusedFor ==
  ASSUME ConfigOK, TypeOK, NEW old \in Seq(Results), NEW new \in Seq(Results),
         Len(old) <= Len(new), \A i \in 1 .. Len(old) : new[i] = old[i],
         NEW v \in Nat, NEW w \in Nat, v <= w, ~Accepted(Costs(old), v)
  PROVE  ~Accepted(Costs(new), w)
<1>1. /\ Costs(old) \in Seq(Nat) /\ Len(Costs(old)) = Len(old) /\ Len(old) \in Nat
      /\ \A i \in 1 .. Len(old) : Costs(old)[i] = old[i].cost
  BY CostsFacts
<1>3. /\ Costs(new) \in Seq(Nat) /\ Len(Costs(new)) = Len(new) /\ Len(new) \in Nat
      /\ \A i \in 1 .. Len(new) : Costs(new)[i] = new[i].cost
  BY CostsFacts
<1>4. /\ Len(Costs(old)) <= Len(Costs(new))
      /\ \A i \in 1 .. Len(Costs(old)) : Costs(new)[i] = Costs(old)[i]
  <2>1. ASSUME NEW i \in 1 .. Len(old) PROVE Costs(new)[i] = Costs(old)[i]
    <3>1. i \in 1 .. Len(new)
      BY <1>1, <1>3
    <3>2. new[i] = old[i]
      OBVIOUS
    <3>3. Costs(new)[i] = new[i].cost
      BY <1>3, <3>1
    <3>4. Costs(old)[i] = old[i].cost
      BY <1>1
    <3> QED
      BY <3>2, <3>3, <3>4
  <2>2. Len(Costs(old)) <= Len(Costs(new))
    BY <1>1, <1>3
  <2> QED
    BY <1>1, <2>1, <2>2
<1>2. TopKSize \in Nat
  BY DEF ConfigOK
<1>5. ~WithinTopK(TopKSize, Costs(old), v)
  BY DEF Accepted
<1>6. ~WithinTopK(TopKSize, Costs(new), w)
  BY <1>1, <1>2, <1>3, <1>4, <1>5, RefusedStays
<1> QED
  BY <1>6 DEF Accepted

\* Taking a beam is within the count that the round may take.
LEMMA TakenOne ==
  ASSUME ConfigOK, IndInv, NEW p \in todo, Taken < BeamSize
  PROVE  Cardinality(batch \ (todo \ {p})) <= BeamSize
<1>1. batch \ (todo \ {p}) = (batch \ todo) \cup {p}
  BY DEF IndInv, TypeOK
<1>2. IsFiniteSet(batch \ todo) /\ Cardinality(batch \ todo) \in Nat
  <2>1. batch \ todo \in SUBSET DOMAIN tree
    BY DEF IndInv, TypeOK
  <2> QED
    BY <2>1, FS_Subset, FS_CardinalityType DEF IndInv, TypeOK
<1>3. Cardinality((batch \ todo) \cup {p}) <= Cardinality(batch \ todo) + 1
  <2>1. Cardinality((batch \ todo) \cup {p}) =
          IF p \in batch \ todo THEN Cardinality(batch \ todo) ELSE Cardinality(batch \ todo) + 1
    BY <1>2, FS_AddElement
  <2> QED
    BY <1>2, <2>1
<1>4. BeamSize \in Nat
  BY DEF ConfigOK
<1>5. Cardinality((batch \ todo) \cup {p}) \in Nat
  BY <1>2, FS_AddElement, FS_CardinalityType
<1>6. Cardinality(batch \ todo) < BeamSize
  BY DEF Taken
<1>7. Cardinality((batch \ todo) \cup {p}) <= BeamSize
  BY <1>2, <1>3, <1>4, <1>5, <1>6
<1> QED
  BY <1>1, <1>7

(* What a step does to the results that ends a beam, or leaves it alone. *)
LEMMA ResultKeeps ==
  ASSUME ConfigOK, IndInv, NEW p \in todo, Take(p), WithinLimit(p), result' = Ended(p)
  PROVE  /\ result' \in Seq(Results)
         /\ \A i \in DOMAIN result' :
              /\ Walkable(model, start, result'[i].path, Unk)
              /\ result'[i].cost = FullCost(result'[i].path)
              /\ Len(result'[i].path) < LengthLimit
              /\ \A r \in batch : Len(result'[i].path) <= Len(r)
         /\ Once'
         /\ Taken' <= BeamSize
<1>1. /\ model' = model /\ start' = start /\ batch' = batch /\ todo' = todo \ {p}
      /\ Taken < BeamSize
  BY DEF Take, BeamLeft
<1>2. /\ p \in batch /\ p \in Seq(Tokens) /\ Walkable(model, start, p, Unk)
      /\ \A r \in batch : Len(p) = Len(r)
  BY BeamFacts DEF IndInv, Levels
<1>3. /\ result \in Seq(Results) /\ Ended(p) \in Seq(Results)
      /\ Len(result) <= Len(Ended(p)) /\ \A i \in 1 .. Len(result) : Ended(p)[i] = result[i]
      /\ \/ ~WillInsert(FullCost(p)) /\ Ended(p) = result
         \/ /\ Len(Ended(p)) = Len(result) + 1
            /\ Ended(p)[Len(result) + 1].path = p
            /\ Ended(p)[Len(result) + 1].cost = FullCost(p)
  BY EndedFacts DEF IndInv, TypeOK, Results
<1>4. \A i \in 1 .. Len(result') :
        \/ i \in 1 .. Len(result) /\ result'[i] = result[i]
        \/ /\ i = Len(result) + 1 /\ Len(result') = Len(result) + 1
           /\ result'[i].path = p /\ result'[i].cost = FullCost(p)
  BY <1>3
<1>5. DOMAIN result = 1 .. Len(result) /\ DOMAIN result' = 1 .. Len(result')
  BY <1>3
<1>6. ASSUME NEW i \in 1 .. Len(result')
      PROVE  /\ Walkable(model, start, result'[i].path, Unk)
             /\ result'[i].cost = FullCost(result'[i].path)
             /\ Len(result'[i].path) < LengthLimit
             /\ \A r \in batch : Len(result'[i].path) <= Len(r)
  <2>1. CASE i \in 1 .. Len(result) /\ result'[i] = result[i]
    BY <1>5, <2>1 DEF IndInv, Priced, Levels
  <2>2. CASE result'[i].path = p /\ result'[i].cost = FullCost(p)
    BY <1>2, <2>2 DEF WithinLimit
  <2> QED
    BY <1>4, <2>1, <2>2
<1>7. Once'
  <2>1. ASSUME NEW i \in 1 .. Len(result') PROVE result'[i].path \notin todo \ {p}
    BY <1>4, <1>5 DEF IndInv, Once
  <2>2. ASSUME NEW i \in 1 .. Len(result'), NEW j \in 1 .. Len(result'),
               result'[i].path = result'[j].path
        PROVE  i = j
    <3>1. \A k \in 1 .. Len(result) : result[k].path # p
      BY <1>5 DEF IndInv, Once
    <3>2. \A k, l \in 1 .. Len(result) : result[k].path = result[l].path => k = l
      BY <1>5 DEF IndInv, Once
    <3> QED
      BY <1>4, <2>2, <3>1, <3>2
  <2> QED
    BY <1>1, <1>5, <2>1, <2>2 DEF Once
<1>8. Taken' <= BeamSize
  <2>1. Cardinality(batch \ (todo \ {p})) <= BeamSize
    BY <1>1, TakenOne
  <2> QED
    BY <1>1, <2>1 DEF Taken
<1> QED
  BY <1>3, <1>5, <1>6, <1>7, <1>8

LEMMA ExpandKeeps ==
  ASSUME ConfigOK, IndInv, NEW p \in todo, Expand(p)
  PROVE  IndInv'
<1> DEFINE s == tree[p].state
<1>1. PICK arcs \in Selected(s) :
        /\ topArcs' = [topArcs EXCEPT ![s] = arcs]
        /\ tree' = [q \in DOMAIN tree \cup DOMAIN Children(p, arcs, Costs(result')) |->
                      IF q \in DOMAIN tree THEN tree[q] ELSE Children(p, arcs, Costs(result'))[q]]
  BY DEF Expand
<1>2. /\ model' = model /\ start' = start /\ batch' = batch /\ cut' = cut /\ status' = status
      /\ status = "search" /\ todo' = todo \ {p} /\ result' = Ended(p)
      /\ WithinLimit(p) /\ Taken < BeamSize /\ WillInsert(tree[p].cost)
  BY DEF Expand, Take, BeamLeft
<1>3. /\ p \in batch /\ p \in DOMAIN tree /\ p \in Seq(Tokens) /\ Len(p) \in Nat
      /\ tree[p] \in Hyp /\ tree[p] = WalkTo(p, Len(p)) /\ s \in States
      /\ Walkable(model, start, p, Unk)
      /\ FullCost(p) \in Nat /\ tree[p].cost <= FullCost(p)
  BY BeamFacts DEF Hyp
<1>4. Kept(s, arcs)
  BY <1>1, <1>3, SelectedFacts DEF IndInv
<1>5. /\ result \in Seq(Results) /\ result' \in Seq(Results)
      /\ Len(result) \in Nat /\ Len(result') \in Nat
      /\ Len(result) <= Len(result') /\ \A i \in 1 .. Len(result) : result'[i] = result[i]
      /\ \/ ~WillInsert(FullCost(p)) /\ result' = result
         \/ /\ Len(result') = Len(result) + 1
            /\ result'[Len(result) + 1].path = p
            /\ result'[Len(result) + 1].cost = FullCost(p)
  <2>1. result \in Seq(Results)
    BY DEF IndInv, TypeOK, Results
  <2>2. /\ Ended(p) \in Seq(Results)
        /\ Len(result) <= Len(Ended(p)) /\ \A i \in 1 .. Len(result) : Ended(p)[i] = result[i]
        /\ \/ ~WillInsert(FullCost(p)) /\ Ended(p) = result
           \/ /\ Len(Ended(p)) = Len(result) + 1
              /\ Ended(p)[Len(result) + 1].path = p
              /\ Ended(p)[Len(result) + 1].cost = FullCost(p)
    BY <1>2, EndedFacts
  <2>3. result' = Ended(p)
    BY <1>2
  <2> QED
    BY <2>1, <2>2, <2>3
<1>6. /\ Costs(result') \in Seq(Nat)
      /\ Costs(result) \in Seq(Nat)
  BY <1>5, CostsFacts
<1> DEFINE new == Children(p, arcs, Costs(result'))
<1>7. /\ IsFiniteSet(DOMAIN new)
      /\ \A q \in DOMAIN new :
           /\ q \in Seq(Tokens) /\ Len(q) = Len(p) + 1
           /\ Walkable(model, start, q, Unk)
           /\ new[q] = WalkTo(q, Len(q)) /\ new[q] \in Hyp
      /\ \A t \in DOMAIN arcs :
           \/ Append(p, t) \in DOMAIN new
           \/ ~WithinTopK(TopKSize, Costs(result'), WalkTo(Append(p, t), Len(p) + 1).cost)
  BY <1>4, <1>6, ChildrenFacts
<1>8. /\ DOMAIN tree' = DOMAIN tree \cup DOMAIN new
      /\ \A q \in DOMAIN tree : tree'[q] = tree[q]
      /\ \A q \in DOMAIN new \ DOMAIN tree : tree'[q] = new[q]
  BY <1>1
<1> HIDE DEF new, s
<1>9. DOMAIN new \cap batch = {}
  <2>1. \A q \in batch : Len(q) = Len(p)
    BY <1>3 DEF IndInv, Levels
  <2> QED
    BY <1>3, <1>7, <2>1
<1>10. \A i \in 1 .. Len(result') :
         \/ i \in 1 .. Len(result) /\ result'[i] = result[i]
         \/ /\ i = Len(result) + 1 /\ Len(result') = Len(result) + 1
            /\ result'[i].path = p /\ result'[i].cost = FullCost(p)
  BY <1>5
<1>11. DOMAIN result = 1 .. Len(result) /\ DOMAIN result' = 1 .. Len(result')
  BY <1>5
<1>12. \A h, n : WalkTo(h, n)' = WalkTo(h, n) /\ FullCost(h)' = FullCost(h)
  BY <1>2 DEF WalkTo, FullCost
<1>13. ArcTable(topArcs') /\ \A h : Along(topArcs', h) => IsHypothesis(h)
  <2>1. TypeOK /\ s \in States /\ topArcs' = [topArcs EXCEPT ![s] = arcs]
    BY <1>1, <1>3 DEF IndInv, s
  <2> QED
    BY <2>1, ArcsShrink
<1>14. topArcs'[s] = arcs /\ arcs # NoArcs /\ DOMAIN arcs # {}
  BY <1>1, <1>3, <1>4 DEF IndInv, TypeOK, Kept, NoArcs, s
<1>15. /\ \A i \in DOMAIN result' :
            /\ Walkable(model, start, result'[i].path, Unk)
            /\ result'[i].cost = FullCost(result'[i].path)
            /\ Len(result'[i].path) < LengthLimit
            /\ \A r \in batch : Len(result'[i].path) <= Len(r)
       /\ Once' /\ Taken' <= BeamSize
  BY <1>2, ResultKeeps DEF Expand
<1>20. TypeOK'
  <2>1. model' \in Models /\ start' \in States /\ status' \in {"search", "done", "failed"}
    BY <1>2 DEF IndInv, TypeOK
  <2>2. IsFiniteSet(DOMAIN tree') /\ DOMAIN tree' \subseteq Seq(Tokens)
    <3>1. IsFiniteSet(DOMAIN tree) /\ DOMAIN tree \subseteq Seq(Tokens)
      BY DEF IndInv, TypeOK
    <3>2. IsFiniteSet(DOMAIN tree \cup DOMAIN new)
      BY <3>1, <1>7, FS_Union
    <3> QED
      BY <1>7, <1>8, <3>1, <3>2
  <2>3. \A q \in DOMAIN tree' : tree'[q] \in Hyp
    BY <1>7, <1>8 DEF IndInv, TypeOK
  <2>4. todo' \subseteq batch' /\ batch' \subseteq DOMAIN tree'
    BY <1>2, <1>8 DEF IndInv, TypeOK
  <2>5. DOMAIN topArcs' = States /\ ArcTable(topArcs')
    BY <1>13, <1>1 DEF IndInv, TypeOK
  <2>6. ArcTable(topArcs)'
    BY <1>2, <2>5 DEF ArcTable, Kept
  <2>7. result' \in Seq([path : Seq(Tokens), cost : Nat])
    BY <1>5 DEF Results
  <2> QED
    BY <2>1, <2>2, <2>3, <2>4, <2>5, <2>6, <2>7 DEF TypeOK
<1>21. Priced'
  <2>1. ASSUME NEW q \in DOMAIN tree'
        PROVE  Walkable(model, start, q, Unk) /\ tree'[q] = WalkTo(q, Len(q))
    <3>1. CASE q \in DOMAIN tree
      BY <1>8, <3>1 DEF IndInv, Priced
    <3>2. CASE q \in DOMAIN new \ DOMAIN tree
      BY <1>7, <1>8, <3>2
    <3> QED
      BY <1>8, <3>1, <3>2
  <2>2. \A i \in DOMAIN result' : /\ Walkable(model, start, result'[i].path, Unk)
                                  /\ result'[i].cost = FullCost(result'[i].path)
                                  /\ Len(result'[i].path) < LengthLimit
    BY <1>15
  <2> QED
    BY <1>2, <1>12, <2>1, <2>2 DEF Priced
<1>22. Levels'
  <2>1. \A q, r \in batch : Len(q) = Len(r)
    BY DEF IndInv, Levels
  <2>2. ASSUME NEW r \in batch, NEW q \in DOMAIN tree' \ batch PROVE Len(q) = Len(r) + 1
    <3>1. CASE q \in DOMAIN tree
      BY <2>2, <3>1 DEF IndInv, Levels
    <3>2. CASE q \in DOMAIN new
      BY <3>2, <1>3, <1>7, <2>1
    <3> QED
      BY <1>8, <3>1, <3>2
  <2>3. (\A r \in batch : \A i \in DOMAIN result' : Len(result'[i].path) <= Len(r)) /\ Taken' <= BeamSize
    BY <1>15
  <2> QED
    BY <1>2, <1>3, <2>1, <2>2, <2>3 DEF Levels
<1>23. Once'
  BY <1>15
<1>24. Covered'
  <2>1. ASSUME NEW h, Along(topArcs', h)
        PROVE  \/ Below(h, cut)
               \/ \E i \in 1 .. Len(result') : result'[i].path = h
               \/ ~Accepted(Costs(result'), FullCost(h))
               \/ \E n \in 0 .. Len(h) : SubSeq(h, 1, n) \in (todo \ {p}) \cup (DOMAIN tree' \ batch)
    <3>1. IsHypothesis(h) /\ ArcTable(topArcs) /\ model \in Models /\ start \in States
      BY <1>13, <2>1 DEF IndInv, TypeOK
    <3>2. /\ h \in Seq(Tokens) /\ Len(h) \in Nat /\ Walkable(model, start, h, Unk)
          /\ \A n \in 0 .. Len(h) : /\ SubSeq(h, 1, n) \in Seq(Tokens)
                                    /\ Len(SubSeq(h, 1, n)) = n
                                    /\ WalkTo(SubSeq(h, 1, n), n) = WalkTo(h, n)
      BY <3>1, HypothesisFacts DEF IsHypothesis
    <3>3. FullCost(h) \in Nat /\ \A n \in 0 .. Len(h) : WalkTo(h, n) \in Hyp /\ WalkTo(h, n).cost <= FullCost(h)
      BY <3>1, <3>2, PathFacts
    <3>4. \/ Below(h, cut)
          \/ \E i \in 1 .. Len(result) : result[i].path = h
          \/ ~WillInsert(FullCost(h))
          \/ Below(h, Coming)
      BY <1>2, <1>11, <3>1 DEF IndInv, Covered
    <3>5. CASE \E i \in 1 .. Len(result) : result[i].path = h
      <4>1. PICK i \in 1 .. Len(result) : result[i].path = h
        BY <3>5
      <4>2. i \in 1 .. Len(result') /\ result'[i].path = h
        BY <4>1, <1>5
      <4> QED
        BY <4>2
    <3>6. CASE ~WillInsert(FullCost(h))
      BY <1>5, <3>3, <3>6, RefusedFor DEF IndInv, WillInsert
    <3>7. CASE Below(h, Coming)
      <4>1. PICK n \in 0 .. Len(h) : SubSeq(h, 1, n) \in Coming
        BY <3>7 DEF Below
      <4>2. CASE SubSeq(h, 1, n) # p
        <5>1. SubSeq(h, 1, n) \in (todo \ {p}) \cup (DOMAIN tree' \ batch)
          BY <4>1, <4>2, <1>8 DEF Coming
        <5> QED
          BY <5>1
      <4>3. CASE SubSeq(h, 1, n) = p /\ n = Len(h)
        <5>1. h = p
          BY <3>2, <4>3
        <5>2. CASE result'[Len(result) + 1].path = p /\ Len(result') = Len(result) + 1
          <6>1. Len(result) + 1 \in 1 .. Len(result')
            BY <1>5, <5>2
          <6> QED
            BY <5>1, <5>2, <6>1
        <5>3. CASE ~WillInsert(FullCost(p)) /\ result' = result
          BY <5>1, <5>3 DEF WillInsert
        <5> QED
          BY <1>5, <5>2, <5>3
      <4>4. CASE SubSeq(h, 1, n) = p /\ n # Len(h)
        <5>1. n \in Nat /\ n = Len(p) /\ n + 1 \in 1 .. Len(h) /\ n + 1 \in 0 .. Len(h) /\ n + 1 - 1 = n
          BY <3>2, <4>4
        <5>2. WalkTo(h, n) = tree[p]
          BY <1>3, <3>2, <4>4, <5>1
        <5>3. h[n + 1] \in ArcsAt(topArcs', s)
          BY <2>1, <5>1, <5>2 DEF Along, s
        <5>4. h[n + 1] \in DOMAIN arcs
          BY <1>14, <5>3 DEF ArcsAt
        <5>5. SubSeq(h, 1, n + 1) = Append(p, h[n + 1])
          BY <3>2, <4>4, <5>1
        <5>6. CASE Append(p, h[n + 1]) \in DOMAIN new
          <6>1. SubSeq(h, 1, n + 1) \in DOMAIN tree' \ batch
            BY <1>8, <1>9, <5>5, <5>6
          <6> QED
            BY <5>1, <6>1
        <5>7. CASE ~WithinTopK(TopKSize, Costs(result'), WalkTo(Append(p, h[n + 1]), Len(p) + 1).cost)
          <6>1. WalkTo(Append(p, h[n + 1]), Len(p) + 1) = WalkTo(h, n + 1)
            BY <3>2, <5>1, <5>5
          <6>2. WalkTo(h, n + 1).cost \in Nat /\ WalkTo(h, n + 1).cost <= FullCost(h)
            BY <3>3, <5>1 DEF Hyp
          <6>3. ~Accepted(Costs(result'), WalkTo(h, n + 1).cost)
            BY <5>7, <6>1 DEF Accepted
          <6>4. ~Accepted(Costs(result'), FullCost(h))
            BY <1>5, <3>3, <6>2, <6>3, RefusedFor DEF IndInv
          <6> QED
            BY <6>4
        <5> QED
          BY <1>7, <5>4, <5>6, <5>7
      <4> QED
        BY <4>2, <4>3, <4>4
    <3> QED
      BY <3>4, <3>5, <3>6, <3>7
  <2>2. \A h : IsHypothesis(h)' <=> Along(topArcs', h)
    BY <1>2 DEF IsHypothesis, Along, ArcsAt, WalkTo
  <2> QED
    BY <1>2, <1>11, <1>12, <2>1, <2>2 DEF Covered, WillInsert, Accepted, Below, Coming
<1>25. Growing'
  <2>1. SUFFICES ASSUME Len(result') < TopKSize, Len(result') < LengthLimit
                 PROVE  /\ batch # {}
                        /\ \A q \in batch : Len(q) <= Len(result')
                        /\ \A q \in batch \ (todo \ {p}) : Len(q) < Len(result') /\ DOMAIN tree' \ batch # {}
    BY <1>2 DEF Growing
  <2>2. TopKSize \in Nat /\ LengthLimit \in Nat
    BY DEF ConfigOK
  <2>3. Len(result) < TopKSize /\ Len(result) < LengthLimit
    BY <1>5, <2>1, <2>2
  <2>4. /\ \A q \in batch : Len(q) <= Len(result)
        /\ \A q \in batch : Len(q) = Len(p)
    BY <1>2, <1>3, <2>3 DEF IndInv, Growing, Levels
  <2>5. WillInsert(FullCost(p))
    <3>1. Len(Costs(result)) < TopKSize
      BY <1>5, <2>3, CostsFacts
    <3> QED
      BY <1>6, <2>2, <3>1, FewAccept DEF WillInsert, Accepted
  <2>6. Len(result') = Len(result) + 1
    BY <1>5, <2>5
  <2>7. DOMAIN tree' \ batch # {}
    <3>1. PICK t \in DOMAIN arcs : TRUE
      BY <1>14
    <3>2. Len(Costs(result')) < TopKSize
      BY <1>5, <2>1, CostsFacts
    <3>3. WithinTopK(TopKSize, Costs(result'), WalkTo(Append(p, t), Len(p) + 1).cost)
      BY <1>6, <2>2, <3>2, FewAccept
    <3>4. Append(p, t) \in DOMAIN new
      BY <1>7, <3>3
    <3> QED
      BY <1>8, <1>9, <3>4
  <2>8. \A q \in batch : Len(q) < Len(result')
    BY <1>3, <1>5, <2>4, <2>6
  <2> QED
    BY <1>3, <1>5, <2>4, <2>6, <2>7, <2>8
<1>26. Answered'
  BY <1>2 DEF Answered
<1> QED
  BY <1>20, <1>21, <1>22, <1>23, <1>24, <1>25, <1>26 DEF IndInv

(* The cheapest beam is refused only if every other one is, and with it     *)
(* whatever lies below.                                                     *)
LEMMA FrontRefused ==
  ASSUME ConfigOK, IndInv, \A f \in Front : ~WillInsert(tree[f].cost),
         NEW h, IsHypothesis(h), NEW n \in 0 .. Len(h), SubSeq(h, 1, n) \in todo
  PROVE  ~WillInsert(FullCost(h))
<1> DEFINE g == SubSeq(h, 1, n)
           Prices == {tree[q].cost : q \in todo}
<1>1. \A q \in todo : tree[q].cost \in Nat
  BY BeamFacts DEF Hyp
<1>2. PICK f \in todo : \A q \in todo : tree[f].cost <= tree[q].cost
  <2>1. Prices \in SUBSET Nat /\ Prices # {}
    BY <1>1
  <2>2. PICK c \in Prices : \A d \in Prices : c <= d
    <3> HIDE DEF Prices
    <3> QED
      BY <2>1, Least
  <2> QED
    BY <2>2
<1>3. ~WillInsert(tree[f].cost)
  BY <1>2 DEF Front
<1>4. model \in Models /\ start \in States /\ ArcTable(topArcs) /\ Along(topArcs, h) /\ result \in Seq(Results)
  BY DEF IndInv, TypeOK, IsHypothesis, Results
<1>5. /\ h \in Seq(Tokens) /\ Walkable(model, start, h, Unk)
      /\ Len(g) = n /\ WalkTo(g, n) = WalkTo(h, n)
  BY <1>4, HypothesisFacts
<1>6. FullCost(h) \in Nat /\ WalkTo(h, n).cost <= FullCost(h)
  BY <1>4, <1>5, PathFacts
<1>7. tree[g] = WalkTo(g, Len(g)) /\ tree[g].cost \in Nat /\ tree[f].cost <= tree[g].cost
  BY <1>1, <1>2, BeamFacts
<1>8. tree[f].cost \in Nat /\ tree[f].cost <= FullCost(h)
  <2>1. tree[f].cost \in Nat /\ tree[g].cost <= FullCost(h)
    BY <1>1, <1>5, <1>6, <1>7
  <2> QED
    BY <1>6, <1>7, <2>1
<1>9. Len(result) <= Len(result) /\ Len(result) \in Nat
  BY <1>4
<1> QED
  BY <1>3, <1>4, <1>6, <1>8, <1>9, RefusedFor DEF WillInsert, IndInv

LEMMA PastLimitKeeps ==
  ASSUME ConfigOK, IndInv, NEW p \in todo, PastLimit(p)
  PROVE  IndInv'
<1>1. /\ model' = model /\ start' = start /\ batch' = batch /\ cut' = cut /\ status' = status
      /\ tree' = tree /\ result' = result /\ topArcs' = topArcs /\ todo' = todo \ {p}
      /\ status = "search" /\ Taken < BeamSize
  BY DEF PastLimit, Take, BeamLeft
<1>2. p \in batch /\ p \in Seq(Tokens) /\ Len(p) \in Nat /\ LengthLimit \in Nat /\ LengthLimit <= Len(p)
  <2>1. p \in batch /\ p \in Seq(Tokens) /\ Len(p) \in Nat
    BY BeamFacts
  <2> QED
    BY <2>1 DEF PastLimit, WithinLimit, ConfigOK
<1>3. \A h, n : WalkTo(h, n)' = WalkTo(h, n) /\ FullCost(h)' = FullCost(h)
  BY <1>1 DEF WalkTo, FullCost
<1>4. \A h : IsHypothesis(h)' <=> IsHypothesis(h)
  BY <1>1 DEF IsHypothesis, Along, ArcsAt, WalkTo
<1>20. TypeOK'
  <2>1. ArcTable(topArcs)'
    BY <1>1 DEF IndInv, TypeOK, ArcTable, Kept
  <2> QED
    BY <1>1, <2>1 DEF IndInv, TypeOK
<1>21. Priced'
  BY <1>1, <1>3 DEF IndInv, Priced
<1>22. Levels'
  <2>1. Taken' <= BeamSize
    <3>1. Cardinality(batch \ (todo \ {p})) <= BeamSize
      BY <1>1, TakenOne
    <3> QED
      BY <1>1, <3>1 DEF Taken
  <2> QED
    BY <1>1, <2>1 DEF IndInv, Levels
<1>23. Once'
  BY <1>1 DEF IndInv, Once
<1>24. Covered'
  <2>1. ASSUME NEW h, IsHypothesis(h), Below(h, Coming)
        PROVE  \E n \in 0 .. Len(h) : SubSeq(h, 1, n) \in (todo \ {p}) \cup (DOMAIN tree \ batch)
    <3>1. PICK n \in 0 .. Len(h) : SubSeq(h, 1, n) \in Coming
      BY <2>1 DEF Below
    <3>2. Len(SubSeq(h, 1, n)) = n /\ Len(h) \in Nat /\ Len(h) < LengthLimit
      <4>1. ArcTable(topArcs) /\ Along(topArcs, h) /\ model \in Models /\ start \in States
        BY <2>1 DEF IndInv, TypeOK, IsHypothesis
      <4> QED
        BY <4>1, HypothesisFacts DEF Along
    <3>3. SubSeq(h, 1, n) # p
      BY <1>2, <3>2
    <3> QED
      BY <3>1, <3>3 DEF Coming
  <2>2. \A h : IsHypothesis(h) => \/ Below(h, cut)
                                  \/ \E i \in DOMAIN result : result[i].path = h
                                  \/ ~WillInsert(FullCost(h))
                                  \/ Below(h, Coming)
    BY <1>1 DEF IndInv, Covered
  <2> QED
    BY <1>1, <1>3, <1>4, <2>1, <2>2 DEF Covered, WillInsert, Accepted, Below, Coming
<1>25. Growing'
  <2>1. SUFFICES ASSUME Len(result) < TopKSize, Len(result) < LengthLimit PROVE FALSE
    BY <1>1 DEF Growing
  <2>2. Len(p) <= Len(result) /\ Len(result) \in Nat
    BY <1>1, <1>2, <2>1 DEF IndInv, Growing, TypeOK
  <2> QED
    BY <1>2, <2>1, <2>2
<1>26. Answered'
  BY <1>1 DEF Answered
<1> QED
  BY <1>20, <1>21, <1>22, <1>23, <1>24, <1>25, <1>26 DEF IndInv

LEMMA ArcsMissingKeeps ==
  ASSUME ConfigOK, IndInv, NEW p \in todo, ArcsMissing(p)
  PROVE  IndInv'
<1>1. /\ model' = model /\ start' = start /\ batch' = batch /\ cut' = cut /\ status' = "failed"
      /\ tree' = tree /\ topArcs' = topArcs /\ todo' = todo \ {p}
  BY DEF ArcsMissing, Take
<1>2. /\ result' \in Seq(Results)
      /\ \A i \in DOMAIN result' :
           /\ Walkable(model, start, result'[i].path, Unk)
           /\ result'[i].cost = FullCost(result'[i].path)
           /\ Len(result'[i].path) < LengthLimit
           /\ \A r \in batch : Len(result'[i].path) <= Len(r)
      /\ Once' /\ Taken' <= BeamSize
  BY ResultKeeps DEF ArcsMissing
<1>3. \A h, n : WalkTo(h, n)' = WalkTo(h, n) /\ FullCost(h)' = FullCost(h)
  BY <1>1 DEF WalkTo, FullCost
<1>20. TypeOK'
  <2>1. ArcTable(topArcs)'
    BY <1>1 DEF IndInv, TypeOK, ArcTable, Kept
  <2>2. result' \in Seq([path : Seq(Tokens), cost : Nat])
    BY <1>2 DEF Results
  <2> QED
    BY <1>1, <2>1, <2>2 DEF IndInv, TypeOK
<1>21. Priced'
  BY <1>1, <1>2, <1>3 DEF IndInv, Priced
<1>22. Levels'
  BY <1>1, <1>2 DEF IndInv, Levels
<1> QED
  BY <1>1, <1>2, <1>20, <1>21, <1>22 DEF IndInv, Covered, Growing, Answered

LEMMA EndRoundKeeps ==
  ASSUME ConfigOK, IndInv, EndRound
  PROVE  IndInv'
<1> DEFINE next == DOMAIN tree \ batch
<1>1. /\ model' = model /\ start' = start /\ status' = status /\ result' = result /\ topArcs' = topArcs
      /\ status = "search" /\ batch # {} /\ RoundOver /\ cut' = cut \cup Cut
      /\ tree' = [p \in next |-> tree[p]]
  BY DEF EndRound
<1>2. /\ DOMAIN tree' = next /\ batch' = next /\ todo' = next
      /\ \A q \in next : tree'[q] = tree[q]
  BY <1>1 DEF EndRound
<1> HIDE DEF next
<1>3. PICK p \in batch : TRUE
  BY <1>1
<1>4. /\ next \subseteq DOMAIN tree
      /\ \A q \in next : Len(q) = Len(p) + 1
      /\ \A i \in DOMAIN result : Len(result[i].path) <= Len(p)
      /\ \A q \in batch : Len(q) = Len(p)
      /\ p \in Seq(Tokens) /\ Len(p) \in Nat
  BY <1>3 DEF IndInv, Levels, TypeOK, next
<1>5. \A h, n : WalkTo(h, n)' = WalkTo(h, n) /\ FullCost(h)' = FullCost(h)
  BY <1>1 DEF WalkTo, FullCost
<1>6. \A h : IsHypothesis(h)' <=> IsHypothesis(h)
  BY <1>1 DEF IsHypothesis, Along, ArcsAt, WalkTo
<1>7. /\ \A i \in DOMAIN result : result[i].path \in Seq(Tokens) /\ Len(result[i].path) \in Nat
      /\ Len(result) \in Nat /\ result \in Seq(Results)
  <2>1. result \in Seq(Results)
    BY DEF IndInv, TypeOK, Results
  <2>2. \A i \in DOMAIN result : result[i] \in Results
    BY <2>1, CostsFacts
  <2>3. \A i \in DOMAIN result : result[i].path \in Seq(Tokens)
    BY <2>2 DEF Results
  <2> QED
    BY <2>1, <2>3
<1>8. BeamSize \in Nat /\ BeamSize # 0 /\ TopKSize \in Nat
  BY DEF ConfigOK
<1>9. Taken \in Nat /\ IsFiniteSet(batch \ todo) /\ IsFiniteSet(next)
  <2>1. batch \ todo \in SUBSET DOMAIN tree /\ next \in SUBSET DOMAIN tree
    BY <1>4 DEF IndInv, TypeOK
  <2> QED
    BY <2>1, FS_Subset, FS_CardinalityType DEF IndInv, TypeOK, Taken
<1>10. todo = {} \/ Taken = BeamSize \/ \A f \in Front : ~WillInsert(tree[f].cost)
  BY <1>1, <1>8, <1>9 DEF RoundOver, BeamLeft, IndInv, Levels
<1>20. TypeOK'
  <2>1. ArcTable(topArcs)'
    BY <1>1 DEF IndInv, TypeOK, ArcTable, Kept
  <2> QED
    BY <1>1, <1>2, <1>4, <1>9, <2>1 DEF IndInv, TypeOK
<1>21. Priced'
  BY <1>1, <1>2, <1>4, <1>5 DEF IndInv, Priced
<1>22. Levels'
  <2>1. Taken' <= BeamSize
    <3>1. Taken' = 0
      BY <1>2, FS_EmptySet DEF Taken
    <3> QED
      BY <1>8, <3>1
  <2>2. \A q \in next : \A i \in DOMAIN result : Len(result[i].path) <= Len(q)
    BY <1>4, <1>7
  <2> QED
    BY <1>1, <1>2, <1>4, <2>1, <2>2 DEF Levels
<1>23. Once'
  <2>1. \A i \in DOMAIN result : result[i].path \notin next
    BY <1>4, <1>7
  <2> QED
    BY <1>1, <1>2, <2>1 DEF IndInv, Once
<1>24. Covered'
  <2>1. ASSUME NEW h, IsHypothesis(h), Below(h, Coming)
        PROVE  \/ \E n \in 0 .. Len(h) : SubSeq(h, 1, n) \in cut \cup Cut
               \/ ~WillInsert(FullCost(h))
               \/ \E n \in 0 .. Len(h) : SubSeq(h, 1, n) \in next
    <3>1. PICK n \in 0 .. Len(h) : SubSeq(h, 1, n) \in Coming
      BY <2>1 DEF Below
    <3>2. SubSeq(h, 1, n) \in todo \/ SubSeq(h, 1, n) \in next
      BY <3>1 DEF Coming, next
    <3>3. CASE SubSeq(h, 1, n) \in todo /\ Taken = BeamSize
      BY <3>3 DEF Cut
    <3>4. CASE SubSeq(h, 1, n) \in todo /\ \A f \in Front : ~WillInsert(tree[f].cost)
      BY <2>1, <3>4, FrontRefused
    <3> QED
      BY <1>10, <3>2, <3>3, <3>4
  <2>2. \A h : IsHypothesis(h) => \/ Below(h, cut)
                                  \/ \E i \in DOMAIN result : result[i].path = h
                                  \/ ~WillInsert(FullCost(h))
                                  \/ Below(h, Coming)
    BY <1>1 DEF IndInv, Covered
  <2>3. Coming' = next
    BY <1>2 DEF Coming
  <2>4. \A c : WillInsert(c)' = WillInsert(c)
    BY <1>1 DEF WillInsert, Accepted
  <2>5. \A h : Below(h, cut) => \E n \in 0 .. Len(h) : SubSeq(h, 1, n) \in cut \cup Cut
    BY DEF Below
  <2> QED
    BY <1>1, <1>5, <1>6, <2>1, <2>2, <2>3, <2>4, <2>5 DEF Covered, Below
<1>25. Growing'
  <2>1. SUFFICES ASSUME Len(result) < TopKSize, Len(result) < LengthLimit
                 PROVE  next # {} /\ \A q \in next : Len(q) <= Len(result)
    BY <1>1, <1>2 DEF Growing
  <2>2. /\ \A q \in batch : Len(q) <= Len(result)
        /\ \A q \in batch \ todo : Len(q) < Len(result) /\ next # {}
    BY <1>1, <2>1 DEF IndInv, Growing, next
  <2>3. \A c : WillInsert(c)
    <3>1. Costs(result) \in Seq(Nat) /\ Len(Costs(result)) < TopKSize
      BY <1>7, <2>1, CostsFacts
    <3> QED
      BY <1>8, <3>1, FewAccept DEF WillInsert, Accepted
  <2>4. todo = {} \/ Taken = BeamSize
    <3>1. ASSUME todo # {} PROVE Front # {}
      <4> DEFINE Prices == {tree[q].cost : q \in todo}
      <4>1. Prices \in SUBSET Nat /\ Prices # {}
        BY <3>1, BeamFacts DEF Hyp
      <4>2. PICK c \in Prices : \A d \in Prices : c <= d
        <5> HIDE DEF Prices
        <5> QED
          BY <4>1, Least
      <4> QED
        BY <4>2 DEF Front
    <3> QED
      BY <1>10, <2>3, <3>1
  <2>5. PICK q \in batch \ todo : TRUE
    <3>1. CASE todo = {}
      BY <1>3, <3>1
    <3>2. CASE Taken = BeamSize
      <4>1. Cardinality(batch \ todo) # 0
        BY <1>8, <3>2 DEF Taken
      <4>2. batch \ todo # {}
        BY <4>1, FS_EmptySet
      <4> QED
        BY <4>2
    <3> QED
      BY <2>4, <3>1, <3>2
  <2> QED
    BY <1>4, <1>7, <2>2, <2>5
<1>26. Answered'
  BY <1>1 DEF Answered
<1> QED
  BY <1>20, <1>21, <1>22, <1>23, <1>24, <1>25, <1>26 DEF IndInv

\* `new` is what the indices in `o` pick of `old`.
Picks(new, old, o) == new = [i \in DOMAIN o |-> old[o[i]]]

(* More than topk results are trimmed to those that cost least. *)
LEMMA TrimmedFacts ==
  ASSUME ConfigOK, NEW old \in Seq(Results), Len(old) > TopKSize,
         NEW o \in SortedCheapest(TopKSize, Costs(old)), NEW new, Picks(new, old, o)
  PROVE  /\ new \in Seq(Results) /\ Len(new) = TopKSize
         /\ DOMAIN o = 1 .. TopKSize
         /\ \A i \in 1 .. TopKSize : o[i] \in DOMAIN old /\ new[i] = old[o[i]]
         /\ \A i, j \in 1 .. TopKSize : o[i] = o[j] => i = j
         /\ \A i, j \in 1 .. TopKSize : i <= j => new[i].cost <= new[j].cost
         /\ \A x \in DOMAIN old : \/ \E i \in 1 .. TopKSize : o[i] = x
                                  \/ \A i \in 1 .. TopKSize : new[i].cost <= old[x].cost
         /\ \A v \in Nat : ~Accepted(Costs(old), v) => \A i \in 1 .. TopKSize : new[i].cost <= v
<1>1. /\ Costs(old) \in Seq(Nat) /\ Len(Costs(old)) = Len(old) /\ Len(old) \in Nat
      /\ DOMAIN old = 1 .. Len(old) /\ DOMAIN Costs(old) = 1 .. Len(old)
      /\ \A i \in 1 .. Len(old) : Costs(old)[i] = old[i].cost /\ old[i] \in Results
  BY CostsFacts
<1>2. TopKSize \in Nat /\ MinOf(TopKSize, Len(Costs(old))) = TopKSize
  BY <1>1 DEF ConfigOK, MinOf
<1>3. /\ DOMAIN o = 1 .. TopKSize
      /\ \A i \in DOMAIN o : o[i] \in DOMAIN Costs(old)
      /\ \A i, j \in DOMAIN o : i < j => o[i] # o[j] /\ Costs(old)[o[i]] <= Costs(old)[o[j]]
      /\ \A x \in DOMAIN Costs(old) : \/ \E i \in DOMAIN o : o[i] = x
                                      \/ \A i \in DOMAIN o : Costs(old)[o[i]] <= Costs(old)[x]
      /\ \A v \in Nat : TopKSize <= Len(Costs(old)) /\ ~WithinTopK(TopKSize, Costs(old), v)
                          => \A i \in DOMAIN o : Costs(old)[o[i]] <= v
  <2>1. /\ DOMAIN o = 1 .. MinOf(TopKSize, Len(Costs(old)))
        /\ \A i \in DOMAIN o : o[i] \in DOMAIN Costs(old)
        /\ \A i, j \in DOMAIN o : i < j => o[i] # o[j] /\ Costs(old)[o[i]] <= Costs(old)[o[j]]
        /\ \A x \in DOMAIN Costs(old) : \/ \E i \in DOMAIN o : o[i] = x
                                        \/ \A i \in DOMAIN o : Costs(old)[o[i]] <= Costs(old)[x]
        /\ \A v \in Nat : TopKSize <= Len(Costs(old)) /\ ~WithinTopK(TopKSize, Costs(old), v)
                            => \A i \in DOMAIN o : Costs(old)[o[i]] <= v
    <3>1. Costs(old) \in Seq(Nat) /\ TopKSize \in Nat
      BY <1>1, <1>2
    <3> QED
      BY <3>1, SortedKeeps
  <2>2. DOMAIN o = 1 .. TopKSize
    BY <1>2, <2>1
  <2> QED
    BY <2>1, <2>2
<1>4. /\ \A i \in 1 .. TopKSize : /\ o[i] \in 1 .. Len(old) /\ new[i] = old[o[i]]
                                  /\ new[i].cost = Costs(old)[o[i]]
      /\ DOMAIN new = 1 .. TopKSize
  BY <1>1, <1>3 DEF Picks
<1>5. \A i \in 1 .. TopKSize : new[i] \in Results /\ new[i].cost \in Nat
  BY <1>1, <1>4 DEF Results
<1>6. new \in Seq(Results) /\ Len(new) = TopKSize
  <2>1. new \in [1 .. TopKSize -> Results]
    BY <1>3, <1>5 DEF Picks
  <2> QED
    BY <1>2, <2>1
<1>7. \A i, j \in 1 .. TopKSize : o[i] = o[j] => i = j
  BY <1>2, <1>3
<1>8. ASSUME NEW i \in 1 .. TopKSize, NEW j \in 1 .. TopKSize, i <= j
      PROVE  new[i].cost <= new[j].cost
  <2>1. CASE i = j
    <3>1. new[i].cost \in Nat
      BY <1>5
    <3> QED
      BY <2>1, <3>1
  <2>2. CASE i < j
    BY <1>3, <1>4, <2>2
  <2> QED
    BY <1>2, <1>8, <2>1, <2>2
<1>9. ASSUME NEW x \in DOMAIN old
      PROVE  \/ \E i \in 1 .. TopKSize : o[i] = x
             \/ \A i \in 1 .. TopKSize : new[i].cost <= old[x].cost
  BY <1>1, <1>3, <1>4
<1>10. ASSUME NEW v \in Nat, ~Accepted(Costs(old), v), NEW i \in 1 .. TopKSize
       PROVE  new[i].cost <= v
  <2>1. TopKSize <= Len(Costs(old)) /\ ~WithinTopK(TopKSize, Costs(old), v)
    BY <1>1, <1>2, <1>10 DEF Accepted
  <2> QED
    BY <1>3, <1>4, <2>1
<1> QED
  BY <1>1, <1>3, <1>4, <1>6, <1>7, <1>8, <1>9, <1>10

LEMMA ReturnKeeps ==
  ASSUME ConfigOK, IndInv, Return
  PROVE  IndInv'
<1>1. /\ model' = model /\ start' = start /\ status' = "done" /\ topArcs' = topArcs /\ cut' = cut
      /\ tree' = tree /\ batch' = batch /\ todo' = todo
      /\ status = "search" /\ batch = {} /\ result' \in Trimmed
  BY DEF Return
<1>2. todo = {} /\ DOMAIN tree = {} /\ Coming = {}
  BY <1>1 DEF IndInv, TypeOK, Levels, Coming
<1>3. \A h, n : WalkTo(h, n)' = WalkTo(h, n) /\ FullCost(h)' = FullCost(h)
  BY <1>1 DEF WalkTo, FullCost
<1>4. \A h : IsHypothesis(h)' <=> IsHypothesis(h)
  BY <1>1 DEF IsHypothesis, Along, ArcsAt, WalkTo
<1>5. result \in Seq(Results) /\ Len(result) \in Nat /\ DOMAIN result = 1 .. Len(result)
  BY CostsFacts DEF IndInv, TypeOK, Results
<1>6. TopKSize \in Nat /\ LengthLimit \in Nat
  BY DEF ConfigOK
<1>7. ~(Len(result) < TopKSize /\ Len(result) < LengthLimit)
  BY <1>1 DEF IndInv, Growing
<1>11. Len(result) \in Nat
  BY <1>5
\* Each result kept is one of those found.
<1>8. /\ result' \in Seq(Results)
      /\ Len(result') = MinOf(TopKSize, Len(result))
      /\ \E o : /\ \A i \in 1 .. Len(result') : o[i] \in DOMAIN result /\ result'[i] = result[o[i]]
                /\ \A i, j \in 1 .. Len(result') : o[i] = o[j] => i = j
      /\ \A x \in DOMAIN result :
           \/ \E i \in 1 .. Len(result') : result'[i].path = result[x].path
           \/ Len(result') = TopKSize /\ \A i \in 1 .. Len(result') : result'[i].cost <= result[x].cost
      /\ \A v \in Nat : ~WillInsert(v) =>
           Len(result') = TopKSize /\ \A i \in 1 .. Len(result') : result'[i].cost <= v
  <2>1. CASE Len(result) > TopKSize
    <3>1. PICK o \in SortedCheapest(TopKSize, Costs(result)) : Picks(result', result, o)
      BY <1>1, <2>1 DEF Trimmed, Picks
    <3>2. /\ result' \in Seq(Results) /\ Len(result') = TopKSize
          /\ DOMAIN o = 1 .. TopKSize
          /\ \A i \in 1 .. TopKSize : o[i] \in DOMAIN result /\ result'[i] = result[o[i]]
          /\ \A i, j \in 1 .. TopKSize : o[i] = o[j] => i = j
          /\ \A i, j \in 1 .. TopKSize : i <= j => result'[i].cost <= result'[j].cost
          /\ \A x \in DOMAIN result : \/ \E i \in 1 .. TopKSize : o[i] = x
                                      \/ \A i \in 1 .. TopKSize : result'[i].cost <= result[x].cost
          /\ \A v \in Nat : ~Accepted(Costs(result), v) => \A i \in 1 .. TopKSize : result'[i].cost <= v
      <4>1. result \in Seq(Results)
        BY <1>5
      <4> QED
        BY <2>1, <3>1, <4>1, TrimmedFacts, Zenon
    <3>3. MinOf(TopKSize, Len(result)) = TopKSize
      BY <1>11, <1>6, <2>1 DEF MinOf
    <3>4. \E q : /\ \A i \in 1 .. TopKSize : q[i] \in DOMAIN result /\ result'[i] = result[q[i]]
                 /\ \A i, j \in 1 .. TopKSize : q[i] = q[j] => i = j
      BY <3>2
    <3>5. \A x \in DOMAIN result :
            \/ \E i \in 1 .. TopKSize : result'[i].path = result[x].path
            \/ \A i \in 1 .. TopKSize : result'[i].cost <= result[x].cost
      BY <3>2
    <3>6. \A v \in Nat : ~WillInsert(v) => \A i \in 1 .. TopKSize : result'[i].cost <= v
      BY <3>2 DEF WillInsert
    <3>7. result' \in Seq(Results) /\ Len(result') = TopKSize
      BY <3>2
    <3> QED
      BY <3>3, <3>4, <3>5, <3>6, <3>7
  <2>2. CASE ~(Len(result) > TopKSize)
    <3>1. result' = result
      BY <1>1, <2>2 DEF Trimmed
    <3>2. MinOf(TopKSize, Len(result)) = Len(result)
      BY <1>11, <1>6, <2>2 DEF MinOf
    <3>3. ASSUME NEW v \in Nat, ~WillInsert(v)
          PROVE  Len(result) = TopKSize /\ \A i \in 1 .. Len(result) : result[i].cost <= v
      <4>1. /\ Costs(result) \in Seq(Nat) /\ Len(Costs(result)) = Len(result)
            /\ DOMAIN Costs(result) = 1 .. Len(result)
            /\ \A i \in 1 .. Len(result) : Costs(result)[i] = result[i].cost
        BY <1>5, CostsFacts
      <4>2. ~WithinTopK(TopKSize, Costs(result), v)
        BY <3>3 DEF WillInsert, Accepted
      <4>3. ~(Len(result) < TopKSize)
        BY <1>6, <4>1, <4>2, FewAccept
      <4>4. Len(result) = TopKSize
        BY <1>11, <1>6, <2>2, <4>3
      <4>5. ~WithinTopK(Len(Costs(result)), Costs(result), v)
        BY <4>1, <4>2, <4>4
      <4>6. \A i \in DOMAIN Costs(result) : Costs(result)[i] <= v
        BY <4>1, <4>5, AllAtMost
      <4> QED
        BY <4>1, <4>4, <4>6
    <3>4. \E o : /\ \A i \in 1 .. Len(result) : o[i] \in DOMAIN result /\ result[i] = result[o[i]]
                 /\ \A i, j \in 1 .. Len(result) : o[i] = o[j] => i = j
      <4> DEFINE id == [i \in 1 .. Len(result) |-> i]
      <4>1. \A i \in 1 .. Len(result) : id[i] = i
        OBVIOUS
      <4> HIDE DEF id
      <4> QED
        BY <1>5, <4>1
    <3>5. \A x \in DOMAIN result : \E i \in 1 .. Len(result) : result[i].path = result[x].path
      BY <1>5
    <3> QED
      BY <1>5, <3>1, <3>2, <3>3, <3>4, <3>5
  <2> QED
    BY <2>1, <2>2
<1>9. DOMAIN result' = 1 .. Len(result')
  BY <1>8
<1>10. PICK o : /\ \A i \in 1 .. Len(result') : o[i] \in DOMAIN result /\ result'[i] = result[o[i]]
                /\ \A i, j \in 1 .. Len(result') : o[i] = o[j] => i = j
  BY <1>8
<1>20. TypeOK'
  <2>1. ArcTable(topArcs)'
    BY <1>1 DEF IndInv, TypeOK, ArcTable, Kept
  <2>2. result' \in Seq([path : Seq(Tokens), cost : Nat])
    BY <1>8 DEF Results
  <2> QED
    BY <1>1, <2>1, <2>2 DEF IndInv, TypeOK
<1>21. Priced'
  <2>1. \A i \in DOMAIN result' : /\ Walkable(model, start, result'[i].path, Unk)
                                  /\ result'[i].cost = FullCost(result'[i].path)
                                  /\ Len(result'[i].path) < LengthLimit
    BY <1>9, <1>10 DEF IndInv, Priced
  <2> QED
    BY <1>1, <1>2, <1>3, <2>1 DEF Priced
<1>22. Levels'
  BY <1>1, <1>2 DEF IndInv, Levels, Taken
<1>23. Once'
  <2>1. \A i, j \in DOMAIN result' : result'[i].path = result'[j].path => i = j
    BY <1>9, <1>10 DEF IndInv, Once
  <2> QED
    BY <1>1, <1>2, <2>1 DEF Once
<1>26. Answered'
  <2>1. MinOf(TopKSize, LengthLimit) <= Len(result') /\ Len(result') <= TopKSize
    <3>1. Len(result') = MinOf(TopKSize, Len(result))
      BY <1>8
    <3> QED
      BY <1>6, <1>7, <1>11, <3>1 DEF MinOf
  <2>2. ASSUME NEW h, IsHypothesis(h)
        PROVE  \/ Below(h, cut)
               \/ \E i \in DOMAIN result' : result'[i].path = h
               \/ Len(result') = TopKSize /\ \A i \in DOMAIN result' : result'[i].cost <= FullCost(h)
    <3>1. \/ Below(h, cut)
          \/ \E x \in DOMAIN result : result[x].path = h
          \/ ~WillInsert(FullCost(h))
      <4>1. ~Below(h, Coming)
        BY <1>2 DEF Below
      <4> QED
        BY <1>1, <2>2, <4>1 DEF IndInv, Covered
    <3>2. FullCost(h) \in Nat
      <4>1. model \in Models /\ start \in States /\ ArcTable(topArcs) /\ Along(topArcs, h)
        BY <2>2 DEF IndInv, TypeOK, IsHypothesis
      <4> QED
        BY <4>1, HypothesisFacts, PathFacts
    <3>3. CASE \E x \in DOMAIN result : result[x].path = h
      <4>1. PICK x \in DOMAIN result : result[x].path = h
        BY <3>3
      <4>2. result[x].cost = FullCost(h)
        BY <4>1 DEF IndInv, Priced
      <4>3. \/ \E i \in 1 .. Len(result') : result'[i].path = result[x].path
            \/ Len(result') = TopKSize /\ \A i \in 1 .. Len(result') : result'[i].cost <= result[x].cost
        BY <1>8
      <4> QED
        BY <1>9, <4>1, <4>2, <4>3
    <3>4. CASE ~WillInsert(FullCost(h))
      BY <1>8, <1>9, <3>2, <3>4
    <3> QED
      BY <3>1, <3>3, <3>4
  <2> QED
    BY <1>1, <1>3, <1>4, <2>1, <2>2 DEF Answered, Below
<1> QED
  BY <1>1, <1>20, <1>21, <1>22, <1>23, <1>26 DEF IndInv, Covered, Growing

\* Variables that stay stay in the invariant.
LEMMA StutterKeeps ==
  ASSUME IndInv, UNCHANGED vars
  PROVE  IndInv'
<1>1. /\ model' = model /\ start' = start /\ status' = status /\ topArcs' = topArcs /\ cut' = cut
      /\ tree' = tree /\ batch' = batch /\ todo' = todo /\ result' = result
  BY DEF vars, searchVars
<1>2. \A h, n : WalkTo(h, n)' = WalkTo(h, n) /\ FullCost(h)' = FullCost(h)
  BY <1>1 DEF WalkTo, FullCost
<1>3. \A h : IsHypothesis(h)' <=> IsHypothesis(h)
  BY <1>1 DEF IsHypothesis, Along, ArcsAt, WalkTo
<1>4. \A c : WillInsert(c)' <=> WillInsert(c)
  BY <1>1 DEF WillInsert, Accepted
<1>5. TypeOK'
  BY <1>1 DEF IndInv, TypeOK, ArcTable, Kept
<1>6. Priced'
  BY <1>1, <1>2 DEF IndInv, Priced
<1>7. Levels' /\ Once' /\ Growing'
  BY <1>1 DEF IndInv, Levels, Once, Growing, Taken
<1>8. Covered' /\ Answered'
  BY <1>1, <1>2, <1>3, <1>4 DEF IndInv, Covered, Answered, Coming, Below
<1> QED
  BY <1>5, <1>6, <1>7, <1>8 DEF IndInv

LEMMA StepKeeps ==
  ASSUME ConfigOK, IndInv, [Next]_vars
  PROVE  IndInv'
BY PastLimitKeeps, ExpandKeeps, ArcsMissingKeeps, EndRoundKeeps, ReturnKeeps, StutterKeeps DEF Next

\* The state in which a search begins, whatever was searched before.
Begun ==
  /\ model \in Models /\ start \in States /\ status \in {"search", "failed"}
  /\ DOMAIN topArcs = States /\ ArcTable(topArcs)
  /\ tree = Root(start)
  /\ batch = {<<>>} /\ todo = {<<>>}
  /\ result = <<>> /\ cut = {}

LEMMA BeginsOK ==
  ASSUME ConfigOK
  PROVE  Begun => IndInv
<1> SUFFICES ASSUME Begun PROVE IndInv
  OBVIOUS
<1>1. /\ <<>> \in Seq(Tokens) /\ Len(<<>>) = 0
      /\ DOMAIN tree = {<<>>} /\ tree[<<>>] = [state |-> start, cost |-> 0] /\ start \in States
      /\ result = <<>> /\ DOMAIN result = {} /\ batch = {<<>>} /\ todo = {<<>>}
  BY DEF Begun, Root
<1>2. IsFiniteSet({<<>>})
  BY FS_Singleton
<1>3. TypeOK
  <2>1. result \in Seq([path : Seq(Tokens), cost : Nat])
    BY <1>1
  <2> QED
    BY <1>1, <1>2, <2>1 DEF TypeOK, Begun, Hyp
<1>4. Priced
  <2>1. Walk(model, start, <<>>, Unk)[0] = [state |-> start, cost |-> 0]
    <3>1. Len(<<>>) \in Nat
      BY <1>1
    <3>2. Walk(model, start, <<>>, Unk)[0] = Origin(start)
      BY <3>1, WalkDef
    <3> QED
      BY <3>2 DEF Origin
  <2>2. Walkable(model, start, <<>>, Unk)
    BY <1>1 DEF Walkable
  <2> QED
    BY <1>1, <2>1, <2>2 DEF Priced, WalkTo
<1>5. Levels
  <2>1. Taken = 0
    BY <1>1, FS_EmptySet DEF Taken
  <2>2. Taken <= BeamSize
    BY <2>1 DEF ConfigOK
  <2> QED
    BY <1>1, <2>2 DEF Levels
<1>6. Covered
  <2>1. ASSUME NEW h, IsHypothesis(h) PROVE Below(h, Coming)
    <3>1. Len(h) \in Nat /\ SubSeq(h, 1, 0) = <<>>
      BY <2>1 DEF IsHypothesis, Along
    <3> QED
      BY <1>1, <3>1 DEF Below, Coming
  <2> QED
    BY <2>1 DEF Covered
<1> QED
  BY <1>1, <1>3, <1>4, <1>5, <1>6 DEF IndInv, Once, Growing, Answered, Begun

(* `lv` holds the paths of each length up to n along the arcs kept.         *)
Longer(p) == {Append(p, t) : t \in ArcsAt(topArcs, WalkTo(p, Len(p)).state)}
Shortest == {<<>>}
LongerThan(L) == UNION {Longer(p) : p \in L}
IsLevels(n, lv) == lv = [i \in 0 .. n |-> IF i = 0 THEN Shortest ELSE LongerThan(lv[i - 1])]

LEMMA LevelsExist == \A n \in Nat : \E lv : IsLevels(n, lv)
<1> DEFINE S == {n \in Nat : \E lv : IsLevels(n, lv)}
<1>1. 0 \in S
  <2>1. IsLevels(0, [i \in 0 .. 0 |-> Shortest])
    BY DEF IsLevels
  <2> QED
    BY <2>1
<1>2. ASSUME NEW n \in Nat, n \in S PROVE n + 1 \in S
  <2>1. PICK lv : IsLevels(n, lv)
    BY <1>2
  <2> DEFINE new == [i \in 0 .. n + 1 |->
                       IF i = n + 1 THEN LongerThan(lv[n]) ELSE lv[i]]
  <2>2. IsLevels(n + 1, new)
    BY <2>1 DEF IsLevels
  <2>3. n + 1 \in Nat
    OBVIOUS
  <2> HIDE DEF new
  <2> QED
    BY <2>2, <2>3
<1>3. Nat \subseteq S
  <2> HIDE DEF S
  <2> QED
    BY <1>1, <1>2, SetInduction
<1> QED
  BY <1>3

(* One token more along an arc kept, below the length limit. *)
LEMMA AlongLonger ==
  ASSUME ConfigOK, TypeOK, NEW p, IsHypothesis(p), Len(p) + 1 < LengthLimit,
         NEW t \in ArcsAt(topArcs, WalkTo(p, Len(p)).state)
  PROVE  IsHypothesis(Append(p, t)) /\ Len(Append(p, t)) = Len(p) + 1
<1>1. /\ ArcTable(topArcs) /\ Along(topArcs, p) /\ model \in Models /\ start \in States
  BY DEF TypeOK, IsHypothesis
<1>2. /\ p \in Seq(Tokens) /\ Len(p) \in Nat /\ Walkable(model, start, p, Unk)
  BY <1>1, HypothesisFacts
<1>3. WalkTo(p, Len(p)).state \in States
  <2>1. WalkTo(p, Len(p)) \in Hyp
    BY <1>1, <1>2, PathFacts
  <2> QED
    BY <2>1 DEF Hyp
<1>4. t \in Tokens
  <2>1. DOMAIN model.find[WalkTo(p, Len(p)).state] \subseteq Tokens
    BY <1>1, <1>3, ModelFacts DEF IsModel
  <2>2. t \in DOMAIN model.find[WalkTo(p, Len(p)).state]
    BY <1>1, <1>3 DEF ArcTable, ArcsAt, Kept
  <2> QED
    BY <2>1, <2>2
<1>0. SUFFICES ASSUME NEW q, q = Append(p, t) PROVE IsHypothesis(q) /\ Len(q) = Len(p) + 1
  OBVIOUS
<1>5. /\ q \in Seq(Tokens) /\ Len(q) = Len(p) + 1 /\ q[Len(p) + 1] = t
      /\ \A n \in 1 .. Len(p) : q[n] = p[n]
  BY <1>0, <1>2, <1>4
<1>6. ASSUME NEW n \in 0 .. Len(p) PROVE WalkTo(q, n) = WalkTo(p, n)
  <2>1. n \in Nat /\ Agree(p, q, n)
    BY <1>2, <1>5 DEF Agree
  <2>2. Walk(model, start, p, Unk)[n] = Walk(model, start, q, Unk)[n]
    BY <1>2, <1>5, <2>1, WalkPrefix
  <2> QED
    BY <2>2 DEF WalkTo
<1>7. ASSUME NEW n \in 1 .. Len(q) PROVE q[n] \in ArcsAt(topArcs, WalkTo(q, n - 1).state)
  <2>1. CASE n = Len(p) + 1
    BY <1>2, <1>5, <1>6, <2>1
  <2>2. CASE n \in 1 .. Len(p)
    <3>1. n - 1 \in 0 .. Len(p)
      BY <1>2, <2>2
    <3>2. p[n] \in ArcsAt(topArcs, WalkTo(p, n - 1).state)
      BY <1>1, <2>2 DEF Along
    <3> QED
      BY <1>5, <1>6, <2>2, <3>1, <3>2
  <2> QED
    BY <1>2, <1>5, <2>1, <2>2
<1> QED
  BY <1>5, <1>7 DEF IsHypothesis, Along

(* What BeamSearch calls a hypothesis is one here. *)
LEMMA HypothesesAre ==
  ASSUME ConfigOK, TypeOK
  PROVE  \A h \in Hypotheses : IsHypothesis(h)
<1> DEFINE level == CHOOSE lv : IsLevels(LengthLimit, lv)
<1>1. LengthLimit \in Nat
  BY DEF ConfigOK
<1>2. IsLevels(LengthLimit, level)
  <2>1. \E lv : IsLevels(LengthLimit, lv)
    BY <1>1, LevelsExist
  <2> QED
    BY <2>1, Zenon
<1>3. Hypotheses = UNION {level[n] : n \in 0 .. LengthLimit - 1}
  BY DEF Hypotheses, IsLevels, Shortest, LongerThan, Longer, ArcsAt, WalkTo
<1> HIDE DEF level
<1>4. level = [i \in 0 .. LengthLimit |-> IF i = 0 THEN Shortest ELSE LongerThan(level[i - 1])]
  BY <1>2 DEF IsLevels
<1> DEFINE S == {n \in Nat : n < LengthLimit => \A p \in level[n] : IsHypothesis(p) /\ Len(p) = n}
<1>5. 0 \in S
  <2>1. SUFFICES ASSUME 0 < LengthLimit PROVE IsHypothesis(<<>>) /\ Len(<<>>) = 0
    BY <1>1, <1>4 DEF Shortest
  <2> QED
    BY <2>1 DEF IsHypothesis, Along
<1>6. ASSUME NEW n \in Nat, n \in S PROVE n + 1 \in S
  <2>1. SUFFICES ASSUME n + 1 < LengthLimit, NEW q \in level[n + 1]
                 PROVE  IsHypothesis(q) /\ Len(q) = n + 1
    OBVIOUS
  <2>2. level[n + 1] = LongerThan(level[n])
    BY <1>1, <1>4, <2>1
  <2>3. PICK p \in level[n] : q \in Longer(p)
    BY <2>1, <2>2 DEF LongerThan
  <2>4. IsHypothesis(p) /\ Len(p) = n
    BY <1>1, <1>6, <2>1, <2>3
  <2>5. PICK t \in ArcsAt(topArcs, WalkTo(p, Len(p)).state) : q = Append(p, t)
    BY <2>3 DEF Longer
  <2>6. IsHypothesis(Append(p, t)) /\ Len(Append(p, t)) = Len(p) + 1
    BY <2>1, <2>4, AlongLonger
  <2> QED
    BY <2>4, <2>5, <2>6
<1>7. Nat \subseteq S
  <2> HIDE DEF S
  <2> QED
    BY <1>5, <1>6, SetInduction
<1>8. ASSUME NEW h \in Hypotheses PROVE IsHypothesis(h)
  <2>1. PICK n \in 0 .. LengthLimit - 1 : h \in level[n]
    BY <1>3
  <2>2. n \in Nat /\ n < LengthLimit
    BY <1>1
  <2> QED
    BY <1>7, <2>1, <2>2
<1> QED
  BY <1>8

(* What the invariant says to those who search. *)
LEMMA InvPrices == IndInv => ResultsPriced
  BY DEF IndInv, Priced, Once, ResultsPriced

LEMMA InvLoses == ASSUME ConfigOK PROVE IndInv => OnlyBeamSizeLoses
  BY HypothesesAre DEF IndInv, Answered, OnlyBeamSizeLoses

LEMMA InvEnough == IndInv => EnoughResults
  BY DEF IndInv, Answered, EnoughResults
-----------------------------------------------------------------------------
(* Theorems *)

LEMMA Invariant == ASSUME ConfigOK PROVE Spec => []IndInv
<1>1. Init => IndInv
  <2>1. Init => Begun
    BY DEF Init, Begun, ArcTable
  <2> QED
    BY <2>1, BeginsOK
<1>2. IndInv /\ [Next]_vars => IndInv'
  BY StepKeeps
<1> QED
  BY <1>1, <1>2, PTL DEF Spec

(* A beam in the tree is a state of the model with a cost, under a path of  *)
(* tokens; the beams of a round are in the tree; what is kept of a state's  *)
(* arcs is a nonempty part of what the model has there.                     *)
THEOREM BeamsTyped == ASSUME ConfigOK PROVE Spec => []TypeOK
<1>1. IndInv => TypeOK
  BY DEF IndInv
<1> QED
  BY <1>1, Invariant, PTL

(* A result has the cost that the model gives its path, a path shorter than *)
(* length_limit, and is found once.                                         *)
THEOREM SearchPrices == ASSUME ConfigOK PROVE Spec => []ResultsPriced
  BY InvPrices, Invariant, PTL

(* Of all paths along the arcs kept, a search that is done has found those  *)
(* that cost least, but for what beam_size discarded: neither the early     *)
(* stop of a round nor the children left out lose any.                      *)
THEOREM SearchLosesNothing == ASSUME ConfigOK PROVE Spec => []OnlyBeamSizeLoses
  BY InvLoses, Invariant, PTL

(* A search that is done has topk results, or one for every length below    *)
(* length_limit if there are fewer.                                         *)
THEOREM SearchFindsEnough == ASSUME ConfigOK PROVE Spec => []EnoughResults
  BY InvEnough, Invariant, PTL
=============================================================================
