------------------------- MODULE PrefixTree_proofs -------------------------
(***************************************************************************)
(* Proofs about PrefixTree, for any keys, values and bounds.               *)
(***************************************************************************)
EXTENDS PrefixTree, FiniteSetTheorems, TLAPS

USE DEF Counted, PutValue, Skipped

Below(d, n) == {p \in DOMAIN d : n \in Ancestors(p)}

IndInv == TypeOK /\ Root \in nodes /\ IsFiniteSet(DOMAIN data) /\ LeafsCounted /\ HandlesValid

(* Prefixes order the paths. *)
LEMMA PathFacts == \A p \in Paths : p \in Seq(Keys)
  BY PrefixTreeAssumption DEF Paths

LEMMA AncestorFacts ==
  ASSUME NEW p \in Paths
  PROVE  /\ p \in Ancestors(p) /\ Root \in Ancestors(p)
         /\ Ancestors(p) \subseteq Paths
         /\ \A q \in Ancestors(p) : Ancestors(q) \subseteq Ancestors(p)
<1>1. Root \in Paths
  BY PrefixTreeAssumption DEF Paths, Root
<1>2. IsPrefix(p, p) /\ IsPrefix(Root, p)
  BY PathFacts DEF IsPrefix, Root
<1>3. ASSUME NEW q \in Paths, NEW r \in Paths, IsPrefix(q, p), IsPrefix(r, q)
      PROVE  IsPrefix(r, p)
  <2>1. /\ p \in Seq(Keys) /\ q \in Seq(Keys) /\ r \in Seq(Keys)
        /\ Len(r) <= Len(q) /\ Len(q) <= Len(p)
    BY <1>3, PathFacts DEF IsPrefix
  <2>2. \A i \in 1 .. Len(q) : q[i] = p[i]
    <3>1. \A i \in 1 .. Len(q) : SubSeq(q, 1, Len(q))[i] = q[i] /\ SubSeq(p, 1, Len(q))[i] = p[i]
      BY <2>1
    <3> QED
      BY <3>1, <1>3 DEF IsPrefix
  <2>3. \A i \in 1 .. Len(r) : r[i] = q[i]
    <3>1. \A i \in 1 .. Len(r) : SubSeq(r, 1, Len(r))[i] = r[i] /\ SubSeq(q, 1, Len(r))[i] = q[i]
      BY <2>1
    <3> QED
      BY <3>1, <1>3 DEF IsPrefix
  <2>4. \A i \in 1 .. Len(r) : r[i] = p[i]
    BY <2>1, <2>2, <2>3
  <2>5. SubSeq(r, 1, Len(r)) = SubSeq(p, 1, Len(r))
    BY <2>1, <2>4
  <2> QED
    BY <2>1, <2>5 DEF IsPrefix
<1> QED
  BY <1>1, <1>2, <1>3 DEF Ancestors

(* Adding a leaf adds one below each of its ancestors, and removing a leaf  *)
(* removes one.                                                             *)
LEMMA BelowFinite ==
  ASSUME NEW d, IsFiniteSet(DOMAIN d), NEW n
  PROVE  IsFiniteSet(Below(d, n)) /\ Cardinality(Below(d, n)) \in Nat
  BY FS_Subset, FS_CardinalityType DEF Below

LEMMA BelowAdded ==
  ASSUME NEW d, NEW e, NEW p, IsFiniteSet(DOMAIN d), p \notin DOMAIN d,
         DOMAIN e = DOMAIN d \cup {p}, NEW n
  PROVE  Cardinality(Below(e, n)) =
           Cardinality(Below(d, n)) + (IF n \in Ancestors(p) THEN 1 ELSE 0)
<1>1. IsFiniteSet(Below(d, n)) /\ Cardinality(Below(d, n)) \in Nat
  BY BelowFinite
<1>2. CASE n \in Ancestors(p)
  <2>1. Below(e, n) = Below(d, n) \cup {p} /\ p \notin Below(d, n)
    BY <1>2 DEF Below
  <2> QED
    BY <1>1, <1>2, <2>1, FS_AddElement
<1>3. CASE n \notin Ancestors(p)
  <2>1. Below(e, n) = Below(d, n)
    BY <1>3 DEF Below
  <2> QED
    BY <1>1, <1>3, <2>1
<1> QED
  BY <1>2, <1>3

LEMMA CountPositive ==
  ASSUME TypeOK, IsFiniteSet(DOMAIN data), LeafsCounted,
         NEW p \in DOMAIN data, NEW n \in Ancestors(p)
  PROVE  n \in nodes /\ num_leafs[n] > 0
<1>1. n \in nodes
  BY DEF TypeOK
<1>2. p \in Below(data, n)
  BY DEF Below
<1>3. Cardinality(Below(data, n)) # 0 /\ Cardinality(Below(data, n)) \in Nat
  BY <1>2, BelowFinite, FS_EmptySet
<1>4. num_leafs[n] = Cardinality(Below(data, n))
  BY <1>1 DEF LeafsCounted, Below
<1> QED
  BY <1>1, <1>3, <1>4

LEMMA FindExact == IndInv => FindsAllLeafs
<1> SUFFICES ASSUME IndInv, NEW keys \in Paths
             PROVE  LeafsBelow(keys) = {p \in DOMAIN data : keys \in Ancestors(p)}
  BY DEF FindsAllLeafs
<1> USE DEF IndInv
<1>1. ASSUME NEW p \in DOMAIN data, keys \in Ancestors(p) PROVE p \in LeafsBelow(keys)
  <2>1. p \in Paths
    BY DEF TypeOK
  <2>2. keys \in nodes
    BY <1>1, CountPositive
  <2>3. num_leafs[Root] # 0
    BY <2>1, CountPositive, AncestorFacts
  <2>4. \A q \in Ancestors(p) : num_leafs[q] # 0
    BY CountPositive
  <2> QED
    BY <1>1, <2>2, <2>3, <2>4 DEF LeafsBelow
<1> QED
  BY <1>1 DEF LeafsBelow
-----------------------------------------------------------------------------
(* The inductive invariant. *)
(* The root's count tells whether there is a leaf. *)
LEMMA NoneLeft ==
  ASSUME IndInv
  PROVE  num_leafs[Root] = 0 <=> DOMAIN data = {}
<1>1. CASE DOMAIN data # {}
  <2>1. PICK p \in DOMAIN data : TRUE
    BY <1>1
  <2>2. p \in Paths
    BY DEF IndInv, TypeOK
  <2>3. num_leafs[Root] > 0 /\ num_leafs[Root] \in Nat
    BY <2>1, <2>2, AncestorFacts, CountPositive DEF IndInv, TypeOK
  <2> QED
    BY <1>1, <2>3
<1>2. CASE DOMAIN data = {}
  <2>1. {p \in DOMAIN data : Root \in Ancestors(p)} = {}
    BY <1>2
  <2>2. num_leafs[Root] = Cardinality({p \in DOMAIN data : Root \in Ancestors(p)})
    BY DEF IndInv, LeafsCounted
  <2> QED
    BY <1>2, <2>1, <2>2, FS_EmptySet
<1> QED
  BY <1>1, <1>2

LEMMA IndInvInit == Init => IndInv
<1> SUFFICES ASSUME Init PROVE IndInv
  OBVIOUS
<1>1. DOMAIN data = {}
  BY DEF Init
<1>2. Root \in Paths
  BY PrefixTreeAssumption DEF Paths, Root
<1>3. Ancestors(Root) = {Root}
  <2>1. \A q \in Paths : q \in Seq(Keys) /\ Len(q) \in Nat
    BY PathFacts
  <2>2. \A q \in Paths : Len(q) <= Len(Root) => q = Root
    BY <2>1 DEF Root
  <2> QED
    BY <2>2, <1>2, AncestorFacts DEF Ancestors, IsPrefix
<1>4. TypeOK
  <2>1. data \in [DOMAIN data -> Values]
    BY <1>1 DEF Init
  <2>2. num_leafs \in [nodes -> Nat]
    BY DEF Init
  <2> QED
    BY <1>1, <1>2, <1>3, <2>1, <2>2 DEF Init, TypeOK
<1>5. LeafsCounted
  <2>1. \A n : {p \in DOMAIN data : n \in Ancestors(p)} = {}
    BY <1>1
  <2> QED
    BY <2>1, FS_EmptySet DEF Init, LeafsCounted
<1> QED
  BY <1>1, <1>4, <1>5, FS_EmptySet DEF Init, IndInv, HandlesValid

LEMMA PutKeeps ==
  ASSUME IndInv, NEW p \in Paths, NEW v \in Values, Put(p, v)
  PROVE  IndInv'
<1> USE DEF IndInv
<1>1. /\ nodes' \subseteq Paths /\ nodes' = nodes \cup Ancestors(p)
      /\ p \in nodes' /\ \A n \in nodes' : Ancestors(n) \subseteq nodes'
  BY AncestorFacts DEF Put, Created, TypeOK
<1>2. \A n \in nodes' : CountOf(n) = Cardinality(Below(data, n)) /\ CountOf(n) \in Nat
  <2>1. ASSUME NEW n \in nodes', n \notin nodes PROVE Below(data, n) = {}
    BY <2>1 DEF TypeOK, Below
  <2> QED
    BY <2>1, FS_EmptySet, BelowFinite DEF CountOf, LeafsCounted, TypeOK, Below
<1>3. CASE p \in DOMAIN data
  <2>1. UNCHANGED <<data, found>> /\ num_leafs' = [n \in nodes' |-> CountOf(n)]
    <3>1. \A n \in nodes' : CountOf(n) + 0 = CountOf(n)
      BY <1>2
    <3>2. num_leafs' = [n \in nodes' |-> CountOf(n) + 0]
      BY <1>3 DEF Put
    <3> QED
      BY <1>3, <3>1, <3>2 DEF Put
  <2>2. LeafsCounted'
    BY <2>1, <1>2 DEF LeafsCounted, Below
  <2>3. TypeOK'
    BY <2>1, <1>1, <1>2 DEF TypeOK, Put
  <2>4. HandlesValid'
    BY <2>1, <1>1 DEF HandlesValid, CountOf, TypeOK
  <2> QED
    BY <1>1, <2>1, <2>2, <2>3, <2>4
<1>4. CASE p \notin DOMAIN data
  <2>1. /\ data' = [q \in DOMAIN data \cup {p} |-> IF q = p THEN v ELSE data[q]]
        /\ UNCHANGED found
        /\ num_leafs' = [n \in nodes' |-> CountOf(n) + (IF n \in Ancestors(p) THEN 1 ELSE 0)]
    BY <1>4 DEF Put
  <2>2. DOMAIN data' = DOMAIN data \cup {p} /\ IsFiniteSet(DOMAIN data')
    BY <2>1, FS_AddElement
  <2>3. LeafsCounted'
    <3>1. \A n \in nodes' : num_leafs'[n] = Cardinality(Below(data', n))
      BY <1>2, <1>4, <2>1, <2>2, BelowAdded
    <3> QED
      BY <3>1 DEF LeafsCounted, Below
  <2>4. TypeOK'
    <3>1. data' \in [DOMAIN data' -> Values]
      BY <2>1 DEF TypeOK
    <3>2. num_leafs' \in [nodes' -> Nat]
      BY <2>1, <1>2
    <3> QED
      BY <3>1, <3>2, <2>1, <2>2, <1>1 DEF TypeOK, Put
  <2>5. HandlesValid'
    BY <2>1, <2>2, <1>1 DEF HandlesValid, CountOf, TypeOK
  <2> QED
    BY <1>1, <2>2, <2>3, <2>4, <2>5
<1> QED
  BY <1>3, <1>4

LEMMA FindKeeps ==
  ASSUME IndInv, NEW keys \in Paths, FindAll(keys)
  PROVE  IndInv'
<1> USE DEF IndInv
<1>1. found' \subseteq DOMAIN data /\ UNCHANGED <<nodes, data, num_leafs, inserted>>
  BY DEF FindAll, LeafsBelow
<1>2. \A leaf \in found' : leaf \in nodes /\ num_leafs[leaf] > 0
  <2>1. ASSUME NEW leaf \in found' PROVE leaf \in Ancestors(leaf) /\ leaf \in DOMAIN data
    BY <1>1, AncestorFacts DEF TypeOK
  <2> QED
    BY <2>1, CountPositive
<1> QED
  BY <1>1, <1>2 DEF TypeOK, LeafsCounted, HandlesValid

LEMMA EraseKeeps ==
  ASSUME IndInv, NEW leaf \in found, Erase(leaf)
  PROVE  IndInv'
<1> USE DEF IndInv
<1>1. /\ leaf \in DOMAIN data /\ leaf \in nodes /\ leaf \in Paths
      /\ data' = [q \in DOMAIN data \ {leaf} |-> data[q]]
      /\ DOMAIN data' = DOMAIN data \ {leaf} /\ found' = found \ {leaf}
      /\ UNCHANGED <<nodes, inserted>>
      /\ num_leafs' = [n \in nodes |-> num_leafs[n] - (IF n \in Ancestors(leaf) THEN 1 ELSE 0)]
  BY DEF Erase, TypeOK
<1>2. IsFiniteSet(DOMAIN data')
  BY <1>1, FS_RemoveElement
<1>3. \A n \in nodes : num_leafs'[n] = Cardinality(Below(data', n))
  <2>1. ASSUME NEW n \in nodes
        PROVE  Cardinality(Below(data, n)) =
                 Cardinality(Below(data', n)) + (IF n \in Ancestors(leaf) THEN 1 ELSE 0)
    <3>1. DOMAIN data = DOMAIN data' \cup {leaf} /\ leaf \notin DOMAIN data'
      BY <1>1
    <3> QED
      BY <3>1, <1>2, BelowAdded
  <2>2. \A n \in nodes : num_leafs[n] = Cardinality(Below(data, n))
    BY DEF LeafsCounted, Below
  <2>3. \A n \in nodes : Cardinality(Below(data', n)) \in Nat
    BY <1>2, BelowFinite
  <2>4. SUFFICES ASSUME NEW n \in nodes
                 PROVE  num_leafs'[n] = Cardinality(Below(data', n))
    OBVIOUS
  <2>5. num_leafs'[n] = num_leafs[n] - (IF n \in Ancestors(leaf) THEN 1 ELSE 0)
    BY <1>1
  <2>6. num_leafs[n] = Cardinality(Below(data', n)) + (IF n \in Ancestors(leaf) THEN 1 ELSE 0)
    BY <2>1, <2>2
  <2> QED
    BY <2>3, <2>5, <2>6
<1>4. \A n \in nodes : num_leafs'[n] \in Nat
  BY <1>3, <1>2, BelowFinite
<1>5. LeafsCounted'
  BY <1>1, <1>3 DEF LeafsCounted, Below
<1>6. TypeOK'
  <2>1. num_leafs' \in [nodes -> Nat]
    BY <1>1, <1>4
  <2>2. data' \in [DOMAIN data' -> Values]
    BY <1>1 DEF TypeOK
  <2> QED
    BY <1>1, <2>1, <2>2 DEF TypeOK
<1>7. HandlesValid'
  <2>1. \A h \in found' : h \in DOMAIN data' /\ h \in Paths
    BY <1>1 DEF HandlesValid, TypeOK
  <2>2. ASSUME NEW h \in found' PROVE num_leafs'[h] > 0
    <3>1. h \in Below(data', h) /\ h \in nodes
      BY <2>1, <1>1, AncestorFacts DEF Below, TypeOK
    <3>2. Cardinality(Below(data', h)) # 0
      BY <3>1, <1>2, BelowFinite, FS_EmptySet
    <3> QED
      BY <3>1, <3>2, <1>3, <1>4
  <2> QED
    BY <2>1, <2>2 DEF HandlesValid
<1> QED
  BY <1>1, <1>2, <1>5, <1>6, <1>7

LEMMA IndInvNext == IndInv /\ [Next]_vars => IndInv'
<1>1. ASSUME IndInv, UNCHANGED vars PROVE IndInv'
  BY <1>1 DEF vars, IndInv, TypeOK, LeafsCounted, HandlesValid
<1>2. ASSUME IndInv, Next PROVE IndInv'
  BY <1>2, PutKeeps, FindKeeps, EraseKeeps DEF Next, Insert, InsertBelow
<1> QED
  BY <1>1, <1>2

LEMMA IndInvAlways == Spec => []IndInv
  BY IndInvInit, IndInvNext, PTL DEF Spec
-----------------------------------------------------------------------------
(* num_leafs is the number of leafs at and below a node, whatever was       *)
(* inserted and erased.                                                     *)
THEOREM CountsCorrect == Spec => []LeafsCounted
<1>1. IndInv => LeafsCounted
  BY DEF IndInv
<1> QED
  BY <1>1, IndInvAlways, PTL

(* FindAll finds every leaf, in spite of its pruning. *)
THEOREM FindAllComplete == Spec => []FindsAllLeafs
  BY FindExact, IndInvAlways, PTL

(* Nodes, leafs and handles are always of the tree, and no count wraps.     *)
THEOREM TypeCorrect == Spec => []TypeOK
<1>1. IndInv => TypeOK
  BY DEF IndInv
<1> QED
  BY <1>1, IndInvAlways, PTL

(* A handle stays valid until it is erased. *)
THEOREM HandlesStayValid == Spec => []HandlesValid
<1>1. IndInv => HandlesValid
  BY DEF IndInv
<1> QED
  BY <1>1, IndInvAlways, PTL

(* The counted tree implements the plain map. *)
THEOREM Refinement == Spec => RefinesLeafMap
<1>1. Init => Abs!Init
  BY DEF Init, Abs!Init
<1>2. ASSUME IndInv, [Next]_vars PROVE [Abs!Next]_Abs!vars
  <2>1. ASSUME NEW p \in Paths, NEW v \in Values, Put(p, v) PROVE Abs!Insert(p, v)
    BY <2>1 DEF Put, Abs!Insert
  <2>2. ASSUME NEW p \in Paths, FindAll(p) PROVE Abs!FindAll(p)
    <3>1. \A q \in DOMAIN data : p \in Ancestors(q) <=> IsPrefix(p, q)
      BY DEF Ancestors
    <3>2. LeafsBelow(p) = {q \in DOMAIN data : p \in Ancestors(q)}
      BY <1>2, FindExact DEF FindsAllLeafs
    <3>3. LeafsBelow(p) = {q \in DOMAIN data : IsPrefix(p, q)}
      BY <3>1, <3>2
    <3>4. \A q : Abs!IsPrefix(p, q) <=> IsPrefix(p, q)
      BY DEF IsPrefix, Abs!IsPrefix
    <3>5. LeafsBelow(p) = {q \in DOMAIN data : Abs!IsPrefix(p, q)}
      BY <3>3, <3>4
    <3> QED
      BY <2>2, <3>5 DEF FindAll, Abs!FindAll
  <2>3. ASSUME NEW p \in found, Erase(p) PROVE Abs!Erase(p) /\ p \in Paths
    BY <1>2, <2>3 DEF Erase, IndInv, TypeOK, Abs!Erase
  <2>4. CASE UNCHANGED vars
    BY <2>4 DEF vars, Abs!vars
  <2>5. CASE Next
    BY <2>5, <2>1, <2>2, <2>3 DEF Next, Insert, InsertBelow, Abs!Next
  <2> QED
    BY <1>2, <2>4, <2>5
<1> QED
  BY <1>1, <1>2, IndInvAlways, PTL DEF Spec, RefinesLeafMap, Abs!Spec
=============================================================================
