----------------------------- MODULE PrefixTree -----------------------------
(***************************************************************************)
(* PrefixTree, PrefixNode and PrefixLeaf (src/prefix_tree.h): the tree in  *)
(* which BeamSearch keeps its hypotheses.  A node is identified with the   *)
(* keys on its path from the root (its Prefix(); their number is its       *)
(* Depth()).  Every node counts the leafs at and below it in num_leafs;    *)
(* Insert and Erase update the counts of all ancestors, and FindAll trusts *)
(* them to skip what is empty.  Erase keeps the node, and its children.    *)
(*                                                                         *)
(* `found` are the PrefixLeaf handles of the last FindAll that the client  *)
(* has not erased; older handles are taken to be gone.                     *)
(***************************************************************************)
EXTENDS Integers, Sequences, FiniteSets, SequencesExt

CONSTANTS Keys,       \* key type
          Values,     \* value type
          MaxDepth,   \* bounds for model checking: on the length of a path
          MaxLeafs    \* and on the number of leafs

ASSUME PrefixTreeAssumption == MaxDepth \in Nat /\ MaxLeafs \in Nat

Paths == UNION {[1 .. n -> Keys] : n \in 0 .. MaxDepth}
Root == <<>>

VARIABLES nodes,      \* the nodes created so far
          data,       \* the leafs among them and their values
          num_leafs,  \* per node
          inserted,   \* what the last Insert returned
          found       \* live handles

vars == <<nodes, data, num_leafs, inserted, found>>

Init ==
  /\ nodes = {Root}
  /\ data = [p \in {} |-> {}]
  /\ num_leafs = [n \in {Root} |-> 0]
  /\ inserted = FALSE
  /\ found = {}
-----------------------------------------------------------------------------
Ancestors(p) == {q \in Paths : IsPrefix(q, p)}    \* and p itself

\* PrefixNode::Find(keys, true) from the root or from a leaf: the nodes on
\* the way are there afterwards, new ones with num_leafs = 0.
Created(p) == nodes \cup Ancestors(p)
InBounds(p) == p \in DOMAIN data \/ Cardinality(DOMAIN data) < MaxLeafs
CountOf(n) == IF n \in nodes THEN num_leafs[n] ELSE 0

\* Mutant: counting starts at the parent.
CountedAbove(p) == Ancestors(p) \ {p}
\* The nodes whose num_leafs Insert and Erase change: this one and its parents.
Counted(p) == Ancestors(p)

\* Mutant: an existing value is replaced.
PutReplacing(p, v) == [q \in DOMAIN data \cup {p} |-> IF q = p THEN v ELSE data[q]]
\* if (node->data) return false;
PutValue(p, v) ==
  IF p \in DOMAIN data THEN data ELSE [q \in DOMAIN data \cup {p} |-> IF q = p THEN v ELSE data[q]]

\* PrefixNode::Insert: false and nothing changed (but nodes may have been
\* created) if there is a value; else every node up to the root counts it.
Put(p, v) ==
  /\ InBounds(p)
  /\ nodes' = Created(p)
  /\ inserted' = (p \notin DOMAIN data)
  /\ num_leafs' = [n \in Created(p) |->
                     CountOf(n) + (IF p \notin DOMAIN data /\ n \in Counted(p) THEN 1 ELSE 0)]
  /\ data' = PutValue(p, v)
  /\ UNCHANGED found

\* PrefixTree::Insert(keys, value)
Insert(keys, v) == Put(keys, v)

\* PrefixTree::Insert(leaf, keys, value)
InsertBelow(leaf, keys, v) ==
  /\ leaf \in found
  /\ leaf \o keys \in Paths
  /\ Put(leaf \o keys, v)

\* Mutant: a leaf's own count is left out.
SkippedIfOne(n) == num_leafs[n] <= 1
\* Empty(): FindAll does not go there.
Skipped(n) == num_leafs[n] = 0

\* PrefixNode::FindAll: breadth-first from the node at keys, into the
\* children that are not Empty().
LeafsBelow(keys) ==
  IF num_leafs[Root] = 0 \/ keys \notin nodes
    THEN {}
    ELSE {p \in DOMAIN data : /\ keys \in Ancestors(p)
                              /\ \A q \in Ancestors(p) \ Ancestors(keys) : ~Skipped(q)}

FindAll(keys) ==
  /\ found' = LeafsBelow(keys)
  /\ UNCHANGED <<nodes, data, num_leafs, inserted>>

\* PrefixTree::Erase(leaf): asserts that there is a value, drops it, counts
\* down to the root and sets leaf.node to nullptr.  num_leafs is a size_t:
\* a negative number stands for one that wrapped.
Erase(leaf) ==
  /\ leaf \in found
  /\ leaf \in DOMAIN data          \* QBZ_ASSERT(data != nullptr, "Not a leaf")
  /\ data' = [q \in DOMAIN data \ {leaf} |-> data[q]]
  /\ num_leafs' = [n \in nodes |-> num_leafs[n] - (IF n \in Counted(leaf) THEN 1 ELSE 0)]
  /\ found' = found \ {leaf}
  /\ UNCHANGED <<nodes, inserted>>

\* What BeamSearch and the tools call.
Next ==
  \/ \E p \in Paths, v \in Values : Insert(p, v)
  \/ \E leaf \in found, p \in Paths, v \in Values : InsertBelow(leaf, p, v)
  \/ \E p \in Paths : FindAll(p)
  \/ \E leaf \in found : Erase(leaf)

Spec == Init /\ [][Next]_vars

-----------------------------------------------------------------------------
TypeOK ==
  /\ nodes \subseteq Paths
  /\ \A n \in nodes : Ancestors(n) \subseteq nodes
  /\ DOMAIN data \subseteq nodes
  /\ data \in [DOMAIN data -> Values]
  /\ num_leafs \in [nodes -> Nat]
  /\ inserted \in BOOLEAN
  /\ found \subseteq nodes

(* Every node's num_leafs is the number of leafs at and below it, through   *)
(* any mixture of inserts and erases: Empty() and Size() can be trusted.    *)
LeafsCounted ==
  \A n \in nodes : num_leafs[n] = Cardinality({p \in DOMAIN data : n \in Ancestors(p)})

(* FindAll returns every leaf below the given keys, although it prunes the  *)
(* nodes whose count is zero: no hypothesis of the beam is overlooked.      *)
FindsAllLeafs ==
  \A keys \in Paths : LeafsBelow(keys) = {p \in DOMAIN data : keys \in Ancestors(p)}

(* A handle of the last FindAll stays valid while other leafs are inserted  *)
(* and erased: Erase's assertion holds, and a handle's count never wraps.   *)
HandlesValid == \A leaf \in found : leaf \in DOMAIN data /\ num_leafs[leaf] > 0

(* The tree implements the map.                                             *)
Abs == INSTANCE LeafMap
RefinesLeafMap == Abs!Spec

=============================================================================
