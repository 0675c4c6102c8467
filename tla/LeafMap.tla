------------------------------ MODULE LeafMap ------------------------------
(***************************************************************************)
(* What PrefixTree (src/prefix_tree.h) promises a client such as           *)
(* BeamSearch: a map from key sequences to values.  Insert never replaces  *)
(* a value, FindAll returns every leaf below a path, and the leafs it      *)
(* returned may be extended and erased one by one.                         *)
(***************************************************************************)
EXTENDS Sequences, SequencesExt

CONSTANTS Paths, Values

VARIABLES data,       \* the leafs: a function from some paths to values
          inserted,   \* what the last Insert returned
          found       \* what the last FindAll returned and Erase left

vars == <<data, inserted, found>>

Init == data = [p \in {} |-> {}] /\ inserted = FALSE /\ found = {}

Insert(p, v) ==
  /\ inserted' = (p \notin DOMAIN data)
  /\ data' = IF p \in DOMAIN data
               THEN data
               ELSE [q \in DOMAIN data \cup {p} |-> IF q = p THEN v ELSE data[q]]
  /\ UNCHANGED found

FindAll(p) ==
  /\ found' = {q \in DOMAIN data : IsPrefix(p, q)}
  /\ UNCHANGED <<data, inserted>>

Erase(p) ==
  /\ p \in found
  /\ data' = [q \in DOMAIN data \ {p} |-> data[q]]
  /\ found' = found \ {p}
  /\ UNCHANGED inserted

Next == \E p \in Paths : (\E v \in Values : Insert(p, v)) \/ FindAll(p) \/ Erase(p)

Spec == Init /\ [][Next]_vars
=============================================================================
