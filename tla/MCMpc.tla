-------------------------------- MODULE MCMpc --------------------------------
(***************************************************************************)
(* Mpc on logs of up to three queries, with repeated, empty and nested     *)
(* ones.                                                                   *)
(***************************************************************************)
EXTENDS Mpc

CONSTANTS a, b

MCChars == <<a, b>>
Texts == {<<>>, <<a>>, <<b>>, <<a, a>>, <<a, b>>}
MCLogs == UNION {[1 .. n -> Texts] : n \in 0 .. 2}
            \cup {l \in [1 .. 3 -> Texts] : Cardinality({l[1], l[2], l[3]}) < 3 /\ l[1] # <<>>}
            \cup {<< <<a, b>>, <<a, a>>, <<a, b>>, <<a>>, <<b>>, <<b>> >>}
=============================================================================
