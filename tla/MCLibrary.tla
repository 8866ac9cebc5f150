----------------------------- MODULE MCLibrary -----------------------------
(* Two keys of one paper, a request that may be held and one that is not.   *)
EXTENDS Library
OnePaper == [k \in Keys |-> CHOOSE x \in Keys : TRUE]
=============================================================================
