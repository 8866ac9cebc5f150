--------------------------- MODULE MCQuartermaster ---------------------------
(* Two experiments and one place in each lane.                              *)
EXTENDS Quartermaster
CONSTANTS x1, x2
=============================================================================
