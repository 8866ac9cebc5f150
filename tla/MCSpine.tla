------------------------------ MODULE MCSpine ------------------------------
(* Two runs, which are just enough evidence.                                *)
EXTENDS Spine
MCRuns == {1, 2}
=============================================================================
