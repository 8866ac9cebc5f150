------------------------------ MODULE MCClosure ------------------------------
(* One direction.                                                           *)
EXTENDS Closure
=============================================================================
