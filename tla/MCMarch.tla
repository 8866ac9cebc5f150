------------------------------ MODULE MCMarch ------------------------------
(* One direction for the march itself, two where one blocks the other.      *)
EXTENDS March
=============================================================================
