------------------------------ MODULE MCAgenda ------------------------------
(* A place for one direction, whose scores clear the floors.                *)
EXTENDS Agenda
=============================================================================
