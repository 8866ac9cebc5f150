---------------------------- MODULE MCDispatcher ----------------------------
(* Small dispatchers.  The rows to choose from: a first-party source, a     *)
(* created claim (a system handler: no dial, no lane), a high-signal finding *)
(* on the same claim (its agent has a lane of one permit and a cooldown),    *)
(* and the record of a conversation, for which main.py registers no handler. *)
EXTENDS Dispatcher, TLC

CONSTANTS e1, e2, e3, e4, w1, w2

Columns(type, target, lab, onClaim) ==
  [type |-> type, target |-> target, lab |-> lab, onClaim |-> onClaim]

AllRows ==
  (e1 :> Columns("source.discovered", NoTarget, TRUE, FALSE)) @@
  (e2 :> Columns("claim.created", 7, FALSE, TRUE)) @@
  (e3 :> Columns("finding.high_signal", 7, FALSE, TRUE)) @@
  (e4 :> Columns("mimir.answered", 9, FALSE, FALSE))

MCRow == [e \in Events |-> AllRows[e]]

MCHandlerAgent ==
  [t \in {MCRow[e].type : e \in Events} \ {"mimir.answered"} |->
     CASE t = "claim.created"       -> NoAgent
       [] t = "finding.high_signal" -> "critic"
       [] OTHER                     -> "mimir"]

MCLaneCap == [l \in Lanes |-> 1]

WakeSymmetry == Permutations(Wakes)
=============================================================================
