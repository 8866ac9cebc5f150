--------------------------- MODULE EventContract ---------------------------
(***************************************************************************)
(* What the event bus promises: at-least-once handling.  An event is open  *)
(* until it is settled, and settling is final in the sense that it never   *)
(* reopens.  'done' is only said of an event some handler call has worked  *)
(* on.  The bus does not promise that one handler call works on it, nor    *)
(* that the record of a settled event stays the same: a second call may    *)
(* finish later and rewrite it.                                            *)
(***************************************************************************)
CONSTANT Events
VARIABLES fate, worked
vars == <<fate, worked>>

Init == /\ fate = [e \in Events |-> "absent"]
        /\ worked = [e \in Events |-> FALSE]

Publish(e) == /\ fate[e] = "absent"
              /\ fate' = [fate EXCEPT ![e] = "open"]
              /\ UNCHANGED worked

Work(e) == /\ fate[e] # "absent"
           /\ worked' = [worked EXCEPT ![e] = TRUE]
           /\ UNCHANGED fate

Settle(e) == /\ fate[e] # "absent"
             /\ \E f \in {"done", "dropped"} :
                  /\ f = "done" => worked[e]
                  /\ fate' = [fate EXCEPT ![e] = f]
             /\ UNCHANGED worked

Next == \E e \in Events : Publish(e) \/ Work(e) \/ Settle(e)

\* Every open event is settled eventually.
EventuallySettled ==
  \A e \in Events : (fate[e] = "open") ~> (fate[e] \in {"done", "dropped"})

Safety == Init /\ [][Next]_vars
Spec   == Safety /\ EventuallySettled
=============================================================================
