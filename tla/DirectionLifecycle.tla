-------------------------- MODULE DirectionLifecycle --------------------------
(***************************************************************************)
(* What the store promises about the status of a research direction: it    *)
(* moves along the edges of _LEGAL_DIRECTION_TRANSITIONS and no others, so *)
(* a concluded direction stays concluded and an invalidated one comes back *)
(* only as 'proposed'.                                                     *)
(***************************************************************************)
VARIABLE status

Active == {"proposed", "tested", "weakly_supported", "replicated"}
DirectionStatus == Active \cup {"concluded", "invalidated"}

\* _LEGAL_DIRECTION_TRANSITIONS, without the legacy 'merged'.
Legal ==
  [proposed         |-> DirectionStatus \ {"proposed"},
   tested           |-> DirectionStatus \ {"proposed", "tested"},
   weakly_supported |-> {"replicated", "concluded", "invalidated"},
   replicated       |-> {"concluded", "invalidated"},
   invalidated      |-> {"proposed"},
   concluded        |-> {}]

Init == status = "proposed"

Next == \E to \in Legal[status] : status' = to

Spec == Init /\ [][Next]_status
=============================================================================
