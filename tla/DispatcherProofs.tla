-------------------------- MODULE DispatcherProofs --------------------------
(***************************************************************************)
(* Proofs about Dispatcher, for every set of events, coroutines, agents    *)
(* and lanes: type correctness, the semaphores' accounting, no lost        *)
(* wake-up, and the safety half of EventContract.                          *)
(***************************************************************************)
EXTENDS Dispatcher, FiniteSetTheorems, TLAPS

(* What the types alone say of the helpers.                                *)
LEMMA SpawnType ==
  ASSUME TypeOK, NEW S, Spawn(S)
  PROVE  /\ queued' \in [Events -> 0..MaxQueued]
         /\ \A e \in Events : queued[e] > 0 \/ e \in S => queued'[e] > 0
BY DispatcherAssumption DEF TypeOK, Spawn

\* Returning the two permits keeps the counters natural.
LEMMA ReleaseType ==
  ASSUME TypeOK, NEW w \in Wakes, Release(w)
  PROVE  laneFree' \in [Lanes -> Nat] /\ poolFree' \in Nat
BY DEF TypeOK, Release

\* A coroutine that ends keeps the types of pc and on.
LEMMA FinishType ==
  ASSUME TypeOK, NEW w \in Wakes, Finish(w)
  PROVE  /\ pc' \in [Wakes -> Steps]
         /\ on' \in [Wakes -> Events \cup {NoEvent}]
         /\ \A v \in Wakes : pc'[v] = "idle" <=> on'[v] = NoEvent
BY DEF TypeOK, Finish, Steps

\* A live coroutine has an event.
LEMMA OnIsEvent ==
  ASSUME TypeOK, NEW w \in Wakes, pc[w] # "idle"
  PROVE  on[w] \in Events
BY DEF TypeOK

(* Every variable keeps its type: in particular no permit count goes below  *)
(* zero, and a coroutine has an event exactly while it is alive.            *)
THEOREM TypeCorrect == Spec => []TypeOK
<1>1. Init => TypeOK
  <2> SUFFICES ASSUME Init PROVE TypeOK
    OBVIOUS
  <2>1. /\ bus \in Seq(Events) /\ aged \in 0..Len(bus)
        /\ queued \in [Events -> 0..MaxQueued]
        /\ poolFree \in Nat /\ mishaps \in 0..MaxMishaps
    BY DispatcherAssumption DEF Init
  <2>2. /\ pc \in [Wakes -> Steps]
        /\ on \in [Wakes -> Events \cup {NoEvent}]
        /\ \A w \in Wakes : pc[w] = "idle" <=> on[w] = NoEvent
    BY DEF Init, Steps
  <2>3. /\ dial \in [Agents -> BOOLEAN] /\ ran \in [Events -> BOOLEAN]
        /\ laneFree \in [Lanes -> Nat]
    BY DispatcherAssumption DEF Init
  <2> QED BY <2>1, <2>2, <2>3 DEF Init, TypeOK, Phases, Statuses
<1>2. TypeOK /\ [Next]_vars => TypeOK'
  <2> SUFFICES ASSUME TypeOK, [Next]_vars PROVE TypeOK'
    OBVIOUS
  <2> USE DEF busVars, semVars, gateVars
  <2>1. CASE Boot
    BY <2>1 DEF Boot, TypeOK, Phases
  <2>2. CASE Listen
    BY <2>2 DEF Listen, TypeOK, Phases
  <2>3. CASE Drain
    <3>1. queued' \in [Events -> 0..MaxQueued]
      BY <2>3, SpawnType DEF Drain
    <3> QED BY <2>3, <3>1 DEF Drain, TypeOK, Phases, Pending
  <2>4. CASE GoDeaf
    BY <2>4, DispatcherAssumption DEF GoDeaf, TypeOK, Phases, Pending, Mishap
  <2>5. CASE Die
    BY <2>5, DispatcherAssumption DEF Die, TypeOK, Phases, Steps, Mishap
  <2>6. ASSUME NEW e \in Events, Emit(e) PROVE TypeOK'
    <3>1. status' \in [Events -> Statuses]
      BY <2>6 DEF Emit, TypeOK, Statuses
    <3>2. bus' \in Seq(Events) /\ aged' \in 0..Len(bus')
      BY <2>6 DEF Emit, TypeOK
    <3>3. queued' \in [Events -> 0..MaxQueued] /\ missed' \subseteq Events
      <4>1. CASE phase \in {"listening", "ready"}
        BY <2>6, <4>1, SpawnType DEF Emit, TypeOK
      <4>2. CASE phase \notin {"listening", "ready"}
        BY <2>6, <4>2 DEF Emit, TypeOK
      <4> QED BY <4>1, <4>2
    <3> QED BY <2>6, <3>1, <3>2, <3>3 DEF Emit, TypeOK
  <2>7. CASE Age
    BY <2>7 DEF Age, TypeOK
  <2>8. CASE Sweep
    <3>1. queued' \in [Events -> 0..MaxQueued]
      BY <2>8, SpawnType DEF Sweep
    <3> QED BY <2>8, <3>1 DEF Sweep, TypeOK
  <2>9. CASE Environment
    <3>1. /\ dial' \in [Agents -> BOOLEAN] /\ stale' \subseteq Agents
          /\ capped' \in BOOLEAN /\ slop' \subseteq Events
          /\ mishaps' \in 0..MaxMishaps
      <4>1. ASSUME NEW a \in Agents, TurnDial(a) \/ DialUnread(a) \/ CacheExpires(a)
            PROVE  <3>1!:
        <5>1. CASE CacheExpires(a)
          BY <5>1 DEF CacheExpires, TypeOK
        <5>2. CASE TurnDial(a)
          <6>1. dial' \in [Agents -> BOOLEAN]
            BY <5>2 DEF TurnDial, TypeOK
          <6>2. stale' \subseteq Agents
            BY <5>2 DEF TurnDial, TypeOK
          <6> QED BY <5>2, <6>1, <6>2, DispatcherAssumption
                  DEF TurnDial, TypeOK, Mishap
        <5>3. CASE DialUnread(a)
          BY <5>3, DispatcherAssumption DEF DialUnread, TypeOK, Mishap
        <5> QED BY <4>1, <5>1, <5>2, <5>3
      <4>2. ASSUME NEW c \in cool, CooldownExpires(c) PROVE <3>1!:
        BY <4>2 DEF CooldownExpires, TypeOK
      <4>3. CASE CostCapFlips
        BY <4>3, DispatcherAssumption DEF CostCapFlips, TypeOK, Mishap
      <4>4. ASSUME NEW e \in Events, SlopRefreshed(e) PROVE <3>1!:
        BY <4>4, DispatcherAssumption DEF SlopRefreshed, TypeOK, Mishap
      <4> QED BY <2>9, <4>1, <4>2, <4>3, <4>4 DEF Environment
    <3> QED BY <2>9, <3>1 DEF Environment, TypeOK
  <2>10. ASSUME NEW w \in Wakes, Process(w) PROVE TypeOK'
    <3>1. ASSUME NEW e \in Events, Wake(w, e) PROVE TypeOK'
      <4>1. queued' \in [Events -> 0..MaxQueued]
        BY <3>1, DispatcherAssumption DEF Wake, TypeOK
      <4>2. /\ pc' \in [Wakes -> Steps]
            /\ on' \in [Wakes -> Events \cup {NoEvent}]
            /\ \A v \in Wakes : pc'[v] = "idle" <=> on'[v] = NoEvent
        <5>1. CASE status[e] = "pending"
          <6>1. /\ pc' = [pc EXCEPT ![w] = "gate"]
                /\ on' = [on EXCEPT ![w] = e]
            BY <3>1, <5>1 DEF Wake
          <6>2. e # NoEvent
            BY DispatcherAssumption
          <6> QED BY <6>1, <6>2 DEF TypeOK, Steps
        <5>2. CASE status[e] # "pending"
          BY <3>1, <5>2 DEF Wake, TypeOK
        <5> QED BY <5>1, <5>2
      <4> QED BY <3>1, <4>1, <4>2 DEF Wake, TypeOK
    <3>2. CASE Suppress(w)
      <4>1. on[w] \in Events
        BY <3>2, OnIsEvent DEF Suppress
      <4> QED BY <3>2, <4>1, FinishType DEF Suppress, TypeOK, Statuses
    <3>3. CASE Admit(w)
      BY <3>3 DEF Admit, TypeOK, Steps
    <3>4. CASE TakeLane(w)
      <4>1. laneFree' \in [Lanes -> Nat]
        <5>1. laneFree \in [Lanes -> Nat]
          BY DEF TypeOK
        <5>2. ASSUME NEW l \in Lanes
              PROVE  [laneFree EXCEPT ![LaneFor(on[w])] = @ - 1][l] \in Nat
          BY <3>4, <5>1, <5>2 DEF TakeLane
        <5> QED BY <3>4, <5>1, <5>2 DEF TakeLane
      <4>2. /\ pc' \in [Wakes -> Steps]
            /\ \A v \in Wakes : pc'[v] = "idle" <=> on[v] = NoEvent
        BY <3>4 DEF TakeLane, TypeOK, Steps
      <4> QED BY <3>4, <4>1, <4>2 DEF TakeLane, TypeOK
    <3>5. CASE StartHandler(w)
      BY <3>5 DEF StartHandler, TypeOK, Steps, Holding
    <3>6. CASE HandlerReturns(w) \/ HandlerRaises(w)
      BY <3>6 DEF HandlerReturns, HandlerRaises, TypeOK, Steps, Holding
    <3>7. CASE Consume(w) \/ Fail(w)
      <4>1. on[w] \in Events
        BY <3>7, OnIsEvent DEF Consume, Fail
      <4> QED BY <3>7, <4>1, FinishType, ReleaseType
              DEF Consume, Fail, TypeOK, Statuses
    <3>8. CASE GateError(w)
      <4>1. on[w] \in Events
        BY <3>8, OnIsEvent DEF GateError
      <4> QED BY <3>8, <4>1, FinishType, DispatcherAssumption
              DEF GateError, TypeOK, Mishap
    <3>9. CASE ConsumeError(w)
      <4>1. status' \in [Events -> Statuses]
        BY <3>9 DEF ConsumeError, TypeOK, Statuses
      <4>2. /\ pc' \in [Wakes -> Steps]
            /\ \A v \in Wakes : pc'[v] = "idle" <=> on[v] = NoEvent
        BY <3>9 DEF ConsumeError, TypeOK, Steps, Holding
      <4> QED BY <3>9, <4>1, <4>2, DispatcherAssumption
              DEF ConsumeError, TypeOK, Mishap
    <3>10. CASE FailError(w)
      <4>1. on[w] \in Events
        BY <3>10, OnIsEvent DEF FailError
      <4> QED BY <3>10, <4>1, FinishType, ReleaseType, DispatcherAssumption
              DEF FailError, TypeOK, Mishap
    <3> QED BY <2>10, <3>1, <3>2, <3>3, <3>4, <3>5, <3>6, <3>7, <3>8, <3>9, <3>10
            DEF Process
  <2>11. CASE UNCHANGED vars
    BY <2>11 DEF vars, TypeOK
  <2> QED BY <2>1, <2>2, <2>3, <2>4, <2>5, <2>6, <2>7, <2>8, <2>9, <2>10, <2>11
          DEF Next
<1> QED BY <1>1, <1>2, PTL DEF Spec

-----------------------------------------------------------------------------
(* The coroutines a semaphore counts change with the permits it holds: one  *)
(* comes in as a permit is taken, one goes out as it is given back.         *)

\* The sets of permit holders are finite.
LEMMA HoldersFinite ==
  /\ IsFiniteSet(InPool) /\ Cardinality(InPool) \in Nat
  /\ \A l \in Lanes : IsFiniteSet(InLane(l)) /\ Cardinality(InLane(l)) \in Nat
BY DispatcherAssumption, FS_Subset, FS_CardinalityType DEF InPool, InLane

\* Idle coroutines hold no permit.
LEMMA NobodyHolds ==
  ASSUME pc = [w \in Wakes |-> "idle"], laneFree = LaneCap, poolFree = MaxHandlers
  PROVE  PermitsConserved
<1>1. InPool = {} /\ \A l \in Lanes : InLane(l) = {}
  BY DEF InPool, InLane, Holding
<1> QED BY <1>1, FS_EmptySet, DispatcherAssumption DEF PermitsConserved

\* A coroutine leaves the slot: both counts drop with the permits' return.
LEMMA LeavingSlot ==
  ASSUME TypeOK, PermitsConserved, NEW w \in Wakes, pc[w] \in Holding,
         Finish(w), Release(w)
  PROVE  PermitsConserved'
<1>1. /\ w \in InPool
      /\ InPool' = InPool \ {w}
  BY DEF InPool, Finish, TypeOK, Holding
<1>2. poolFree' + Cardinality(InPool') = MaxHandlers
  <2>1. Cardinality(InPool') = Cardinality(InPool) - 1
    BY <1>1, HoldersFinite, FS_RemoveElement
  <2> QED BY <2>1, HoldersFinite DEF PermitsConserved, Release, TypeOK
<1>3. ASSUME NEW l \in Lanes
      PROVE  laneFree'[l] + Cardinality(InLane(l)') = LaneCap[l]
  <2>1. laneFree[l] \in Nat /\ laneFree[l] + Cardinality(InLane(l)) = LaneCap[l]
    BY DEF PermitsConserved, TypeOK
  <2>2. CASE l = LaneFor(on[w])
    <3>1. w \in InLane(l) /\ InLane(l)' = InLane(l) \ {w}
      BY <2>2 DEF InLane, Finish, TypeOK, Holding
    <3>2. Cardinality(InLane(l)') = Cardinality(InLane(l)) - 1
      BY <3>1, HoldersFinite, FS_RemoveElement
    <3>3. laneFree'[l] = laneFree[l] + 1
      BY <2>2 DEF Release
    <3> QED BY <2>1, <3>2, <3>3, HoldersFinite
  <2>3. CASE l # LaneFor(on[w])
    <3>1. InLane(l)' = InLane(l)
      BY <2>3 DEF InLane, Finish, TypeOK, Holding
    <3>2. laneFree'[l] = laneFree[l]
      BY <2>3 DEF Release
    <3> QED BY <2>1, <3>1, <3>2
  <2> QED BY <2>2, <2>3
<1> QED BY <1>2, <1>3 DEF PermitsConserved

\* A coroutine moves outside the slot, or inside it: no count changes.
LEMMA StandingStill ==
  ASSUME PermitsConserved, UNCHANGED semVars,
         \A v \in Wakes : /\ pc'[v] \in Holding <=> pc[v] \in Holding
                          /\ \A l \in Lanes : v \in InLane(l)' <=> v \in InLane(l)
  PROVE  PermitsConserved'
<1>1. InPool' = InPool /\ \A l \in Lanes : InLane(l)' = InLane(l)
  BY DEF InPool, InLane
<1> QED BY <1>1 DEF PermitsConserved, semVars

(* PermitsConserved holds of every dispatcher: any lanes, caps and pool.    *)
THEOREM SlotsAccounted == Spec => []PermitsConserved
<1>1. Init => PermitsConserved
  BY NobodyHolds DEF Init
<1>2. TypeOK /\ PermitsConserved /\ [Next]_vars => PermitsConserved'
  <2> SUFFICES ASSUME TypeOK, PermitsConserved, [Next]_vars PROVE PermitsConserved'
    OBVIOUS
  <2>1. CASE UNCHANGED <<pc, on, semVars>>
    BY <2>1, StandingStill DEF InLane
  <2>2. CASE Die
    <3>1. InPool' = {} /\ \A l \in Lanes : InLane(l)' = {}
      BY <2>2 DEF Die, InPool, InLane, Holding
    <3>2. laneFree' = LaneCap /\ poolFree' = MaxHandlers
      BY <2>2 DEF Die
    <3>3. poolFree' + Cardinality(InPool') = MaxHandlers
      BY <3>1, <3>2, FS_EmptySet, DispatcherAssumption
    <3>4. ASSUME NEW l \in Lanes
          PROVE  laneFree'[l] + Cardinality(InLane(l)') = LaneCap[l]
      <4>1. Cardinality(InLane(l)') = 0 /\ LaneCap[l] \in Nat
        BY <3>1, FS_EmptySet, DispatcherAssumption
      <4> QED BY <3>2, <4>1
    <3> QED BY <3>3, <3>4 DEF PermitsConserved
  <2>3. ASSUME NEW w \in Wakes, Process(w) PROVE PermitsConserved'
    <3>1. ASSUME NEW e \in Events, Wake(w, e) PROVE PermitsConserved'
      BY <3>1, StandingStill DEF Wake, InLane, TypeOK, Holding
    <3>2. CASE Suppress(w) \/ GateError(w)
      BY <3>2, StandingStill DEF Suppress, GateError, Finish, InLane, TypeOK, Holding
    <3>3. CASE Admit(w)
      BY <3>3, StandingStill DEF Admit, InLane, TypeOK, Holding
    <3>4. CASE TakeLane(w)
      <4>1. InPool' = InPool
        BY <3>4 DEF TakeLane, InPool, TypeOK, Holding
      <4>2. ASSUME NEW l \in Lanes
            PROVE  laneFree'[l] + Cardinality(InLane(l)') = LaneCap[l]
        <5>1. laneFree[l] \in Nat /\ laneFree[l] + Cardinality(InLane(l)) = LaneCap[l]
          BY DEF PermitsConserved, TypeOK
        <5>2. CASE l = LaneFor(on[w])
          <6>1. w \notin InLane(l) /\ InLane(l)' = InLane(l) \cup {w}
            BY <3>4, <5>2 DEF TakeLane, InLane, TypeOK, Holding
          <6>2. Cardinality(InLane(l)') = Cardinality(InLane(l)) + 1
            BY <6>1, HoldersFinite, FS_AddElement
          <6>3. laneFree'[l] = laneFree[l] - 1
            BY <3>4, <5>2 DEF TakeLane, TypeOK
          <6> QED BY <5>1, <6>2, <6>3, HoldersFinite
        <5>3. CASE l # LaneFor(on[w])
          <6>1. InLane(l)' = InLane(l)
            BY <3>4, <5>3 DEF TakeLane, InLane, TypeOK, Holding
          <6>2. laneFree'[l] = laneFree[l]
            BY <3>4, <5>3 DEF TakeLane, TypeOK
          <6> QED BY <5>1, <6>1, <6>2
        <5> QED BY <5>2, <5>3
      <4> QED BY <3>4, <4>1, <4>2 DEF TakeLane, PermitsConserved
    <3>5. CASE StartHandler(w)
      <4>1. w \notin InPool /\ InPool' = InPool \cup {w}
        BY <3>5 DEF StartHandler, InPool, TypeOK, Holding
      <4>2. Cardinality(InPool') = Cardinality(InPool) + 1
        BY <4>1, HoldersFinite, FS_AddElement
      <4>3. poolFree' + Cardinality(InPool') = MaxHandlers
        BY <3>5, <4>2, HoldersFinite DEF StartHandler, PermitsConserved, TypeOK
      <4>4. \A l \in Lanes : InLane(l)' = InLane(l)
        BY <3>5 DEF StartHandler, InLane, TypeOK, Holding
      <4> QED BY <3>5, <4>3, <4>4 DEF StartHandler, PermitsConserved
    <3>6. CASE HandlerReturns(w) \/ HandlerRaises(w) \/ ConsumeError(w)
      BY <3>6, StandingStill
         DEF HandlerReturns, HandlerRaises, ConsumeError, InLane, TypeOK, Holding
    <3>7. CASE Consume(w) \/ Fail(w) \/ FailError(w)
      BY <3>7, LeavingSlot DEF Consume, Fail, FailError, Holding
    <3> QED BY <2>3, <3>1, <3>2, <3>3, <3>4, <3>5, <3>6, <3>7 DEF Process
  <2> QED
    BY <2>1, <2>2, <2>3
       DEF Next, Boot, Listen, Drain, GoDeaf, Emit, Age, Sweep, Environment, vars, semVars
<1> QED BY <1>1, <1>2, TypeCorrect, PTL DEF Spec

-----------------------------------------------------------------------------
(* No lost wake-up.                                                        *)

\* A coroutine that stays alive keeps looking after its event.
LEMMA TasksKept ==
  ASSUME TypeOK, NEW e \in Events, HasTask(e), UNCHANGED queued,
         \A v \in Wakes : pc[v] # "idle" /\ on[v] = e => pc'[v] # "idle" /\ on'[v] = e
  PROVE  HasTask(e)'
BY DEF HasTask

\* More coroutines are created; nobody ends.
LEMMA TasksSpawned ==
  ASSUME TypeOK, NEW S, Spawn(S), UNCHANGED <<pc, on>>, NEW e \in Events,
         HasTask(e) \/ e \in S
  PROVE  HasTask(e)'
BY SpawnType DEF HasTask

\* One coroutine ends, and its event is settled or among the missed.
LEMMA OneEnds ==
  ASSUME TypeOK, NoLostWakeup, NEW w \in Wakes, pc[w] # "idle", Finish(w),
         UNCHANGED <<phase, queued>>,
         \A e \in Events : e # on[w] => status'[e] = status[e] /\ (e \in missed => e \in missed'),
         status'[on[w]] = "pending" => on[w] \in missed'
  PROVE  NoLostWakeup'
<1>1. SUFFICES ASSUME phase \in {"ready", "deaf"}, NEW e \in Events,
                      status'[e] = "pending", e \notin missed'
               PROVE  HasTask(e)'
  BY DEF NoLostWakeup
<1>2. e # on[w]
  BY <1>1
<1>3. HasTask(e)
  BY <1>1, <1>2 DEF NoLostWakeup
<1> QED BY <1>2, <1>3, TasksKept DEF Finish, TypeOK

(* NoLostWakeup, whatever the drain cap, the sweep limit and the mishaps.   *)
THEOREM WakeupsKept == Spec => []NoLostWakeup
<1>1. Init => NoLostWakeup
  BY DEF Init, NoLostWakeup
<1>2. TypeOK /\ NoLostWakeup /\ [Next]_vars => NoLostWakeup'
  <2> SUFFICES ASSUME TypeOK, NoLostWakeup, [Next]_vars PROVE NoLostWakeup'
    OBVIOUS
  <2> USE DEF busVars
  <2>1. CASE Boot \/ Listen \/ Die
    BY <2>1 DEF Boot, Listen, Die, NoLostWakeup
  <2>2. CASE Drain
    <3>1. PICK kicked : Spawn(kicked) /\ missed' = Pending \ kicked
      BY <2>2 DEF Drain
    <3>2. ASSUME NEW e \in Events, status'[e] = "pending", e \notin missed'
          PROVE  HasTask(e)'
      <4>1. e \in kicked
        BY <2>2, <3>1, <3>2 DEF Drain, Pending
      <4> QED BY <2>2, <3>1, <4>1, TasksSpawned DEF Drain
    <3> QED BY <3>2 DEF NoLostWakeup
  <2>3. CASE GoDeaf
    <3>1. ASSUME NEW e \in Events, status'[e] = "pending", e \notin missed'
          PROVE  HasTask(e)'
      <4>1. HasTask(e)
        BY <2>3, <3>1 DEF GoDeaf, Pending
      <4> QED BY <2>3, <4>1, TasksKept DEF GoDeaf
    <3> QED BY <3>1 DEF NoLostWakeup
  <2>4. ASSUME NEW e \in Events, Emit(e) PROVE NoLostWakeup'
    <3>1. SUFFICES ASSUME phase \in {"ready", "deaf"}, NEW f \in Events,
                          status'[f] = "pending", f \notin missed'
                   PROVE  HasTask(f)'
      BY <2>4 DEF Emit, NoLostWakeup
    <3>2. missed \subseteq missed' /\ (f # e => status'[f] = status[f])
      BY <2>4 DEF Emit, TypeOK
    <3>3. f # e => HasTask(f)
      BY <3>1, <3>2 DEF NoLostWakeup
    <3>4. CASE phase = "ready"
      BY <2>4, <3>3, <3>4, TasksSpawned DEF Emit
    <3>5. CASE phase = "deaf"
      BY <2>4, <3>1, <3>3, <3>5, TasksKept DEF Emit
    <3> QED BY <3>1, <3>4, <3>5
  <2>5. CASE Age \/ Environment \/ UNCHANGED vars
    BY <2>5, TasksKept DEF Age, Environment, vars, NoLostWakeup
  <2>6. CASE Sweep
    BY <2>6, TasksSpawned DEF Sweep, NoLostWakeup
  <2>7. ASSUME NEW w \in Wakes, Process(w) PROVE NoLostWakeup'
    <3>1. ASSUME NEW e \in Events, Wake(w, e) PROVE NoLostWakeup'
      <4>1. SUFFICES ASSUME phase \in {"ready", "deaf"}, NEW f \in Events,
                            status[f] = "pending", f \notin missed
                     PROVE  HasTask(f)'
        BY <3>1 DEF Wake, NoLostWakeup
      <4>2. HasTask(f)
        BY <4>1 DEF NoLostWakeup
      <4>3. CASE f = e
        BY <3>1, <4>1, <4>3 DEF Wake, HasTask, TypeOK
      <4>4. CASE f # e
        <5>1. queued'[f] = queued[f]
          BY <3>1, <4>4 DEF Wake, TypeOK
        <5>2. ASSUME NEW v \in Wakes, pc[v] # "idle", on[v] = f
              PROVE  pc'[v] # "idle" /\ on'[v] = f
          BY <3>1, <5>2 DEF Wake, TypeOK
        <5> QED BY <4>2, <5>1, <5>2 DEF HasTask
      <4> QED BY <4>3, <4>4
    <3>2. CASE Suppress(w) \/ Consume(w) \/ Fail(w)
      <4>1. on[w] \in Events /\ pc[w] # "idle"
        BY <3>2, OnIsEvent DEF Suppress, Consume, Fail
      <4>2. status'[on[w]] # "pending"
        BY <3>2, <4>1 DEF Suppress, Consume, Fail, TypeOK
      <4> QED BY <3>2, <4>1, <4>2, OneEnds DEF Suppress, Consume, Fail, TypeOK
    <3>3. CASE GateError(w) \/ FailError(w)
      BY <3>3, OneEnds DEF GateError, FailError
    <3>4. CASE \/ Admit(w) \/ TakeLane(w) \/ StartHandler(w)
               \/ HandlerReturns(w) \/ HandlerRaises(w)
      <4>1. UNCHANGED <<phase, status, queued, missed>>
            /\ \A v \in Wakes : pc[v] # "idle" => pc'[v] # "idle" /\ on'[v] = on[v]
        BY <3>4 DEF Admit, TakeLane, StartHandler, HandlerReturns, HandlerRaises, TypeOK
      <4> QED BY <4>1, TasksKept DEF NoLostWakeup
    <3>5. CASE ConsumeError(w)
      <4>1. UNCHANGED <<phase, queued, missed>>
            /\ \A v \in Wakes : pc[v] # "idle" => pc'[v] # "idle" /\ on'[v] = on[v]
        BY <3>5 DEF ConsumeError, TypeOK
      <4>2. \A e \in Events : status'[e] = "pending" => status[e] = "pending"
        <5>1. CASE status' = status
          BY <5>1
        <5>2. CASE status' = [status EXCEPT ![on[w]] = "consumed"]
          BY <5>2 DEF TypeOK
        <5> QED BY <3>5, <5>1, <5>2 DEF ConsumeError
      <4> QED BY <4>1, <4>2, TasksKept DEF NoLostWakeup
    <3> QED BY <2>7, <3>1, <3>2, <3>3, <3>4, <3>5 DEF Process
  <2> QED BY <2>1, <2>2, <2>3, <2>4, <2>5, <2>6, <2>7 DEF Next
<1> QED BY <1>1, <1>2, TypeCorrect, PTL DEF Spec

-----------------------------------------------------------------------------
(* The contract.                                                           *)

(* A coroutine only stands on an inserted row; a handler that has returned, *)
(* and a row that says 'consumed', are remembered in `ran`.                 *)
WorkIsReal ==
  /\ \A w \in Wakes : pc[w] # "idle" => status[on[w]] # "unborn"
  /\ \A w \in Wakes : pc[w] = "done" => ran[on[w]]

\* A row is consumed, or a coroutine about to consume it, only after a call returned.
LEMMA WorkIsRealInvariant == Spec => []WorkIsReal
<1>1. Init => WorkIsReal
  BY DEF Init, WorkIsReal
<1>2. TypeOK /\ WorkIsReal /\ [Next]_vars => WorkIsReal'
  <2> SUFFICES ASSUME TypeOK, WorkIsReal, [Next]_vars PROVE WorkIsReal'
    OBVIOUS
  <2> USE DEF busVars
  <2>1. CASE UNCHANGED <<status, pc, on, ran>>
    BY <2>1 DEF WorkIsReal
  <2>2. CASE Die
    BY <2>2 DEF Die, WorkIsReal
  <2>3. ASSUME NEW e \in Events, Emit(e) PROVE WorkIsReal'
    BY <2>3 DEF Emit, WorkIsReal, TypeOK
  <2>4. ASSUME NEW w \in Wakes, Process(w) PROVE WorkIsReal'
    <3>1. ASSUME NEW e \in Events, Wake(w, e) PROVE WorkIsReal'
      BY <3>1 DEF Wake, WorkIsReal, TypeOK
    <3>2. CASE Suppress(w)
      BY <3>2 DEF Suppress, Finish, WorkIsReal, TypeOK
    <3>3. CASE Admit(w) \/ TakeLane(w) \/ StartHandler(w) \/ HandlerRaises(w)
      BY <3>3 DEF Admit, TakeLane, StartHandler, HandlerRaises, WorkIsReal, TypeOK
    <3>4. CASE HandlerReturns(w)
      BY <3>4, OnIsEvent DEF HandlerReturns, WorkIsReal, TypeOK
    <3>5. CASE Consume(w) \/ Fail(w)
      <4>1. \E f \in {"consumed", "failed"} : status' = [status EXCEPT ![on[w]] = f]
        BY <3>5 DEF Consume, Fail
      <4>2. \A v \in Wakes : pc'[v] # "idle" => pc'[v] = pc[v] /\ on'[v] = on[v] /\ pc[v] # "idle"
        BY <3>5 DEF Consume, Fail, Finish, TypeOK
      <4>3. ran' = ran
        BY <3>5 DEF Consume, Fail
      <4> QED BY <4>1, <4>2, <4>3 DEF WorkIsReal, TypeOK
    <3>6. CASE GateError(w) \/ FailError(w)
      BY <3>6 DEF GateError, FailError, Finish, WorkIsReal, TypeOK
    <3>7. CASE ConsumeError(w)
      <4>1. CASE status' = status
        BY <3>7, <4>1 DEF ConsumeError, WorkIsReal, TypeOK
      <4>2. CASE status' = [status EXCEPT ![on[w]] = "consumed"]
        BY <3>7, <4>2 DEF ConsumeError, WorkIsReal, TypeOK
      <4> QED BY <3>7, <4>1, <4>2 DEF ConsumeError
    <3> QED BY <2>4, <3>1, <3>2, <3>3, <3>4, <3>5, <3>6, <3>7 DEF Process
  <2> QED
    BY <2>1, <2>2, <2>3, <2>4
       DEF Next, Boot, Listen, Drain, GoDeaf, Age, Sweep, Environment, vars
<1> QED BY <1>1, <1>2, TypeCorrect, PTL DEF Spec

\* The fate of a row, and that of all rows after one row changes.
Fate(e) == CASE status[e] = "unborn"  -> "absent"
             [] status[e] = "pending" -> "open"
             [] status[e] = "consumed" -> "done"
             [] OTHER                 -> "dropped"

\* Writing a settled status to a row maps to Settle of the contract.
LEMMA SettlingARow ==
  ASSUME TypeOK, NEW e \in Events, status[e] # "unborn", ran' = ran,
         NEW s \in {"consumed", "suppressed", "failed"}, s = "consumed" => ran[e],
         status' = [status EXCEPT ![e] = s]
  PROVE  Contract!Next
<1> DEFINE f == IF s = "consumed" THEN "done" ELSE "dropped"
<1>1. f \in {"done", "dropped"} /\ (f = "done" => ran[e])
  OBVIOUS
<1>2. [x \in Events |-> Fate(x)]' = [[x \in Events |-> Fate(x)] EXCEPT ![e] = f]
  BY DEF Fate, TypeOK
<1>3. [x \in Events |-> Fate(x)][e] # "absent"
  BY DEF Fate
<1>4. Contract!Settle(e)
  BY <1>1, <1>2, <1>3 DEF Contract!Settle, Fate
<1> QED BY <1>4 DEF Contract!Next

(* The safety half of ImplementsContract.                                  *)
THEOREM ContractKept == Spec => ImplementsContractSafely
<1>1. Init => Contract!Init
  BY DEF Init, Contract!Init
<1>2. TypeOK /\ WorkIsReal /\ [Next]_vars => [Contract!Next]_(Contract!vars)
  <2> SUFFICES ASSUME TypeOK, WorkIsReal, [Next]_vars
               PROVE  [Contract!Next]_(Contract!vars)
    OBVIOUS
  <2> USE DEF busVars
  <2>1. CASE UNCHANGED <<status, ran>>
    BY <2>1 DEF Contract!vars
  <2>2. ASSUME NEW e \in Events, Emit(e) PROVE Contract!Next
    <3>1. status[e] = "unborn" /\ status' = [status EXCEPT ![e] = "pending"] /\ ran' = ran
      BY <2>2 DEF Emit
    <3>2. [x \in Events |-> Fate(x)]' = [[x \in Events |-> Fate(x)] EXCEPT ![e] = "open"]
      BY <3>1 DEF Fate, TypeOK
    <3>3. [x \in Events |-> Fate(x)][e] = "absent"
      BY <3>1 DEF Fate
    <3>4. Contract!Publish(e)
      BY <3>1, <3>2, <3>3 DEF Contract!Publish, Fate
    <3> QED BY <3>4 DEF Contract!Next
  <2>3. ASSUME NEW w \in Wakes, Process(w) PROVE [Contract!Next]_(Contract!vars)
    <3>1. ASSUME pc[w] # "idle" PROVE on[w] \in Events /\ status[on[w]] # "unborn"
      BY <3>1, OnIsEvent DEF WorkIsReal
    <3>2. ASSUME NEW e \in Events, Wake(w, e) PROVE UNCHANGED <<status, ran>>
      BY <3>2 DEF Wake
    <3>3. CASE Suppress(w)
      BY <3>1, <3>3, SettlingARow DEF Suppress
    <3>4. CASE \/ Admit(w) \/ TakeLane(w) \/ StartHandler(w)
               \/ HandlerRaises(w) \/ GateError(w) \/ FailError(w)
      BY <2>1, <3>4 DEF Admit, TakeLane, StartHandler, HandlerRaises, GateError, FailError
    <3>5. CASE HandlerReturns(w)
      <4>1. pc[w] # "idle" /\ ran' = [ran EXCEPT ![on[w]] = TRUE] /\ status' = status
        BY <3>5 DEF HandlerReturns
      <4>2. [x \in Events |-> Fate(x)][on[w]] # "absent"
        BY <3>1, <4>1 DEF Fate
      <4>3. Contract!Work(on[w])
        BY <4>1, <4>2 DEF Contract!Work, Fate
      <4> QED BY <3>1, <4>1, <4>3 DEF Contract!Next
    <3>6. CASE Consume(w)
      BY <3>1, <3>6, SettlingARow DEF Consume, WorkIsReal
    <3>7. CASE Fail(w)
      BY <3>1, <3>7, SettlingARow DEF Fail
    <3>8. CASE ConsumeError(w)
      <4>1. CASE status' = status
        BY <2>1, <3>8, <4>1 DEF ConsumeError
      <4>2. CASE status' = [status EXCEPT ![on[w]] = "consumed"]
        BY <3>1, <3>8, <4>2, SettlingARow DEF ConsumeError, WorkIsReal
      <4> QED BY <3>8, <4>1, <4>2 DEF ConsumeError
    <3> QED BY <2>1, <2>3, <3>2, <3>3, <3>4, <3>5, <3>6, <3>7, <3>8 DEF Process
  <2> QED
    BY <2>1, <2>2, <2>3
       DEF Next, Boot, Listen, Drain, GoDeaf, Die, Age, Sweep, Environment, vars
<1> QED BY <1>1, <1>2, TypeCorrect, WorkIsRealInvariant, PTL
        DEF Spec, ImplementsContractSafely, Contract!Safety

=============================================================================
