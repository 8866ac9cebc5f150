--------------------------- MODULE TaskQueueProofs ---------------------------
(***************************************************************************)
(* Proofs about TaskQueue, for every set of tasks, researchers and event   *)
(* ids, every timeout within the sweep's horizon and every number of       *)
(* mishaps: type correctness, exclusive claims, verdicts that stand, and   *)
(* the pump's bound.  Then about March, where the tasks are planned: type  *)
(* correctness, lean plans and the give-up cap.                            *)
(***************************************************************************)
EXTENDS TaskQueue, FiniteSetTheorems, WellFoundedInduction, TLAPS

\* Publishing adds an event id to pending.
LEMMA PublishType ==
  ASSUME TypeOK, Publish
  PROVE  /\ pending' \subseteq Triggers
         /\ \E t \in Fresh : pending' = pending \cup {t}
BY DEF TypeOK, Publish, Fresh

\* A reset keeps the types of the rows.
LEMMA ResetType ==
  ASSUME TypeOK, NEW S, Reset(S)
  PROVE  task' \in [Tasks -> TaskStatus] /\ age' \in [Tasks -> 0..StaleHorizon + 1]
BY TaskQueueAssumption DEF TypeOK, Reset, TaskStatus

\* A verdict keeps the types of the rows.
LEMMA ConcludeType ==
  ASSUME TypeOK, NEW k, NEW s \in TaskStatus, Conclude(k, s)
  PROVE  task' \in [Tasks -> TaskStatus] /\ age' \in [Tasks -> 0..StaleHorizon + 1]
<1>1. task' \in [Tasks -> TaskStatus]
  BY DEF TypeOK, Conclude
<1>2. 0 \in 0..StaleHorizon + 1
  BY TaskQueueAssumption
<1>3. age' \in [Tasks -> 0..StaleHorizon + 1]
  BY <1>2 DEF TypeOK, Conclude
<1> QED BY <1>1, <1>3

\* A handler that returns is no longer idle-looking, and holds nothing.
LEMMA ReturnType ==
  ASSUME TypeOK, NEW w \in Workers, pc[w] # "idle", Return(w), on' = on
  PROVE  /\ pc' \in [Workers -> {"idle", "begun", "busy", "ret"}]
         /\ holds' \in [Workers -> Research \cup {NoTask}]
         /\ elapsed' \in [Workers -> 0..HandlerTimeout]
         /\ \A v \in Workers : /\ pc'[v] = "idle" <=> on'[v] = NoTrigger
                               /\ pc'[v] = "busy" <=> holds'[v] # NoTask
BY TaskQueueAssumption DEF TypeOK, Return

\* A pump's step: it rests, or has a positive number to work off.
LEMMA PumpStep ==
  ASSUME TypeOK, NEW r \in Callers, Pump(r)
  PROVE  \/ pump' = pump
         \/ \E p \in [at : {"idle", "tasks", "emit"}, n : Nat] :
              pump' = [pump EXCEPT ![r] = p] /\ (p.at # "idle" => p.n > 0)
<1>1. /\ Cardinality(Waiting) \in Nat /\ Cardinality(pending) \in Nat
      /\ Waiting # {} => Cardinality(Waiting) > 0
  <2>1. IsFiniteSet(Waiting) /\ IsFiniteSet(pending)
    BY TaskQueueAssumption, FS_Subset DEF Waiting, TypeOK
  <2> QED BY <2>1, FS_CardinalityType, FS_EmptySet
<1>2. pump[r] \in [at : {"idle", "tasks", "emit"}, n : Nat]
  BY DEF TypeOK
<1>3. Resting \in [at : {"idle", "tasks", "emit"}, n : Nat] /\ Resting.at = "idle"
  BY DEF Resting
<1>4. CASE CountTasks(r)
  BY <1>1, <1>4 DEF CountTasks, pumpVars
<1>5. CASE CountTriggers(r)
  <2>1. CASE pump[r].n =< Cardinality(pending)
    BY <1>3, <1>5, <2>1 DEF CountTriggers
  <2>2. CASE ~(pump[r].n =< Cardinality(pending))
    BY <1>1, <1>2, <1>5, <2>2 DEF CountTriggers
  <2> QED BY <2>1, <2>2
<1>6. CASE EmitOne(r)
  <2>1. CASE pump[r].n = 1
    BY <1>3, <1>6, <2>1 DEF EmitOne
  <2>2. CASE pump[r].n # 1
    <3>1. pump[r].n > 0
      BY <1>6 DEF EmitOne, TypeOK
    <3> QED BY <1>2, <1>6, <2>2, <3>1 DEF EmitOne
  <2> QED BY <2>1, <2>2
<1> QED BY <1>4, <1>5, <1>6, <1>1 DEF Pump

(* Every variable keeps its type: a handler has an event while it is alive, *)
(* and a task exactly between its claim and its verdict.                    *)
THEOREM TypeCorrect == Spec => []TypeOK
<1>1. Init => TypeOK
  BY TaskQueueAssumption DEF Init, TypeOK, TaskStatus, Callers, Free, Resting
<1>2. TypeOK /\ [Next]_vars => TypeOK'
  <2> SUFFICES ASSUME TypeOK, [Next]_vars PROVE TypeOK'
    OBVIOUS
  <2> USE DEF jobVars, workerVars, pumpVars
  <2>1. CASE Boot
    BY <2>1 DEF Boot, TypeOK
  <2>2. CASE StartupReap
    BY <2>2, ResetType DEF StartupReap, TypeOK
  <2>3. CASE Die
    BY <2>3, TaskQueueAssumption DEF Die, Mishap, TypeOK, Callers, Free, Resting
  <2>4. CASE Tick
    <3>1. age' \in [Tasks -> 0..StaleHorizon + 1]
      BY <2>4, TaskQueueAssumption DEF Tick, TypeOK
    <3>2. elapsed' \in [Workers -> 0..HandlerTimeout]
      BY <2>4, TaskQueueAssumption DEF Tick, TypeOK
    <3> QED BY <2>4, <3>1, <3>2 DEF Tick, TypeOK
  <2>5. CASE SweepStale
    BY <2>5, ResetType DEF SweepStale, TypeOK
  <2>6. ASSUME NEW k \in Tasks, Insert(k) \/ Halt(k) PROVE TypeOK'
    <3>1. task' \in [Tasks -> TaskStatus]
      BY <2>6 DEF Insert, Halt, TypeOK, TaskStatus
    <3>2. pending' \subseteq Triggers
      BY <2>6, PublishType DEF Insert, Halt, TypeOK
    <3> QED BY <2>6, <3>1, <3>2 DEF Insert, Halt, TypeOK
  <2>7. ASSUME NEW w \in Workers, Handle(w) PROVE TypeOK'
    <3>1. ASSUME NEW t \in Triggers, Begin(w, t) PROVE TypeOK'
      BY <3>1, TaskQueueAssumption DEF Begin, TypeOK
    <3>2. CASE Skip(w) \/ Abandon(w)
      BY <3>2, ReturnType, TaskQueueAssumption DEF Skip, Abandon, Live, Mishap, TypeOK
    <3>3. CASE Claim(w)
      <4>1. CASE Claimable = {}
        BY <3>3, <4>1, ReturnType DEF Claim, TypeOK
      <4>2. CASE Claimable # {}
        <5>1. PICK k \in Claimable : /\ task' = [task EXCEPT ![k] = "running"]
                                     /\ age' = [age EXCEPT ![k] = 0]
                                     /\ holds' = [holds EXCEPT ![w] = k]
                                     /\ pc' = [pc EXCEPT ![w] = "busy"]
                                     /\ UNCHANGED elapsed
          BY <3>3, <4>2 DEF Claim
        <5>2. k \in Research /\ k # NoTask /\ pc[w] = "begun"
          BY <3>3, TaskQueueAssumption DEF Claimable, Claim
        <5>3. task' \in [Tasks -> TaskStatus] /\ age' \in [Tasks -> 0..StaleHorizon + 1]
          <6>1. 0 \in 0..StaleHorizon + 1
            BY TaskQueueAssumption
          <6> QED BY <5>1, <6>1 DEF TypeOK, TaskStatus
        <5>4. /\ pc' \in [Workers -> {"idle", "begun", "busy", "ret"}]
              /\ holds' \in [Workers -> Research \cup {NoTask}]
              /\ \A v \in Workers : /\ pc'[v] = "idle" <=> on[v] = NoTrigger
                                    /\ pc'[v] = "busy" <=> holds'[v] # NoTask
          BY <5>1, <5>2 DEF TypeOK
        <5> QED BY <3>3, <5>1, <5>3, <5>4 DEF Claim, TypeOK
      <4> QED BY <4>1, <4>2
    <3>4. CASE Complete(w) \/ FailTask(w)
      <4>1. task' \in [Tasks -> TaskStatus] /\ age' \in [Tasks -> 0..StaleHorizon + 1]
        <5>1. CASE UNCHANGED <<task, age>>
          BY <5>1 DEF TypeOK
        <5>2. CASE Conclude(holds[w], "completed") \/ Conclude(holds[w], "failed")
          BY <5>2, ConcludeType DEF TaskStatus
        <5> QED BY <3>4, <5>1, <5>2 DEF Complete, FailTask
      <4> QED BY <3>4, <4>1, ReturnType DEF Complete, FailTask, TypeOK
    <3>5. CASE Settle(w)
      BY <3>5, TaskQueueAssumption DEF Settle, TypeOK
    <3> QED BY <2>7, <3>1, <3>2, <3>3, <3>4, <3>5 DEF Handle
  <2>8. ASSUME NEW r \in Callers, Pump(r) PROVE TypeOK'
    <3>1. phase' \in {"down", "boot", "reaped", "up"}
      BY <2>8 DEF Pump, CountTasks, CountTriggers, EmitOne, PhaseAfter, TypeOK
    <3>2. pending' \subseteq Triggers
      BY <2>8, PublishType DEF Pump, CountTasks, CountTriggers, EmitOne, TypeOK
    <3>3. lock' \in Callers \cup {Free}
      BY <2>8 DEF Pump, CountTasks, CountTriggers, EmitOne, TypeOK
    <3>4. /\ pump' \in [Callers -> [at : {"idle", "tasks", "emit"}, n : Nat]]
          /\ \A q \in Callers : pump'[q].at # "idle" => pump'[q].n > 0
      BY <2>8, PumpStep DEF TypeOK
    <3> QED BY <2>8, <3>1, <3>2, <3>3, <3>4
            DEF Pump, CountTasks, CountTriggers, EmitOne, TypeOK
  <2>9. CASE UNCHANGED vars
    BY <2>9 DEF vars, TypeOK
  <2> QED BY <2>1, <2>2, <2>3, <2>4, <2>5, <2>6, <2>7, <2>8, <2>9 DEF Next
<1> QED BY <1>1, <1>2, PTL DEF Spec

-----------------------------------------------------------------------------
(* Exclusive claims.                                                       *)

\* Exclusive, strengthened: a claim is never older than its handler, so the
\* handler is cancelled before the sweep looks at its task.
HeldSafely ==
  \A v \in Workers :
    pc[v] = "busy" /\ holds[v] \notin raced
    => /\ task[holds[v]] = "running"
       /\ age[holds[v]] =< elapsed[v]
       /\ \A w \in Workers : pc[w] = "busy" /\ holds[w] = holds[v] => w = v

\* A reset of tasks nobody safely holds disturbs nobody.
LEMMA ResetHarmless ==
  ASSUME TypeOK, HeldSafely, NEW S, Reset(S), UNCHANGED workerVars, raced \subseteq raced',
         \A v \in Workers : pc[v] = "busy" /\ holds[v] \notin raced' => holds[v] \notin S
  PROVE  HeldSafely'
<1> SUFFICES ASSUME NEW v \in Workers, pc[v] = "busy", holds[v] \notin raced'
             PROVE  /\ task'[holds[v]] = "running"
                    /\ age'[holds[v]] =< elapsed[v]
                    /\ \A w \in Workers : pc[w] = "busy" /\ holds[w] = holds[v] => w = v
  BY DEF HeldSafely, workerVars
<1>1. holds[v] \in Tasks /\ holds[v] \notin S /\ holds[v] \notin raced
  BY TaskQueueAssumption DEF TypeOK
<1>2. task'[holds[v]] = task[holds[v]] /\ age'[holds[v]] = age[holds[v]]
  BY <1>1 DEF Reset
<1> QED BY <1>1, <1>2 DEF HeldSafely

\* A handler that concludes its task, or drops it, takes it from nobody.
LEMMA ReturnHarmless ==
  ASSUME TypeOK, HeldSafely, NEW w \in Workers, Return(w), raced' = raced,
         \/ UNCHANGED <<task, age>>
         \/ pc[w] = "busy" /\ \E s \in TaskStatus : Conclude(holds[w], s)
  PROVE  HeldSafely'
<1> SUFFICES ASSUME NEW v \in Workers, pc'[v] = "busy", holds'[v] \notin raced
             PROVE  /\ task'[holds'[v]] = "running"
                    /\ age'[holds'[v]] =< elapsed'[v]
                    /\ \A u \in Workers : pc'[u] = "busy" /\ holds'[u] = holds'[v] => u = v
  BY DEF HeldSafely
<1>1. v # w /\ pc[v] = "busy" /\ holds'[v] = holds[v] /\ elapsed'[v] = elapsed[v]
  BY DEF Return, TypeOK
<1>2. /\ task[holds[v]] = "running" /\ age[holds[v]] =< elapsed[v]
      /\ \A u \in Workers : pc[u] = "busy" /\ holds[u] = holds[v] => u = v
  BY <1>1 DEF HeldSafely
<1>3. task'[holds[v]] = "running" /\ age'[holds[v]] =< elapsed[v]
  <2>1. CASE UNCHANGED <<task, age>>
    BY <1>2, <2>1
  <2>2. CASE pc[w] = "busy" /\ \E s \in TaskStatus : Conclude(holds[w], s)
    <3>1. holds[w] # holds[v]
      BY <1>1, <1>2, <2>2
    <3>2. holds[v] \in Tasks
      BY <1>1, TaskQueueAssumption DEF TypeOK
    <3> QED BY <1>2, <2>2, <3>1, <3>2 DEF Conclude, TypeOK
  <2> QED BY <2>1, <2>2
<1>4. \A u \in Workers : pc'[u] = "busy" => pc[u] = "busy" /\ holds'[u] = holds[u]
  BY DEF Return, TypeOK
<1> QED BY <1>1, <1>2, <1>3, <1>4

\* HeldSafely holds in every reachable state.
LEMMA HeldSafelyInvariant == Spec => []HeldSafely
<1>1. Init => HeldSafely
  BY DEF Init, HeldSafely
<1>2. TypeOK /\ HeldSafely /\ [Next]_vars => HeldSafely'
  <2> SUFFICES ASSUME TypeOK, HeldSafely, [Next]_vars PROVE HeldSafely'
    OBVIOUS
  <2> USE DEF jobVars, workerVars
  <2>1. CASE UNCHANGED <<task, age, pc, holds, elapsed, raced>>
    BY <2>1 DEF HeldSafely
  <2>2. CASE StartupReap
    BY <2>2, ResetHarmless, TaskQueueAssumption
       DEF StartupReap, HeldSafely, Holders, TypeOK
  <2>3. CASE Die
    BY <2>3 DEF Die, HeldSafely
  <2>4. CASE Tick
    BY <2>4, TaskQueueAssumption DEF Tick, HeldSafely, Live, TypeOK
  <2>5. CASE SweepStale
    <3>1. ASSUME NEW v \in Workers, pc[v] = "busy", holds[v] \notin raced
          PROVE  holds[v] \notin Overdue
      <4>1. age[holds[v]] =< elapsed[v] /\ elapsed[v] =< HandlerTimeout
        BY <3>1 DEF HeldSafely, TypeOK
      <4>2. holds[v] \in Tasks
        BY <3>1, TaskQueueAssumption DEF TypeOK
      <4>3. age[holds[v]] \in Nat /\ elapsed[v] \in Nat
        BY <4>2, TaskQueueAssumption DEF TypeOK
      <4> QED BY <4>1, <4>3, TimeoutWithinHorizon, TaskQueueAssumption DEF Overdue
    <3> QED BY <2>5, <3>1, ResetHarmless DEF SweepStale
  <2>6. ASSUME NEW k \in Tasks, Insert(k) \/ Halt(k) PROVE HeldSafely'
    <3>1. task[k] # "running" /\ \A j \in Tasks : j # k => task'[j] = task[j]
      BY <2>6 DEF Insert, Halt, TypeOK
    <3>2. \A v \in Workers : pc[v] = "busy" => holds[v] \in Tasks
      BY TaskQueueAssumption DEF TypeOK
    <3> QED BY <2>6, <3>1, <3>2 DEF Insert, Halt, HeldSafely
  <2>7. ASSUME NEW w \in Workers, Handle(w) PROVE HeldSafely'
    <3>1. ASSUME NEW t \in Triggers, Begin(w, t) PROVE HeldSafely'
      BY <3>1 DEF Begin, HeldSafely, TypeOK
    <3>2. CASE Settle(w)
      BY <3>2 DEF Settle, HeldSafely, TypeOK
    <3>3. CASE Skip(w) \/ Abandon(w)
      BY <3>3, ReturnHarmless DEF Skip, Abandon
    <3>4. CASE Complete(w) \/ FailTask(w)
      BY <3>4, ReturnHarmless DEF Complete, FailTask, TaskStatus
    <3>5. CASE Claim(w)
      <4>1. CASE Claimable = {}
        BY <3>5, <4>1, ReturnHarmless DEF Claim
      <4>2. CASE Claimable # {}
        <5>1. PICK k \in Claimable : /\ task' = [task EXCEPT ![k] = "running"]
                                     /\ age' = [age EXCEPT ![k] = 0]
                                     /\ holds' = [holds EXCEPT ![w] = k]
                                     /\ pc' = [pc EXCEPT ![w] = "busy"]
                                     /\ UNCHANGED elapsed
          BY <3>5, <4>2 DEF Claim
        <5>2. raced' = raced
          BY <3>5 DEF Claim
        <5>3. k \in Tasks /\ task[k] = "pending"
          BY TaskQueueAssumption DEF Claimable
        <5>4. \A v \in Workers : pc[v] = "busy" /\ holds[v] \notin raced => holds[v] # k
          BY <5>3 DEF HeldSafely
        <5>5. k \notin raced => \A v \in Workers : pc[v] = "busy" => holds[v] # k
          BY <5>4
        <5>6. ASSUME NEW v \in Workers, pc'[v] = "busy", holds'[v] \notin raced
              PROVE  /\ task'[holds'[v]] = "running"
                     /\ age'[holds'[v]] =< elapsed'[v]
                     /\ \A u \in Workers : pc'[u] = "busy" /\ holds'[u] = holds'[v] => u = v
          <6>1. CASE v = w
            <7>1. holds'[v] = k /\ k \notin raced
              BY <5>1, <5>6, <6>1 DEF TypeOK
            <7>2. task'[k] = "running" /\ age'[k] = 0 /\ elapsed'[v] \in Nat
              BY <5>1, <5>3, TaskQueueAssumption DEF TypeOK
            <7>3. \A u \in Workers : pc'[u] = "busy" /\ holds'[u] = k => u = w
              BY <5>1, <5>5, <7>1 DEF TypeOK
            <7> QED BY <6>1, <7>1, <7>2, <7>3
          <6>2. CASE v # w
            <7>1. pc[v] = "busy" /\ holds'[v] = holds[v] /\ holds[v] # k
              BY <5>1, <5>4, <5>6, <6>2 DEF TypeOK
            <7>2. task'[holds[v]] = task[holds[v]] /\ age'[holds[v]] = age[holds[v]]
              BY <5>1, <7>1, TaskQueueAssumption DEF TypeOK
            <7>3. \A u \in Workers : pc'[u] = "busy" /\ holds'[u] = holds[v] => u = v
              BY <5>1, <5>6, <7>1 DEF TypeOK, HeldSafely
            <7> QED BY <5>1, <5>6, <7>1, <7>2, <7>3 DEF HeldSafely
          <6> QED BY <6>1, <6>2
        <5> QED BY <5>2, <5>6 DEF HeldSafely
      <4> QED BY <4>1, <4>2
    <3> QED BY <2>7, <3>1, <3>2, <3>3, <3>4, <3>5 DEF Handle
  <2>8. ASSUME NEW r \in Callers, Pump(r) PROVE HeldSafely'
    BY <2>1, <2>8 DEF Pump, CountTasks, CountTriggers, EmitOne
  <2> QED BY <2>1, <2>2, <2>3, <2>4, <2>5, <2>6, <2>7, <2>8 DEF Next, Boot, vars
<1> QED BY <1>1, <1>2, TypeCorrect, PTL DEF Spec

(* Exclusive: whatever the number of researchers, crashes and stalls, as    *)
(* long as the timeout is within the sweep's horizon.                       *)
THEOREM ClaimsExclusive == Spec => []Exclusive
<1>1. HeldSafely => Exclusive
  BY DEF HeldSafely, Exclusive
<1> QED BY <1>1, HeldSafelyInvariant, PTL

(* VerdictStands, from the same invariant.                                  *)
THEOREM VerdictsStand == Spec => VerdictStands
<1> DEFINE Stands == \A k \in Tasks : task[k] \in Final /\ k \notin raced => task'[k] = task[k]
<1>1. TypeOK /\ HeldSafely /\ [Next]_vars => [Stands]_vars
  <2> SUFFICES ASSUME TypeOK, HeldSafely, [Next]_vars, NEW k \in Tasks,
                      task[k] \in Final, k \notin raced
               PROVE  task'[k] = task[k]
    OBVIOUS
  <2> USE DEF jobVars
  <2>1. CASE UNCHANGED task
    BY <2>1
  <2>2. CASE StartupReap \/ SweepStale
    BY <2>2 DEF StartupReap, SweepStale, Reset, Overdue, Final
  <2>3. ASSUME NEW j \in Tasks, Insert(j) \/ Halt(j) PROVE task'[k] = task[k]
    BY <2>3 DEF Insert, Halt, Final, TypeOK
  <2>4. ASSUME NEW w \in Workers, Handle(w) PROVE task'[k] = task[k]
    <3>1. CASE Complete(w) \/ FailTask(w)
      <4>1. pc[w] = "busy"
        BY <3>1 DEF Complete, FailTask
      <4>2. holds[w] # k
        BY <4>1 DEF HeldSafely, Final
      <4> QED BY <3>1, <4>2 DEF Complete, FailTask, Conclude, TypeOK
    <3>2. CASE Claim(w)
      BY <3>2 DEF Claim, Claimable, Final, TypeOK
    <3> QED BY <2>1, <2>4, <3>1, <3>2 DEF Handle, Begin, Skip, Abandon, Settle
  <2> QED BY <2>1, <2>2, <2>3, <2>4
          DEF Next, Boot, Die, Tick, Pump, CountTasks, CountTriggers, EmitOne, vars
<1> QED BY <1>1, TypeCorrect, HeldSafelyInvariant, PTL DEF Spec, VerdictStands

-----------------------------------------------------------------------------
(* The pump.                                                               *)

\* The sets that are counted are finite.
LEMMA PoolsFinite ==
  /\ TypeOK => IsFiniteSet(pending) /\ Cardinality(pending) \in Nat
  /\ IsFiniteSet(Born) /\ Cardinality(Born) \in Nat
BY TaskQueueAssumption, FS_Subset, FS_CardinalityType DEF TypeOK, Born

\* A published event counts for one.
LEMMA PublishCounts ==
  ASSUME TypeOK, Publish
  PROVE  Cardinality(pending') = Cardinality(pending) + 1
BY PublishType, PoolsFinite, FS_AddElement DEF Fresh

\* Rows are never unborn again.
LEMMA BornGrows ==
  ASSUME TypeOK, TypeOK', [Next]_vars
  PROVE  Cardinality(Born) =< Cardinality(Born')
<1>1. Born \subseteq Born'
  <2> SUFFICES ASSUME NEW k \in Tasks, task[k] # "unborn" PROVE task'[k] # "unborn"
    BY DEF Born
  <2> USE DEF jobVars
  <2>1. CASE UNCHANGED task
    BY <2>1
  <2>2. CASE StartupReap \/ SweepStale
    BY <2>2 DEF StartupReap, SweepStale, Reset
  <2>3. ASSUME NEW j \in Tasks, Insert(j) \/ Halt(j) PROVE task'[k] # "unborn"
    BY <2>3 DEF Insert, Halt, TypeOK
  <2>4. ASSUME NEW w \in Workers, Handle(w) PROVE task'[k] # "unborn"
    BY <2>1, <2>4 DEF Handle, Begin, Skip, Claim, Complete, FailTask, Abandon, Settle,
                     Conclude, TypeOK
  <2> QED BY <2>1, <2>2, <2>3, <2>4
          DEF Next, Boot, Die, Tick, Pump, CountTasks, CountTriggers, EmitOne, vars
<1>2. IsFiniteSet(Born')
  BY TaskQueueAssumption, FS_Subset DEF Born
<1> QED BY <1>1, <1>2, FS_Subset

\* NoExcessTriggers, strengthened with what each pump still intends.
PumpBounded ==
  /\ Cardinality(pending) =< Cardinality(Born)
  /\ \A r \in Callers :
       /\ pump[r].at # "idle" => lock = r
       /\ pump[r].at = "tasks" => pump[r].n =< Cardinality(Born)
       /\ pump[r].at = "emit" => Cardinality(pending) + pump[r].n =< Cardinality(Born)

\* Steps that publish nothing and leave the pump alone.
LEMMA PumpUndisturbed ==
  ASSUME TypeOK, PumpBounded, Cardinality(Born) =< Cardinality(Born'),
         Cardinality(Born') \in Nat, pending' \subseteq pending, UNCHANGED pumpVars
  PROVE  PumpBounded'
<1>1. Cardinality(pending') \in Nat /\ Cardinality(pending') =< Cardinality(pending)
  BY PoolsFinite, FS_Subset, FS_CardinalityType
<1> QED BY <1>1, PoolsFinite DEF PumpBounded, pumpVars, TypeOK

\* PumpBounded holds in every reachable state.
LEMMA PumpBoundedInvariant == Spec => []PumpBounded
<1>1. Init => PumpBounded
  <2> SUFFICES ASSUME Init PROVE PumpBounded
    OBVIOUS
  <2>1. Cardinality(pending) = 0 /\ Cardinality(Born) \in Nat
    BY PoolsFinite, FS_EmptySet DEF Init
  <2> QED BY <2>1 DEF Init, PumpBounded, Resting
<1>2. TypeOK /\ TypeOK' /\ PumpBounded /\ [Next]_vars => PumpBounded'
  <2> SUFFICES ASSUME TypeOK, TypeOK', PumpBounded, [Next]_vars PROVE PumpBounded'
    OBVIOUS
  <2>1. /\ Cardinality(Born) \in Nat /\ Cardinality(Born') \in Nat
        /\ Cardinality(Born) =< Cardinality(Born')
        /\ Cardinality(pending) \in Nat
    <3>1. Cardinality(Born') \in Nat
      BY TaskQueueAssumption, FS_Subset, FS_CardinalityType DEF Born
    <3> QED BY <3>1, PoolsFinite, BornGrows
  <2>2. CASE pending' \subseteq pending /\ UNCHANGED pumpVars
    BY <2>1, <2>2, PumpUndisturbed
  <2>3. CASE Die
    BY <2>1, <2>3 DEF Die, PumpBounded, Resting
  <2>4. ASSUME NEW k \in Tasks, Insert(k) PROVE PumpBounded'
    <3>1. Cardinality(pending') = Cardinality(pending) + 1
      BY <2>4, PublishCounts DEF Insert
    <3>2. Born' = Born \cup {k} /\ k \notin Born
      BY <2>4 DEF Insert, Born, TypeOK
    <3>3. Cardinality(Born') = Cardinality(Born) + 1
      BY <3>2, PoolsFinite, FS_AddElement
    <3>4. UNCHANGED <<pump, lock>>
      BY <2>4 DEF Insert, pumpVars
    <3> QED BY <2>1, <3>1, <3>3, <3>4 DEF PumpBounded, TypeOK
  <2>5. ASSUME NEW r \in Callers, Pump(r) PROVE PumpBounded'
    <3>1. \A q \in Callers : pump[q].n \in Nat
      BY DEF TypeOK
    <3>2. r # Free
      BY DEF Callers, Free
    <3>3. Born' = Born
      BY <2>5 DEF Pump, CountTasks, CountTriggers, EmitOne, jobVars, Born
    <3>4. CASE CountTasks(r)
      <4>1. pending' = pending
        BY <3>4 DEF CountTasks
      <4>2. CASE Waiting = {}
        BY <2>2, <3>4, <4>1, <4>2 DEF CountTasks
      <4>3. CASE Waiting # {}
        <5>1. Cardinality(Waiting) =< Cardinality(Born)
          BY PoolsFinite, FS_Subset DEF Waiting, Born
        <5>2. /\ lock' = r
              /\ pump' = [pump EXCEPT ![r] = [at |-> "tasks", n |-> Cardinality(Waiting)]]
          BY <3>4, <4>3 DEF CountTasks
        <5>3. \A q \in Callers : pump[q].at = "idle"
          BY <3>4 DEF CountTasks, PumpBounded, Callers, Free
        <5>4. \A q \in Callers : q # r => pump'[q].at = "idle"
          BY <5>2, <5>3 DEF TypeOK
        <5>5. pump'[r] = [at |-> "tasks", n |-> Cardinality(Waiting)]
          BY <5>2 DEF TypeOK
        <5> QED BY <3>3, <4>1, <5>1, <5>2, <5>4, <5>5 DEF PumpBounded
      <4> QED BY <4>2, <4>3
    <3>5. CASE CountTriggers(r) \/ EmitOne(r)
      <4>1. pump[r].at # "idle" /\ lock = r
        BY <3>5 DEF CountTriggers, EmitOne, PumpBounded
      <4>2. \A q \in Callers : q # r => pump[q].at = "idle"
        BY <4>1 DEF PumpBounded
      <4>3. ASSUME NEW p, pump' = [pump EXCEPT ![r] = p]
            PROVE  /\ pump'[r] = p
                   /\ \A q \in Callers : q # r => pump'[q].at = "idle"
        BY <4>2, <4>3 DEF TypeOK
      <4>4. CASE CountTriggers(r)
        <5>1. pending' = pending /\ pump[r].n =< Cardinality(Born)
          BY <4>4 DEF CountTriggers, PumpBounded
        <5>2. CASE pump[r].n =< Cardinality(pending)
          <6>1. pump' = [pump EXCEPT ![r] = Resting]
            BY <4>4, <5>2 DEF CountTriggers
          <6>2. \A q \in Callers : pump'[q].at = "idle"
            BY <4>3, <6>1 DEF Resting
          <6> QED BY <3>3, <5>1, <6>2 DEF PumpBounded
        <5>3. CASE ~(pump[r].n =< Cardinality(pending))
          <6> DEFINE p == [at |-> "emit", n |-> pump[r].n - Cardinality(pending)]
          <6>1. pump' = [pump EXCEPT ![r] = p] /\ lock' = lock
            BY <4>4, <5>3 DEF CountTriggers
          <6>2. pump'[r] = p /\ \A q \in Callers : q # r => pump'[q].at = "idle"
            BY <4>3, <6>1
          <6>3. Cardinality(pending) + p.n =< Cardinality(Born)
            BY <2>1, <3>1, <5>1
          <6> QED BY <3>3, <4>1, <5>1, <6>1, <6>2, <6>3 DEF PumpBounded
        <5> QED BY <5>2, <5>3
      <4>5. CASE EmitOne(r)
        <5>1. Cardinality(pending') = Cardinality(pending) + 1
          BY <4>5, PublishCounts DEF EmitOne
        <5>2. Cardinality(pending) + pump[r].n =< Cardinality(Born) /\ pump[r].n > 0
          BY <4>5 DEF EmitOne, PumpBounded, TypeOK
        <5>3. Cardinality(pending') =< Cardinality(Born')
          BY <2>1, <3>1, <3>3, <5>1, <5>2
        <5>4. CASE pump[r].n = 1
          <6>1. pump' = [pump EXCEPT ![r] = Resting]
            BY <4>5, <5>4 DEF EmitOne
          <6>2. \A q \in Callers : pump'[q].at = "idle"
            BY <4>3, <6>1 DEF Resting
          <6> QED BY <5>3, <6>2 DEF PumpBounded
        <5>5. CASE pump[r].n # 1
          <6> DEFINE p == [at |-> "emit", n |-> pump[r].n - 1]
          <6>1. pump' = [pump EXCEPT ![r] = p] /\ lock' = lock
            BY <4>5, <5>5 DEF EmitOne
          <6>2. pump'[r] = p /\ \A q \in Callers : q # r => pump'[q].at = "idle"
            BY <4>3, <6>1
          <6>3. Cardinality(pending') + p.n =< Cardinality(Born')
            BY <2>1, <3>1, <3>3, <5>1, <5>2
          <6> QED BY <4>1, <5>3, <6>1, <6>2, <6>3 DEF PumpBounded
        <5> QED BY <5>4, <5>5
      <4> QED BY <3>5, <4>4, <4>5
    <3> QED BY <2>5, <3>4, <3>5 DEF Pump
  <2>6. ASSUME NEW w \in Workers, Handle(w) PROVE PumpBounded'
    BY <2>2, <2>6 DEF Handle, Begin, Skip, Claim, Complete, FailTask, Abandon, Settle
  <2>7. CASE UNCHANGED <<pending, pump, lock>>
    BY <2>2, <2>7 DEF pumpVars
  <2> QED BY <2>3, <2>4, <2>5, <2>6, <2>7
          DEF Next, Boot, StartupReap, Tick, SweepStale, Halt, vars, pumpVars
<1> QED BY <1>1, <1>2, TypeCorrect, PTL DEF Spec

(* NoExcessTriggers, for any number of tasks and interleaving of the two    *)
(* pumps.                                                                   *)
THEOREM TriggersBounded == Spec => []NoExcessTriggers
<1>1. PumpBounded => NoExcessTriggers
  BY DEF PumpBounded, NoExcessTriggers
<1> QED BY <1>1, PumpBoundedInvariant, PTL

(***************************************************************************)
(* The march of a direction, whose tasks are the ones worked here: proofs  *)
(* about March, for any values of its constants that fit MarchAssumption,  *)
(* with names of its own for its constants, its variables and for the two  *)
(* variables and the bound whose names are also those of TaskQueue.        *)
(***************************************************************************)
CONSTANTS N, Hopeless, MaxTasks, Coverage, ResynthStep, EvidenceCap, GiveUp, Engine,
          MaxCalls, MaxRequests, MaxConfirms, MaxSetbacks

VARIABLES status, approved, held, planned, tasks, docs, runs, real, synth,
          asked, confirms, emitted, calls, setbacks

Ma == INSTANCE March WITH pending <- emitted, mishaps <- setbacks, MaxMishaps <- MaxSetbacks

\* The instance counts as FiniteSets does.
LEMMA SameCounting == ASSUME NEW S PROVE Ma!Cardinality(S) = Cardinality(S)
BY DEF Cardinality, Ma!Cardinality

\* The fields of March, and what the calls hold.
MarchTyped ==
  /\ status \in [Ma!Dirs -> {"active", "concluded", "ended"}]
  /\ approved \subseteq Ma!Dirs /\ held \subseteq Ma!Dirs /\ planned \subseteq Ma!Dirs
  /\ tasks \in [Ma!Dirs -> Nat] /\ \A d \in Ma!Dirs : tasks[d] > 0 => d \in planned
  /\ docs \subseteq Ma!Dirs \X Ma!Kinds
  /\ runs \in [Ma!Dirs -> [done : Nat, lost : Nat, open : Nat]]
  /\ real \subseteq Ma!Dirs
  /\ synth \in [Ma!Dirs -> Nat] /\ \A d \in Ma!Dirs : synth[d] =< runs[d].done
  /\ asked \subseteq Ma!Dirs /\ confirms \in [Ma!Dirs -> 0..MaxConfirms]
  /\ setbacks \in 0..MaxSetbacks

CallsTyped ==
  /\ emitted \subseteq Ma!Events /\ IsFiniteSet(calls)
  /\ Cardinality(calls) =< MaxCalls
  /\ \A c \in calls :
       /\ c = [event |-> c.event, open |-> c.open, take |-> c.take, dirs |-> c.dirs]
       /\ c.event \in Ma!Events /\ c.open \in BOOLEAN /\ c.dirs \subseteq Ma!Dirs
       /\ c.open => c.event \in emitted

\* The events that ask for an experiment in d, the calls that design one, and
\* the events among the first that a call will consume.
Asking     == {"run", "confirm"}
Wanted(d)     == {e \in emitted : e.type \in Asking /\ e.dir = d}
Confirming(d) == {e \in emitted : e.type = "confirm" /\ e.dir = d}
Designing(d)  == {c \in calls : c.event.type \in Asking /\ c.event.dir = d}
Taken(d)      == {e \in Wanted(d) : \E c \in calls : c.event = e /\ c.open}

Tried(d) == Ma!Attempts(d) + runs[d].open

\* What may still be tried beyond the requests: confirmations, and calls that
\* another one has taken the event from.
Stacked(d) ==
  Cardinality(Confirming(d)) + Cardinality(Designing(d)) =< Cardinality(Taken(d)) + confirms[d] + setbacks

Limit == GiveUp * EvidenceCap + MaxRequests - 1

GivenUp(d) ==
  Tried(d) + Cardinality(Ma!Requests(d)) + Cardinality(Confirming(d)) + Cardinality(Designing(d))
    =< Cardinality(Taken(d)) + Limit + confirms[d] + setbacks

MarchInv == /\ MarchTyped /\ CallsTyped /\ Ma!PendingCapped
            /\ \A d \in Ma!Dirs : Stacked(d) /\ GivenUp(d)

-----------------------------------------------------------------------------
\* There are finitely many events.
LEMMA EventsFinite == ASSUME Ma!MarchAssumption PROVE IsFiniteSet(Ma!Events)
<1> DEFINE types == {"plan", "review", "proposal", "article", "run", "confirm"}
           S == types \X ((0..N) \X (0..MaxRequests))
           T == {Ma!Event(x[1], x[2][1], x[2][2]) : x \in S}
           f == [x \in S |-> Ma!Event(x[1], x[2][1], x[2][2])]
<1>1. IsFiniteSet(types)
  <2>1. IsFiniteSet({"plan"})
    BY FS_Singleton
  <2>2. IsFiniteSet({"plan"} \cup {"review"})
    BY <2>1, FS_AddElement
  <2>3. IsFiniteSet(({"plan"} \cup {"review"}) \cup {"proposal"})
    BY <2>2, FS_AddElement
  <2>4. IsFiniteSet((({"plan"} \cup {"review"}) \cup {"proposal"}) \cup {"article"})
    BY <2>3, FS_AddElement
  <2>5. IsFiniteSet(((({"plan"} \cup {"review"}) \cup {"proposal"}) \cup {"article"}) \cup {"run"})
    BY <2>4, FS_AddElement
  <2>6. IsFiniteSet((((({"plan"} \cup {"review"}) \cup {"proposal"}) \cup {"article"}) \cup {"run"}) \cup {"confirm"})
    BY <2>5, FS_AddElement
  <2>7. types = (((({"plan"} \cup {"review"}) \cup {"proposal"}) \cup {"article"}) \cup {"run"}) \cup {"confirm"}
    OBVIOUS
  <2> QED BY <2>6, <2>7
<1>2. IsFiniteSet(0..N) /\ IsFiniteSet(0..MaxRequests)
  BY FS_Interval DEF Ma!MarchAssumption
<1> HIDE DEF types
<1>3. IsFiniteSet(S)
  <2>1. IsFiniteSet((0..N) \X (0..MaxRequests))
    BY <1>2, FS_Product
  <2> QED BY <1>1, <2>1, FS_Product
<1>4. f \in Surjection(S, T)
  BY DEF Surjection
<1>5. IsFiniteSet(T)
  BY <1>3, <1>4, FS_Surjection
<1>6. Ma!Events \subseteq T
  <2> SUFFICES ASSUME NEW e \in Ma!Events PROVE e \in T
    OBVIOUS
  <2>1. \E t \in types, d \in 0..N, i \in 0..MaxRequests : e = Ma!Event(t, d, i)
    BY DEF Ma!Events, types, Ma!Kinds, Ma!Dirs, Ma!MarchAssumption
  <2>2. PICK t \in types, d \in 0..N, i \in 0..MaxRequests : e = Ma!Event(t, d, i)
    BY <2>1
  <2>3. <<t, <<d, i>>>> \in S
    OBVIOUS
  <2> QED BY <2>2, <2>3
<1> HIDE DEF T
<1> QED BY <1>5, <1>6, FS_Subset

\* The counts of a direction are of finite sets.
LEMMA CountsTyped ==
  ASSUME Ma!MarchAssumption, CallsTyped, NEW d \in Ma!Dirs
  PROVE  /\ IsFiniteSet(Ma!Requests(d)) /\ IsFiniteSet(Confirming(d))
         /\ IsFiniteSet(Designing(d)) /\ IsFiniteSet(Taken(d))
         /\ Cardinality(Ma!Requests(d)) \in Nat /\ Cardinality(Confirming(d)) \in Nat
         /\ Cardinality(Designing(d)) \in Nat /\ Cardinality(Taken(d)) \in Nat
<1>1. /\ Ma!Requests(d) \subseteq Ma!Events /\ Confirming(d) \subseteq Ma!Events
      /\ Taken(d) \subseteq Ma!Events /\ Designing(d) \subseteq calls
  BY DEF CallsTyped, Ma!Requests, Confirming, Taken, Wanted, Designing
<1>2. /\ IsFiniteSet(Ma!Requests(d)) /\ IsFiniteSet(Confirming(d))
      /\ IsFiniteSet(Taken(d))
  BY <1>1, EventsFinite, FS_Subset
<1>3. IsFiniteSet(Designing(d))
  BY <1>1, FS_Subset DEF CallsTyped
<1> QED BY <1>2, <1>3, FS_CardinalityType

CountsOk == \A d \in Ma!Dirs :
  /\ IsFiniteSet(Ma!Requests(d)) /\ IsFiniteSet(Confirming(d))
  /\ IsFiniteSet(Designing(d)) /\ IsFiniteSet(Taken(d))
  /\ Cardinality(Ma!Requests(d)) \in Nat /\ Cardinality(Confirming(d)) \in Nat
  /\ Cardinality(Designing(d)) \in Nat /\ Cardinality(Taken(d)) \in Nat

\* The same for all directions, before a step and after it.
LEMMA CountsNow == ASSUME Ma!MarchAssumption PROVE CallsTyped => CountsOk
BY CountsTyped DEF CountsOk

LEMMA CountsNext == ASSUME Ma!MarchAssumption PROVE CallsTyped' => CountsOk'
BY CountsNow, PTL

\* A request that is taken is a call's that designs for it.
LEMMA TakenByACall ==
  ASSUME Ma!MarchAssumption, CallsTyped, NEW d \in Ma!Dirs
  PROVE  Cardinality(Taken(d)) =< Cardinality(Designing(d))
<1> DEFINE S == {c \in Designing(d) : c.event \in Taken(d)}
           f == [c \in S |-> c.event]
<1>1. f \in Surjection(S, Taken(d))
  BY DEF Surjection, Taken, Wanted, Designing
<1>2. S \in SUBSET Designing(d)
  OBVIOUS
<1> HIDE DEF f, S
<1>3. IsFiniteSet(S) /\ Cardinality(S) =< Cardinality(Designing(d)) /\ Cardinality(S) \in Nat
  BY <1>2, CountsTyped, FS_Subset, FS_CardinalityType
<1>4. Cardinality(Taken(d)) =< Cardinality(S)
  BY <1>1, <1>3, FS_Surjection
<1> QED BY <1>3, <1>4, CountsTyped

\* The calls of an event that is consumed lose it.
Record(k) == [event |-> k.event, open |-> k.open, take |-> k.take, dirs |-> k.dirs]
Relabelled(S, e) == {[k EXCEPT !.open = @ /\ k.event # e] : k \in S}

\* j is k, without the event e.
Loses(j, k, e) == j.event = k.event /\ j.dirs = k.dirs /\ j.open = (k.open /\ k.event # e)

\* Calls that lose their event are no more than they were.
LEMMA Relabelling ==
  ASSUME NEW S, IsFiniteSet(S), NEW e, \A k \in S : k = Record(k)
  PROVE  /\ IsFiniteSet(Relabelled(S, e)) /\ Cardinality(Relabelled(S, e)) =< Cardinality(S)
         /\ \A j \in Relabelled(S, e) : j = Record(j) /\ \E k \in S : Loses(j, k, e)
         /\ \A k \in S : \E j \in Relabelled(S, e) : Loses(j, k, e)
<1> DEFINE g(k) == [k EXCEPT !.open = @ /\ k.event # e]
           f == [k \in S |-> g(k)]
<1>1. \A k \in S : g(k) = Record(g(k)) /\ Loses(g(k), k, e)
  BY DEF Record, Loses
<1>2. Relabelled(S, e) = {g(k) : k \in S}
  BY DEF Relabelled
<1> HIDE DEF g
<1>3. f \in Surjection(S, Relabelled(S, e))
  BY <1>2 DEF Surjection
<1> HIDE DEF f
<1>4. IsFiniteSet(Relabelled(S, e)) /\ Cardinality(Relabelled(S, e)) =< Cardinality(S)
  BY <1>3, FS_Surjection
<1> QED BY <1>1, <1>2, <1>4

\* The end of a call keeps the types of the others.
LEMMA SettleTyped ==
  ASSUME Ma!MarchAssumption, CallsTyped, NEW c \in calls, Ma!Settle(c)
  PROVE  CallsTyped'
<1> DEFINE rest == calls \ {c}
<1>1. IsFiniteSet(rest) /\ Cardinality(rest) =< MaxCalls /\ \A k \in rest : k = Record(k)
  <2>1. IsFiniteSet(calls) /\ Cardinality(calls) =< MaxCalls /\ Cardinality(calls) \in Nat
    BY FS_CardinalityType DEF CallsTyped
  <2>2. IsFiniteSet(rest) /\ Cardinality(rest) = Cardinality(calls) - 1
    BY <2>1, FS_RemoveElement
  <2> QED BY <2>1, <2>2 DEF CallsTyped, Record, Ma!MarchAssumption
<1>2. CASE c.open
  <2>1. calls' = Relabelled(rest, c.event) /\ emitted' = emitted \ {c.event}
    BY <1>2 DEF Ma!Settle, Relabelled
  <2>2. /\ IsFiniteSet(calls') /\ Cardinality(calls') =< Cardinality(rest)
        /\ \A j \in calls' : j = Record(j) /\ \E k \in rest : Loses(j, k, c.event)
    <3> HIDE DEF rest
    <3>1. IsFiniteSet(Relabelled(rest, c.event)) /\ Cardinality(Relabelled(rest, c.event)) =< Cardinality(rest)
      BY <1>1, Relabelling
    <3>2. \A j \in Relabelled(rest, c.event) : j = Record(j) /\ \E k \in rest : Loses(j, k, c.event)
      BY <1>1, Relabelling
    <3> QED BY <2>1, <3>1, <3>2
  <2>3. Cardinality(calls') =< MaxCalls
    BY <1>1, <2>2, FS_CardinalityType DEF Ma!MarchAssumption
  <2>4. ASSUME NEW j \in calls'
        PROVE  /\ j = Record(j) /\ j.event \in Ma!Events /\ j.open \in BOOLEAN /\ j.dirs \subseteq Ma!Dirs
               /\ j.open => j.event \in emitted'
    <3>1. PICK k \in rest : Loses(j, k, c.event)
      BY <2>2
    <3>2. k.event \in Ma!Events /\ k.open \in BOOLEAN /\ k.dirs \subseteq Ma!Dirs /\ (k.open => k.event \in emitted)
      BY DEF CallsTyped
    <3> QED BY <2>1, <2>2, <3>1, <3>2 DEF Loses
  <2> QED BY <2>1, <2>2, <2>3, <2>4 DEF CallsTyped, Record
<1>3. CASE ~c.open
  <2>1. calls' = rest /\ emitted' = emitted
    BY <1>3 DEF Ma!Settle
  <2> QED BY <1>1, <2>1 DEF CallsTyped
<1>4. c.open \in BOOLEAN
  BY DEF CallsTyped
<1> QED BY <1>2, <1>3, <1>4

\* Whatever is counted is a natural number.
LEMMA LimitTyped == ASSUME Ma!MarchAssumption PROVE
  /\ Limit \in Nat /\ GiveUp * EvidenceCap \in Nat
  /\ \A t \in 0..EvidenceCap : GiveUp * t \in Nat /\ GiveUp * t =< GiveUp * EvidenceCap
<1>1. GiveUp \in Nat /\ EvidenceCap \in Nat /\ MaxRequests \in Nat /\ MaxRequests >= 1
  BY DEF Ma!MarchAssumption
<1>2. \A a, b \in Nat : a * b \in Nat
  OBVIOUS
<1>3. \A a, b, c \in Nat : b =< c => a * b =< a * c
  OBVIOUS
<1>4. GiveUp * EvidenceCap \in Nat
  BY <1>1, <1>2
<1>5. Limit \in Nat
  BY <1>1, <1>4 DEF Limit
<1>6. ASSUME NEW t \in 0..EvidenceCap PROVE GiveUp * t \in Nat /\ GiveUp * t =< GiveUp * EvidenceCap
  <2>1. t \in Nat /\ t =< EvidenceCap
    BY <1>1
  <2> QED BY <1>1, <1>2, <1>3, <2>1
<1> QED BY <1>4, <1>5, <1>6

\* What has been tried is a number.
LEMMA TriedTyped ==
  ASSUME Ma!MarchAssumption, MarchTyped, NEW d \in Ma!Dirs
  PROVE  Tried(d) \in Nat /\ confirms[d] \in Nat /\ setbacks \in Nat
<1>1. runs[d].done \in Nat /\ runs[d].lost \in Nat /\ runs[d].open \in Nat
  BY DEF MarchTyped
<1>2. confirms[d] \in 0..MaxConfirms /\ setbacks \in 0..MaxSetbacks
  BY DEF MarchTyped
<1> QED BY <1>1, <1>2 DEF Tried, Ma!Attempts, Ma!MarchAssumption

TriedOk == \A d \in Ma!Dirs : Tried(d) \in Nat /\ confirms[d] \in Nat /\ setbacks \in Nat

\* The same for all directions, before a step and after it.
LEMMA TriedNow == ASSUME Ma!MarchAssumption PROVE MarchTyped => TriedOk
BY TriedTyped DEF TriedOk

LEMMA TriedNext == ASSUME Ma!MarchAssumption PROVE MarchTyped' => TriedOk'
BY TriedNow, PTL

\* Both bounds hold as long as what comes to the one side of them is paid for.
LEMMA Balance ==
  ASSUME Ma!MarchAssumption, MarchTyped, CallsTyped, MarchTyped', CallsTyped', NEW d \in Ma!Dirs, Stacked(d), GivenUp(d),
         Cardinality(Confirming(d))' + Cardinality(Designing(d))' + Cardinality(Taken(d)) + confirms[d] + setbacks
           =< Cardinality(Taken(d))' + Cardinality(Confirming(d)) + Cardinality(Designing(d)) + confirms'[d] + setbacks',
         Tried(d)' + Cardinality(Ma!Requests(d))' + Cardinality(Confirming(d))' + Cardinality(Designing(d))'
             + Cardinality(Taken(d)) + confirms[d] + setbacks
           =< Tried(d) + Cardinality(Ma!Requests(d)) + Cardinality(Confirming(d)) + Cardinality(Designing(d))
                + Cardinality(Taken(d))' + confirms'[d] + setbacks'
  PROVE  Stacked(d)' /\ GivenUp(d)'
<1>1. /\ Cardinality(Ma!Requests(d)) \in Nat /\ Cardinality(Confirming(d)) \in Nat
      /\ Cardinality(Designing(d)) \in Nat /\ Cardinality(Taken(d)) \in Nat
  BY CountsTyped
<1>2. /\ Cardinality(Ma!Requests(d))' \in Nat /\ Cardinality(Confirming(d))' \in Nat
      /\ Cardinality(Designing(d))' \in Nat /\ Cardinality(Taken(d))' \in Nat
  BY CountsNext DEF CountsOk
<1>3. Tried(d) \in Nat /\ confirms[d] \in Nat /\ setbacks \in Nat
  BY TriedTyped
<1>4. Tried(d)' \in Nat /\ confirms'[d] \in Nat /\ setbacks' \in Nat
  BY TriedNext DEF TriedOk
<1>5. Limit \in Nat
  BY LimitTyped
<1> HIDE DEF Tried, Limit, Ma!Requests, Confirming, Designing, Taken
<1> QED BY <1>1, <1>2, <1>3, <1>4, <1>5 DEF Stacked, GivenUp

-----------------------------------------------------------------------------
(* A call that ends.                                                         *)

\* A set with an element less.
LEMMA Removed ==
  ASSUME NEW S, IsFiniteSet(S), NEW x
  PROVE  /\ IsFiniteSet(S \ {x}) /\ Cardinality(S) \in Nat /\ Cardinality(S \ {x}) \in Nat
         /\ Cardinality(S \ {x}) = Cardinality(S) - (IF x \in S THEN 1 ELSE 0)
<1>1. Cardinality(S \ {x}) = IF x \in S THEN Cardinality(S) - 1 ELSE Cardinality(S)
  BY FS_RemoveElement
<1>2. IsFiniteSet(S \ {x}) /\ Cardinality(S) \in Nat /\ Cardinality(S \ {x}) \in Nat
  BY FS_RemoveElement, FS_CardinalityType
<1> QED BY <1>1, <1>2

\* The calls that are left, when they lose the event, are of no other kind.
LEMMA DesigningRelabelled ==
  ASSUME Ma!MarchAssumption, CallsTyped, NEW S \in SUBSET calls, NEW e, NEW d \in Ma!Dirs, calls' = Relabelled(S, e)
  PROVE  /\ Cardinality(Designing(d))' =< Cardinality(Designing(d) \cap S)
         /\ \A k \in S : k.open /\ k.event # e => \E j \in calls' : j.event = k.event /\ j.open
<1> DEFINE D == Designing(d) \cap S
<1>1. IsFiniteSet(D) /\ \A k \in D : k = Record(k)
  BY CountsTyped, FS_Subset DEF CallsTyped, Record
<1>2. Designing(d)' \subseteq Relabelled(D, e)
  <2> SUFFICES ASSUME NEW j \in Designing(d)' PROVE j \in Relabelled(D, e)
    OBVIOUS
  <2>1. PICK k \in S : j = [k EXCEPT !.open = @ /\ k.event # e]
    BY DEF Designing, Relabelled
  <2>2. k = Record(k)
    BY DEF CallsTyped, Record
  <2>3. j.event = k.event
    BY <2>1, <2>2 DEF Record
  <2>4. k \in D
    BY <2>3 DEF Designing
  <2> QED BY <2>1, <2>4 DEF Relabelled
<1>3. IsFiniteSet(Relabelled(D, e)) /\ Cardinality(Relabelled(D, e)) =< Cardinality(D)
  <2> HIDE DEF D
  <2> QED BY <1>1, Relabelling
<1>4. Cardinality(Designing(d))' =< Cardinality(Relabelled(D, e)) /\ Cardinality(Designing(d))' \in Nat
  BY <1>2, <1>3, FS_Subset, FS_CardinalityType
<1>5. Cardinality(Relabelled(D, e)) \in Nat /\ Cardinality(D) \in Nat
  BY <1>1, <1>3, FS_CardinalityType
<1>6. Cardinality(Designing(d))' =< Cardinality(Designing(d) \cap S)
  <2> HIDE DEF Designing
  <2> QED BY <1>3, <1>4, <1>5
<1>7. ASSUME NEW k \in S, k.open, k.event # e PROVE \E j \in calls' : j.event = k.event /\ j.open
  <2>1. k = Record(k)
    BY DEF CallsTyped, Record
  <2>2. [k EXCEPT !.open = @ /\ k.event # e] \in calls'
    BY DEF Relabelled
  <2>3. /\ [k EXCEPT !.open = @ /\ k.event # e].event = k.event
        /\ [k EXCEPT !.open = @ /\ k.event # e].open = (k.open /\ k.event # e)
    BY <2>1 DEF Record
  <2> QED BY <1>7, <2>2, <2>3
<1> QED BY <1>6, <1>7

\* The end of a call gives up what the call and its event counted for.
LEMMA SettleCounts ==
  ASSUME Ma!MarchAssumption, CallsTyped, CallsTyped', NEW c \in calls, Ma!Settle(c), NEW d \in Ma!Dirs
  PROVE  /\ Cardinality(Confirming(d))' + Cardinality(Designing(d))' + Cardinality(Taken(d))
              =< Cardinality(Taken(d))' + Cardinality(Confirming(d)) + Cardinality(Designing(d))
         /\ Cardinality(Ma!Requests(d))' + Cardinality(Confirming(d))' + Cardinality(Designing(d))'
                + (IF c \in Designing(d) THEN 1 ELSE 0) + Cardinality(Taken(d))
              =< Cardinality(Taken(d))' + Cardinality(Ma!Requests(d)) + Cardinality(Confirming(d))
                   + Cardinality(Designing(d))
<1> DEFINE rest == calls \ {c}
           spent == IF c \in Designing(d) THEN 1 ELSE 0
<1>1. /\ IsFiniteSet(Ma!Requests(d)) /\ IsFiniteSet(Confirming(d))
      /\ IsFiniteSet(Designing(d)) /\ IsFiniteSet(Taken(d))
      /\ Cardinality(Ma!Requests(d)) \in Nat /\ Cardinality(Confirming(d)) \in Nat
      /\ Cardinality(Designing(d)) \in Nat /\ Cardinality(Taken(d)) \in Nat
  BY CountsTyped
<1>2. /\ IsFiniteSet(Ma!Requests(d)') /\ IsFiniteSet(Confirming(d)')
      /\ IsFiniteSet(Designing(d)') /\ IsFiniteSet(Taken(d)')
      /\ Cardinality(Ma!Requests(d))' \in Nat /\ Cardinality(Confirming(d))' \in Nat
      /\ Cardinality(Designing(d))' \in Nat /\ Cardinality(Taken(d))' \in Nat
  BY CountsNext DEF CountsOk
<1>3. /\ Cardinality(Designing(d) \cap rest) = Cardinality(Designing(d)) - spent
      /\ rest \in SUBSET calls
  <2>1. Designing(d) \cap rest = Designing(d) \ {c}
    BY DEF Designing
  <2>2. Cardinality(Designing(d) \ {c}) = Cardinality(Designing(d)) - (IF c \in Designing(d) THEN 1 ELSE 0)
    BY <1>1, Removed
  <2> QED BY <2>1, <2>2
<1>4. CASE ~c.open
  <2>1. calls' = rest /\ emitted' = emitted
    BY <1>4 DEF Ma!Settle
  <2>2. Designing(d)' = Designing(d) \cap rest
    BY <2>1 DEF Designing
  <2>3. /\ Ma!Requests(d)' = Ma!Requests(d) /\ Confirming(d)' = Confirming(d)
        /\ Taken(d) \subseteq Taken(d)'
    BY <1>4, <2>1 DEF Ma!Requests, Confirming, Taken, Wanted
  <2>4. Cardinality(Taken(d)) =< Cardinality(Taken(d))'
    BY <1>2, <2>3, FS_Subset
  <2> HIDE DEF Ma!Requests, Confirming, Designing, Taken, rest
  <2> QED BY <1>1, <1>2, <1>3, <2>2, <2>3, <2>4
<1>5. CASE c.open
  <2>1. calls' = Relabelled(rest, c.event) /\ emitted' = emitted \ {c.event}
    BY <1>5 DEF Ma!Settle, Relabelled
  <2>2. /\ Cardinality(Designing(d))' =< Cardinality(Designing(d)) - spent
        /\ \A k \in rest : k.open /\ k.event # c.event => \E j \in calls' : j.event = k.event /\ j.open
    <3> HIDE DEF rest, Designing
    <3> QED BY <1>3, <2>1, DesigningRelabelled
  <2>3. Taken(d) \ {c.event} \subseteq Taken(d)'
    <3> SUFFICES ASSUME NEW x \in Taken(d), x # c.event PROVE x \in Taken(d)'
      OBVIOUS
    <3>1. x \in Wanted(d)' /\ x \in Wanted(d)
      BY <2>1 DEF Taken, Wanted
    <3>2. PICK k \in calls : k.event = x /\ k.open
      BY DEF Taken
    <3>3. \E j \in calls' : j.event = x /\ j.open
      BY <2>2, <3>2
    <3> QED BY <3>1, <3>3 DEF Taken
  <2>4. Cardinality(Taken(d)) =< Cardinality(Taken(d))' + spent
    <3>1. CASE c \in Designing(d)
      <4>1. IsFiniteSet(Taken(d) \ {c.event}) /\ Cardinality(Taken(d) \ {c.event}) >= Cardinality(Taken(d)) - 1
        <5>1. /\ IsFiniteSet(Taken(d) \ {c.event})
              /\ Cardinality(Taken(d) \ {c.event}) = Cardinality(Taken(d)) - (IF c.event \in Taken(d) THEN 1 ELSE 0)
          BY <1>1, Removed
        <5> HIDE DEF Taken
        <5> QED BY <1>1, <5>1
      <4>2. Cardinality(Taken(d) \ {c.event}) =< Cardinality(Taken(d))' /\ Cardinality(Taken(d) \ {c.event}) \in Nat
        BY <1>2, <2>3, <4>1, FS_Subset, FS_CardinalityType
      <4> HIDE DEF Taken
      <4> QED BY <1>1, <1>2, <3>1, <4>1, <4>2
    <3>2. CASE c \notin Designing(d)
      <4>1. Taken(d) \subseteq Taken(d)'
        BY <2>3, <3>2 DEF Taken, Wanted, Designing
      <4>2. Cardinality(Taken(d)) =< Cardinality(Taken(d))'
        BY <1>2, <4>1, FS_Subset
      <4> HIDE DEF Taken
      <4> QED BY <1>1, <1>2, <3>2, <4>2
    <3> QED BY <3>1, <3>2
  <2>5. Ma!Requests(d)' = Ma!Requests(d) \ {c.event} /\ Confirming(d)' = Confirming(d) \ {c.event}
    BY <2>1 DEF Ma!Requests, Confirming
  <2>6. /\ Cardinality(Ma!Requests(d))' = Cardinality(Ma!Requests(d)) - (IF c.event \in Ma!Requests(d) THEN 1 ELSE 0)
        /\ Cardinality(Confirming(d))' = Cardinality(Confirming(d)) - (IF c.event \in Confirming(d) THEN 1 ELSE 0)
    <3>1. Cardinality(Ma!Requests(d) \ {c.event}) = Cardinality(Ma!Requests(d)) - (IF c.event \in Ma!Requests(d) THEN 1 ELSE 0)
      BY <1>1, Removed
    <3>2. Cardinality(Confirming(d) \ {c.event}) = Cardinality(Confirming(d)) - (IF c.event \in Confirming(d) THEN 1 ELSE 0)
      BY <1>1, Removed
    <3> QED BY <2>5, <3>1, <3>2
  <2>7. c \in Designing(d) => c.event \in Ma!Requests(d) \/ c.event \in Confirming(d)
    BY <1>5 DEF Designing, Ma!Requests, Confirming, Asking, CallsTyped
  <2> HIDE DEF Ma!Requests, Confirming, Designing, Taken, rest
  <2>8. CASE c \in Designing(d)
    BY <1>1, <1>2, <2>2, <2>4, <2>6, <2>7, <2>8
  <2>9. CASE c \notin Designing(d)
    BY <1>1, <1>2, <2>2, <2>4, <2>6, <2>9
  <2> QED BY <2>8, <2>9
<1>6. c.open \in BOOLEAN
  BY DEF CallsTyped
<1> QED BY <1>4, <1>5, <1>6

-----------------------------------------------------------------------------
(* The steps.                                                                *)

\* The least of a set of naturals is one of them.
LEMMA MinOf ==
  ASSUME NEW S, S \subseteq Nat, S # {}
  PROVE  Ma!Min(S) \in S /\ \A y \in S : Ma!Min(S) =< y
<1>1. PICK m \in S : \A k \in S : ~(<<k, m>> \in OpToRel(<, Nat))
  BY WFMin, NatLessThanWellFounded
<1>2. \A k \in S : ~(k < m)
  BY <1>1 DEF OpToRel
<1>3. \E x \in S : \A y \in S : x =< y
  BY <1>2
<1> QED BY <1>3 DEF Ma!Min

\* Nothing of what the bounds speak of changes.
LEMMA StillCounted ==
  ASSUME Ma!MarchAssumption, MarchInv, MarchTyped', Ma!PendingCapped', UNCHANGED <<confirms, emitted, calls, setbacks>>,
         \A d \in Ma!Dirs : Tried(d)' = Tried(d)
  PROVE  MarchInv'
<1>1. CallsTyped'
  BY DEF MarchInv, CallsTyped
<1>2. ASSUME NEW d \in Ma!Dirs PROVE Stacked(d)' /\ GivenUp(d)'
  <2>1. /\ Ma!Requests(d)' = Ma!Requests(d) /\ Confirming(d)' = Confirming(d)
        /\ Designing(d)' = Designing(d) /\ Taken(d)' = Taken(d)
    BY DEF MarchInv, Ma!Requests, Confirming, Designing, Taken, Wanted
  <2>2. Tried(d)' = Tried(d)
    OBVIOUS
  <2> HIDE DEF Tried, Limit, Ma!Requests, Confirming, Designing, Taken
  <2> QED BY <2>1, <2>2 DEF MarchInv, Stacked, GivenUp
<1> QED BY <1>1, <1>2 DEF MarchInv

\* What goes on beside the march.
LEMMA BesideKeeps ==
  ASSUME Ma!MarchAssumption, MarchInv, NEW d \in Ma!Dirs,
         Ma!Approve(d) \/ Ma!Work(d) \/ Ma!RunEnds(d) \/ Ma!Synthesize(d) \/ Ma!End(d)
  PROVE  MarchInv'
<1>1. UNCHANGED <<confirms, emitted, calls, setbacks>>
  BY DEF Ma!Approve, Ma!Work, Ma!RunEnds, Ma!Synthesize, Ma!End
<1>2. CASE Ma!Approve(d)
  <2>1. MarchTyped' /\ Ma!PendingCapped'
    BY <1>2 DEF Ma!Approve, MarchInv, MarchTyped, Ma!PendingCapped
  <2>2. \A x \in Ma!Dirs : Tried(x)' = Tried(x)
    BY <1>2 DEF Ma!Approve, Tried, Ma!Attempts
  <2> QED BY <1>1, <2>1, <2>2, StillCounted
<1>3. CASE Ma!Work(d)
  <2>1. tasks' \in [Ma!Dirs -> Nat] /\ \A x \in Ma!Dirs : tasks'[x] =< tasks[x]
    BY <1>3 DEF Ma!Work, MarchInv, MarchTyped
  <2>2. \A x \in Ma!Dirs : tasks'[x] > 0 => x \in planned'
    BY <1>3, <2>1 DEF Ma!Work, MarchInv, MarchTyped
  <2>3. MarchTyped' /\ Ma!PendingCapped'
    BY <1>3, <2>1, <2>2 DEF Ma!Work, MarchInv, MarchTyped, Ma!PendingCapped, Ma!MarchAssumption
  <2>4. \A x \in Ma!Dirs : Tried(x)' = Tried(x)
    BY <1>3 DEF Ma!Work, Tried, Ma!Attempts
  <2> QED BY <1>1, <2>3, <2>4, StillCounted
<1>4. CASE Ma!RunEnds(d)
  <2>1. /\ runs[d].done \in Nat /\ runs[d].lost \in Nat /\ runs[d].open \in Nat /\ runs[d].open > 0
        /\ runs[d] = [done |-> runs[d].done, lost |-> runs[d].lost, open |-> runs[d].open]
    BY <1>4 DEF Ma!RunEnds, MarchInv, MarchTyped
  <2>2. /\ runs' \in [Ma!Dirs -> [done : Nat, lost : Nat, open : Nat]]
        /\ \A x \in Ma!Dirs : x # d => runs'[x] = runs[x]
        /\ runs'[d].open = runs[d].open - 1
        /\ \/ runs'[d].done = runs[d].done + 1 /\ runs'[d].lost = runs[d].lost
           \/ runs'[d].lost = runs[d].lost + 1 /\ runs'[d].done = runs[d].done
    <3>1. CASE runs' = [runs EXCEPT ![d].open = @ - 1, ![d].done = @ + 1]
      <4>1. runs' = [runs EXCEPT ![d] = [done |-> runs[d].done + 1, lost |-> runs[d].lost, open |-> runs[d].open - 1]]
        BY <2>1, <3>1 DEF MarchInv, MarchTyped
      <4> QED BY <2>1, <4>1 DEF MarchInv, MarchTyped
    <3>2. CASE runs' = [runs EXCEPT ![d].open = @ - 1, ![d].lost = @ + 1]
      <4>1. runs' = [runs EXCEPT ![d] = [done |-> runs[d].done, lost |-> runs[d].lost + 1, open |-> runs[d].open - 1]]
        BY <2>1, <3>2 DEF MarchInv, MarchTyped
      <4> QED BY <2>1, <4>1 DEF MarchInv, MarchTyped
    <3> QED BY <1>4, <3>1, <3>2 DEF Ma!RunEnds
  <2>3. \A x \in Ma!Dirs : synth'[x] =< runs'[x].done
    <3>1. \A x \in Ma!Dirs : synth'[x] = synth[x] /\ synth[x] \in Nat /\ synth[x] =< runs[x].done
      BY <1>4 DEF Ma!RunEnds, MarchInv, MarchTyped
    <3> QED BY <2>1, <2>2, <3>1
  <2>4. MarchTyped' /\ Ma!PendingCapped'
    BY <1>4, <2>2, <2>3 DEF Ma!RunEnds, Ma!Realism, MarchInv, MarchTyped, Ma!PendingCapped
  <2>5. \A x \in Ma!Dirs : Tried(x)' = Tried(x)
    BY <2>1, <2>2 DEF Tried, Ma!Attempts
  <2> QED BY <1>1, <2>4, <2>5, StillCounted
<1>5. CASE Ma!Synthesize(d)
  <2>1. runs[d].done \in Nat
    BY DEF MarchInv, MarchTyped
  <2>2. MarchTyped' /\ Ma!PendingCapped'
    BY <1>5, <2>1 DEF Ma!Synthesize, MarchInv, MarchTyped, Ma!PendingCapped
  <2>3. \A x \in Ma!Dirs : Tried(x)' = Tried(x)
    BY <1>5 DEF Ma!Synthesize, Tried, Ma!Attempts
  <2> QED BY <1>1, <2>2, <2>3, StillCounted
<1>6. CASE Ma!End(d)
  <2>1. MarchTyped' /\ Ma!PendingCapped'
    BY <1>6 DEF Ma!End, MarchInv, MarchTyped, Ma!PendingCapped
  <2>2. \A x \in Ma!Dirs : Tried(x)' = Tried(x)
    BY <1>6 DEF Ma!End, Tried, Ma!Attempts
  <2> QED BY <1>1, <2>1, <2>2, StillCounted
<1> QED BY <1>2, <1>3, <1>4, <1>5, <1>6

\* A step that only costs a mishap.
LEMMA MishapTyped ==
  ASSUME Ma!MarchAssumption, MarchTyped, Ma!Mishap
  PROVE  setbacks' \in 0..MaxSetbacks /\ setbacks' = setbacks + 1 /\ setbacks \in Nat
BY DEF Ma!Mishap, MarchTyped, Ma!MarchAssumption

\* A gate closed again costs a mishap, and counts for nothing.
LEMMA CloseGateKeeps ==
  ASSUME Ma!MarchAssumption, MarchInv, NEW d \in Ma!Dirs, Ma!CloseGate(d)
  PROVE  MarchInv'
<1>1. setbacks' \in 0..MaxSetbacks /\ setbacks' = setbacks + 1 /\ setbacks \in Nat
  BY MishapTyped DEF Ma!CloseGate, MarchInv
<1>2. MarchTyped' /\ Ma!PendingCapped' /\ CallsTyped'
  BY <1>1 DEF Ma!CloseGate, MarchInv, MarchTyped, Ma!PendingCapped, CallsTyped
<1>3. ASSUME NEW x \in Ma!Dirs PROVE Stacked(x)' /\ GivenUp(x)'
  <2>1. /\ Ma!Requests(x)' = Ma!Requests(x) /\ Confirming(x)' = Confirming(x)
        /\ Designing(x)' = Designing(x) /\ Taken(x)' = Taken(x) /\ confirms'[x] = confirms[x]
    BY DEF Ma!CloseGate, Ma!Requests, Confirming, Designing, Taken, Wanted
  <2>2. Tried(x)' = Tried(x)
    BY DEF Ma!CloseGate, Tried, Ma!Attempts
  <2>3. CountsOk /\ TriedOk
    BY CountsNow, TriedNow DEF MarchInv
  <2>4. Stacked(x) /\ GivenUp(x)
    BY DEF MarchInv
  <2> HIDE DEF Tried, Limit, Ma!Requests, Confirming, Designing, Taken
  <2> QED BY <1>1, <1>2, <2>1, <2>2, <2>3, <2>4, Balance DEF MarchInv, CountsOk, TriedOk
<1> QED BY <1>2, <1>3 DEF MarchInv

\* A new bucket lets a direction be asked for again, no more.
LEMMA NextBucketKeeps ==
  ASSUME Ma!MarchAssumption, MarchInv, Ma!NextBucket
  PROVE  MarchInv'
<1>1. MarchTyped' /\ Ma!PendingCapped'
  BY DEF Ma!NextBucket, MarchInv, MarchTyped, Ma!PendingCapped
<1>2. \A x \in Ma!Dirs : Tried(x)' = Tried(x)
  BY DEF Ma!NextBucket, Tried, Ma!Attempts
<1> QED BY <1>1, <1>2, StillCounted DEF Ma!NextBucket

\* A call ends: what it has designed is paid for by its event, or by the
\* mishap of having been repeated.
LEMMA Closing ==
  ASSUME Ma!MarchAssumption, MarchInv, NEW c \in calls, Ma!Settle(c), MarchTyped', Ma!PendingCapped', UNCHANGED confirms,
         setbacks' = setbacks \/ setbacks' = setbacks + 1,
         \A x \in Ma!Dirs : Tried(x)' = Tried(x) + (IF c \in Designing(x) THEN 1 ELSE 0) \/ Tried(x)' = Tried(x)
  PROVE  MarchInv'
<1>1. CallsTyped'
  BY SettleTyped DEF MarchInv
<1>2. ASSUME NEW x \in Ma!Dirs PROVE Stacked(x)' /\ GivenUp(x)'
  <2>1. /\ Cardinality(Confirming(x))' + Cardinality(Designing(x))' + Cardinality(Taken(x))
              =< Cardinality(Taken(x))' + Cardinality(Confirming(x)) + Cardinality(Designing(x))
        /\ Cardinality(Ma!Requests(x))' + Cardinality(Confirming(x))' + Cardinality(Designing(x))'
                + (IF c \in Designing(x) THEN 1 ELSE 0) + Cardinality(Taken(x))
              =< Cardinality(Taken(x))' + Cardinality(Ma!Requests(x)) + Cardinality(Confirming(x))
                   + Cardinality(Designing(x))
    BY <1>1, SettleCounts DEF MarchInv
  <2>2. /\ Cardinality(Ma!Requests(x)) \in Nat /\ Cardinality(Confirming(x)) \in Nat
        /\ Cardinality(Designing(x)) \in Nat /\ Cardinality(Taken(x)) \in Nat
        /\ Cardinality(Ma!Requests(x))' \in Nat /\ Cardinality(Confirming(x))' \in Nat
        /\ Cardinality(Designing(x))' \in Nat /\ Cardinality(Taken(x))' \in Nat
    BY <1>1, CountsNow, CountsNext DEF MarchInv, CountsOk
  <2>3. Tried(x) \in Nat /\ confirms[x] \in Nat /\ setbacks \in Nat /\ confirms'[x] = confirms[x]
    BY TriedNow DEF MarchInv, TriedOk
  <2>4. Tried(x)' = Tried(x) + (IF c \in Designing(x) THEN 1 ELSE 0) \/ Tried(x)' = Tried(x)
    OBVIOUS
  <2>5. Stacked(x) /\ GivenUp(x) /\ MarchTyped /\ CallsTyped
    BY DEF MarchInv
  <2> HIDE DEF Tried, Limit, Ma!Requests, Confirming, Designing, Taken
  <2>6. Cardinality(Confirming(x))' + Cardinality(Designing(x))' + Cardinality(Taken(x)) + confirms[x] + setbacks
           =< Cardinality(Taken(x))' + Cardinality(Confirming(x)) + Cardinality(Designing(x)) + confirms'[x] + setbacks'
    BY <2>1, <2>2, <2>3
  <2>7. Tried(x)' + Cardinality(Ma!Requests(x))' + Cardinality(Confirming(x))' + Cardinality(Designing(x))'
             + Cardinality(Taken(x)) + confirms[x] + setbacks
           =< Tried(x) + Cardinality(Ma!Requests(x)) + Cardinality(Confirming(x)) + Cardinality(Designing(x))
                + Cardinality(Taken(x))' + confirms'[x] + setbacks'
    <3>1. CASE c \in Designing(x)
      BY <2>1, <2>2, <2>3, <2>4, <3>1
    <3>2. CASE c \notin Designing(x)
      BY <2>1, <2>2, <2>3, <2>4, <3>2
    <3> QED BY <3>1, <3>2
  <2> QED BY <1>1, <2>5, <2>6, <2>7, Balance
<1> QED BY <1>1, <1>2 DEF MarchInv

\* The smaller of two numbers.
LEMMA MinOfPair ==
  ASSUME NEW a \in Nat, NEW b \in Nat
  PROVE  Ma!Min({a, b}) \in Nat /\ Ma!Min({a, b}) =< a /\ Ma!Min({a, b}) =< b /\ Ma!Min({a, b}) \in {a, b}
<1>1. {a, b} \subseteq Nat /\ {a, b} # {}
  OBVIOUS
<1>2. Ma!Min({a, b}) \in {a, b} /\ \A y \in {a, b} : Ma!Min({a, b}) =< y
  BY <1>1, MinOf
<1> QED BY <1>2

\* A plan brings no more tasks than there is room for.
LEMMA PlanKeeps ==
  ASSUME Ma!MarchAssumption, MarchInv, NEW c \in calls, Ma!Plan(c)
  PROVE  MarchInv'
<1>1. PICK plan \in Ma!Plans(c) :
        /\ IF DOMAIN plan = c.dirs THEN UNCHANGED setbacks ELSE Ma!Mishap
        /\ tasks' = [d \in Ma!Dirs |-> IF d \in DOMAIN plan THEN tasks[d] + Ma!Min({plan[d], Ma!Room(d)})
                                                         ELSE tasks[d]]
        /\ planned' = planned \cup DOMAIN plan
  BY DEF Ma!Plan
<1>2. DOMAIN plan \subseteq c.dirs /\ plan \in [DOMAIN plan -> 1..MaxTasks]
  BY DEF Ma!Plans
<1>3. c.dirs \subseteq Ma!Dirs /\ MaxTasks \in Nat
  BY DEF MarchInv, CallsTyped, Ma!MarchAssumption
<1>4. ASSUME NEW d \in Ma!Dirs
      PROVE  tasks'[d] \in Nat /\ tasks'[d] =< MaxTasks /\ (tasks'[d] > 0 => d \in planned')
  <2>1. tasks[d] \in Nat /\ tasks[d] =< MaxTasks /\ (tasks[d] > 0 => d \in planned)
    BY DEF MarchInv, MarchTyped, Ma!PendingCapped
  <2>2. CASE d \in DOMAIN plan
    <3>1. Ma!Room(d) \in Nat /\ Ma!Room(d) =< MaxTasks - tasks[d]
      BY <1>3, <2>1, MinOfPair DEF Ma!Room
    <3>2. plan[d] \in Nat
      BY <1>2, <1>3, <2>2
    <3>3. Ma!Min({plan[d], Ma!Room(d)}) \in Nat /\ Ma!Min({plan[d], Ma!Room(d)}) =< Ma!Room(d)
      BY <3>1, <3>2, MinOfPair
    <3>4. tasks'[d] = tasks[d] + Ma!Min({plan[d], Ma!Room(d)})
      BY <1>1, <2>2
    <3> HIDE DEF Ma!Room
    <3> QED BY <1>1, <1>3, <2>1, <2>2, <3>1, <3>3, <3>4
  <2>3. CASE d \notin DOMAIN plan
    BY <1>1, <2>1, <2>3
  <2> QED BY <2>2, <2>3
<1>5. tasks' = [d \in Ma!Dirs |-> tasks'[d]]
  BY <1>1
<1>6. setbacks' \in 0..MaxSetbacks /\ (setbacks' = setbacks \/ setbacks' = setbacks + 1)
  BY <1>1, MishapTyped DEF MarchInv, MarchTyped
<1>7. /\ Ma!Settle(c)
      /\ UNCHANGED <<status, approved, held, docs, runs, real, synth, asked, confirms>>
  BY DEF Ma!Plan
<1>8. MarchTyped' /\ Ma!PendingCapped'
  <2>1. planned' \subseteq Ma!Dirs
    BY <1>1, <1>2, <1>3 DEF MarchInv, MarchTyped
  <2>2. tasks' \in [Ma!Dirs -> Nat]
    BY <1>4, <1>5
  <2> QED BY <1>4, <1>6, <1>7, <2>1, <2>2 DEF MarchInv, MarchTyped, Ma!PendingCapped
<1>9. \A x \in Ma!Dirs : Tried(x)' = Tried(x)
  BY <1>7 DEF Tried, Ma!Attempts
<1> QED BY <1>6, <1>7, <1>8, <1>9, Closing

\* A document ends the call that wrote it.
LEMMA FinalizeKeeps ==
  ASSUME Ma!MarchAssumption, MarchInv, NEW c \in calls, Ma!Review(c) \/ Ma!Propose(c) \/ Ma!Compose(c)
  PROVE  MarchInv'
<1>1. PICK kind \in Ma!Kinds : Ma!Finalize(c, kind)
  BY DEF Ma!Review, Ma!Propose, Ma!Compose, Ma!Kinds
<1>2. c.event.dir \in Ma!Dirs
  <2>1. c.event \in Ma!Events /\ c.event.type = kind
    BY <1>1 DEF Ma!Finalize, MarchInv, CallsTyped
  <2> QED BY <2>1 DEF Ma!Events, Ma!Event, Ma!Kinds
<1>3. MarchTyped' /\ Ma!PendingCapped'
  BY <1>1, <1>2 DEF Ma!Finalize, MarchInv, MarchTyped, Ma!PendingCapped
<1>4. \A x \in Ma!Dirs : Tried(x)' = Tried(x)
  BY <1>1 DEF Ma!Finalize, Tried, Ma!Attempts
<1> QED BY <1>1, <1>3, <1>4, Closing DEF Ma!Finalize

\* A failed call ends, at the price of a mishap but for the hopeless.
LEMMA FailKeeps ==
  ASSUME Ma!MarchAssumption, MarchInv, NEW c \in calls, Ma!Fail(c)
  PROVE  MarchInv'
<1>1. setbacks' \in 0..MaxSetbacks /\ (setbacks' = setbacks \/ setbacks' = setbacks + 1)
  BY MishapTyped DEF Ma!Fail, MarchInv, MarchTyped
<1>2. MarchTyped' /\ Ma!PendingCapped'
  BY <1>1 DEF Ma!Fail, MarchInv, MarchTyped, Ma!PendingCapped
<1>3. \A x \in Ma!Dirs : Tried(x)' = Tried(x)
  BY DEF Ma!Fail, Tried, Ma!Attempts
<1> QED BY <1>1, <1>2, <1>3, Closing DEF Ma!Fail

\* A design is one more attempt, and ends the call that made it.
LEMMA DesignKeeps ==
  ASSUME Ma!MarchAssumption, MarchInv, NEW c \in calls, Ma!Design(c)
  PROVE  MarchInv'
<1>1. c.event.dir \in Ma!Dirs
  <2>1. c.event \in Ma!Events /\ c.event.type \in {"run", "confirm"}
    BY DEF Ma!Design, MarchInv, CallsTyped
  <2> QED BY <2>1 DEF Ma!Events, Ma!Event, Ma!Kinds
<1> PICK d \in Ma!Dirs : d = c.event.dir
  BY <1>1
<1>2. c \in Designing(d)
  BY DEF Designing, Asking, Ma!Design
<1>3. /\ runs[d].done \in Nat /\ runs[d].lost \in Nat /\ runs[d].open \in Nat
      /\ runs[d] = [done |-> runs[d].done, lost |-> runs[d].lost, open |-> runs[d].open]
  BY <1>1 DEF MarchInv, MarchTyped
<1>4. /\ runs' \in [Ma!Dirs -> [done : Nat, lost : Nat, open : Nat]]
      /\ \A x \in Ma!Dirs : x # d => runs'[x] = runs[x]
      /\ runs'[d].done = runs[d].done
      /\ \/ runs'[d].open = runs[d].open + 1 /\ runs'[d].lost = runs[d].lost
         \/ runs'[d].lost = runs[d].lost + 1 /\ runs'[d].open = runs[d].open
  <2>1. runs' = [runs EXCEPT ![d].open = @ + 1] \/ runs' = [runs EXCEPT ![d].lost = @ + 1]
    BY DEF Ma!Design, Ma!QueueRun, Ma!RecordInfeasible
  <2>2. CASE runs' = [runs EXCEPT ![d].open = @ + 1]
    <3>1. runs' = [runs EXCEPT ![d] = [done |-> runs[d].done, lost |-> runs[d].lost, open |-> runs[d].open + 1]]
      <4>1. [runs[d] EXCEPT !.open = @ + 1] = [done |-> runs[d].done, lost |-> runs[d].lost, open |-> runs[d].open + 1]
        BY <1>3
      <4>2. runs' = [runs EXCEPT ![d] = [runs[d] EXCEPT !.open = @ + 1]]
        BY <2>2
      <4> QED BY <4>1, <4>2
    <3> QED BY <1>3, <3>1 DEF MarchInv, MarchTyped
  <2>3. CASE runs' = [runs EXCEPT ![d].lost = @ + 1]
    <3>1. runs' = [runs EXCEPT ![d] = [done |-> runs[d].done, lost |-> runs[d].lost + 1, open |-> runs[d].open]]
      <4>1. [runs[d] EXCEPT !.lost = @ + 1] = [done |-> runs[d].done, lost |-> runs[d].lost + 1, open |-> runs[d].open]
        BY <1>3
      <4>2. runs' = [runs EXCEPT ![d] = [runs[d] EXCEPT !.lost = @ + 1]]
        BY <2>3
      <4> QED BY <4>1, <4>2
    <3> QED BY <1>3, <3>1 DEF MarchInv, MarchTyped
  <2> QED BY <2>1, <2>2, <2>3
<1>5. asked' \subseteq Ma!Dirs
  BY DEF Ma!Design, Ma!QueueRun, Ma!RecordInfeasible, MarchInv, MarchTyped
<1>6. /\ Ma!Settle(c)
      /\ UNCHANGED <<status, approved, held, planned, tasks, docs, real, synth, confirms, setbacks>>
  BY DEF Ma!Design
<1>7. \A x \in Ma!Dirs : synth'[x] =< runs'[x].done
  BY <1>1, <1>4, <1>6 DEF MarchInv, MarchTyped
<1>8. MarchTyped' /\ Ma!PendingCapped'
  BY <1>4, <1>5, <1>6, <1>7 DEF MarchInv, MarchTyped, Ma!PendingCapped
<1>9. ASSUME NEW x \in Ma!Dirs
      PROVE  Tried(x)' = Tried(x) + (IF c \in Designing(x) THEN 1 ELSE 0) \/ Tried(x)' = Tried(x)
  <2>1. CASE x = d
    BY <1>2, <1>3, <1>4, <2>1 DEF Tried, Ma!Attempts
  <2>2. CASE x # d
    BY <1>4, <2>2 DEF Tried, Ma!Attempts
  <2> QED BY <2>1, <2>2
<1> QED BY <1>6, <1>8, <1>9, Closing

\* A crash ends all calls and leaves their events to be taken again.
LEMMA CrashKeeps ==
  ASSUME Ma!MarchAssumption, MarchInv, Ma!Crash
  PROVE  MarchInv'
<1>1. setbacks' \in 0..MaxSetbacks /\ setbacks' = setbacks + 1 /\ setbacks \in Nat
  BY MishapTyped DEF Ma!Crash, MarchInv
<1>2. MarchTyped' /\ Ma!PendingCapped'
  BY <1>1 DEF Ma!Crash, MarchInv, MarchTyped, Ma!PendingCapped
<1>3. CallsTyped'
  <2>1. calls' = {} /\ emitted' = emitted
    BY DEF Ma!Crash
  <2>2. IsFiniteSet({}) /\ Cardinality({}) = 0 /\ 0 =< MaxCalls
    BY FS_EmptySet DEF Ma!MarchAssumption
  <2> QED BY <2>1, <2>2 DEF MarchInv, CallsTyped
<1>4. ASSUME NEW x \in Ma!Dirs PROVE Stacked(x)' /\ GivenUp(x)'
  <2>1. /\ Ma!Requests(x)' = Ma!Requests(x) /\ Confirming(x)' = Confirming(x) /\ confirms'[x] = confirms[x]
    BY DEF Ma!Crash, Ma!Requests, Confirming
  <2>2. Designing(x)' = {} /\ Taken(x)' = {}
    BY DEF Ma!Crash, Designing, Taken, Wanted
  <2>3. Tried(x)' = Tried(x)
    BY DEF Ma!Crash, Tried, Ma!Attempts
  <2>4. CountsOk /\ TriedOk /\ Stacked(x) /\ GivenUp(x)
    BY CountsNow, TriedNow DEF MarchInv
  <2>5. Cardinality(Taken(x)) =< Cardinality(Designing(x))
    BY TakenByACall DEF MarchInv
  <2>6. Cardinality(Designing(x))' = 0 /\ Cardinality(Taken(x))' = 0
    BY <2>2, FS_EmptySet
  <2> HIDE DEF Tried, Limit, Ma!Requests, Confirming, Designing, Taken
  <2> QED BY <1>1, <1>2, <1>3, <2>1, <2>3, <2>4, <2>5, <2>6, Balance DEF MarchInv, CountsOk, TriedOk
<1> QED BY <1>2, <1>3, <1>4 DEF MarchInv

\* An event that is dropped was no call's.
LEMMA SuppressKeeps ==
  ASSUME Ma!MarchAssumption, MarchInv, NEW e \in emitted, Ma!Suppress(e)
  PROVE  MarchInv'
<1>1. setbacks' \in 0..MaxSetbacks /\ setbacks' = setbacks + 1 /\ setbacks \in Nat
  BY MishapTyped DEF Ma!Suppress, MarchInv
<1>2. MarchTyped' /\ Ma!PendingCapped'
  BY <1>1 DEF Ma!Suppress, MarchInv, MarchTyped, Ma!PendingCapped
<1>3. CallsTyped'
  BY DEF Ma!Suppress, MarchInv, CallsTyped
<1>4. ASSUME NEW x \in Ma!Dirs PROVE Stacked(x)' /\ GivenUp(x)'
  <2>1. /\ Ma!Requests(x)' \subseteq Ma!Requests(x) /\ Confirming(x)' \subseteq Confirming(x)
        /\ confirms'[x] = confirms[x] /\ Designing(x)' = Designing(x) /\ Taken(x)' = Taken(x)
    BY DEF Ma!Suppress, Ma!Requests, Confirming, Designing, Taken, Wanted
  <2>2. Tried(x)' = Tried(x)
    BY DEF Ma!Suppress, Tried, Ma!Attempts
  <2>3. CountsOk /\ CountsOk' /\ TriedOk /\ Stacked(x) /\ GivenUp(x)
    BY <1>3, CountsNow, CountsNext, TriedNow DEF MarchInv
  <2>4. /\ Cardinality(Ma!Requests(x))' =< Cardinality(Ma!Requests(x))
        /\ Cardinality(Confirming(x))' =< Cardinality(Confirming(x))
    BY <2>1, <2>3, FS_Subset DEF CountsOk
  <2> HIDE DEF Tried, Limit, Ma!Requests, Confirming, Designing, Taken
  <2> QED BY <1>1, <1>2, <1>3, <2>1, <2>2, <2>3, <2>4, Balance DEF MarchInv, CountsOk, TriedOk
<1> QED BY <1>2, <1>3, <1>4 DEF MarchInv

\* A call starts: the first of an event will consume it, another one is a mishap.
LEMMA TakeKeeps ==
  ASSUME Ma!MarchAssumption, MarchInv, NEW e \in emitted, Ma!Take(e)
  PROVE  MarchInv'
<1> DEFINE again == \E c \in calls : c.event = e /\ c.open
           r == [event |-> e, open |-> TRUE, take |-> setbacks',
                 dirs |-> IF e.type = "plan" THEN Ma!Unplanned ELSE {}]
<1>1. /\ setbacks' \in 0..MaxSetbacks /\ (setbacks' = setbacks \/ setbacks' = setbacks + 1)
      /\ again => setbacks' = setbacks + 1
  BY MishapTyped DEF Ma!Take, MarchInv, MarchTyped
<1>2. MarchTyped' /\ Ma!PendingCapped' /\ UNCHANGED <<confirms, runs>>
  BY <1>1 DEF Ma!Take, MarchInv, MarchTyped, Ma!PendingCapped
<1>3. e \in Ma!Events /\ IsFiniteSet(calls) /\ Cardinality(calls) \in Nat /\ Cardinality(calls) < MaxCalls
  BY FS_CardinalityType, SameCounting DEF Ma!Take, MarchInv, CallsTyped
<1>4. CASE Ma!Skipped(e)
  <2>1. calls' = Relabelled(calls, e) /\ emitted' = emitted \ {e} /\ e.type \notin Asking
    BY <1>4 DEF Ma!Take, Relabelled, Ma!Skipped, Asking
  <2>2. CallsTyped'
    <3>1. \A k \in calls : k = Record(k)
      BY DEF MarchInv, CallsTyped, Record
    <3>2. /\ IsFiniteSet(calls') /\ Cardinality(calls') =< Cardinality(calls)
          /\ \A j \in calls' : j = Record(j) /\ \E k \in calls : Loses(j, k, e)
      BY <1>3, <2>1, <3>1, Relabelling
    <3>3. Cardinality(calls') =< MaxCalls
      BY <1>3, <3>2, FS_CardinalityType DEF Ma!MarchAssumption
    <3>4. ASSUME NEW j \in calls'
          PROVE  /\ j = Record(j) /\ j.event \in Ma!Events /\ j.open \in BOOLEAN /\ j.dirs \subseteq Ma!Dirs
                 /\ j.open => j.event \in emitted'
      <4>1. PICK k \in calls : Loses(j, k, e)
        BY <3>2
      <4>2. k.event \in Ma!Events /\ k.open \in BOOLEAN /\ k.dirs \subseteq Ma!Dirs /\ (k.open => k.event \in emitted)
        BY DEF MarchInv, CallsTyped
      <4> QED BY <2>1, <3>2, <4>1, <4>2 DEF Loses
    <3> QED BY <2>1, <3>2, <3>3, <3>4 DEF MarchInv, CallsTyped, Record
  <2>3. ASSUME NEW x \in Ma!Dirs PROVE Stacked(x)' /\ GivenUp(x)'
    <3>1. /\ Cardinality(Designing(x))' =< Cardinality(Designing(x) \cap calls)
          /\ \A k \in calls : k.open /\ k.event # e => \E j \in calls' : j.event = k.event /\ j.open
      BY <2>1, DesigningRelabelled DEF MarchInv
    <3>2. Cardinality(Designing(x))' =< Cardinality(Designing(x))
      <4>1. Designing(x) \cap calls = Designing(x)
        BY DEF Designing
      <4> QED BY <3>1, <4>1
    <3>3. Taken(x) \subseteq Taken(x)'
      <4> SUFFICES ASSUME NEW y \in Taken(x) PROVE y \in Taken(x)'
        OBVIOUS
      <4>1. y # e /\ y \in Wanted(x)'
        BY <2>1 DEF Taken, Wanted
      <4>2. PICK k \in calls : k.event = y /\ k.open
        BY DEF Taken
      <4> QED BY <3>1, <4>1, <4>2 DEF Taken
    <3>4. Ma!Requests(x)' = Ma!Requests(x) /\ Confirming(x)' = Confirming(x)
      BY <2>1 DEF Ma!Requests, Confirming, Asking
    <3>5. CountsOk /\ CountsOk' /\ TriedOk /\ Stacked(x) /\ GivenUp(x)
      BY <2>2, CountsNow, CountsNext, TriedNow DEF MarchInv
    <3>6. Cardinality(Taken(x)) =< Cardinality(Taken(x))'
      BY <3>3, <3>5, FS_Subset DEF CountsOk
    <3>7. Tried(x)' = Tried(x) /\ confirms'[x] = confirms[x]
      BY <1>2 DEF Tried, Ma!Attempts
    <3> HIDE DEF Tried, Limit, Ma!Requests, Confirming, Designing, Taken, again
    <3> QED BY <1>1, <1>2, <2>2, <3>2, <3>4, <3>5, <3>6, <3>7, Balance DEF MarchInv, CountsOk, TriedOk
  <2> QED BY <1>2, <2>2, <2>3 DEF MarchInv
<1>5. CASE ~Ma!Skipped(e)
  <2>1. calls' = calls \cup {r} /\ emitted' = emitted
    BY <1>5 DEF Ma!Take
  <2>2. CallsTyped'
    <3>1. IsFiniteSet(calls') /\ Cardinality(calls') =< MaxCalls
      <4>1. /\ IsFiniteSet(calls')
            /\ Cardinality(calls') = IF r \in calls THEN Cardinality(calls) ELSE Cardinality(calls) + 1
        <5> HIDE DEF r
        <5> QED BY <1>3, <2>1, FS_AddElement
      <4> HIDE DEF r
      <4> QED BY <1>3, <4>1 DEF Ma!MarchAssumption
    <3>2. r = Record(r) /\ r.event \in Ma!Events /\ r.open \in BOOLEAN /\ r.dirs \subseteq Ma!Dirs /\ r.event \in emitted'
      BY <1>3, <2>1 DEF Record, Ma!Unplanned
    <3> HIDE DEF r
    <3> QED BY <2>1, <3>1, <3>2 DEF MarchInv, CallsTyped, Record
  <2>3. ASSUME NEW x \in Ma!Dirs PROVE Stacked(x)' /\ GivenUp(x)'
    <3>1. CountsOk /\ CountsOk' /\ TriedOk /\ Stacked(x) /\ GivenUp(x)
      BY <2>2, CountsNow, CountsNext, TriedNow DEF MarchInv
    <3>2. /\ Ma!Requests(x)' = Ma!Requests(x) /\ Confirming(x)' = Confirming(x) /\ Taken(x) \subseteq Taken(x)'
      BY <2>1 DEF Ma!Requests, Confirming, Taken, Wanted
    <3>3. Tried(x)' = Tried(x) /\ confirms'[x] = confirms[x]
      BY <1>2 DEF Tried, Ma!Attempts
    <3>4. CASE e \in Wanted(x)
      <4>1. Designing(x)' \subseteq Designing(x) \cup {r}
        BY <2>1 DEF Designing
      <4>2. /\ IsFiniteSet(Designing(x) \cup {r})
            /\ Cardinality(Designing(x) \cup {r}) =< Cardinality(Designing(x)) + 1
            /\ Cardinality(Designing(x) \cup {r}) \in Nat
        <5> HIDE DEF r
        <5>1. /\ IsFiniteSet(Designing(x) \cup {r})
              /\ Cardinality(Designing(x) \cup {r}) =
                   IF r \in Designing(x) THEN Cardinality(Designing(x)) ELSE Cardinality(Designing(x)) + 1
          BY <3>1, FS_AddElement DEF CountsOk
        <5> HIDE DEF Designing
        <5> QED BY <3>1, <5>1 DEF CountsOk
      <4>3. Cardinality(Designing(x))' =< Cardinality(Designing(x)) + 1
        <5>1. Cardinality(Designing(x))' =< Cardinality(Designing(x) \cup {r})
          BY <4>1, <4>2, FS_Subset
        <5> HIDE DEF r, Designing
        <5> QED BY <3>1, <4>2, <5>1 DEF CountsOk
      <4>4. CASE again
        <5>1. Cardinality(Taken(x)) =< Cardinality(Taken(x))'
          BY <3>1, <3>2, FS_Subset DEF CountsOk
        <5>2. setbacks' = setbacks + 1
          BY <1>1, <4>4
        <5> HIDE DEF Tried, Limit, Ma!Requests, Confirming, Designing, Taken, again, r
        <5> QED BY <1>2, <2>2, <3>1, <3>2, <3>3, <4>3, <5>1, <5>2, Balance DEF MarchInv, CountsOk, TriedOk
      <4>5. CASE ~again
        <5>1. e \notin Taken(x) /\ Taken(x) \cup {e} \subseteq Taken(x)'
          <6>1. r \in calls' /\ r.event = e /\ r.open
            BY <2>1
          <6>2. e \in Wanted(x)'
            BY <2>1, <3>4 DEF Wanted
          <6> QED BY <3>2, <4>5, <6>1, <6>2 DEF Taken
        <5>2. IsFiniteSet(Taken(x) \cup {e}) /\ Cardinality(Taken(x) \cup {e}) = Cardinality(Taken(x)) + 1
          BY <3>1, <5>1, FS_AddElement DEF CountsOk
        <5>3. Cardinality(Taken(x) \cup {e}) =< Cardinality(Taken(x))'
          BY <3>1, <5>1, FS_Subset DEF CountsOk
        <5> HIDE DEF Tried, Limit, Ma!Requests, Confirming, Designing, Taken, again, r
        <5> QED BY <1>1, <1>2, <2>2, <3>1, <3>2, <3>3, <4>3, <5>2, <5>3, Balance DEF MarchInv, CountsOk, TriedOk
      <4> QED BY <4>4, <4>5
    <3>5. CASE e \notin Wanted(x)
      <4>1. Designing(x)' = Designing(x)
        BY <2>1, <3>5 DEF Designing, Wanted
      <4>2. Cardinality(Taken(x)) =< Cardinality(Taken(x))'
        BY <3>1, <3>2, FS_Subset DEF CountsOk
      <4> HIDE DEF Tried, Limit, Ma!Requests, Confirming, Designing, Taken, again, r
      <4> QED BY <1>1, <1>2, <2>2, <3>1, <3>2, <3>3, <4>1, <4>2, Balance DEF MarchInv, CountsOk, TriedOk
    <3> QED BY <3>4, <3>5
  <2> QED BY <1>2, <2>2, <2>3 DEF MarchInv
<1> QED BY <1>4, <1>5

\* A set with at most one element more.
LEMMA AtMostOneMore ==
  ASSUME NEW S, IsFiniteSet(S), NEW T, NEW x, T \subseteq S \cup {x}
  PROVE  Cardinality(T) =< Cardinality(S) + 1
<1>1. /\ IsFiniteSet(S \cup {x}) /\ Cardinality(S) \in Nat
      /\ Cardinality(S \cup {x}) = IF x \in S THEN Cardinality(S) ELSE Cardinality(S) + 1
  BY FS_AddElement, FS_CardinalityType
<1>2. Cardinality(T) =< Cardinality(S \cup {x}) /\ Cardinality(T) \in Nat
  BY <1>1, FS_Subset, FS_CardinalityType
<1> QED BY <1>1, <1>2

\* A request has a number to spare as long as there are fewer than the bound.
LEMMA RequestNumbered ==
  ASSUME Ma!MarchAssumption, CallsTyped, NEW d \in Ma!Dirs, Cardinality(Ma!Requests(d)) < MaxRequests
  PROVE  Ma!NewRequest(d) \in Ma!Events /\ Ma!NewRequest(d).type = "run" /\ Ma!NewRequest(d).dir = d
<1> DEFINE free == {i \in 1..MaxRequests : Ma!Event("run", d, i) \notin emitted}
           f == [i \in 1..MaxRequests |-> Ma!Event("run", d, i)]
<1>1. free # {}
  <2> SUFFICES ASSUME \A i \in 1..MaxRequests : Ma!Event("run", d, i) \in emitted PROVE FALSE
    OBVIOUS
  <2>1. f \in [1..MaxRequests -> Ma!Requests(d)]
    BY DEF Ma!Requests, Ma!Event
  <2>2. f \in Injection(1..MaxRequests, Ma!Requests(d))
    BY <2>1 DEF Injection, IsInjective, Ma!Event
  <2>3. Cardinality(1..MaxRequests) =< Cardinality(Ma!Requests(d))
    <3> HIDE DEF f
    <3> QED BY <2>2, CountsTyped, FS_Injection
  <2>4. Cardinality(1..MaxRequests) = MaxRequests
    BY FS_Interval DEF Ma!MarchAssumption
  <2> QED BY <2>3, <2>4, CountsTyped DEF Ma!MarchAssumption
<1>2. Ma!Min(free) \in 1..MaxRequests
  <2>1. free \subseteq Nat
    OBVIOUS
  <2>2. Ma!Min(free) \in free
    <3> HIDE DEF free
    <3> QED BY <1>1, <2>1, MinOf
  <2> QED BY <2>2
<1>3. Ma!NewRequest(d) = Ma!Event("run", d, Ma!Min(free))
  BY DEF Ma!NewRequest
<1> HIDE DEF free
<1> QED BY <1>2, <1>3 DEF Ma!Events, Ma!Event

\* The give-up cap is one for the evidence wanted, which is never above the cap.
LEMMA AskedBelow ==
  ASSUME Ma!MarchAssumption, MarchTyped, NEW d \in Ma!CoverageDue
  PROVE  d \in Ma!Dirs /\ Tried(d) + 1 =< GiveUp * EvidenceCap
<1>1. d \in Ma!Dirs /\ runs[d].open = 0 /\ Ma!Attempts(d) < GiveUp * Ma!Target(d)
  BY DEF Ma!CoverageDue
<1>2. Ma!Target(d) \in 0..EvidenceCap
  <2>1. /\ Coverage \in Nat /\ EvidenceCap \in Nat /\ ResynthStep \in Nat /\ EvidenceCap >= Coverage
        /\ synth[d] \in Nat
    BY <1>1 DEF MarchTyped, Ma!MarchAssumption
  <2>2. Ma!Min({synth[d] + ResynthStep, EvidenceCap}) \in Nat
        /\ Ma!Min({synth[d] + ResynthStep, EvidenceCap}) =< EvidenceCap
    BY <2>1, MinOfPair
  <2> QED BY <2>1, <2>2 DEF Ma!Target
<1>3. GiveUp * Ma!Target(d) \in Nat /\ GiveUp * Ma!Target(d) =< GiveUp * EvidenceCap
  BY <1>2, LimitTyped
<1>4. Ma!Attempts(d) \in Nat /\ GiveUp * EvidenceCap \in Nat /\ Tried(d) = Ma!Attempts(d)
  <2>1. runs[d].done \in Nat /\ runs[d].lost \in Nat
    BY <1>1 DEF MarchTyped
  <2> QED BY <1>1, <2>1, LimitTyped DEF Ma!Attempts, Tried
<1> HIDE DEF Ma!Attempts, Tried, Ma!Target
<1> QED BY <1>1, <1>3, <1>4

\* One step of each kind, for a direction there is.
LEMMA StepKnown ==
  ASSUME Ma!MarchAssumption, NEW kind \in Ma!Kinds, NEW due \in SUBSET Ma!Dirs
  PROVE  Ma!Step(kind, due) \subseteq {Ma!Event(kind, d, 0) : d \in Ma!Dirs}
<1>1. CASE due = {}
  BY <1>1 DEF Ma!Step
<1>2. CASE due # {}
  <2>1. Ma!Min(due) \in due
    <3>1. due \subseteq Nat
      BY DEF Ma!Dirs
    <3> QED BY <1>2, <3>1, MinOf
  <2> QED BY <2>1 DEF Ma!Step
<1> QED BY <1>1, <1>2

\* A tick asks for one run or one confirmation of a direction at most.
LEMMA TickKeeps ==
  ASSUME Ma!MarchAssumption, MarchInv, Ma!Tick
  PROVE  MarchInv'
<1> DEFINE confirmed == Ma!ConfirmDue \ Ma!Requested
           others == (IF Ma!Unplanned = {} THEN {} ELSE {Ma!Event("plan", 0, 0)})
                       \cup Ma!Step("review", Ma!ReviewDue) \cup Ma!Step("proposal", Ma!ProposalDue)
                       \cup Ma!Step("article", Ma!ArticleDue)
           requests == {Ma!NewRequest(d) : d \in Ma!Requested}
           confirmations == {Ma!Event("confirm", d, 0) : d \in confirmed}
<1>1. /\ emitted' = ((emitted \cup others) \cup requests) \cup confirmations
      /\ confirms' = [d \in Ma!Dirs |-> confirms[d] + (IF d \in confirmed THEN 1 ELSE 0)]
      /\ asked' = asked \cup Ma!Requested
      /\ UNCHANGED <<status, approved, held, planned, tasks, docs, runs, real, synth, calls, setbacks>>
  BY DEF Ma!Tick
<1>2. /\ Ma!Requested \subseteq Ma!CoverageDue /\ Ma!CoverageDue \subseteq Ma!Dirs
      /\ \A d \in Ma!Requested : Cardinality(Ma!Requests(d)) < MaxRequests
      /\ confirmed \subseteq Ma!Dirs /\ \A d \in confirmed : d \notin Ma!Requested /\ confirms[d] < MaxConfirms
  BY SameCounting DEF Ma!Requested, Ma!CoverageDue, Ma!ConfirmDue
<1>3. \A d \in Ma!Requested : Ma!NewRequest(d) \in Ma!Events /\ Ma!NewRequest(d).type = "run" /\ Ma!NewRequest(d).dir = d
  BY <1>2, RequestNumbered DEF MarchInv
<1>4. others \subseteq Ma!Events /\ \A e \in others : e.type \notin Asking
  <2>1. Ma!ReviewDue \in SUBSET Ma!Dirs /\ Ma!ProposalDue \in SUBSET Ma!Dirs /\ Ma!ArticleDue \in SUBSET Ma!Dirs
    BY DEF Ma!ReviewDue, Ma!ProposalDue, Ma!ArticleDue, MarchInv, MarchTyped
  <2>2. /\ Ma!Step("review", Ma!ReviewDue) \subseteq {Ma!Event("review", d, 0) : d \in Ma!Dirs}
        /\ Ma!Step("proposal", Ma!ProposalDue) \subseteq {Ma!Event("proposal", d, 0) : d \in Ma!Dirs}
        /\ Ma!Step("article", Ma!ArticleDue) \subseteq {Ma!Event("article", d, 0) : d \in Ma!Dirs}
    BY <2>1, StepKnown DEF Ma!Kinds
  <2>3. \A e \in others : \/ e = Ma!Event("plan", 0, 0)
                          \/ \E k \in Ma!Kinds, d \in Ma!Dirs : e = Ma!Event(k, d, 0)
    BY <2>2 DEF Ma!Kinds
  <2> HIDE DEF others
  <2> QED BY <2>3 DEF Ma!Events, Ma!Event, Ma!Kinds, Asking
<1>5. confirmations \subseteq Ma!Events /\ \A e \in confirmations : e.type = "confirm" /\ e.dir \in confirmed
  BY <1>2 DEF Ma!Events, Ma!Event
<1> HIDE DEF others, confirmed
<1>6. CallsTyped'
  <2>1. requests \subseteq Ma!Events
    BY <1>3
  <2> HIDE DEF requests, confirmations
  <2>2. emitted' \subseteq Ma!Events /\ emitted \subseteq emitted'
    BY <1>1, <1>4, <1>5, <2>1 DEF MarchInv, CallsTyped
  <2> QED BY <1>1, <2>2 DEF MarchInv, CallsTyped
<1>7. MarchTyped' /\ Ma!PendingCapped'
  <2>1. confirms' \in [Ma!Dirs -> 0..MaxConfirms]
    <3>1. ASSUME NEW d \in Ma!Dirs PROVE confirms'[d] \in 0..MaxConfirms
      BY <1>1, <1>2 DEF MarchInv, MarchTyped, Ma!MarchAssumption
    <3> QED BY <1>1, <3>1
  <2>2. asked' \subseteq Ma!Dirs
    BY <1>1, <1>2 DEF MarchInv, MarchTyped
  <2> QED BY <1>1, <2>1, <2>2 DEF MarchInv, MarchTyped, Ma!PendingCapped
<1>8. ASSUME NEW x \in Ma!Dirs PROVE Stacked(x)' /\ GivenUp(x)'
  <2>1. /\ CountsOk /\ CountsOk' /\ TriedOk /\ Stacked(x) /\ GivenUp(x)
        /\ MarchTyped /\ CallsTyped /\ MarchTyped' /\ CallsTyped'
    BY <1>6, <1>7, CountsNow, CountsNext, TriedNow DEF MarchInv
  <2>2. Designing(x)' = Designing(x) /\ Tried(x)' = Tried(x) /\ Taken(x) \subseteq Taken(x)'
    BY <1>1 DEF Designing, Tried, Ma!Attempts, Taken, Wanted
  <2>3. Cardinality(Taken(x)) =< Cardinality(Taken(x))'
    BY <2>1, <2>2, FS_Subset DEF CountsOk
  <2>4. Ma!Requests(x)' \subseteq Ma!Requests(x) \cup (IF x \in Ma!Requested THEN {Ma!NewRequest(x)} ELSE {})
    <3> SUFFICES ASSUME NEW e \in Ma!Requests(x)', e \notin Ma!Requests(x)
                 PROVE  x \in Ma!Requested /\ e = Ma!NewRequest(x)
      OBVIOUS
    <3>1. e.type = "run" /\ e.dir = x /\ e \notin emitted /\ e \in emitted'
      BY DEF Ma!Requests
    <3>2. e \in requests
      BY <1>1, <1>4, <1>5, <3>1 DEF Asking
    <3> QED BY <1>3, <3>1, <3>2
  <2>5. Confirming(x)' \subseteq Confirming(x) \cup (IF x \in confirmed THEN {Ma!Event("confirm", x, 0)} ELSE {})
    <3> SUFFICES ASSUME NEW e \in Confirming(x)', e \notin Confirming(x)
                 PROVE  x \in confirmed /\ e = Ma!Event("confirm", x, 0)
      OBVIOUS
    <3>1. e.type = "confirm" /\ e.dir = x /\ e \notin emitted /\ e \in emitted'
      BY DEF Confirming
    <3>2. e \in confirmations
      BY <1>1, <1>3, <1>4, <3>1 DEF Asking
    <3> QED BY <3>1, <3>2 DEF Ma!Event
  <2>6. CASE x \in Ma!Requested
    <3>1. Cardinality(Ma!Requests(x))' =< Cardinality(Ma!Requests(x)) + 1
      BY <2>1, <2>4, <2>6, AtMostOneMore DEF CountsOk
    <3>2. x \notin confirmed /\ Cardinality(Ma!Requests(x)) < MaxRequests /\ confirms'[x] = confirms[x]
      BY <1>1, <1>2, <2>1, <2>6 DEF TriedOk
    <3>3. Cardinality(Confirming(x))' =< Cardinality(Confirming(x))
      <4>1. Confirming(x)' \subseteq Confirming(x)
        BY <2>5, <3>2
      <4> QED BY <2>1, <4>1, FS_Subset DEF CountsOk
    <3>4. Tried(x) + 1 =< GiveUp * EvidenceCap /\ GiveUp * EvidenceCap \in Nat
      BY <1>2, <2>1, <2>6, AskedBelow, LimitTyped
    <3>5. MaxRequests \in Nat /\ setbacks' = setbacks
      BY <1>1 DEF Ma!MarchAssumption
    <3> PICK G \in Nat : G = GiveUp * EvidenceCap
      BY <3>4
    <3>6. Limit = G + MaxRequests - 1
      BY DEF Limit
    <3> HIDE DEF Tried, Limit, Ma!Requests, Confirming, Designing, Taken, requests, confirmations
    <3>7. Stacked(x)'
      BY <2>1, <2>2, <2>3, <3>2, <3>3, <3>5 DEF CountsOk, TriedOk, Stacked
    <3>8. GivenUp(x)'
      BY <2>1, <2>2, <2>3, <3>1, <3>2, <3>3, <3>4, <3>5, <3>6 DEF CountsOk, TriedOk, Stacked, GivenUp
    <3> QED BY <3>7, <3>8
  <2>7. CASE x \notin Ma!Requested
    <3>1. Cardinality(Ma!Requests(x))' =< Cardinality(Ma!Requests(x))
      <4>1. Ma!Requests(x)' \subseteq Ma!Requests(x)
        BY <2>4, <2>7
      <4> QED BY <2>1, <4>1, FS_Subset DEF CountsOk
    <3>2. CASE x \in confirmed
      <4>1. Cardinality(Confirming(x))' =< Cardinality(Confirming(x)) + 1
        BY <2>1, <2>5, <3>2, AtMostOneMore DEF CountsOk
      <4>2. confirms'[x] = confirms[x] + 1 /\ setbacks' = setbacks
        BY <1>1, <3>2
      <4> HIDE DEF Tried, Limit, Ma!Requests, Confirming, Designing, Taken, requests, confirmations
      <4> QED BY <2>1, <2>2, <2>3, <3>1, <4>1, <4>2, Balance DEF CountsOk, TriedOk
    <3>3. CASE x \notin confirmed
      <4>1. Cardinality(Confirming(x))' =< Cardinality(Confirming(x))
        <5>1. Confirming(x)' \subseteq Confirming(x)
          BY <2>5, <3>3
        <5> QED BY <2>1, <5>1, FS_Subset DEF CountsOk
      <4>2. confirms'[x] = confirms[x] /\ setbacks' = setbacks
        BY <1>1, <2>1, <3>3 DEF TriedOk
      <4> HIDE DEF Tried, Limit, Ma!Requests, Confirming, Designing, Taken, requests, confirmations
      <4> QED BY <2>1, <2>2, <2>3, <3>1, <4>1, <4>2, Balance DEF CountsOk, TriedOk
    <3> QED BY <3>2, <3>3
  <2> QED BY <2>6, <2>7
<1> QED BY <1>6, <1>7, <1>8 DEF MarchInv

-----------------------------------------------------------------------------
\* The invariant holds at the start,
LEMMA MarchInit == ASSUME Ma!MarchAssumption PROVE Ma!Init => MarchInv
<1> SUFFICES ASSUME Ma!Init PROVE MarchInv
  OBVIOUS
<1>1. MarchTyped /\ Ma!PendingCapped
  BY DEF Ma!Init, MarchTyped, Ma!PendingCapped, Ma!MarchAssumption
<1>2. CallsTyped
  BY FS_EmptySet DEF Ma!Init, CallsTyped, Ma!MarchAssumption
<1>3. ASSUME NEW x \in Ma!Dirs PROVE Stacked(x) /\ GivenUp(x)
  <2>1. Ma!Requests(x) = {} /\ Confirming(x) = {} /\ Designing(x) = {} /\ Taken(x) = {}
    BY DEF Ma!Init, Ma!Requests, Confirming, Designing, Taken, Wanted
  <2>2. Tried(x) = 0 /\ confirms[x] = 0 /\ setbacks = 0
    BY DEF Ma!Init, Tried, Ma!Attempts
  <2>3. Cardinality({}) = 0
    BY FS_EmptySet
  <2> HIDE DEF Tried, Limit, Ma!Requests, Confirming, Designing, Taken
  <2> QED BY <2>1, <2>2, <2>3, LimitTyped DEF Stacked, GivenUp
<1> QED BY <1>1, <1>2, <1>3 DEF MarchInv

\* is kept by every step,
LEMMA MarchNext == ASSUME Ma!MarchAssumption PROVE MarchInv /\ [Ma!Next]_Ma!vars => MarchInv'
<1> SUFFICES ASSUME MarchInv, [Ma!Next]_Ma!vars PROVE MarchInv'
  OBVIOUS
<1>1. CASE Ma!Tick
  BY <1>1, TickKeeps
<1>2. CASE Ma!NextBucket
  BY <1>2, NextBucketKeeps
<1>3. CASE \E e \in emitted : Ma!Take(e) \/ Ma!Suppress(e)
  BY <1>3, TakeKeeps, SuppressKeeps
<1>4. CASE \E c \in calls : Ma!Proceed(c) \/ Ma!Fail(c)
  BY <1>4, PlanKeeps, FinalizeKeeps, DesignKeeps, FailKeeps DEF Ma!Proceed
<1>5. CASE Ma!Crash
  BY <1>5, CrashKeeps
<1>6. CASE \E d \in Ma!Dirs : \/ Ma!Approve(d) \/ Ma!CloseGate(d) \/ Ma!Work(d)
                           \/ Ma!RunEnds(d) \/ Ma!Synthesize(d) \/ Ma!End(d)
  BY <1>6, BesideKeeps, CloseGateKeeps
<1>7. CASE UNCHANGED Ma!vars
  <2>1. UNCHANGED <<confirms, emitted, calls, setbacks>> /\ MarchTyped' /\ Ma!PendingCapped'
    BY <1>7 DEF Ma!vars, MarchInv, MarchTyped, Ma!PendingCapped
  <2>2. \A d \in Ma!Dirs : Tried(d)' = Tried(d)
    BY <1>7 DEF Ma!vars, Tried, Ma!Attempts
  <2> QED BY <2>1, <2>2, StillCounted
<1> QED BY <1>1, <1>2, <1>3, <1>4, <1>5, <1>6, <1>7 DEF Ma!Next

\* and so holds for ever.
LEMMA MarchInvariant == ASSUME Ma!MarchAssumption PROVE Ma!Spec => []MarchInv
BY MarchInit, MarchNext, PTL DEF Ma!Spec

(* Every variable of March has its type: no call holds an event that is not *)
(* pending, and no finding counts more runs than were completed.            *)
THEOREM MarchTypeCorrect == ASSUME Ma!MarchAssumption PROVE Ma!Spec => []Ma!TypeOK
<1>1. MarchInv => Ma!TypeOK
  BY SameCounting DEF MarchInv, MarchTyped, CallsTyped, Ma!TypeOK
<1> QED BY <1>1, MarchInvariant, PTL

(* PendingCapped, for any plans by any number of calls: persist_plan never  *)
(* leaves a direction with more pending tasks than PLANNER_MAX_TASKS.       *)
THEOREM PlansAreLean == ASSUME Ma!MarchAssumption PROVE Ma!Spec => []Ma!PendingCapped
<1>1. MarchInv => Ma!PendingCapped
  BY DEF MarchInv
<1> QED BY <1>1, MarchInvariant, PTL

(* AttemptsBounded, for any numbers of directions, calls and requests: the   *)
(* give-up cap is exceeded only by requests stacked over several buckets,   *)
(* by confirmations and by mishaps.                                          *)
THEOREM GiveUpCapHolds == ASSUME Ma!MarchAssumption PROVE Ma!Spec => []Ma!AttemptsBounded
<1>1. MarchInv => Ma!AttemptsBounded
  <2> SUFFICES ASSUME MarchInv, NEW d \in Ma!Dirs
               PROVE  Ma!Attempts(d) + runs[d].open + Cardinality(Ma!Requests(d))
                        =< GiveUp * EvidenceCap + MaxRequests - 1 + confirms[d] + setbacks
    BY SameCounting DEF Ma!AttemptsBounded
  <2>1. CountsOk /\ TriedOk /\ GivenUp(d) /\ Cardinality(Taken(d)) =< Cardinality(Designing(d))
    BY CountsNow, TriedNow, TakenByACall DEF MarchInv
  <2>2. Tried(d) + Cardinality(Ma!Requests(d)) =< Limit + confirms[d] + setbacks
    BY <2>1, LimitTyped DEF CountsOk, TriedOk, GivenUp
  <2> QED BY <2>2 DEF Tried, Limit
<1> QED BY <1>1, MarchInvariant, PTL

=============================================================================
