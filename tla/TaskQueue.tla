------------------------------ MODULE TaskQueue ------------------------------
(***************************************************************************)
(* The research work queue: rows of `tasks`, the task.created events that  *)
(* wake a researcher, the researcher's claim-investigate-finish handler,   *)
(* and the three mechanisms that recover the work of a dead one (the reap  *)
(* at startup, the watchdog's stale sweep, the handler's timeout) with the *)
(* pump that keeps events and tasks in step.                               *)
(*                                                                         *)
(* A task.created event only says "there is work": its handler claims      *)
(* whatever pending task comes first, and an event may be delivered to     *)
(* more than one coroutine (Dispatcher).                                   *)
(*                                                                         *)
(* Simplifications:                                                        *)
(*  - one clock: Tick ages every claim and every running handler together; *)
(*    wait_for cancels a handler before time passes beyond its bound;      *)
(*  - the investigation itself is out of sight;                            *)
(*  - event ids are reused once nothing refers to them;                    *)
(*  - Workers, Triggers and MaxMishaps are bounds.                         *)
(***************************************************************************)
EXTENDS Naturals, FiniteSets

CONSTANTS
  Tasks,           \* task rows, unborn until inserted
  Research,        \* those of the department the handler claims for
  Rank,            \* [Tasks -> Nat]: ORDER BY priority DESC, created_at
  Triggers,        \* ids of task.created events
  Workers,         \* handler coroutines
  NoTask, NoTrigger,
  HandlerTimeout,  \* HANDLER_TIMEOUT_S, in ticks
  StaleHorizon,    \* the sweep's 30 minutes, in ticks
  MaxMishaps       \* bound on crashes, stalls, errors and pauses

ASSUME TaskQueueAssumption ==
  /\ IsFiniteSet(Tasks) /\ IsFiniteSet(Triggers) /\ IsFiniteSet(Workers)
  /\ Research \subseteq Tasks
  /\ Rank \in [Tasks -> Nat]
  /\ NoTask \notin Tasks /\ NoTrigger \notin Triggers
  /\ HandlerTimeout \in Nat \ {0} /\ StaleHorizon \in Nat /\ MaxMishaps \in Nat

\* "Default 30m matches the stale-task / orphan-run reap horizon."
ASSUME TimeoutWithinHorizon == HandlerTimeout =< StaleHorizon

VARIABLES
  phase,    \* "down", "boot" until the startup reap, "reaped", "up"
  task,     \* tasks.status
  age,      \* ticks since started_at; 0 unless running
  pending,  \* task.created events with status 'pending'
  pc,       \* a handler: "idle", "begun", "busy" or "ret"
  on,       \* its event
  holds,    \* the task it claimed
  elapsed,  \* ticks since wait_for started it
  pump,     \* _revive_stranded_tasks, by caller: where it is and its number
  lock,     \* the holder of _revive_lock
  raced,    \* history: tasks the startup reap took from a live handler
  mishaps

jobVars    == <<task, age>>
workerVars == <<pc, on, holds, elapsed>>
pumpVars   == <<pump, lock>>
vars == <<phase, task, age, pending, pc, on, holds, elapsed, pump, lock,
          raced, mishaps>>

Callers  == {"startup", "watchdog"}
Free     == "free"
TaskStatus == {"unborn", "pending", "running", "completed", "failed", "halted"}
Final    == {"completed", "failed", "halted"}
Live(w)  == pc[w] \in {"begun", "busy"}

Born      == {k \in Tasks : task[k] # "unborn"}
Waiting   == {k \in Tasks : task[k] = "pending"}
Holders(k) == {w \in Workers : pc[w] = "busy" /\ holds[w] = k}

\* Event ids that nothing refers to.
Fresh == {t \in Triggers : t \notin pending /\ \A w \in Workers : on[w] # t}

\* A new task.created event; any unused id will do.
Publish == /\ Fresh # {}
           /\ pending' = pending \cup {CHOOSE t \in Fresh : TRUE}

Mishap == mishaps < MaxMishaps /\ mishaps' = mishaps + 1

Resting == [at |-> "idle", n |-> 0]

Init ==
  /\ phase = "down"
  /\ task = [k \in Tasks |-> "unborn"] /\ age = [k \in Tasks |-> 0]
  /\ pending = {}
  /\ pc = [w \in Workers |-> "idle"]
  /\ on = [w \in Workers |-> NoTrigger]
  /\ holds = [w \in Workers |-> NoTask]
  /\ elapsed = [w \in Workers |-> 0]
  /\ pump = [r \in Callers |-> Resting] /\ lock = Free
  /\ raced = {} /\ mishaps = 0

-----------------------------------------------------------------------------
(* The process.                                                            *)

\* run(): the watchdog and the listener are up, the reap is still to come.
Boot ==
  /\ phase = "down"
  /\ phase' = "boot"
  /\ UNCHANGED <<jobVars, pending, workerVars, pumpVars, raced, mishaps>>

\* UPDATE tasks SET status = 'pending', started_at = NULL.
Reset(S) ==
  /\ task' = [k \in Tasks |-> IF k \in S THEN "pending" ELSE task[k]]
  /\ age'  = [k \in Tasks |-> IF k \in S THEN 0 ELSE age[k]]

\* _reap_startup_orphans: every running task goes back to pending.
StartupReap ==
  /\ phase = "boot"
  /\ phase' = "reaped"
  /\ Reset({k \in Tasks : task[k] = "running"})
  /\ raced' = raced \cup {k \in Tasks : task[k] = "running" /\ Holders(k) # {}}
  /\ UNCHANGED <<pending, workerVars, pumpVars, mishaps>>

\* A crash or a shutdown: the coroutines and the lock go, the rows stay.
Die ==
  /\ phase # "down"
  /\ Mishap
  /\ phase' = "down"
  /\ pc' = [w \in Workers |-> "idle"] /\ on' = [w \in Workers |-> NoTrigger]
  /\ holds' = [w \in Workers |-> NoTask] /\ elapsed' = [w \in Workers |-> 0]
  /\ pump' = [r \in Callers |-> Resting] /\ lock' = Free
  /\ UNCHANGED <<jobVars, pending, raced>>

\* Time passes for every claim and every handler.
Tick ==
  /\ \A w \in Workers : Live(w) => elapsed[w] < HandlerTimeout
  /\ age' = [k \in Tasks |->
               IF task[k] = "running" /\ age[k] =< StaleHorizon THEN age[k] + 1 ELSE age[k]]
  /\ elapsed' = [w \in Workers |-> IF Live(w) THEN elapsed[w] + 1 ELSE elapsed[w]]
  /\ UNCHANGED <<phase, task, pending, pc, on, holds, pumpVars, raced, mishaps>>

-----------------------------------------------------------------------------
(* Rows come and go.                                                       *)

\* INSERT INTO tasks; trg_emit_task_created adds its event in the same
\* transaction.
Insert(k) ==
  /\ task[k] = "unborn"
  /\ task' = [task EXCEPT ![k] = "pending"]
  /\ Publish
  /\ UNCHANGED <<phase, age, workerVars, pumpVars, raced, mishaps>>

\* The audit breaker halts what is pending on a claim.
Halt(k) ==
  /\ k \in Research /\ task[k] = "pending"
  /\ task' = [task EXCEPT ![k] = "halted"]
  /\ UNCHANGED <<phase, age, pending, workerVars, pumpVars, raced, mishaps>>

\* A bug: the sweep takes what is as old as a handler can get.
OverdueAtHorizon == {k \in Tasks : task[k] = "running" /\ age[k] >= StaleHorizon}

\* What _sweep_stale_tasks takes.
Overdue == {k \in Tasks : task[k] = "running" /\ age[k] > StaleHorizon}

SweepStale ==
  /\ phase # "down"
  /\ Reset(Overdue)
  /\ UNCHANGED <<phase, pending, workerVars, pumpVars, raced, mishaps>>

-----------------------------------------------------------------------------
(* handle_grounded_research, run for one task.created event.               *)

\* A bug: the claim is forgotten only when the task was concluded.
ReturnHolding(w) ==
  /\ pc' = [pc EXCEPT ![w] = "ret"]
  /\ elapsed' = [elapsed EXCEPT ![w] = 0]
  /\ UNCHANGED holds

\* The handler is over; its clock stops.
Return(w) ==
  /\ pc' = [pc EXCEPT ![w] = "ret"]
  /\ holds' = [holds EXCEPT ![w] = NoTask]
  /\ elapsed' = [elapsed EXCEPT ![w] = 0]

\* The row gets its final status.
Conclude(k, s) ==
  /\ task' = [task EXCEPT ![k] = s]
  /\ age' = [age EXCEPT ![k] = 0]

Begin(w, t) ==
  /\ phase # "down"
  /\ pc[w] = "idle" /\ t \in pending
  /\ pc' = [pc EXCEPT ![w] = "begun"]
  /\ on' = [on EXCEPT ![w] = t]
  /\ UNCHANGED <<phase, jobVars, pending, holds, elapsed, pumpVars, raced, mishaps>>

\* The researcher's dial says no: nothing is claimed.
Skip(w) ==
  /\ pc[w] = "begun"
  /\ Mishap
  /\ Return(w)
  /\ UNCHANGED <<phase, jobVars, pending, on, pumpVars, raced>>

\* A bug: failed rows are retried.
ClaimableAgain == {k \in Research : task[k] \in {"pending", "failed"}}

\* What claim_task's subquery selects from.
Claimable == {k \in Research : task[k] = "pending"}

\* claim_task("research"): the first pending row, one statement.
Claim(w) ==
  /\ pc[w] = "begun"
  /\ IF Claimable = {}
     THEN Return(w) /\ UNCHANGED jobVars
     ELSE \E k \in Claimable :
            /\ \A j \in Claimable : Rank[k] =< Rank[j]
            /\ task' = [task EXCEPT ![k] = "running"]
            /\ holds' = [holds EXCEPT ![w] = k]
            /\ pc' = [pc EXCEPT ![w] = "busy"]
            /\ age' = [age EXCEPT ![k] = 0]
            /\ UNCHANGED elapsed
  /\ UNCHANGED <<phase, pending, on, pumpVars, raced, mishaps>>

\* complete_task: only a running row; otherwise ValueError, and nothing is
\* written.
Complete(w) ==
  /\ pc[w] = "busy"
  /\ IF task[holds[w]] = "running"
     THEN Conclude(holds[w], "completed")
     ELSE UNCHANGED jobVars
  /\ Return(w)
  /\ UNCHANGED <<phase, pending, on, pumpVars, raced, mishaps>>

\* The investigation raised, or the task's context is gone: fail_task writes
\* whatever the row says.
FailTask(w) ==
  /\ pc[w] = "busy"
  /\ Conclude(holds[w], "failed")
  /\ Return(w)
  /\ UNCHANGED <<phase, pending, on, pumpVars, raced, mishaps>>

\* wait_for cancels the handler, or a query of its own fails: the row stays
\* as it is.
Abandon(w) ==
  /\ Live(w)
  /\ Mishap
  /\ Return(w)
  /\ UNCHANGED <<phase, jobVars, pending, on, pumpVars, raced>>

\* The dispatcher records the outcome of the event.
Settle(w) ==
  /\ pc[w] = "ret"
  /\ pending' = pending \ {on[w]}
  /\ pc' = [pc EXCEPT ![w] = "idle"]
  /\ on' = [on EXCEPT ![w] = NoTrigger]
  /\ UNCHANGED <<phase, jobVars, holds, elapsed, pumpVars, raced, mishaps>>

-----------------------------------------------------------------------------
(* _revive_stranded_tasks: count, count, emit the difference.              *)

\* A bug: only run() pumps.
MayPumpAtStartup(r) == r = "startup" /\ phase = "reaped"

\* run() pumps once after the reap, the watchdog on every tick.
MayPump(r) == IF r = "startup" THEN phase = "reaped" ELSE phase # "down"

\* The startup pass is over: run() goes on to drain.
PhaseAfter(r) == phase' = IF r = "startup" THEN "up" ELSE phase

\* A bug: the pump runs without _revive_lock.
CountTasksUnlocked(r) ==
  /\ MayPump(r) /\ pump[r].at = "idle"
  /\ IF Waiting = {}
     THEN UNCHANGED pump /\ PhaseAfter(r)
     ELSE /\ pump' = [pump EXCEPT ![r] = [at |-> "tasks", n |-> Cardinality(Waiting)]]
          /\ UNCHANGED phase
  /\ UNCHANGED <<jobVars, pending, workerVars, lock, raced, mishaps>>

CountTasks(r) ==
  /\ MayPump(r) /\ pump[r].at = "idle"
  /\ lock = Free
  /\ IF Waiting = {}
     THEN UNCHANGED pumpVars /\ PhaseAfter(r)
     ELSE /\ pump' = [pump EXCEPT ![r] = [at |-> "tasks", n |-> Cardinality(Waiting)]]
          /\ lock' = r
          /\ UNCHANGED phase
  /\ UNCHANGED <<jobVars, pending, workerVars, raced, mishaps>>

CountTriggers(r) ==
  /\ pump[r].at = "tasks"
  /\ IF pump[r].n =< Cardinality(pending)
     THEN /\ pump' = [pump EXCEPT ![r] = Resting]
          /\ lock' = Free
          /\ PhaseAfter(r)
     ELSE /\ pump' = [pump EXCEPT ![r] =
                        [at |-> "emit", n |-> pump[r].n - Cardinality(pending)]]
          /\ UNCHANGED <<lock, phase>>
  /\ UNCHANGED <<jobVars, pending, workerVars, raced, mishaps>>

\* One INSERT of the loop; the last one leaves the lock.
EmitOne(r) ==
  /\ pump[r].at = "emit"
  /\ Publish
  /\ IF pump[r].n = 1
     THEN /\ pump' = [pump EXCEPT ![r] = Resting]
          /\ lock' = Free
          /\ PhaseAfter(r)
     ELSE /\ pump' = [pump EXCEPT ![r] = [at |-> "emit", n |-> pump[r].n - 1]]
          /\ UNCHANGED <<lock, phase>>
  /\ UNCHANGED <<jobVars, workerVars, raced, mishaps>>

-----------------------------------------------------------------------------
Handle(w) == \/ \E t \in Triggers : Begin(w, t)
             \/ Skip(w) \/ Claim(w) \/ Complete(w) \/ FailTask(w)
             \/ Abandon(w) \/ Settle(w)

Pump(r) == CountTasks(r) \/ CountTriggers(r) \/ EmitOne(r)

Next == \/ Boot \/ StartupReap \/ Die \/ Tick \/ SweepStale
        \/ \E k \in Tasks : Insert(k) \/ Halt(k)
        \/ \E w \in Workers : Handle(w)
        \/ \E r \in Callers : Pump(r)

(* Fairness: the process is restarted and starts up, time passes, the      *)
(* watchdog ticks, the lock is fair, an event reaches a coroutine (the     *)
(* dispatcher's contract), and a handler that has begun gets on with it.   *)
(* A stall is a mishap: nothing in the code bounds how often one task can  *)
(* time out.                                                               *)
Fairness ==
  /\ WF_vars(Boot) /\ WF_vars(StartupReap) /\ WF_vars(Tick) /\ WF_vars(SweepStale)
  /\ \A r \in Callers : SF_vars(CountTasks(r)) /\ WF_vars(CountTriggers(r) \/ EmitOne(r))
  /\ WF_vars(\E w \in Workers, t \in Triggers : Begin(w, t))
  /\ \A w \in Workers : WF_vars(Claim(w) \/ Complete(w) \/ FailTask(w) \/ Settle(w))

Spec     == Init /\ [][Next]_vars
FairSpec == Spec /\ Fairness

-----------------------------------------------------------------------------
TypeOK ==
  /\ phase \in {"down", "boot", "reaped", "up"}
  /\ task \in [Tasks -> TaskStatus] /\ age \in [Tasks -> 0..StaleHorizon + 1]
  /\ pending \subseteq Triggers
  /\ pc \in [Workers -> {"idle", "begun", "busy", "ret"}]
  /\ on \in [Workers -> Triggers \cup {NoTrigger}]
  /\ holds \in [Workers -> Research \cup {NoTask}]
  /\ elapsed \in [Workers -> 0..HandlerTimeout]
  /\ \A w \in Workers : /\ pc[w] = "idle" <=> on[w] = NoTrigger
                        /\ pc[w] = "busy" <=> holds[w] # NoTask
  /\ pump \in [Callers -> [at : {"idle", "tasks", "emit"}, n : Nat]]
  /\ \A r \in Callers : pump[r].at # "idle" => pump[r].n > 0
  /\ lock \in Callers \cup {Free}
  /\ raced \subseteq Tasks
  /\ mishaps \in 0..MaxMishaps

(* A task is in the hands of one live handler at most, and it stays         *)
(* 'running' while that handler works: the sweep, a crash, a timeout or a   *)
(* second event never give it to another one.  The exceptions are the tasks *)
(* the startup reap took from a live handler.                               *)
Exclusive ==
  \A v, w \in Workers :
    /\ pc[v] = "busy" /\ holds[v] \notin raced
    => /\ task[holds[v]] = "running"
       /\ pc[w] = "busy" /\ holds[w] = holds[v] => w = v

(* What a task ended as is not rewritten, though fail_task does not look at *)
(* the status: same exceptions.                                             *)
VerdictStands ==
  [][\A k \in Tasks : task[k] \in Final /\ k \notin raced => task'[k] = task[k]]_vars

(* There are never more pending events than task rows: an insert, two pumps *)
(* and their three separate statements cannot flood the bus.                *)
NoExcessTriggers == Cardinality(pending) =< Cardinality(Born)

(* Every research task ends: an event that was lost with a crash, consumed  *)
(* while the task was running, or skipped by a pause is made up for.        *)
EveryTaskEnds ==
  \A k \in Research : (task[k] = "pending") ~> (task[k] \in Final)

(* "A freshly started harness has no runs in flight" (the docstring of      *)
(* _reap_startup_orphans).  The listener and the watchdog are up before it  *)
(* runs, so a handler can have claimed.                                     *)
ReapsOnlyOrphans == raced = {}
=============================================================================
