---------------------------- MODULE Quartermaster ----------------------------
(***************************************************************************)
(* Sandboxed experiments: the rows of `experiment_runs`, the watchdog that *)
(* sweeps the running ones and starts the queued ones, one runner per      *)
(* started experiment (attempt, debug, attempt again, record, announce),   *)
(* the containers, and the operator's kill switch.                         *)
(*                                                                         *)
(* Rows, events and containers outlive the process; the map `running`, the *)
(* kill reasons and the runners do not.                                    *)
(*                                                                         *)
(* Simplifications:                                                        *)
(*  - a database error is a statement that did not run;                    *)
(*  - the dial, the host's headroom, the GPU's free memory and the lock    *)
(*    shared with the router can each defer any start (Defer), and a tick  *)
(*    under a paused dial changes nothing;                                 *)
(*  - the queue's order and its LIMIT 20 are left out: any order;          *)
(*  - a runner's budget may be spent before any attempt but the first;     *)
(*  - of a design only its lane matters, or that it is infeasible: a row   *)
(*    without code.                                                        *)
(* MaxMishaps is a bound.                                                  *)
(***************************************************************************)
EXTENDS Naturals, FiniteSets

CONSTANTS
  Experiments,     \* rows, absent until queued
  MaxCpu, MaxGpu,  \* MAX_CONCURRENT_EXPERIMENTS, MAX_CONCURRENT_GPU_EXPERIMENTS
  MaxIters,        \* EXPERIMENT_MAX_ITERS
  NoExperiment,
  MaxMishaps       \* bound on crashes, errors, stalls and operator kills

ASSUME QuartermasterAssumption ==
  /\ IsFiniteSet(Experiments) /\ NoExperiment \notin Experiments
  /\ MaxCpu \in Nat /\ MaxGpu \in Nat
  /\ MaxIters \in Nat \ {0} /\ MaxMishaps \in Nat

VARIABLES
  status,     \* experiment_runs.status, "absent" before the insert
  design,     \* what was queued: "cpu", "gpu" or "infeasible"
  events,     \* <<experiment, kind>>: experiment.completed and .failed emitted
  container,  \* lf-exp-<id>: "none", "up", or "dead" and not yet collected
  runner,     \* run_experiment's task, its lane, attempt and outcome
  reason,     \* kill_reasons: the experiments that have one
  drafts,     \* infeasible rows whose verdict their designer still has to write
  wd,         \* the watchdog: where it is,
  todo,       \*   the rows it read and has not looked at yet,
  pressure,   \*   whether its sample shows a GPU below the reserve,
  load,       \*   cpu_running and gpu_running,
  target,     \*   the experiment of the call it awaits
  switch,     \* the experiment whose kill the API is serving
  mishaps

rowVars == <<status, design, events>>
wdVars  == <<wd, todo, pressure, load, target>>
vars == <<status, design, events, container, runner, reason, drafts,
          wd, todo, pressure, load, target, switch, mishaps>>

Lanes   == {"cpu", "gpu"}
Designs == Lanes \cup {"infeasible"}
Cap     == [l \in Lanes |-> IF l = "gpu" THEN MaxGpu ELSE MaxCpu]
Lane(e) == IF design[e] = "gpu" THEN "gpu" ELSE "cpu"
Ended   == {"completed", "failed", "killed"}
Status  == {"absent", "queued", "running"} \cup Ended

NoRunner == [at |-> "none", lane |-> "none", attempt |-> 0, out |-> "none"]
Started(e) == [at |-> "ready", lane |-> Lane(e), attempt |-> 1, out |-> "none"]

\* eid in running
Owned(e) == runner[e].at # "none"
InLane(l) == {e \in Experiments : runner[e].lane = l}
Rows(s)   == {e \in Experiments : status[e] = s}

Mishap == mishaps < MaxMishaps /\ mishaps' = mishaps + 1

Init ==
  /\ status = [e \in Experiments |-> "absent"]
  /\ design = [e \in Experiments |-> "none"] /\ events = {}
  /\ container = [e \in Experiments |-> "none"]
  /\ runner = [e \in Experiments |-> NoRunner]
  /\ reason = {} /\ drafts = {}
  /\ wd = "off" /\ todo = {} /\ pressure = FALSE
  /\ load = [l \in Lanes |-> 0] /\ target = NoExperiment
  /\ switch = NoExperiment
  /\ mishaps = 0

-----------------------------------------------------------------------------
(* The rows *)

SetStatus(e, s) == status' = [status EXCEPT ![e] = s]

\* A bug: the update has no condition on the status.
KillRowAlways(e) == SetStatus(e, "killed")

\* kill_experiment: WHERE ... status IN ('running', 'queued')
KillRow(e) == IF status[e] \in {"running", "queued"} THEN SetStatus(e, "killed")
                                                    ELSE UNCHANGED status

\* docker kill; a container that is gone is no error.
KillContainer(e) ==
  container' = [container EXCEPT ![e] = IF @ = "up" THEN "dead" ELSE @]

\* handle_experiment_requested: the owner's design is queued ...
Queue(e, d) ==
  /\ status[e] = "absent" /\ SetStatus(e, "queued")
  /\ design' = [design EXCEPT ![e] = d]
  /\ drafts' = IF d = "infeasible" THEN drafts \cup {e} ELSE drafts
  /\ UNCHANGED <<events, container, runner, reason, wdVars, switch, mishaps>>

\* ... and an infeasible one is failed by a second statement.
RejectDraft(e) ==
  /\ e \in drafts /\ drafts' = drafts \ {e}
  /\ SetStatus(e, "failed")
  /\ UNCHANGED <<design, events, container, runner, reason, wdVars, switch, mishaps>>

-----------------------------------------------------------------------------
(* The watchdog *)

\* Between ticks the watchdog remembers nothing of what it read.
Rest(at) ==
  /\ wd' = at /\ todo' = {} /\ pressure' = FALSE
  /\ load' = [l \in Lanes |-> 0] /\ target' = NoExperiment

\* reap_orphan_containers.  docker may not answer.
Boot ==
  /\ wd = "off" /\ wd' = "idle"
  /\ \/ container' = [e \in Experiments |-> "none"] /\ UNCHANGED mishaps
     \/ Mishap /\ UNCHANGED container
  /\ UNCHANGED <<rowVars, runner, reason, drafts, todo, pressure, load, target, switch>>

\* A tick samples the host and reads the running rows.
Tick ==
  /\ wd = "idle" /\ wd' = "sweep"
  /\ pressure' \in BOOLEAN
  /\ todo' = Rows("running")
  /\ UNCHANGED <<rowVars, container, runner, reason, drafts, load, target, switch, mishaps>>

\* A bug: only the container of an orphan is removed.
OrphanLeft(e) ==
  /\ wd = "sweep" /\ e \in todo /\ ~Owned(e)
  /\ wd' = "remove" /\ target' = e /\ todo' = todo \ {e}
  /\ UNCHANGED <<rowVars, container, runner, reason, drafts, pressure, load, switch, mishaps>>

\* A running row that no runner of this process stands behind.
Orphan(e) ==
  /\ wd = "sweep" /\ e \in todo /\ ~Owned(e)
  /\ KillRow(e)
  /\ wd' = "remove" /\ target' = e /\ todo' = todo \ {e}
  /\ UNCHANGED <<design, events, container, runner, reason, drafts, pressure, load, switch, mishaps>>

\* sandbox.force_remove, best effort.
Remove ==
  /\ wd = "remove" /\ wd' = "sweep" /\ target' = NoExperiment
  /\ \/ container' = [container EXCEPT ![target] = "none"] /\ UNCHANGED mishaps
     \/ Mishap /\ UNCHANGED container
  /\ UNCHANGED <<rowVars, runner, reason, drafts, todo, pressure, load, switch>>

\* A run of ours with a heartbeat too old, or on the GPU under pressure.
Condemn(e) ==
  /\ wd = "sweep" /\ e \in todo /\ Owned(e)
  /\ \/ Mishap
     \/ pressure /\ runner[e].lane = "gpu" /\ UNCHANGED mishaps
  /\ reason' = reason \cup {e}
  /\ wd' = "kill" /\ target' = e /\ todo' = todo \ {e}
  /\ UNCHANGED <<rowVars, container, runner, drafts, pressure, load, switch>>

\* sandbox.kill, best effort.
Kill ==
  /\ wd = "kill" /\ wd' = "sweep" /\ target' = NoExperiment
  /\ \/ KillContainer(target) /\ UNCHANGED mishaps
     \/ Mishap /\ UNCHANGED container
  /\ UNCHANGED <<rowVars, runner, reason, drafts, todo, pressure, load, switch>>

Spare(e) ==
  /\ wd = "sweep" /\ e \in todo /\ Owned(e)
  /\ ~(pressure /\ runner[e].lane = "gpu")
  /\ todo' = todo \ {e}
  /\ UNCHANGED <<rowVars, container, runner, reason, drafts, wd, pressure, load,
                 target, switch, mishaps>>

\* allocate: the queued rows, and the runs in each lane at this moment.
ReadQueue ==
  /\ wd = "sweep" /\ todo = {} /\ wd' = "allocate"
  /\ todo' = Rows("queued") /\ pressure' = FALSE
  /\ load' = [l \in Lanes |-> Cardinality(InLane(l))]
  /\ UNCHANGED <<rowVars, container, runner, reason, drafts, target, switch, mishaps>>

Defer(e) ==
  /\ wd = "allocate" /\ e \in todo /\ todo' = todo \ {e}
  /\ UNCHANGED <<rowVars, container, runner, reason, drafts, wd, pressure, load,
                 target, switch, mishaps>>

\* A bug: the update has no condition on the status.
MarkAnyRunning(e) == SetStatus(e, "running") /\ wd' = "launch" /\ target' = e

\* mark_experiment_running: WHERE ... status = 'queued'
MarkRunning(e) ==
  IF status[e] = "queued"
  THEN SetStatus(e, "running") /\ wd' = "launch" /\ target' = e
  ELSE UNCHANGED <<status, wd, target>>

Admit(e) ==
  /\ wd = "allocate" /\ e \in todo /\ todo' = todo \ {e}
  /\ ~Owned(e) /\ load[Lane(e)] < Cap[Lane(e)]
  /\ MarkRunning(e)
  /\ UNCHANGED <<design, events, container, runner, reason, drafts, pressure, load, switch, mishaps>>

\* A bug: the loop does not count what it starts.
LaunchUncounted ==
  /\ wd = "launch" /\ wd' = "allocate" /\ target' = NoExperiment
  /\ runner' = [runner EXCEPT ![target] = Started(target)]
  /\ UNCHANGED <<rowVars, container, reason, drafts, todo, pressure, load, switch, mishaps>>

\* Back from the await: create_task and running[eid].
Launch ==
  /\ wd = "launch" /\ wd' = "allocate" /\ target' = NoExperiment
  /\ runner' = [runner EXCEPT ![target] = Started(target)]
  /\ load' = [load EXCEPT ![Lane(target)] = @ + 1]
  /\ UNCHANGED <<rowVars, container, reason, drafts, todo, pressure, switch, mishaps>>

EndTick ==
  /\ wd = "allocate" /\ todo = {} /\ Rest("idle")
  /\ UNCHANGED <<rowVars, container, runner, reason, drafts, switch, mishaps>>

\* "a bad tick must not kill the watchdog": a query raises.
TickFails ==
  /\ wd \in {"sweep", "allocate"} /\ Mishap
  /\ Rest("idle")
  /\ UNCHANGED <<rowVars, container, runner, reason, drafts, switch>>

-----------------------------------------------------------------------------
(* A runner: run_code_session within run_experiment *)

Go(e, at) == runner' = [runner EXCEPT ![e].at = at]

\* The session returns and run_experiment takes the kill reason, in one go;
\* a result outlives a kill.
Return(e, out) ==
  /\ runner' = [runner EXCEPT
       ![e].at  = "record",
       ![e].out = IF out = "failed" /\ e \in reason THEN "killed" ELSE out]
  /\ reason' = reason \ {e}

\* A bug: one attempt more than EXPERIMENT_MAX_ITERS.
AfterFailureOnceMore(e) ==
  IF e \in reason \/ runner[e].attempt > MaxIters
  THEN Return(e, "failed")
  ELSE Go(e, "debug") /\ UNCHANGED reason

\* After a failed attempt: stop when told to or spent, else debug.
AfterFailure(e) ==
  IF e \in reason \/ runner[e].attempt >= MaxIters
  THEN Return(e, "failed")
  ELSE Go(e, "debug") /\ UNCHANGED reason

\* No code, or the session's budget is spent.
GiveUp(e) ==
  /\ runner[e].at = "ready" /\ (design[e] = "infeasible" \/ runner[e].attempt > 1)
  /\ Return(e, "failed")
  /\ UNCHANGED <<rowVars, container, drafts, wdVars, switch, mishaps>>

RunContainer(e) ==
  /\ runner[e].at = "ready" /\ design[e] # "infeasible"
  /\ Go(e, "container") /\ container' = [container EXCEPT ![e] = "up"]
  /\ UNCHANGED <<rowVars, reason, drafts, wdVars, switch, mishaps>>

\* The syntax gate, or docker does not start it.
NoLaunch(e) ==
  /\ runner[e].at = "ready" /\ design[e] # "infeasible"
  /\ AfterFailure(e)
  /\ UNCHANGED <<rowVars, container, drafts, wdVars, switch, mishaps>>

\* A result: the working code is saved before the session returns.
Succeed(e) ==
  /\ runner[e].at = "container" /\ container[e] = "up"
  /\ Go(e, "save") /\ container' = [container EXCEPT ![e] = "none"]
  /\ UNCHANGED <<rowVars, reason, drafts, wdVars, switch, mishaps>>

Save(e) ==
  /\ runner[e].at = "save" /\ Return(e, "completed")
  /\ UNCHANGED <<rowVars, container, drafts, wdVars, switch, mishaps>>

\* It exits with an error, without a result, over its wall clock, or killed.
Fail(e) ==
  /\ runner[e].at = "container"
  /\ container' = [container EXCEPT ![e] = "none"]
  /\ AfterFailure(e)
  /\ UNCHANGED <<rowVars, drafts, wdVars, switch, mishaps>>

Debug(e) ==
  /\ runner[e].at = "debug"
  /\ runner' = [runner EXCEPT ![e].at = "ready", ![e].attempt = @ + 1]
  /\ UNCHANGED <<rowVars, container, reason, drafts, wdVars, switch, mishaps>>

DebugFails(e) ==
  /\ runner[e].at = "debug" /\ Return(e, "failed")
  /\ UNCHANGED <<rowVars, container, drafts, wdVars, switch, mishaps>>

\* record_experiment_result looks at no status; kill_experiment does.
Record(e) ==
  /\ runner[e].at = "record" /\ Go(e, "announce")
  /\ IF runner[e].out = "killed" THEN KillRow(e) ELSE SetStatus(e, runner[e].out)
  /\ UNCHANGED <<design, events, container, reason, drafts, wdVars, switch, mishaps>>

Announced(e) == IF runner[e].out = "completed" THEN "completed" ELSE "failed"

\* The event, and running.pop.
Announce(e) ==
  /\ runner[e].at = "announce"
  /\ events' = events \cup {<<e, Announced(e)>>}
  /\ runner' = [runner EXCEPT ![e] = NoRunner]
  /\ UNCHANGED <<status, design, container, reason, drafts, wdVars, switch, mishaps>>

\* A scratch directory, the verdict or the event cannot be written.
RunnerRaises(e) ==
  /\ runner[e].at \in {"ready", "record", "announce"} /\ Mishap
  /\ Go(e, "crashed")
  /\ UNCHANGED <<rowVars, container, reason, drafts, wdVars, switch>>

\* "runner crashed" is recorded if it can be, whatever was recorded before.
Crash(e) ==
  /\ runner[e].at = "crashed"
  /\ \/ SetStatus(e, "failed") /\ UNCHANGED mishaps
     \/ Mishap /\ UNCHANGED status
  /\ runner' = [runner EXCEPT ![e] = NoRunner]
  /\ UNCHANGED <<design, events, container, reason, drafts, wdVars, switch>>

-----------------------------------------------------------------------------
(* The API's kill switch, a process of its own *)

HumanKill(e) ==
  /\ switch = NoExperiment /\ status[e] # "absent" /\ Mishap
  /\ switch' = e /\ KillContainer(e)
  /\ UNCHANGED <<rowVars, runner, reason, drafts, wdVars>>

HumanMark ==
  /\ switch # NoExperiment /\ switch' = NoExperiment
  /\ KillRow(switch)
  /\ UNCHANGED <<design, events, container, runner, reason, drafts, wdVars, mishaps>>

-----------------------------------------------------------------------------
(* The environment *)

\* The harness dies; docker goes on with what is up.
Die ==
  /\ wd # "off" /\ Mishap
  /\ Rest("off")
  /\ runner' = [e \in Experiments |-> NoRunner]
  /\ reason' = {} /\ drafts' = {}
  /\ container' = [e \in Experiments |->
                     IF container[e] = "up" THEN "up" ELSE "none"]
  /\ UNCHANGED <<rowVars, switch>>

\* A container nobody waits for ends by itself, and --rm removes it.
Expire(e) ==
  /\ container[e] # "none" /\ ~Owned(e)
  /\ container' = [container EXCEPT ![e] = "none"]
  /\ UNCHANGED <<rowVars, runner, reason, drafts, wdVars, switch, mishaps>>

-----------------------------------------------------------------------------
Sweep    == Remove \/ Kill \/ \E e \in Experiments : Orphan(e) \/ Condemn(e) \/ Spare(e)
Allocate == \/ ReadQueue \/ Launch \/ EndTick
            \/ \E e \in Experiments : Defer(e) \/ Admit(e)
Watchdog == Boot \/ Tick \/ Sweep \/ Allocate

Attempt(e) == \/ GiveUp(e) \/ RunContainer(e) \/ NoLaunch(e) \/ Succeed(e) \/ Save(e)
              \/ Fail(e) \/ Debug(e) \/ DebugFails(e)
Runner(e)  == Attempt(e) \/ Record(e) \/ Announce(e) \/ Crash(e)

Next == \/ Watchdog \/ TickFails \/ HumanMark \/ Die
        \/ \E e \in Experiments : \/ \E d \in Designs : Queue(e, d)
                                  \/ RejectDraft(e) \/ Runner(e)
                                  \/ RunnerRaises(e) \/ HumanKill(e) \/ Expire(e)

(* Fairness: the process is restarted, the watchdog ticks and its calls     *)
(* return, and so do a runner's: a container ends within its wall clock, an *)
(* LLM call within its timeout.                                             *)
Fairness == WF_vars(Watchdog) /\ \A e \in Experiments : WF_vars(Runner(e))

Spec     == Init /\ [][Next]_vars
FairSpec == Spec /\ Fairness

-----------------------------------------------------------------------------
TypeOK ==
  /\ status \in [Experiments -> Status]
  /\ design \in [Experiments -> Designs \cup {"none"}]
  /\ events \subseteq Experiments \X {"completed", "failed"}
  /\ container \in [Experiments -> {"none", "up", "dead"}]
  /\ runner \in [Experiments ->
       [at : {"none", "ready", "container", "save", "debug", "record", "announce", "crashed"},
        lane : Lanes \cup {"none"}, attempt : 0..MaxIters,
        out : {"none", "completed", "failed", "killed"}]]
  /\ \A e \in Experiments : runner[e].lane = IF Owned(e) THEN Lane(e) ELSE "none"
  /\ reason \subseteq Experiments /\ drafts \subseteq {e \in Experiments : design[e] = "infeasible"}
  /\ wd \in {"off", "idle", "sweep", "remove", "kill", "allocate", "launch"}
  /\ todo \subseteq Experiments /\ pressure \in BOOLEAN
  /\ load \in [Lanes -> Nat]
  /\ target \in Experiments \cup {NoExperiment}
  /\ (target # NoExperiment) <=> (wd \in {"remove", "kill", "launch"})
  /\ switch \in Experiments \cup {NoExperiment}
  /\ mishaps \in 0..MaxMishaps

(* MAX_CPU and MAX_GPU hold at every moment, though allocate counts the     *)
(* runs once, before a loop of awaits in which runs end and are admitted.   *)
LanesBounded == \A l \in Lanes : Cardinality(InLane(l)) =< Cap[l]

(* What experiment.completed or experiment.failed said of a run stays what  *)
(* its row says, whoever kills, sweeps or restarts: the handlers of these   *)
(* events read the row later, and the closure ladder counts completed rows. *)
EventTellsTheRow ==
  \A e \in Experiments :
    /\ <<e, "completed">> \in events => status[e] = "completed"
    /\ <<e, "failed">> \in events => status[e] \in {"failed", "killed"}

(* A row never runs twice, is never revived, and once its run has failed it *)
(* is neither completed nor killed; a result is only ever lost to "runner   *)
(* crashed".  A kill may be overruled by the runner it did not reach.       *)
Edges == {<<"absent", "queued">>, <<"queued", "running">>,
          <<"queued", "killed">>, <<"queued", "failed">>,
          <<"running", "completed">>, <<"running", "failed">>, <<"running", "killed">>,
          <<"killed", "completed">>, <<"killed", "failed">>, <<"completed", "failed">>}
RowLifeKept ==
  [][\A e \in Experiments :
       status'[e] # status[e] => <<status[e], status'[e]>> \in Edges]_vars

(* What runs ends: through its runner, or through the sweep of a process    *)
(* that does not know it, after a crash at any step.                        *)
RunEnds == \A e \in Experiments : (status[e] = "running") ~> (status[e] \in Ended)

(* "Human kill switch - terminate a runaway experiment's container now and  *)
(* mark the row" (api/quartermaster.py): what was killed does not complete. *)
KillHolds ==
  [][\A e \in Experiments : status[e] = "killed" => status'[e] # "completed"]_vars
=============================================================================
