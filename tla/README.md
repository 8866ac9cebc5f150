# Lab Foundry: TLA+ models, checks and proofs

Lab Foundry is an autonomous research lab: LLM agents that talk through one Postgres event bus,
driven by one asyncio process (the *harness*) and a handful of clocks.  What the agents think is
not what these modules are about.  They are about the machine around it: which event is worked
when and how often, who owns a task, what a crash leaves behind, who may move a direction's
status or its confidence, and how a direction gets from "proposed" to an article without being
lost, judged twice or killed by accident.

Contents: 1 the system, 2 the modules, 3 the runs, 4 fairness, 5 the proofs, 6 where the code and its
texts disagree, 7 what is not modelled, and the plan.

## 1. The system

| Component | State | Operations | What is hard about it |
|---|---|---|---|
| Event bus and dispatcher (`harness/dispatch.py`, `harness/main.py`, trigger `notify_event`) | rows of `events` (`pending`, `consumed`, `suppressed`, `failed`); coroutines; two levels of semaphores; the LISTEN connection | insert and NOTIFY, startup drain, sweep of old pending rows, gates, handler with a timeout, outcome write | nothing claims a row; outcome writes are unconditional; NOTIFY is lost while nobody listens; a crash at any point |
| Mode dial (`harness/agent_modes.py`) | `agent_modes`, a process-local cache with a TTL | read through the cache, set | read before a wait, used after it; a failed read falls back to "active" |
| Research task queue (`state/client.py` `claim_task`, `complete_task`, `fail_task`; `_reap_startup_orphans`, `_sweep_stale_tasks`, `_revive_stranded_tasks`) | rows of `tasks`, `task.created` events, the pump's lock | insert trigger, claim, finish, reap, sweep, pump | three recovery mechanisms that must not take a task from a live handler |
| Closure ladder and reopen rung (`_advance_research_closure`, `_declare_gap`, `_reopen_gapped_directions`) | nothing of its own: all is re-derived from events, tasks, experiments and claims | one step of the ladder per direction and tick; reopen of a gapped direction | reads and writes in separate transactions, with six kinds of actor in between |
| Direction lifecycle store (`advance_direction`) | `claims.status`, reason, audit rows | the guarded status move | its lock protects only callers that are in a transaction |
| Researcher, critic, experiment interpretation (`agents/researcher`, `agents/critic`) | `claims.confidence`, verdict rows | read, judge, move the confidence | three read-modify-writes of one number across awaits |
| Web fetch (`library/ingest/fetcher.py`) | page cache, a gate per host, a browser semaphore | fetch, batch fetch, render | gates given back only on the branches that name the exception |
| Planner (`agents/planner`) | - | plan a direction, refill its tasks | counts and inserts while others do |
| Ariadne, pacemaker, gate (`agents/ariadne`, `harness/ariadne_pace.py`) | missions, directions, `direction_gate`, last-fired stamps | deliberate, reflect, adjudicate, auto-approve up to a budget, ask for each step of the march | long handlers beside a two-minute sweep; budgets; daily keys |
| Loop engine, synthesis, audit (`harness/loop_engine.py`, `agents/synthesis`, `agents/evaluation`) | findings, interpretation marks, audits | interpret, synthesize, audit, attack, re-arm what was lost | one-shot keys; every handler may run twice |
| Quartermaster and experiments (`harness/quartermaster.py`, `agents/experiments/`) | `experiment_runs`, the in-memory map of runs, kill reasons, containers | allocate, run and debug, kill, reap orphans | runner crash, restart, a kill racing a result |
| Mimir and the Library (`agents/mimir`, `library/`) | documents, certificates, chunks, cursors, seen-ledger | discover, request, stage, certify, embed, reply | one paper under two keys by two callers; outages that look like an empty field |
| Router, GPU lock, broker (`harness/router.py`, `llm_broker.py`) | permits, a lock per local model, cost ledger, `agent_runs` | invoke, charge, fall back, downgrade | a cancellation between two awaits; parallel calls past a cap |
| Lessons and reflection (`skills/client.py`, `agents/reflection`) | lessons, applications, credits | recall, derive, judge, promote, retire, decay | two writers of one piece of evidence; a judge slower than the run it judges |
| API, web, ops, eval, deploy, graph projection, memory client, legacy PI agent | - | views, reports, unit files | not modelled, see section 7 |

The components meet in four places.  *Events*: any agent inserts a row, the dispatcher calls the
registered handler.  *Tasks*: planner and ladder insert, the trigger emits `task.created`, a
researcher claims.  *Claims*: everybody moves a direction through `advance_direction` and
`update_claim_confidence` (or, when Ariadne re-frames the agenda, by one bulk update).  *Clocks*:
the watchdog tick (5 minutes), the pacemaker, the loop engine, the quartermaster and the
discovery pump re-derive lost work from the tables.

What makes each correct:

* dispatcher: at-least-once handling; no permit leaks; a pause holds; cooldowns throttle;
* task queue: one live handler per task; a verdict is final; every task ends; the pump does not flood;
* closure: one retry at a time; a gap only after the field was looked at; every thin direction is settled;
* lifecycle: legal edges only, whoever writes;
* standing: literature alone never lifts a direction past its ceiling; the lab's own words are no evidence;
* spine: a run moves a confidence once, evidence is synthesized once, lost links are re-made;
* agenda and march: one mission stands, what passes is approved, and an approved direction is carried to its end;
* experiments: one runner per row, the caps of the lanes, what runs ends, an announced end is the end;
* library: what is searchable was approved; a reply tells the verdict; requests are answered;
* router: permits are accounted for, spend is bounded, waiters are served;
* lessons: a run counts once, a failed run never; probation ends;
* discovery: a source that tarpits is left alone; the walk over the catalogue goes on.

## 2. Modules

| Module | What it is | Models |
|---|---|---|
| `EventContract` | abstract: what the bus promises an emitter | - |
| `Dispatcher`, `DispatcherProofs`, `MCDispatcher` | the dispatcher, its gates, semaphores, dial, crash and restart | `dispatch.py`, `agent_modes.py` |
| `TaskQueue`, `TaskQueueProofs`, `MCTaskQueue` | tasks, triggers, handlers, recovery, pump | `state/client.py`, `dispatch.py`, `grounded_handler.py` |
| `DirectionLifecycle` | abstract: the legal life of a direction | `state/client.py` |
| `Closure`, `ClosureProofs`, `MCClosure` | one direction, the ladder, the reopen rung and everybody who touches the direction | `dispatch.py`, `feedback.py`, `state/client.py` |
| `Quartermaster`, `QuartermasterProofs`, `MCQuartermaster` (`MCExperiments.cfg`) | experiment rows, the watchdog, the runners, the containers, the kill switch | `harness/quartermaster.py`, `agents/experiments` |
| `Spine`, `MCSpine` | from the end of an experiment to the audited finding | `loop_engine.py`, `agents/synthesis`, `evaluation`, `experiment_interpret.py` |
| `Agenda`, `MCAgenda` | pacemaker, deliberation, reflection, adjudication, gate | `ariadne_pace.py`, `agents/ariadne`, `agents/novelty` |
| `March`, `MCMarch` | an approved direction's way to its article | `ariadne_pace.py`, `agents/planner`, `scholarship.py` |
| `Library`, `LibraryProofs`, `MCLibrary` | how a source enters the corpus | `agents/mimir`, `library/ingest`, `library/trust`, `library/corpus` |
| `Discovery`, `MCDiscovery` | who asks for a sweep, which page it reads, what it tells | `collectors.py`, `mimir/handler.py`, `scouts.py` |
| `Fetcher` | one page through cache, gate, browser | `library/ingest/fetcher.py` |
| `Standing`, `StandingProofs`, `MCStanding` | one confidence, three kinds of handler, the pages they read; EXTENDS `Fetcher` | `agents/researcher`, `agents/critic`, `feedback.py` |
| `Router`, `RouterProofs`, `MCRouter` | loops, calls, caps, permits, model locks, sweep | `harness/router.py`, `session.py`, `llm_broker.py` |
| `Lessons`, `LessonsProofs`, `MCLessons` | the notebook and its hourly reconciliation | `skills/client.py`, `agents/reflection`, `curator.py` |

The exact lines behind every definition are in `PROJECT.json`, "map".

How they stack.  `EventContract` is what every other module assumes of the bus: an event is pending
until a handler call settles it, a second call may start while one is at work, and the process may
die.  `Dispatcher` implements it (run `dispatcher`, theorem `ContractKept`).  `TaskQueue`, `Spine`,
`Agenda`, `March`, `Library` and `Discovery` are written against it: their `Take` leaves the event
pending until the call settles it, which is why two calls on one event happen in all of them.
`Closure` stands on `TaskQueue` (a queued task ends) and implements `DirectionLifecycle`.
`Standing` is composed with `Fetcher`: the critic's pages come through the gates that Mimir's
scouts use, and what a page says decides what a verdict may cite.  `March`
sees of `Quartermaster` and `Spine` only that runs end and evidence is synthesized.

### Dispatcher

`run()` is `phase`: *down*, *boot* (the watchdog runs, the listener does not), *listening*,
*ready*, and *deaf* when run() or its connection has died while the watchdog lives.  `Emit` is an
INSERT with its NOTIFY; `Drain`, `Sweep` and the NOTIFY create coroutines (`queued`).  A
coroutine is a `Wakes` slot: `Wake` is its first read, `Suppress`/`Admit` the gates, `TakeLane`
and `StartHandler` the two semaphores, `HandlerReturns`/`HandlerRaises` the handler (a timeout is
a raise), `Consume`/`Fail` the outcome write with the release of both permits in one step, as no
other coroutine runs between the two releases.  `GateError`, `ConsumeError` and `FailError` are
a failing statement in each of these places; `Die` is a crash or a shutdown.  `missed` is a
history variable: rows whose wake-up is lost in a way the code knows of; `NoLostWakeup` says
there is no other way.

### TaskQueue

A handler goes `idle`, `begun` (it has its event), `busy` (it holds a claimed task), `ret` (it
has returned, the dispatcher's write is due).  Time is `Tick`: every claim and every handler gets
older together, and it does not tick past a handler's timeout, since `wait_for` cancels it there
(`Abandon`).  The pump is three steps per caller (count tasks, count triggers, insert one row at
a time) under `_revive_lock`.  `raced` remembers the tasks the startup reap took from a live
handler (section 6); the properties about ownership are about the others.

### Closure

One approved direction.  Its tasks are the newest one (`latest`: who queued it, what came of it)
and counts of older open ones; timestamps are kept as the answers the ladder asks of them
(`acquires`, `scout`, `settle`, `recent`).  The watchdog's pass is `wd`: `Look` (candidate
query), `ReadLatest`, `Judge` (the ladder's evidence queries and the one statement they lead to),
`Guard`, `Gap`; and `Spot`, `Recheck`, `Flip`, `RequeueReopened` for the reopen rung, each a
statement that commits by itself because the watchdog's connection is in autocommit.  Between any
two of these the researcher, the planner, an experiment, the synthesis, Ariadne, the critic,
Mimir and time may step.  `Die` ends a pass anywhere.  The evidence queries inside `Judge` are one
step: what they look for is only added to by others while the ladder looks, so a pass that reads
them one by one does what a pass at one of these instants could have done.

### Quartermaster

A row goes *queued*, *running*, and *completed*, *failed* or *killed*; an infeasible design is a row
without code that its designer fails with a second statement (`Queue`, `RejectDraft`).  `wd` is
where the watchdog is: `Tick` reads the running rows, then one row at a time `Orphan`/`Remove`,
`Condemn`/`Kill` or `Spare`; `ReadQueue` reads the queued rows and counts the lanes, then `Defer`
or `Admit`, and `Launch` after the claim's await.  Everything read stays as it was read (`todo`,
`load`) while the rows change.  A runner's `at` is its place in the session: *ready*, *container*,
*save*, *debug*, *record*, *announce*; *crashed* is its `except` branch.  The API's kill is two
steps of another process (`HumanKill`, `HumanMark`).  `Die` loses runners, reasons and the map;
containers go on until `Boot` removes them or they end (`Expire`).  A database error is a
statement that did not run; the dial, the headroom and the GPU's memory are one reason to defer.

### Spine

`run` and `noted` are the experiments and which were interpreted, `moved` counts how often each moved the
confidence, `findings` is a sequence with what each was composed on.  An event is a record with its key
(`once` or `daily`); `keys` are the dedup keys used up.  A handler reads at `Begin...` and writes
in a later step (`Mark`, `MoveConfidence`, `PersistFinding`, `RecordAudit`), so that two calls cross.  `Rearm` is the loop engine or, with `Engine` FALSE, the
watchdog's rung: what is due is re-derived from the tables, `RearmCap` per tick, once a day per item.

### Agenda and March

A member of `Dirs` in `Agenda` is a place for one direction.  `Tick` is the pacemaker: it fills the free
slots of the gate with directions that passed, asks for adjudication of the others, and decides on deliberate or
reflect from the indicators and a cooldown.  A deliberation reads the missions (`BeginPersist`) and supersedes and inserts
in a later step (`Persist`), so that a call swept up twice supersedes what it saw and inserts its own.  `SetGate` is the operator.

`March` numbers the directions in the order of their ids, because the code takes the lowest id first.  `Tick` asks for the
one thing the arc wants next: a plan, the review, the proposal, an experiment, the article; keys are by day or by
six-hour bucket (`NextBucket`).  A call may end well, badly, partly or not at all.

### Library and Discovery

`row`, `certs`, `queryable`, `graph` are a document's row, its trust certificates, whether its chunks are
searchable, its node.  A call goes through `Adjudicate`, `Stage`, `Judge`, `Certify`, `Finalize`, one committed write each; `PaperOf` makes two
keys one paper.  `Reconcile` registers the lab's notes that have no row.

In `Discovery` `newest[t]` is how many submissions topic t has.  A sweep moves the cursor (`Refresh`, `Deepen`), reads one page per topic
of its slice behind `cooling` (checked before the lock is waited for) and `holder` (the lock), and tells what neither the corpus nor the
seen-ledger holds, in that order: a crash in between skips the page until the walk comes round.

### Standing and Fetcher

A fetch goes *asked*, *queued* (a cache miss waits for its host), *holding*, *shell* and *rendering*, *read* or *blocked*, and ends as
*page*, *empty*, *nothing* or *raised*; `gate` says which fetch has the host.  A task's record carries what its handler has read (its retrieved documents, its citations, the
confidence it saw) from the await where it read it to the statement that uses it; likewise a review
and a report.  `peak` is a history variable: the highest confidence an experiment had earned.

### Router

The loops are scripts of stages; a stage's calls run abreast.  A call is *ready*, *cloud*,
*permit* (waiting for `GPULock._global`), *model* (waiting for the lock of its model with a permit in
hand), *local* (inside the try that gives both back), then *returned*, *raised* or *gone* (cancelled).
`Timeout` is the dispatcher's cancellation of a whole handler, wherever its calls stand; `lost` counts
the permits that go with it between the two awaits.  `Sweep` is the watchdog's failing of old rows.

### Lessons

`applied[l][r]` is the row of lesson l and run r (*none*, *open* or an outcome), `credited[l]` the
runs whose reflection derived l again.  A run of a loop is asked, answered and completed or failed in separate steps; the judge reads
in one step and writes in a later one; `Find` and `Persist` are the two statements with which reflection looks for a twin and then acts.

## 3. Runs

One cfg per module that is checked, safety and liveness together.  Sizes are distinct states.

| Run | Instance | States | Properties |
|---|---|---|---|
| `dispatcher` | a high-signal finding (its lane and the pool have one permit, its agent a dial and a cooldown) and a row without handler; drain cap 1, sweep limit 1, two coroutines, one mishap of six kinds (die, deaf, database, dial, cost, slop) | 119,985 | `PermitsConserved`, `NoLostWakeup`, `ImplementsContract` (the refinement, with liveness) |
| `taskqueue` | a research task and one of a department nobody works for, two handlers, three triggers, timeout = horizon = 1 tick, two mishaps | 327,658 | `Exclusive`, `NoExcessTriggers`, `VerdictStands`, `EveryTaskEnds` |
| `closure` | synthesis at 1 experiment, saturation at 1 re-look, stuck after 2, one refill, one mishap | 710,776 | `OneRetry`, `LifecycleKept` (refinement), `LadderSawTheField`, `ThinIsSettled` |
| `experiments` | two experiments, one place in each lane, two attempts, one mishap | 331,529 | `LanesBounded`, `EventTellsTheRow`, `RowLifeKept`, `RunEnds` |
| `spine` | two runs, which are just enough evidence, loop engine on, two calls at once, one mishap | 176,719 | `MovesCounted`, `SynthesizedOnce`, `RunsInterpreted`, `FindingsAudited` |
| `agenda` | one place for a direction that clears the floors, budget 1, a human who may approve, two calls, one look, one mishap | 85,532 | `MissionsBounded`, `ExhaustedReframed`, `DirectionsJudged`, `PassedApproved` |
| `march` | one direction, coverage 1, cap 2, two calls, two requests, one confirmation, one mishap | 39,160 | `ApprovedProposed`, `Marched`, `SettledWritten` |
| `library` | two keys of one paper, one note, one request that may be held, two calls, one mishap | 171,049 | `SearchableApproved`, `RepliesTruthful`, `RequestsAnswered` |
| `router` | a critic with two pages, an auditor with one finding, a debugger, a brokered guest; two permits, every cap 1, one handler at once, one mishap | 291,699 | `PermitsAccounted`, `SpendBounded`, `LocalServed` |
| `lessons` | one idea of the loops and one of Ariadne, each inserted up to twice; a step, a plan, two reflections and a batch; promotion at 2, retirement at 1 | 642,330 | `CountedOnce`, `SupportFromSuccess`, `ProbationEnds` |
| `discovery` | one topic that is also a claim's, two submissions, two sweepers, offset up to 1, cooldown after 1 failure, one mishap | 233,760 | `LeftAlone`, `WalkGoesOn` |
| `standing` | a task, a review with two pages and a report on a scale 0..2 with the ceiling at 1; a scout's fetch on the critic's host; one paper from outside, one document of the lab's, one invented title; one mishap | 1,580,384 | `LiteratureCapped`, `OwnWordsDontCount`, `GateAccounted` |

Why the bounds are enough to meet the cases:

* a pool and a lane of one permit make every second coroutine wait at both doors; drain cap and
  sweep limit of one leave a row behind; two coroutines can stand on one event, with one more queued;
* timeout equal to horizon is the code's default (both 30 minutes) and the tight case of
  `TimeoutWithinHorizon`; two handlers are enough for a task to be stolen, three triggers for the pump to over-emit;
* in `closure` one refill is enough to come between any two statements of the ladder, one crash to break a reopen in half;
* in `experiments` two rows for one place make the second wait for the first or share a sweep with it; two attempts have one debug between them;
* in `spine`, `agenda`, `march` and `library` two calls at once is one event worked twice, or two events that cross; `ResynthStep`
  and `EvidenceCap` one above the minimum make a second synthesis possible;
* in `library` two keys of one paper are enough for the twin that is found while the other is staged;
* in `router` two permits and one model that guest and debugger share (`qwen_coder`, which also serves the critic's pages) let a waiter hold a permit
  that another model's caller needs; a cap of 1 is reached by the first call, so that parallel calls pass it together;
* in `lessons` two generations are what a near-duplicate that was missed needs, and a threshold of 2 needs two different runs;
* in `standing` three read-modify-writes of one number on three steps of a scale meet every crossing; one host for all fetches makes them wait for each other.

`MaxMishaps` bounds crashes, errors, lost or repeated calls, outages and interventions together, at any step of the run; the
other bounds (`MaxQueued`, `MaxPlans`, `MaxRequests`, `MaxConfirms`, `MaxLooks`, `Depth`, `Generations`, `MaxTriggers`) are named where the modules declare them.
`CHECK_DEADLOCK FALSE` is said where the system may rest: a concluded direction, an answered request, a read page, a day without work.  No
symmetry is used in the runs, since all but one of them check liveness too.

Every property is paired in `PROJECT.json` ("mutants") with a bug the code could plausibly have, written beside the definition it replaces, and TLC finds
the property broken by it: a release of one semaphore only, a missing drain, a sweep one tick early, a pump without its lock, a candidate
query without the open-task clause, a launch that is not counted, a re-arm that asks again for what was interpreted, a slot that counts live instead of approved directions, a document staged over the one that is there, a
verdict written after another call's, a cap compared with `>` for `>=`, a judge that takes the verdict as given, a cursor that only advances, a search
that returns the lab's own documents, a gate that is not released on a transport error.

## 4. Fairness

* `Dispatcher`: the event loop runs what is ready (WF of each step of a coroutine); `asyncio.Semaphore` is FIFO, so a
  waiter is not passed over for ever (SF of the two acquires); `wait_for` ends every handler; the watchdog ticks; systemd has
  `Restart=always` (WF of `Boot`).  A wake is SF because the number of coroutine slots is a bound of the model, not of the code.
* `TaskQueue`: the same, the pump's `asyncio.Lock` is FIFO (SF of `CountTasks`), and an event reaches a
  coroutine.  A handler gets on with its work; `Abandon` is a mishap, since nothing in the code bounds how often one task may time out.
* `Closure`: the watchdog's loop goes on, a queued task is worked, a queued sweep is handled, time passes.  The planner, the
  experiments, the synthesis, Ariadne and the field owe nothing.
* `Quartermaster`: the watchdog is enabled, its dial is not off for ever, its ticks go on and systemd restarts it; a runner goes on, as
  `run_in_container` kills what is over its wall clock and the router's calls time out.  Nobody owes a start nor a kill.
* `Spine`: a pending event is taken up and a call goes on; the engine or the watchdog re-arms, every day.
* `Agenda`, `March`, `Library`: the pacemaker (the watchdog) ticks, cooldowns, buckets and windows run out, a pending event gets its slot
  (SF of `Take`: the semaphore is a queue), a call goes on.  Nothing is assumed of the human, of the models' answers, of the corpus or the research; in `March` a
  call that is answered badly costs a mishap, but for the `Hopeless` directions.
* `Router`: the process does not stop while it has a step to take (WF of `Work`), and a handler that waits for a permit when
  all are lost times out.
* `Lessons`: the watchdog comes back and reconciles every hour.  Nothing is assumed of the runs and of the judge.
* `Discovery`: the pump looks every ten seconds, handlers run on, timers run out; who waits for the gate gets it (SF of `Send`: the lock is a queue).
  `WalkGoesOn` holds under `Busy`: pages are asked for while the window of the newest one is still open, again and again.
* `Standing`: none, safety only.

## 5. What is proved

All theorems are for every value of the constants, under the named assumptions of each module.  The runs show the
same properties on one small instance.

| Theorem | States | Argument |
|---|---|---|
| `DispatcherProofs!SlotsAccounted` | `[]PermitsConserved` | inductive with `TypeOK`; `LeavingSlot` is the one lemma about cardinalities, used by every exit |
| `WakeupsKept` | `[]NoLostWakeup` | strengthened: while *down* or *boot* the pending rows without coroutine are exactly what the drain will look for |
| `ContractKept` | `ImplementsContractSafely` | every step maps to a step of `EventContract` or stutters; `WorkIsReal`: a row is called consumed only after a handler call returned |
| `TaskQueueProofs!ClaimsExclusive` | `[]Exclusive` | `HeldSafely`: a claim is never older than its handler; with `TimeoutWithinHorizon` the handler is cancelled before the sweep would take its task |
| `VerdictsStand` | `VerdictStands` | from `HeldSafely`: `fail_task` is unconditional, but only the holder of a running task gets there |
| `TriggersBounded` | `[]NoExcessTriggers` | `PumpBounded`: pending triggers plus those a pump still means to emit do not exceed the rows, and only the holder of the lock means to emit |
| `ClosureProofs!Inductive` | `[]IInv` | `Types`, `RetryInv`, `SettledInv` |
| `LadderFiresOnce`, `GapAfterASweep`, `ImplementsLifecycle` | `OneRetry`, `LadderSawTheField`, `LifecycleKept` | from `IInv`, the last as a step simulation of `DirectionLifecycle` |
| `QuartermasterProofs!RunInvariant` | `[]IInv` | per row `RunnerTellsTheRow`, `LaunchTellsTheRow`, `EventsAreLast`, `DraftsAreRows` |
| `EventsTell`, `RowLife` | `EventTellsTheRow`, `RowLifeKept` | from `IInv` |
| `LaneBounds` | `[]LanesBounded` | `Counted` on top of `IInv` |
| `StandingProofs!GatesAccounted` | `[]GateAccounted` | `GateInv`: adds that a fetch for a later weak point is still idle and that who holds a gate holds its own host's |
| `LiteratureIsCapped`, `OwnWordsNeverCount` | `LiteratureCapped`, `OwnWordsDontCount` | `StandInv`: adds `ReadsEarned` and `CitesOutside` |
| `LessonsProofs!VotesOnce`, `FailureNeverSupports` | `CountedOnce`, `SupportFromSuccess` | `BookInv`: adds `InTheBook` and `CreditsAnswered` |
| `OutcomesStand`, `ActiveIsEarned` | `OutcomeStands`, `ActiveEarned` | `RowsStand`, what any step may do to the rows; from it support only grows |
| `LibraryProofs!SearchableIsApproved`, `RepliesAreTruthful` | `SearchableApproved`, `RepliesTruthful` | `LibInv`: `WorkInv` (below), `Replied`, `Emitted` |
| `LedgerAgreesAlways`, `OneDocumentPerPaper` | `LedgerAgrees`, `OneDocument` | parts of `WorkInv` |
| `RequestsAreKept` | `RequestsKept` | inductive: what settles the event of a request answers it or writes it off |
| `RouterProofs!PermitsAlwaysAccounted`, `ModelsServeOne` | `PermitsAccounted`, `OneCallPerModel` | `LockInv`: `Fields`, `InStage`, `Locks` |
| `LibraryProofs!LeavesAlone` | `LeftAlone` of `Discovery` | from the same invariant: the only step into the gate asks whether the source is cooling |
| `QuartermasterProofs!ConfidenceMovesCounted`, `EvidenceSynthesizedOnce` | `MovesCounted`, `SynthesizedOnce` of `Spine` | `SpineInv`: `CountedFor`, `EventsFit`, `CallFits` |
| `AuditsAreFinal`, `AuditComesFirst` | `AuditStands`, `AttackedAfterAudit` of `Spine` | `AuditInv` on top of `SpineInv`: `AboutFits`, `CallKnown`, `Armed` |
| `ClosureProofs!OneAgendaStands` | `MissionsBounded` of `Agenda` | `AgendaInv`: `Standing`, `Repeated` |
| `PassesStand` | `PassStands` of `Agenda` | `PassInv`: while there is no mishap, `Single` |
| `TaskQueueProofs!PlansAreLean`, `GiveUpCapHolds` | `PendingCapped`, `AttemptsBounded` of `March` | `MarchInv`: `Stacked`, `GivenUp` |
| `RouterProofs!SpendStaysBounded` | `SpendBounded` | `SpendInv` on top of `LockInv`: `WithinReach` |
| `FailuresStand` | `FailedStands` | `FailedDead` |
| `LessonsProofs!RetirementIsFinal` | `RetiredStands` | from `BookInv`: promotion, retirement and decay pick by status, an insert takes a lesson that is not there |
| `LibraryProofs!PumpStaysLow` | `PumpBounded` of `Discovery` | `PumpInv`: what is pending is finite, and the pump's part of it |
| `LibraryProofs!DiscoveryTypeCorrect` | `TypeOK` of `Discovery` | inductive with `AtTopic`: a page that is answered is one that was asked for; `PlanTopics`: a slice is of the frontier |
| `QuartermasterProofs!SpineTypeCorrect`, `TaskQueueProofs!MarchTypeCorrect`, `ClosureProofs!AgendaTypeCorrect` | `TypeOK` of `Spine`, `March`, `Agenda` | from `SpineInv` and `AuditInv`; from `MarchInv`; from `AgendaTyped`, on top of `AgendaInv` |
| `TypeCorrect` (every module that has a proof module; `Types` in `QuartermasterProofs`) | `[]TypeOK` | from the same invariants |

Why the strengthenings are needed:

* `OneRetry` is not inductive: from a state with an open retry and a pass in mid-ladder the next insert would make two.  `RetryInv`
  adds that no retry is open while the watchdog is between its candidate query and its insert, nor while the direction is gapped, and that a
  pass that reopens is a pass over a gap.  `SettledInv`: a settle taken for coverage comes from a sweep that scanned something.
* `EventTellsTheRow` needs the runner's whole history: until its verdict is written the row of a runner is running, or killed under it, or
  failed by its designer (`Undecided`); between verdict and event it says the verdict; once the event is out no runner and no launch
  stands behind the row (`EventsAreLast`).  `Counted`: while `allocate` works, the runs in a lane are no more than it thinks.
* `LiteratureCapped` would be lost by a handler that writes on an old read.  `ReadsEarned` says that what a task or a review has read, and is about to
  move from, is at most the ceiling or was earned by an experiment; `peak` never falls, so an old read stays earned, and `Steered` takes the maximum
  with the read value only where it caps.  `CitesOutside` carries the shape of the citations from the judgement to the move.
* `GateAccounted` is about a lock without owner.  A fetch queues only for its own host, and the fetches of a review start one weak point at a time,
  so no step can put a fetch back to the start while it has a gate.
* `CountedOnce` relates rows that two paths write.  `InTheBook`: what a prompt or a reflection refers to exists; `CreditsAnswered`: a run is credited only
  once its model has answered and its rows are in, so that the check for a row cannot be too early.
* `SearchableApproved` needs every call's progress: `Progress` says, per call and step, what row, verdict and chunks its document has; `OneWorker` that two
  calls beyond staging never work the same document from its start, `OneVerdict` that the ledger has one entry, `ShownApproved` that the flip
  follows the approval.  The same invariant gives `OneDocument`: of two copies of a paper that are inserted at once the unique index refuses one.
* `PermitsAccounted` needs to know who holds what: a lock's holder is inside on the model it locks (`HoldersIn`), and a call under way belongs to the stage its
  handler is in (`InStage`), so that a restart, which clears the lock, leaves nobody behind that would give back what the new lock never lent.
  `LeavingKeeps` is the one lemma about cardinalities, shared by a call's end and a handler's cancellation.
* `MovesCounted`: a call that has marked is past the check that would stop it, and one that has not will pass it, so that moves alone cannot be bounded.
  `CountedFor` bounds, per run, the moves made, the calls that are still to move (`Moving`) and the one that is owed without a mishap (`Owed`: the event
  of the run is untouched, or there is none and the run is not noted).  `EventsFit` says that no run has two pending events, so that one is owed at most.
* `SynthesizedOnce`: `SawAll` keeps what the handler checked when it looked: no finding of that moment rests on as many runs as it does.  Findings are only
  appended.  `MaxOf` (a bounded, non-empty set of naturals has a largest element) turns the handler's maximum into that statement.
* `MissionsBounded`: a mission survives when the deliberation that should end it looked before it was inserted.  `Standing` says of every set Q of
  deliberations about to write: the missions that none of Q has seen, and one per member of Q, are no more than one and the mishaps.  A write
  takes its call out of Q and puts its mission in.  A new call adds one to Q and has seen all missions there are; `Repeated` pays for it: only a repeated
  call, a mishap, stands beside the one in charge of the event.  Calls are compared over a step by an injection (`From`), since a settle or a vacated
  place changes records in place.
* `PassStands` is about two calls that judge the same direction.  `Single` says that there are none while nothing has failed or been repeated: one call of a
  type, in charge of its event, and never both kinds of adjudication pending, because both drivers ask `AdjudicatePending` first; and that a direction which the call
  has yet to judge has not passed, because it had not when the call read it and nobody else can have judged it.
* `TypeOK` of `Agenda`: a verdict may be written only on a direction that lives, so `AgendaTyped` says that of everything a call has yet to judge; that what
  a tick will emit is an event; and that a call has seen finitely many missions, so that a new one finds a number.
* `SpendBounded`: the counter is read when a call is routed and raised when its answer has come.  `WithinReach` adds to the charges of a tier the calls of it that are in the
  cloud now: together they pass the cap by no more than the places its stages have, and what was `Lent` to the workhorse.  A new stage finds its handler's places
  empty; a call is let in only below the cap.  The places are a set, so that the bound is a cardinality.
* `FailedStands`: `FailedDead`, no call of a timed handler is alive once its row is failed.  It uses what the model says of the sweep's 30 minutes (`SweepDue`): no handler
  with a timeout lives as long.
* `AuditStands` and `AttackedAfterAudit`: `AboutFits`, an event about a finding is about one that exists, and one that arms the critic is about one that passed; `CallKnown`
  says it of the calls.  The critic's verdict counts every finding there is when it is written, among them the one that armed it.
* `AttemptsBounded` counts what was tried, is asked for and is under way.  A request that an open call works counts twice, as event and as call: `Taken`, on the right
  side of `GivenUp`, takes one of the two out.  `Stacked` bounds confirmations, and calls whose event another one has consumed, by `confirms` and the mishaps.
* `PumpBounded`: the pump counts what is pending before it asks, so its own part of that is at most the low water, unless its probe failed (a mishap).

`Spine`, `Agenda`, `March` and `Discovery` have no proof module of their own: their theorems stand at the end of the module of the component they touch, about an
instance of the specification (`Sp`, `Ag`, `Ma`, `D`) whose constants and variables are declared there, so that they hold for every value of them too.  What
a specification assumes of its constants is then a hypothesis of the theorem (`Sp!SpineAssumption`, `Ag!AgendaAssumption`, `Ma!MarchAssumption`,
`D!DiscoveryAssumption`); `OneAgendaStands` needs none.

Assumptions: `DispatcherAssumption`, `TaskQueueAssumption`, `ClosureAssumption`, `QuartermasterAssumption`, `FetcherAssumption`,
`StandingAssumption`, `LessonsAssumption`, `LibraryAssumption`, `RouterAssumption` and `UsersAssumption` (the constants are what they should be; the sets of
handlers, calls and runs are disjoint where they are different things in the code, and those that a stage goes through are finite), and `TimeoutWithinHorizon`.  The last is the comment at
`dispatch.py` 107-108; the code does not enforce it: `HANDLER_TIMEOUT_S` is an environment variable and the sweep's 30 minutes are a literal.  With a longer timeout `Exclusive` is false.

Only model-checked:

* every liveness property (`ImplementsContract`'s liveness, `EveryTaskEnds`, `ThinIsSettled`, `RunEnds`, `RunsInterpreted`, `FindingsAudited`,
  `ExhaustedReframed`, `DirectionsJudged`, `PassedApproved`, `ApprovedProposed`, `Marched`, `SettledWritten`, `RequestsAnswered`, `LocalServed`,
  `ProbationEnds`, `WalkGoesOn`): fairness and ENABLED are out of the prover's reach.

Every safety property that a run checks is proved.

## 6. Where the code and its texts disagree

TLC finds each of these when the named definition is added to the module's cfg (with the instance given, if it is another one).

* `PauseTakesEffect` (`Dispatcher`): "a mode change takes effect within this window" (5 s, `agent_modes.py` 45), but the dial is read before the wait for a
  slot (`dispatch.py` 416), which can take as long as the handlers ahead.
* `ReapsOnlyOrphans` (`TaskQueue`): "a freshly started harness has no runs in flight" (`dispatch.py` 618); its listener and its watchdog are already up when the reap runs (365).
* `NoBlindGap` (`Closure`): the ladder refuses to take an unsettled or blind sweep for an empty field (`dispatch.py` 1053-1054); the researcher's own escalation
  asks only whether a sweep was *requested* (`feedback.py` 98), and the ladder then declares the gap.
* `GapSparesSynthesis` (`Closure`): the guard that spares a direction with a finding (`dispatch.py` 961), and the write of the gap, are two transactions.
* `KillHolds` (`Quartermaster`): the kill switch (`api/quartermaster.py` 175-176) stops the container and marks the row, but the harness is not told: the session takes
  it for a failed attempt, debugs it, launches again, and its unconditional update puts *completed* over *killed*.
* `UnauditedReissued` (`Spine`): the comment at `loop_engine.py` 242-245 against the condition at 249.
* `ReframeSparesCommitted` and `ParkedReframed` (`Agenda`): `ariadne_pace.py` 436 and `persist.py` 141; `ariadne_pace.py` 447, 452, 487.
* `OneInFlight` (`March`): one request of a direction at a time (`ariadne_pace.py` 253-262), but a late call leaves two open (307).
* `NotesCarried` (`Library`): the reconciliation takes up notes that have no row (`dispatch.py` 1165-1180), not those whose embedding failed.
* `BoundedByCalls` (`Router`): "bounded only by the global semaphore" (`router.py` 331-337): a call cancelled between the two awaits (359) keeps its permit
  until the process ends; `MaxInFlight` such cancellations stop all local calls.  The comment at 320-321 ("Same model → run
  concurrently") says the opposite of docstring and code.
* `AppliedWasRecalled`, `NoTwins` (`Lessons`): the module's list of recalled lessons is shared by Ariadne and the planner; find and insert are two connections.
* `SeesWhatIsThere`, `EveryTopicWalked` (`Discovery`): all topics share one offset, and slices rotate independently of it.
* `NeverDragged` (`Standing`): "never drag down a direction already above it" (`feedback.py` 215-216) holds for the value that was read; a stale read overwrites an experiment's raise.
* `GatesComeFree` (`Fetcher`): a cancellation, or an exception that is not httpx's, under the gate wedges the host for the life of the process (`fetcher.py` 305-324).

Without a property, because reading two lines shows it: the critic's handler sets the cooldown `critic.kill_verdict` (`critic/handler.py` 158-160) while the gate
of its event looks up `critic.attack` (`dispatch.py` 58-73), and the planner's ten minutes are set for target 0 while `queue.empty` has no target: neither throttle
is ever in force (`Dispatcher` models the keys as they are).  `rearm_attack_research` asks for `supported = 'yes'`, which no writer writes.  Past 30 completed runs the re-arm finds a direction due every day and the handler
skips it (`state/client.py` 1325).  A human's rejection is overwritten by the auto-approval of the same tick (`ariadne_pace.py` 112-118).  A failed task is never retried ("Watchdog handles retry decisions",
`state/client.py` 486), attempts are not counted (`dispatch.py` 1680), bulk intake is in a lane without cap (300), a debug fix may turn a CPU run into a GPU run (`session.py` 182).  A downgraded
reasoning call ignores the workhorse tier's cap.  `Embedder` and the benchmarks make GPU locks of their own, and `llm.py`'s fallback takes none.  `discovered-*`, `acquire.requested` and `invalidate-*` keys are one-shot for ever.

Further properties that the modules define and that hold, but that no run spends its time on: `LedgerAgrees`, `OneDocument`, `RequestsKept`, `OutcomeStands`, `ActiveEarned`, `RetiredStands`, `OneCallPerModel`,
`FailedStands`, `AuditStands`, `AttackedAfterAudit`, `PassStands`, `PendingCapped`, `AttemptsBounded` and `PumpBounded` (proved); `RunsSettle`, `EvidenceSynthesized`, `NotesRegistered`, `Announced`.

The hazards in `PROJECT.json` list what is hard to test in this code, with the property that watches it or why there is none.

## 7. Not modelled, and the plan

Out of reach or not worth a model: prompts and LLM content, parsing and embedding, retrieval quality, the views and reports, the Neo4j projection (a best-effort copy of
Postgres rows, but for a document's node), the memory client, the stream hub.  Dormant code: the legacy researcher loop, the market PI, the market-era evaluation, the adversary's single-shot path.
Left out of modelled parts: the audit rows and lifecycle events of `advance_direction`, the planner's refill on `queue.empty` over many directions, the indicators and notices of the watchdog.

Next:

1. An abstract specification of a worked request (asked, worked at least once, answered) that `Library`, `Spine` and `March` implement.
2. Two directions in `March` (head of line), two places in `Agenda`, as larger instances when time allows.
