------------------------------- MODULE Closure -------------------------------
(***************************************************************************)
(* The closure of one gate-approved research direction: the watchdog's     *)
(* ladder (thin corpus, acquire, targeted sweep, retry, gap), the reopen   *)
(* rung, and the actors whose steps fall between its statements: the       *)
(* researcher, the planner, Mimir, the experiments, the synthesis and      *)
(* Ariadne.                                                                *)
(*                                                                         *)
(* Simplifications:                                                        *)
(*  - timestamps are kept as what the ladder asks of them (is a sweep      *)
(*    overdue, did the settle come after it, has it had its 20 minutes);   *)
(*    the bounds are environment variables, so they pass in any order;     *)
(*  - the acquires a round fires are one batch with one outcome;           *)
(*  - of the tasks only the latest by id matters to the ladder, of the     *)
(*    others whether they are open and who queued them;                    *)
(*  - the evidence queries of a ladder step and the one statement they     *)
(*    lead to are a step: what they look for is only ever added to, or     *)
(*    written by the ladder itself;                                        *)
(*  - the gate's approval stays, the researcher's dial stays on.           *)
(***************************************************************************)
EXTENDS Naturals

CONSTANTS
  SynthMin,    \* SYNTHESIS_MIN_EXPERIMENTS
  Relooks,     \* THIN_CORPUS_SATURATION_RELOOKS
  StuckAfter,  \* direction_is_thin_stuck: n
  TaskCap,     \* PLANNER_MAX_TASKS
  MaxQueued,   \* bound on sweep requests in the bus
  MaxPlans,    \* bound on the planner's refills
  MaxMishaps   \* bound on crashes, outages and errors

ASSUME ClosureAssumption ==
  /\ SynthMin \in Nat \ {0} /\ Relooks \in Nat \ {0} /\ StuckAfter \in Nat \ {0}
  /\ TaskCap \in Nat \ {0} /\ MaxQueued \in Nat \ {0}
  /\ MaxPlans \in Nat /\ MaxMishaps \in Nat

VARIABLES
  status,    \* claims.status
  ground,    \* invalidation_reason: "none", "gap" or "other"
  latest,    \* the newest task: who queued it and what became of it
  planned,   \* older open tasks of the planner
  retries,   \* older open tasks of the ladder
  thin,      \* thin_corpus verdicts in a row, up to StuckAfter
  relooks,   \* those since the last sweep request, up to Relooks
  done,      \* completed experiments, up to SynthMin
  recent,    \* too few yet, and the last is within CLOSURE_COVERAGE_DEFER_MAX_MIN
  finding,   \* a research_findings row exists
  acquires,  \* the last batch: "none", "recent" or "stale"
  fetched,   \* acquire.fulfilled since the latest task completed
  replies,   \* two days of acquire replies: "few", "known" or "fresh"
  scout,     \* the last sweep request: "never", "recent" or "late"
  queued,    \* sweep requests Mimir has not handled
  today,     \* today's sweep key is used
  settle,    \* the newest settle since it: "none", "blind", "seen", "ripe"
  saw,       \* history: a targeted sweep has settled with scanned > 0
  news,      \* enough new documents since the gap
  wd,        \* the watchdog's pass over this direction: where it is, the stage
             \* of the task it read
  plans, mishaps

lifeVars  == <<status, ground>>
taskVars  == <<latest, planned, retries, thin, relooks>>
workVars  == <<done, recent, finding>>
fetchVars == <<acquires, fetched, replies>>
sweepVars == <<scout, queued, today, settle, saw>>
vars == <<status, ground, latest, planned, retries, thin, relooks, done,
          recent, finding, acquires, fetched, replies, scout, queued, today,
          settle, saw, news, wd, plans, mishaps>>

Lifecycle == INSTANCE DirectionLifecycle
Active == Lifecycle!Active
Stages == {"planner", "acquire_retry", "scouted_retry", "reopened"}
Dispositions == {"open", "thin", "exhausted", "other", "failed"}
Steps  == {"idle", "look", "judge", "guard", "gap", "reopen", "flip", "requeue"}

Open(t)  == t.disp = "open"
NoneOpen == ~Open(latest) /\ planned = 0 /\ retries = 0
OpenRetries == retries + (IF Open(latest) /\ latest.stage # "planner" THEN 1 ELSE 0)
Capped(n, cap) == IF n < cap THEN n + 1 ELSE cap
Resting  == [at |-> "idle", stage |-> "planner"]
Mishap   == mishaps < MaxMishaps /\ mishaps' = mishaps + 1

Init ==
  /\ status = "proposed" /\ ground = "none"
  /\ latest = [stage |-> "planner", disp |-> "open"]
  /\ planned = 0 /\ retries = 0 /\ thin = 0 /\ relooks = 0
  /\ done = 0 /\ recent = FALSE /\ finding = FALSE
  /\ acquires = "none" /\ fetched = FALSE /\ replies = "few"
  /\ scout = "never" /\ queued = 0 /\ today = FALSE /\ settle = "none" /\ saw = FALSE
  /\ news = FALSE
  /\ wd = Resting /\ plans = 0 /\ mishaps = 0

-----------------------------------------------------------------------------
(* Rows.                                                                   *)

\* INSERT INTO tasks: the new row is the latest, an open one becomes older.
AddTask(stage) ==
  /\ latest' = [stage |-> stage, disp |-> "open"]
  /\ planned' = IF Open(latest) /\ latest.stage = "planner" THEN planned + 1 ELSE planned
  /\ retries' = IF Open(latest) /\ latest.stage # "planner" THEN retries + 1 ELSE retries

\* A bug: the edge is not looked up.
MoveAnywhere(to, why) ==
  /\ status' = to
  /\ ground' = IF to = "invalidated" THEN why ELSE "none"

\* advance_direction: a legal edge, or nothing at all.
Move(to, why) ==
  IF to \in Lifecycle!Legal[status]
  THEN /\ status' = to
       /\ ground' = IF to = "invalidated" THEN why ELSE ground
  ELSE UNCHANGED lifeVars

-----------------------------------------------------------------------------
(* The researcher, the planner, the experiments, synthesis, Ariadne.       *)

\* refine_disposition of a thin_corpus verdict.
Refined ==
  IF scout # "never" /\ (replies = "known" \/ (relooks = Relooks /\ done = 0))
  THEN "exhausted" ELSE "thin"

\* A thin verdict since the last sweep request.
CountRelook(d) ==
  relooks' = IF d = "thin" /\ scout # "never" THEN Capped(relooks, Relooks) ELSE relooks

\* A thin verdict asks for papers, or is held back by Mimir's queue.
AskForPapers(d) ==
  acquires' \in IF d = "thin" THEN {acquires, "recent"} ELSE {acquires}

Outcome == {Refined, "other"}

\* complete_task with the latest task's disposition.
FinishLatest ==
  /\ Open(latest)
  /\ \E d \in Outcome :
       /\ latest' = [latest EXCEPT !.disp = d]
       /\ thin' = IF d = "thin" THEN Capped(thin, StuckAfter) ELSE 0
       /\ CountRelook(d) /\ AskForPapers(d)
  /\ fetched' = FALSE
  /\ UNCHANGED <<lifeVars, planned, retries, workVars, replies, sweepVars, news, wd,
                 plans, mishaps>>

\* A task queued before the latest one: verdicts are read by id, so its own
\* lands anywhere in the row.
FinishOlder ==
  /\ \/ planned > 0 /\ planned' = planned - 1 /\ UNCHANGED retries
     \/ retries > 0 /\ retries' = retries - 1 /\ UNCHANGED planned
  /\ \E d \in Outcome :
       /\ thin' \in IF d = "thin" THEN {thin, Capped(thin, StuckAfter)} ELSE 0..thin
       /\ CountRelook(d) /\ AskForPapers(d)
  /\ UNCHANGED <<lifeVars, latest, workVars, fetched, replies, sweepVars,
                 news, wd, plans, mishaps>>

\* fail_task: no disposition.
FailTask ==
  /\ Open(latest)
  /\ Mishap
  /\ latest' = [latest EXCEPT !.disp = "failed"]
  /\ fetched' = FALSE
  /\ UNCHANGED <<lifeVars, planned, retries, thin, relooks, workVars, acquires,
                 replies, sweepVars, news, wd, plans>>

\* The planner refills a live direction that is not stuck on a thin corpus.
Plan ==
  /\ plans < MaxPlans /\ plans' = plans + 1
  /\ status \in Active /\ thin < StuckAfter
  /\ planned + (IF Open(latest) /\ latest.stage = "planner" THEN 1 ELSE 0) < TaskCap
  /\ AddTask("planner")
  /\ UNCHANGED <<lifeVars, thin, relooks, workVars, fetchVars, sweepVars, news, wd,
                 mishaps>>

\* An experiment of one of its tasks completes.
Experiment ==
  /\ done < SynthMin
  /\ done' = done + 1 /\ recent' = (done + 1 < SynthMin)
  /\ UNCHANGED <<lifeVars, taskVars, finding, fetchVars, sweepVars, news, wd,
                 plans, mishaps>>

\* persist_research_finding: the finding, and an upward move of the direction
\* (monotone) if that edge is legal now.
Synthesize ==
  /\ done = SynthMin
  /\ finding' = TRUE
  /\ \E to \in {"tested", "weakly_supported", "concluded"} : Move(to, "none")
  /\ UNCHANGED <<taskVars, done, recent, fetchVars, sweepVars, news, wd, plans, mishaps>>

\* persist_reflection, a "retire" verdict; or the critic kills the claim.
Retire ==
  /\ status \in Active
  /\ Move("invalidated", "other")
  /\ UNCHANGED <<taskVars, workVars, fetchVars, sweepVars, news, wd, plans, mishaps>>

\* persist_directions: the bulk update takes the live directions nobody worked.
Supersede ==
  /\ status \in Active /\ done = 0 /\ ~finding
  /\ status' = "invalidated" /\ ground' = "other"
  /\ UNCHANGED <<taskVars, workVars, fetchVars, sweepVars, news, wd, plans, mishaps>>

-----------------------------------------------------------------------------
(* Mimir.                                                                  *)

\* handle_acquire_requested for the batch: new papers, known ones, rejected.
Reply ==
  /\ acquires # "none" /\ acquires' = "none"
  /\ \/ fetched' = TRUE /\ replies' = "fresh"
     \/ replies' = (IF replies = "fresh" THEN "fresh" ELSE "known") /\ UNCHANGED fetched
     \/ UNCHANGED <<fetched, replies>>
  /\ UNCHANGED <<lifeVars, taskVars, workVars, sweepVars, news, wd, plans, mishaps>>

\* run_discovery_sweep settles.
SettleSeen ==
  /\ queued > 0 /\ queued' = queued - 1
  /\ settle' = "seen" /\ saw' = TRUE
  /\ UNCHANGED <<lifeVars, taskVars, workVars, fetchVars, scout, today, news, wd,
                 plans, mishaps>>

\* An outage: the scouts scanned nothing.
SettleBlind ==
  /\ queued > 0 /\ queued' = queued - 1
  /\ Mishap
  /\ settle' = "blind"
  /\ UNCHANGED <<lifeVars, taskVars, workVars, fetchVars, scout, today, saw, news, wd, plans>>

\* The sweep's handler died: its event is gone and nothing settles.
LoseSweep ==
  /\ queued > 0 /\ queued' = queued - 1
  /\ Mishap
  /\ UNCHANGED <<lifeVars, taskVars, workVars, fetchVars, scout, today, settle, saw,
                 news, wd, plans>>

\* Enough documents on the direction's topics since its gap.
Ingest ==
  /\ status = "invalidated" /\ ground = "gap"
  /\ news' = TRUE
  /\ UNCHANGED <<lifeVars, taskVars, workVars, fetchVars, sweepVars, wd, plans, mishaps>>

-----------------------------------------------------------------------------
(* Time.                                                                   *)

\* CLOSURE_ACQUIRE_WAIT_MIN, SCOUT_UNSETTLED_MAX_MIN and SCOUT_SETTLE_MIN.
Wait ==
  /\ \/ acquires = "recent" /\ acquires' = "stale" /\ UNCHANGED <<scout, settle>>
     \/ scout = "recent" /\ scout' = "late" /\ UNCHANGED <<acquires, settle>>
     \/ settle = "seen" /\ settle' = "ripe" /\ UNCHANGED <<acquires, scout>>
  /\ UNCHANGED <<lifeVars, taskVars, workVars, fetched, replies, queued, today, saw,
                 news, wd, plans, mishaps>>

\* A new day has a new sweep key.
NewDay ==
  /\ today /\ today' = FALSE
  /\ UNCHANGED <<lifeVars, taskVars, workVars, fetchVars, scout, queued, settle, saw,
                 news, wd, plans, mishaps>>

\* CLOSURE_COVERAGE_DEFER_MAX_MIN, and acquire replies older than two days.
Stall ==
  /\ \/ recent /\ recent' = FALSE /\ UNCHANGED replies
     \/ replies # "few" /\ replies' \in {"few", "known"} /\ UNCHANGED recent
  /\ UNCHANGED <<lifeVars, taskVars, done, finding, acquires, fetched, sweepVars, news,
                 wd, plans, mishaps>>

-----------------------------------------------------------------------------
(* _advance_research_closure.                                              *)

At(step)  == wd.at = step
GoTo(step) == wd' = [wd EXCEPT !.at = step]
Done == wd' = Resting

\* A bug: a direction with an open task is a candidate too.
CandidateWithOpen == status \in Active

\* The candidates: live, and no open task.
Candidate == status \in Active /\ NoneOpen

Look ==
  /\ At("idle") /\ Candidate
  /\ GoTo("look")
  /\ UNCHANGED <<lifeVars, taskVars, workVars, fetchVars, sweepVars, news, plans, mishaps>>

\* The newest task: the ladder goes on with a thin verdict, the gap with an
\* exhausted one, anything else is left to the detector.
ReadLatest ==
  /\ At("look")
  /\ wd' = IF latest.disp = "thin" THEN [at |-> "judge", stage |-> latest.stage]
           ELSE IF latest.disp = "exhausted" THEN [at |-> "guard", stage |-> latest.stage]
           ELSE Resting
  /\ UNCHANGED <<lifeVars, taskVars, workVars, fetchVars, sweepVars, news, plans, mishaps>>

\* A bug: one key for the life of the direction.
AskOnce ==
  IF scout # "never"
  THEN UNCHANGED <<sweepVars, relooks>>
  ELSE /\ queued < MaxQueued /\ queued' = queued + 1
       /\ scout' = "recent" /\ settle' = "none" /\ today' = TRUE /\ relooks' = 0
       /\ UNCHANGED saw

\* _emit_targeted_sweep: one request a day, the rest conflict.
Ask ==
  IF today
  THEN UNCHANGED <<sweepVars, relooks>>
  ELSE /\ queued < MaxQueued /\ queued' = queued + 1
       /\ scout' = "recent" /\ settle' = "none" /\ today' = TRUE /\ relooks' = 0
       /\ UNCHANGED saw

AcquireDue == fetched /\ wd.stage \notin {"acquire_retry", "scouted_retry"}

\* A bug: a sweep that scanned nothing counts as one.
SweepDueAnySettle == scout = "never" \/ (scout = "late" /\ settle = "none")

\* Never scouted, not settled in time, or settled blind.
SweepDue == scout = "never" \/ (scout = "late" /\ settle = "none") \/ settle = "blind"

\* Requested and not settled, or settled too recently.
SweepRuns == (scout = "recent" /\ settle = "none") \/ settle = "seen"

Requeue(stage) == AddTask(stage) /\ UNCHANGED <<thin, relooks>>

\* One step of the ladder for a thin direction, the first that applies.
Judge ==
  /\ At("judge")
  /\ \/ /\ acquires = "recent"
        /\ Done /\ UNCHANGED <<taskVars, sweepVars>>
     \/ /\ acquires # "recent" /\ AcquireDue
        /\ Done /\ Requeue("acquire_retry") /\ UNCHANGED sweepVars
     \/ /\ acquires # "recent" /\ ~AcquireDue /\ SweepDue
        /\ Done /\ Ask /\ UNCHANGED <<latest, planned, retries, thin>>
     \/ /\ acquires # "recent" /\ ~AcquireDue /\ ~SweepDue /\ SweepRuns
        /\ Done /\ UNCHANGED <<taskVars, sweepVars>>
     \/ /\ acquires # "recent" /\ ~AcquireDue /\ ~SweepDue /\ ~SweepRuns
        /\ IF wd.stage # "scouted_retry"
           THEN Done /\ Requeue("scouted_retry")
           ELSE GoTo("guard") /\ UNCHANGED taskVars
        /\ UNCHANGED sweepVars
  /\ UNCHANGED <<lifeVars, workVars, fetchVars, news, plans, mishaps>>

\* _declare_gap's coverage guard: one query.
Spared == finding \/ done = SynthMin \/ recent

Guard ==
  /\ At("guard")
  /\ IF Spared THEN Done ELSE GoTo("gap")
  /\ UNCHANGED <<lifeVars, taskVars, workVars, fetchVars, sweepVars, news, plans, mishaps>>

\* The guard's query failed: "fall through to gap".
GuardFails ==
  /\ At("guard")
  /\ Mishap
  /\ GoTo("gap")
  /\ UNCHANGED <<lifeVars, taskVars, workVars, fetchVars, sweepVars, news, plans>>

\* advance_direction in a transaction of its own; invalidated_at is now.
Gap ==
  /\ At("gap")
  /\ Move("invalidated", "gap")
  /\ Done
  /\ UNCHANGED <<taskVars, workVars, fetchVars, sweepVars, news, plans, mishaps>>

-----------------------------------------------------------------------------
(* _reopen_gapped_directions, on a connection without a transaction: each  *)
(* statement commits.                                                      *)

\* A gapped direction with enough new documents.
Spot ==
  /\ At("idle")
  /\ status = "invalidated" /\ ground = "gap" /\ news
  /\ GoTo("reopen")
  /\ UNCHANGED <<lifeVars, taskVars, workVars, fetchVars, sweepVars, news, plans, mishaps>>

\* advance_direction looks at the edge ...
Recheck ==
  /\ At("reopen")
  /\ IF "proposed" \in Lifecycle!Legal[status] THEN GoTo("flip") ELSE Done
  /\ UNCHANGED <<lifeVars, taskVars, workVars, fetchVars, sweepVars, news, plans, mishaps>>

\* A bug: the reason of the gap is left on the row.
FlipKeepsReason ==
  /\ At("flip")
  /\ status' = "proposed" /\ news' = FALSE
  /\ GoTo("requeue")
  /\ UNCHANGED <<ground, taskVars, workVars, fetchVars, sweepVars, plans, mishaps>>

\* ... and updates the row.
Flip ==
  /\ At("flip")
  /\ status' = "proposed" /\ ground' = "none" /\ news' = FALSE
  /\ GoTo("requeue")
  /\ UNCHANGED <<taskVars, workVars, fetchVars, sweepVars, plans, mishaps>>

RequeueReopened ==
  /\ At("requeue")
  /\ Requeue("reopened")
  /\ Done
  /\ UNCHANGED <<lifeVars, workVars, fetchVars, sweepVars, news, plans, mishaps>>

\* The process dies, or a statement of the tick fails: the pass ends there.
Die ==
  /\ ~At("idle")
  /\ Mishap
  /\ Done
  /\ UNCHANGED <<lifeVars, taskVars, workVars, fetchVars, sweepVars, news, plans>>

-----------------------------------------------------------------------------
Research == FinishLatest \/ FinishOlder
Ladder   == Look \/ ReadLatest \/ Judge \/ Guard \/ Gap
Reopen   == Spot \/ Recheck \/ Flip \/ RequeueReopened

Next == \/ Research \/ FailTask \/ Plan \/ Experiment \/ Synthesize
        \/ Retire \/ Supersede
        \/ Reply \/ SettleSeen \/ SettleBlind \/ LoseSweep \/ Ingest
        \/ Wait \/ NewDay \/ Stall
        \/ Ladder \/ GuardFails \/ Reopen \/ Die

(* Fairness: the watchdog's loop goes on, a queued task is worked (what     *)
(* TaskQueue shows), Mimir handles a queued sweep (what Dispatcher shows),  *)
(* and time passes.  The planner, the experiments, the synthesis, Ariadne   *)
(* and the field owe nothing.                                               *)
Fairness ==
  /\ WF_vars(Ladder) /\ WF_vars(Recheck \/ Flip \/ RequeueReopened)
  /\ WF_vars(FinishLatest) /\ WF_vars(FinishOlder)
  /\ WF_vars(SettleSeen) /\ WF_vars(Wait) /\ WF_vars(NewDay)
  /\ WF_vars(recent /\ Stall)

Spec     == Init /\ [][Next]_vars
FairSpec == Spec /\ Fairness

-----------------------------------------------------------------------------
TypeOK ==
  /\ status \in Lifecycle!DirectionStatus /\ ground \in {"none", "gap", "other"}
  /\ ground = "none" <=> status # "invalidated"
  /\ latest \in [stage : Stages, disp : Dispositions]
  /\ planned \in 0..TaskCap /\ retries \in 0..1
  /\ thin \in 0..StuckAfter /\ relooks \in 0..Relooks
  /\ done \in 0..SynthMin /\ recent \in BOOLEAN /\ finding \in BOOLEAN
  /\ acquires \in {"none", "recent", "stale"} /\ fetched \in BOOLEAN
  /\ replies \in {"few", "known", "fresh"}
  /\ scout \in {"never", "recent", "late"} /\ queued \in 0..MaxQueued
  /\ today \in BOOLEAN /\ settle \in {"none", "blind", "seen", "ripe"} /\ saw \in BOOLEAN
  /\ news \in BOOLEAN
  /\ wd \in [at : Steps, stage : Stages]
  /\ plans \in 0..MaxPlans /\ mishaps \in 0..MaxMishaps

(* The status moves along the legal edges only, whoever writes it and       *)
(* although the reopen checks the edge and writes the row in two            *)
(* statements: a finding never revives a dead direction, and nothing moves  *)
(* a concluded one.                                                         *)
LifecycleKept == Lifecycle!Spec

(* "A re-queue creates an OPEN task, which removes the direction from the   *)
(* candidate set until it completes, so no step double-fires": of the       *)
(* ladder's own tasks one at most is open, though the planner queues tasks  *)
(* between the ladder's reads and its insert.                               *)
OneRetry == OpenRetries =< 1

(* The ladder's own verdict of a gap comes only after a targeted sweep that *)
(* saw the field: an outage, a lost sweep or a late settle is never taken   *)
(* for an empty field, whatever was requested, lost or reopened before.     *)
LadderSawTheField == [][At("judge") /\ wd'.at = "guard" => saw]_vars

(* A direction whose research stays thin does not hold its approval for     *)
(* ever: it leaves the active set, earns its synthesis, or research finds   *)
(* something else to say (or fails, which the ladder leaves to others).     *)
Settled == \/ status \notin Active
           \/ finding \/ done = SynthMin
           \/ latest.disp \in {"other", "failed"}
ThinIsSettled == (status \in Active /\ latest.disp = "thin") ~> Settled

(* "Neither [an unsettled nor a blind sweep] may walk this direction toward *)
(* a declared gap" (_advance_research_closure).  The researcher's own       *)
(* escalation asks only whether a sweep was requested.                      *)
NoBlindGap == status = "invalidated" /\ ground = "gap" => saw

(* "A direction that already reached the threshold (or has a finding) is    *)
(* NEVER gap-killed": the guard's query and the write are two transactions. *)
GapSparesSynthesis ==
  [][ground = "none" /\ ground' = "gap" => done < SynthMin /\ ~finding]_vars
=============================================================================
