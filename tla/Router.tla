------------------------------- MODULE Router -------------------------------
(****************************************************************************)
(* The model router (harness/router.py) under the loops that call it: the   *)
(* critic's, the planner's and the auditor's steps, the experiment debugger *)
(* that runs outside the dispatcher, and the brokered calls of sandboxed    *)
(* experiments, which share only the GPU lock.                              *)
(*                                                                          *)
(* A call reads the day's counter, opens its agent_runs row, tries the      *)
(* cloud model and falls back to the local one.  A local call takes one of  *)
(* MaxInFlight permits and then the lock of its model, in two awaits; only  *)
(* a call past both is inside the try that gives them back.  The dispatcher *)
(* cancels a handler that runs too long wherever it stands.                 *)
(*                                                                          *)
(* Abstractions: the counter is read and the row is opened in one step (no  *)
(* await between them touches what either decides); a failed cloud call is  *)
(* any error, timeout or unparseable answer; waiters of a lock are served   *)
(* in any order; MaxMishaps bounds timeouts, lost telemetry, restarts and   *)
(* new days.                                                                *)
(****************************************************************************)
EXTENDS Naturals, Sequences, FiniteSets, FiniteSetsExt

CONSTANTS
  Critics, Planners, Auditors, Verifiers,   \* handler invocations, by the loop they run
  Debuggers,     \* debug loops of the experiment session, outside the dispatcher
  Guests,        \* brokered calls and graph extractions: GPU lock, no row
  GuestModel,    \* the local model of each guest
  Pages,         \* what a critic's search returns
  Findings,      \* what an auditor's task left to cross-check
  MaxInFlight,   \* permits of GPULock._global
  Cap,           \* DAILY_CAPS
  Concurrency,   \* handlers that run at once
  MaxTriggers,   \* bound on the loops that are triggered at all
  NoUser,
  MaxMishaps

Timed == Critics \cup Planners \cup Auditors \cup Verifiers
Handlers == Timed \cup Debuggers
Tiers == {"reasoning", "workhorse", "fast", "code", "experiment"}
Models == {"deepseek_r1", "qwen3", "mistral", "qwen_coder"}

ASSUME RouterAssumption ==
  /\ IsFiniteSet(Handlers) /\ IsFiniteSet(Guests)
  /\ IsFiniteSet(Pages) /\ IsFiniteSet(Findings)
  /\ Pages \cap {"plan_attack", "stress_test", "judge_verdict"} = {}
  /\ "batch_score" \notin Findings
  /\ Critics \cap (Planners \cup Auditors \cup Verifiers \cup Debuggers) = {}
  /\ Planners \cap (Auditors \cup Verifiers \cup Debuggers) = {}
  /\ Auditors \cap (Verifiers \cup Debuggers) = {} /\ Verifiers \cap Debuggers = {}
  /\ GuestModel \in [Guests -> Models]
  /\ MaxInFlight \in Nat \ {0}
  /\ Cap \in [Tiers -> Nat \ {0}]
  /\ Concurrency \in Nat \ {0} /\ MaxTriggers \in Nat
  /\ MaxMishaps \in Nat

----------------------------------------------------------------------------
(* The scripts of the loops.  some: any of the stage's steps may be absent  *)
(* (the search found no page, no experiment was proposed, an input is       *)
(* empty).  soft: a step that raises is skipped.  any: at least one step    *)
(* must have returned.  quits: the loop may end after the stage (no gap, no *)
(* task).                                                                   *)

Stage(steps, tier, marks) ==
  [steps |-> steps, tier |-> tier, some |-> "some" \in marks, soft |-> "soft" \in marks,
   any |-> "any" \in marks, quits |-> "quits" \in marks]

CriticScript ==
  << Stage({"plan_attack"}, "workhorse", {}),
     Stage(Pages, "code", {"some", "soft"}),
     Stage({"stress_test"}, "workhorse", {"some", "soft"}),
     Stage({"judge_verdict"}, "reasoning", {}) >>

PlannerScript ==
  << Stage({"assess_state"}, "workhorse", {"quits"}),
     Stage({"propose_tasks"}, "workhorse", {"quits"}),
     Stage({"critique"}, "workhorse", {}) >>

AuditScript ==
  << Stage(Findings, "workhorse", {"soft", "any"}),
     Stage({"batch_score"}, "fast", {}) >>

FindingAuditScript == << Stage({"audit_finding"}, "workhorse", {}) >>

DebugScript == << Stage({"debug"}, "experiment", {"quits"}), Stage({"redebug"}, "experiment", {}) >>

Script ==
  [h \in Handlers |->
     CASE h \in Critics   -> CriticScript
       [] h \in Planners  -> PlannerScript
       [] h \in Auditors  -> AuditScript
       [] h \in Verifiers -> FindingAuditScript
       [] OTHER           -> DebugScript]

Calls ==
  (Critics \X ({"plan_attack", "stress_test", "judge_verdict"} \cup Pages))
    \cup (Planners \X {"assess_state", "propose_tasks", "critique"})
    \cup (Auditors \X (Findings \cup {"batch_score"}))
    \cup (Verifiers \X {"audit_finding"})
    \cup (Debuggers \X {"debug", "redebug"})
CallsOf == [h \in Handlers |-> {c \in Calls : c[1] = h}]
Users == Calls \cup Guests

ASSUME UsersAssumption == Calls \cap Guests = {} /\ NoUser \notin Users

(* ROUTE: the tier a step asks for.                                         *)
Route ==
  [c \in Calls |-> LET s == Script[c[1]]
                   IN  s[CHOOSE i \in 1..Len(s) : c[2] \in s[i].steps].tier]

(* MODELS: the local model of a tier; two tiers share one.                  *)
LocalModel ==
  [t \in Tiers |-> CASE t = "reasoning" -> "deepseek_r1"
                     [] t = "workhorse" -> "qwen3"
                     [] t = "fast"      -> "mistral"
                     [] OTHER           -> "qwen_coder"]

(* The tiers that a paid cloud model leads; the free chain is empty.        *)
PremiumTiers == {"reasoning", "workhorse", "experiment"}

VARIABLES
  pc,        \* handler -> 0 (not started), its stage, or Over(h)
  sess,      \* handler -> status of its agent_sessions row
  at,        \* user -> where its call stands
  run,       \* call -> status of its agent_runs row
  tier,      \* call -> the tier it runs on
  used,      \* tier -> cost_tracking of the day
  told,      \* tiers of the day's cost.cap_reached events
  permits,   \* free permits of GPULock._global
  lost,      \* permits that went with a cancelled call (history)
  holder,    \* model -> who holds its lock
  lent,      \* calls charged to a tier they were downgraded to, today
  mishaps

vars == <<pc, sess, at, run, tier, used, told, permits, lost, holder, lent, mishaps>>
gpu == <<permits, lost, holder>>
books == <<used, told, lent>>

Over(h) == Len(Script[h]) + 1
Running == {h \in Handlers : pc[h] \notin {0, Over(h)}}
Mishap == mishaps < MaxMishaps /\ mishaps' = mishaps + 1

Init ==
  /\ pc = [h \in Handlers |-> 0]
  /\ sess = [h \in Handlers |-> "none"]
  /\ at = [u \in Users |-> "none"]
  /\ run = [c \in Calls |-> "none"]
  /\ tier = [c \in Calls |-> Route[c]]
  /\ used = [t \in Tiers |-> 0] /\ told = {} /\ lent = 0
  /\ permits = MaxInFlight /\ lost = 0
  /\ holder = [m \in Models |-> NoUser]
  /\ mishaps = 0

----------------------------------------------------------------------------
(* The loops                                                                *)

(* The stage's steps that this run of the loop really takes.                *)
Chosen(h, i) ==
  LET stage == Script[h][i]
  IN  IF stage.some THEN SUBSET stage.steps ELSE {stage.steps}

(* The stage behind it is over: its rows are final and forgotten here.      *)
Enter(h, i) ==
  /\ pc' = [pc EXCEPT ![h] = i]
  /\ \E S \in IF i = Over(h) THEN {{}} ELSE Chosen(h, i) :
       at' = [u \in Users |-> IF u \in {h} \X S THEN "ready"
                             ELSE IF u \in CallsOf[h] THEN "none" ELSE at[u]]
  /\ run' = [c \in Calls |-> IF c[1] = h /\ run[c] # "running" THEN "none" ELSE run[c]]
  /\ tier' = [c \in Calls |-> IF c[1] = h THEN Route[c] ELSE tier[c]]

(* Only a handler has a session: the debug loop passes none.                *)
Close(h, status) == sess' = IF h \in Timed THEN [sess EXCEPT ![h] = status] ELSE sess

Start(h) ==
  /\ pc[h] = 0
  /\ Cardinality({k \in Handlers : sess[k] # "none" \/ pc[k] # 0}) < MaxTriggers \/ sess[h] # "none"
  /\ h \in Timed => Cardinality({k \in Running : k \in Timed}) < Concurrency
  /\ Close(h, "running")
  /\ Enter(h, 1)
  /\ UNCHANGED <<books, gpu, mishaps>>

End(h, status) == Enter(h, Over(h)) /\ Close(h, status)

(* The calls of the stage h is in, and how they came back.                  *)
StageCalls(h) == {c \in {h} \X Script[h][pc[h]].steps : at[c] # "none"}
Raised(h) == {c \in StageCalls(h) : at[c] = "raised"}

Stops(h) ==
  LET stage == Script[h][pc[h]]
  IN  \/ ~stage.soft /\ Raised(h) # {}
      \/ stage.any /\ Raised(h) = StageCalls(h)

(* The stage's calls have all come back: a step that must not fail fails    *)
(* the handler, an audit without one cross-check is skipped, the last stage *)
(* ends the loop.                                                           *)
Advance(h) ==
  /\ h \in Running
  /\ \A c \in StageCalls(h) : at[c] \in {"returned", "raised"}
  /\ LET stage == Script[h][pc[h]]
     IN  \/ /\ Stops(h)
            /\ End(h, IF stage.soft THEN "completed" ELSE "failed")
         \/ /\ ~Stops(h)
            /\ pc[h] = Len(Script[h]) \/ stage.quits
            /\ End(h, "completed")
         \/ /\ ~Stops(h) /\ pc[h] < Len(Script[h])
            /\ Enter(h, pc[h] + 1) /\ UNCHANGED sess
  /\ UNCHANGED <<books, gpu, mishaps>>

----------------------------------------------------------------------------
(* A call                                                                   *)

Downgrade(t) == IF t = "reasoning" THEN "workhorse" ELSE t

\* A bug: the call that reaches the cap is let through.
CappedLate(t) == used[t] > Cap[t]
Capped(t) == used[t] >= Cap[t]

(* The cap is looked up once, for the tier of the route: a capped reasoning *)
(* call goes to the workhorse tier with its cloud model, whatever that      *)
(* tier's own counter says, and the event names the tier it goes to.  Any   *)
(* other capped call drops the cloud.                                       *)
Invoke(c) ==
  /\ at[c] = "ready"
  /\ LET asked == Route[c]
         t     == IF Capped(asked) THEN Downgrade(asked) ELSE asked
         local == Capped(asked) /\ t = asked
     IN  /\ tier' = [tier EXCEPT ![c] = t]
         /\ told' = IF Capped(asked) THEN told \cup {t} ELSE told
         /\ at' = [at EXCEPT ![c] = IF t \in PremiumTiers /\ ~local THEN "cloud" ELSE "permit"]
  /\ run' = [run EXCEPT ![c] = "running"]
  /\ UNCHANGED <<pc, sess, used, lent, gpu, mishaps>>

(* The row and the charge are written in one transaction; the step's event  *)
(* after it, inside the same try: when that insert fails the finished run   *)
(* is written failed and the caller sees the exception.                     *)
Complete(c) ==
  \/ /\ run' = [run EXCEPT ![c] = "completed"]
     /\ at' = [at EXCEPT ![c] = "returned"]
     /\ UNCHANGED mishaps
  \/ /\ Mishap
     /\ run' = [run EXCEPT ![c] = "failed"]
     /\ at' = [at EXCEPT ![c] = "raised"]

RecordCost(c) ==
  /\ used' = [used EXCEPT ![tier[c]] = @ + 1]
  /\ lent' = IF tier[c] # Route[c] THEN lent + 1 ELSE lent

CloudAnswers(c) ==
  /\ at[c] = "cloud"
  /\ RecordCost(c)
  /\ Complete(c)
  /\ UNCHANGED <<pc, sess, tier, told, gpu>>

CloudFails(c) ==
  /\ at[c] = "cloud"
  /\ at' = [at EXCEPT ![c] = "permit"]
  /\ UNCHANGED <<pc, sess, run, tier, books, gpu, mishaps>>

----------------------------------------------------------------------------
(* The GPU lock                                                             *)

ModelOf(u) == IF u \in Guests THEN GuestModel[u] ELSE LocalModel[tier[u]]

Queue(m) == {u \in Users : at[u] = "model" /\ ModelOf(u) = m}

(* The broker and the graph extraction ask for the GPU and nothing else.    *)
Ask(g) ==
  /\ at[g] = "none"
  /\ at' = [at EXCEPT ![g] = "permit"]
  /\ UNCHANGED <<pc, sess, run, tier, books, gpu, mishaps>>

(* asyncio.Lock lets nobody past those who wait, woken or not.              *)
TakePermit(u) ==
  /\ at[u] = "permit"
  /\ permits > 0 /\ permits' = permits - 1
  /\ LET m == ModelOf(u)
     IN  IF holder[m] = NoUser /\ Queue(m) = {}
         THEN at' = [at EXCEPT ![u] = "local"] /\ holder' = [holder EXCEPT ![m] = u]
         ELSE at' = [at EXCEPT ![u] = "model"] /\ UNCHANGED holder
  /\ UNCHANGED <<pc, sess, run, tier, books, lost, mishaps>>

TakeModel(u) ==
  /\ at[u] = "model"
  /\ holder[ModelOf(u)] = NoUser
  /\ at' = [at EXCEPT ![u] = "local"]
  /\ holder' = [holder EXCEPT ![ModelOf(u)] = u]
  /\ UNCHANGED <<pc, sess, run, tier, books, permits, lost, mishaps>>

Inside(S) == {u \in S : at[u] = "local"}

\* A bug: the finally block gives back the model's lock only.
LeaveLockOnly(S) ==
  /\ permits' = permits
  /\ holder' = [m \in Models |-> IF holder[m] \in Inside(S) THEN NoUser ELSE holder[m]]

\* A bug: the finally block gives back the permit only.
LeavePermitOnly(S) == permits' = permits + Cardinality(Inside(S)) /\ UNCHANGED holder

(* The finally block of acquire, for those of S that are inside its try.    *)
Leave(S) ==
  /\ permits' = permits + Cardinality(Inside(S))
  /\ holder' = [m \in Models |-> IF holder[m] \in Inside(S) THEN NoUser ELSE holder[m]]

\* A bug: the broker waits for its model without a timeout.
EndsUnlessGuest(u) == at[u] = "local" /\ u \notin Guests
(* A local call ends, with an answer or by its timeout.                     *)
Ends(u) == at[u] = "local"

(* The answer parses, or it was the last candidate and the run fails; the   *)
(* per-call timeout is one of the failures.  Local work is not charged.     *)
LocalEnds(u) ==
  /\ Ends(u)
  /\ Leave({u})
  /\ IF u \in Guests
     THEN at' = [at EXCEPT ![u] = "returned"] /\ UNCHANGED <<run, mishaps>>
     ELSE \/ Complete(u)
          \/ /\ run' = [run EXCEPT ![u] = "failed"]
             /\ at' = [at EXCEPT ![u] = "raised"]
             /\ UNCHANGED mishaps
  /\ UNCHANGED <<pc, sess, tier, books, lost>>

----------------------------------------------------------------------------
(* The dispatcher and the process                                           *)

Live == {"ready", "cloud", "permit", "model", "local"}

(* HANDLER_TIMEOUT_S: the handler is cancelled and its session closed.  No  *)
(* except clause of the router catches the cancellation: the rows stay      *)
(* running, and a call between the two awaits of acquire takes its permit   *)
(* with it.  It is a mishap, but when all permits have gone that way: then   *)
(* every handler that waits for one ends so.                                *)
Timeout(h) ==
  /\ h \in Running /\ h \in Timed
  /\ IF lost = MaxInFlight THEN UNCHANGED mishaps ELSE Mishap
  /\ pc' = [pc EXCEPT ![h] = Over(h)]
  /\ sess' = [sess EXCEPT ![h] = "failed"]
  /\ Leave(CallsOf[h])
  /\ lost' = lost + Cardinality({c \in CallsOf[h] : at[c] = "model"})
  /\ at' = [u \in Users |-> IF u \in CallsOf[h] /\ at[u] \in Live THEN "gone" ELSE at[u]]
  /\ UNCHANGED <<run, tier, books>>

\* A bug: a horizon shorter than a handler may run.
SweepDueEarly(c) == run[c] = "running"
\* A bug: only the rows of sessions that are still open.
SweepDueOpen(c) == run[c] = "running" /\ at[c] = "gone" /\ sess[c[1]] = "running"
(* The watchdog fails the rows that have been running for 30 minutes, which *)
(* is what a handler gets: a row of a live handler is younger, one of the   *)
(* debug loop need not be.                                                  *)
SweepDue(c) ==
  /\ run[c] = "running"
  /\ at[c] \in Live => c[1] \notin Timed

Sweep(c) ==
  /\ SweepDue(c)
  /\ run' = [run EXCEPT ![c] = "failed"]
  /\ UNCHANGED <<pc, sess, at, tier, books, gpu, mishaps>>

(* The process dies and a new one starts: the lock is a new object, the     *)
(* startup reap fails every running row, the events of the handlers that    *)
(* died come back and the Quartermaster designs again.  No one closes their *)
(* sessions.                                                                *)
Restart ==
  /\ Mishap
  /\ pc' = [h \in Handlers |-> IF h \in Running THEN 0 ELSE pc[h]]
  /\ at' = [u \in Users |->
              IF \/ u \in Guests /\ at[u] \in Live
                 \/ u \in Calls /\ u[1] \in Running
              THEN "none" ELSE at[u]]
  /\ run' = [c \in Calls |-> IF run[c] = "running" THEN "failed" ELSE run[c]]
  /\ permits' = MaxInFlight /\ lost' = 0
  /\ holder' = [m \in Models |-> NoUser]
  /\ UNCHANGED <<sess, tier, books>>

(* CURRENT_DATE: a new row of cost_tracking, new dedup keys.                *)
NewDay ==
  /\ Mishap
  /\ used' = [t \in Tiers |-> 0] /\ told' = {} /\ lent' = 0
  /\ UNCHANGED <<pc, sess, at, run, tier, gpu>>

Progress(u) ==
  \/ u \in Calls /\ (Invoke(u) \/ CloudAnswers(u) \/ CloudFails(u))
  \/ u \in Guests /\ Ask(u)
  \/ TakePermit(u) \/ TakeModel(u) \/ LocalEnds(u)

Work ==
  \/ \E h \in Handlers : Start(h) \/ Advance(h)
  \/ \E u \in Users : Progress(u)
  \/ \E c \in Calls : Sweep(c)

Next ==
  \/ Work
  \/ \E h \in Handlers : Timeout(h)
  \/ Restart
  \/ NewDay

(* Every await of a call ends, for the HTTP clients have timeouts, the      *)
(* watchdog sweeps every minute and a handler that cannot go on times out:  *)
(* the process does not stop while it has a step to take.  There are        *)
(* finitely many, so no step needs more.                                    *)
Fairness == WF_vars(Work) /\ \A h \in Handlers : WF_vars(lost = MaxInFlight /\ Timeout(h))

Spec == Init /\ [][Next]_vars
FairSpec == Spec /\ Fairness

----------------------------------------------------------------------------
(* Properties                                                               *)

TypeOK ==
  /\ pc \in [Handlers -> Nat] /\ \A h \in Handlers : pc[h] \in 0..Over(h)
  /\ sess \in [Handlers -> {"none", "running", "completed", "failed"}]
  /\ at \in [Users -> Live \cup {"none", "returned", "raised", "gone"}]
  /\ run \in [Calls -> {"none", "running", "completed", "failed"}]
  /\ tier \in [Calls -> Tiers]
  /\ used \in [Tiers -> Nat] /\ told \subseteq Tiers /\ lent \in Nat
  /\ permits \in 0..MaxInFlight /\ lost \in 0..MaxInFlight
  /\ holder \in [Models -> Users \cup {NoUser}]
  /\ mishaps \in 0..MaxMishaps
  /\ \A m \in Models : holder[m] # NoUser => at[holder[m]] = "local" /\ ModelOf(holder[m]) = m
  /\ \A c \in Calls : at[c] \in {"cloud", "permit", "model", "local"} => c[1] \in Running

(* Every permit of the GPU lock is free, in the hands of a call past the    *)
(* first await of acquire, or lost with a call that was cancelled between   *)
(* the two: nothing else takes one or gives one back twice.                 *)
Holding == {u \in Users : at[u] \in {"model", "local"}}

PermitsAccounted == permits + Cardinality(Holding) + lost = MaxInFlight

(* "Calls to the SAME model serialize": whoever is in has the lock of its    *)
(* model, across cancelled waiters, fallbacks to another model and restarts. *)
OneCallPerModel == \A u \in Users : at[u] = "local" => holder[ModelOf(u)] = u

(* The day's charges pass a tier's cap by no more than the calls of that    *)
(* tier that can be in the cloud abreast when it is reached, and by the     *)
(* capped reasoning calls that the router moves to the workhorse tier       *)
(* without looking at its counter.                                          *)
Width(h, t) == Max({0} \cup {Cardinality(Script[h][i].steps) :
                               i \in {j \in 1..Len(Script[h]) : Script[h][j].tier = t}})
Places(t) == UNION {{h} \X (1..Width(h, t)) : h \in Handlers}
Abreast == [t \in Tiers |-> Cardinality(Places(t))]

SpendBounded ==
  \A t \in Tiers : used[t] < Cap[t] + Abreast[t] + (IF t = "workhorse" THEN lent ELSE 0)

(* The row of a dispatcher's call that was failed, by an error, the reap or *)
(* the sweep, is not completed afterwards: nothing of a timed handler is    *)
(* alive when its rows are swept.  (A row of the debug loop may well be.)   *)
FailedStands ==
  [][\A c \in Calls : run[c] = "failed" /\ run'[c] = "completed" => c[1] \notin Timed]_vars

(* Whatever happens to a call, its row does not stay running for ever.      *)
RunsSettle == []<>(\A c \in Calls : run[c] # "running")

(* As long as a permit is left, whoever waits for the GPU gets it: cancelled*)
(* handlers, failed calls and models that others hold do not starve it.     *)
LocalServed == []<>(lost = MaxInFlight \/ \A u \in Users : at[u] \notin {"permit", "model"})

(* GPULock: "Calls to DIFFERENT models run concurrently, bounded only by    *)
(* the global semaphore": a call is kept out only while MaxInFlight calls   *)
(* are in.  Violated: cancelled waiters keep their permits.                 *)
BoundedByCalls == permits = 0 => Cardinality(Holding) = MaxInFlight
=============================================================================
