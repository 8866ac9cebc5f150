------------------------------- MODULE March -------------------------------
(***************************************************************************)
(* The march of an approved direction to its article: the pacemaker (or    *)
(* the loop engine in its place) has the Planner decompose it into tasks,  *)
(* has its owner write the literature review and the proposal, requests    *)
(* one experiment after the other until the evidence suffices or too many  *)
(* attempts were made, and has the finding written up.                     *)
(*                                                                         *)
(* Directions are numbered in the order of their ids.                      *)
(*                                                                         *)
(* Simplifications: the dials are on; the verdicts precede the march; the  *)
(* researcher's and the Quartermaster's work and the synthesis are one     *)
(* step each (see Agenda, TaskQueue, Quartermaster, Spine); so is what a   *)
(* handler writes after its model call, though these are several           *)
(* statements; a day or a bucket of six hours may end at any time, so that *)
(* the keys by day need not be kept.  MaxRequests, MaxConfirms and         *)
(* MaxMishaps are bounds of the model.                                     *)
(***************************************************************************)
EXTENDS Naturals, FiniteSets, FiniteSetsExt

CONSTANTS
  N,            \* directions 1..N
  Hopeless,     \* those of whose documents none ever passes grading
  MaxTasks,     \* PLANNER_MAX_TASKS
  Coverage,     \* EXPERIMENT_COVERAGE_TARGET = SYNTHESIS_MIN_EXPERIMENTS
  ResynthStep,  \* EVIDENCE_RESYNTH_STEP = SYNTHESIS_RESYNTH_STEP
  EvidenceCap,  \* EVIDENCE_CAP
  GiveUp,       \* attempts per run wanted: 3 in the code
  Engine,       \* LOOP_ENGINE: confirmations on real data are requested too
  MaxCalls,     \* max_concurrent_handlers
  MaxRequests,  \* bound on the pending coverage requests of a direction
  MaxConfirms,  \* bound on the confirmations requested for a direction
  MaxMishaps    \* bound on bad, repeated or partial calls, crashes, gates closed again

ASSUME MarchAssumption ==
  /\ N \in Nat \ {0} /\ Hopeless \subseteq 1..N
  /\ MaxTasks \in Nat \ {0} /\ GiveUp \in Nat \ {0}
  /\ Coverage \in Nat \ {0} /\ ResynthStep \in Nat \ {0}
  /\ EvidenceCap \in Nat /\ EvidenceCap >= Coverage
  /\ Engine \in BOOLEAN
  /\ MaxCalls \in Nat \ {0} /\ MaxRequests \in Nat \ {0}
  /\ MaxConfirms \in Nat /\ MaxMishaps \in Nat

VARIABLES
  status,    \* claims.status: active, concluded, ended in another way
  approved,  \* directions whose gate is approved
  held,      \* directions whose adjudication says hold
  planned,   \* directions with a task
  tasks,     \* number of their pending tasks
  docs,      \* <<direction, kind>> of the final documents
  runs,      \* experiment_runs: completed, failed or killed, not yet ended
  real,      \* directions with a run on real data
  synth,     \* n_experiments of the newest finding, 0 without one
  asked,     \* directions asked for at their number of attempts in this bucket
  confirms,  \* confirmations requested
  pending,   \* pending events
  calls,     \* handler calls
  mishaps

vars == <<status, approved, held, planned, tasks, docs, runs, real, synth,
          asked, confirms, pending, calls, mishaps>>

Dirs  == 1..N
Kinds == {"review", "proposal", "article"}

Event(type, d, copy) == [type |-> type, dir |-> d, copy |-> copy]
Events == {Event("plan", 0, 0)}
          \cup {Event(k, d, 0) : k \in Kinds \cup {"confirm"}, d \in Dirs}
          \cup {Event("run", d, i) : d \in Dirs, i \in 1..MaxRequests}

Attempts(d) == runs[d].done + runs[d].lost
Working(d)  == status[d] = "active" /\ d \in approved
Has(d, k)   == <<d, k>> \in docs

Mishap == mishaps < MaxMishaps /\ mishaps' = mishaps + 1

Init ==
  /\ status = [d \in Dirs |-> "active"] /\ approved = {} /\ held \in SUBSET Dirs
  /\ planned = {} /\ tasks = [d \in Dirs |-> 0] /\ docs = {}
  /\ runs = [d \in Dirs |-> [done |-> 0, lost |-> 0, open |-> 0]]
  /\ real = {} /\ synth = [d \in Dirs |-> 0]
  /\ asked = {} /\ confirms = [d \in Dirs |-> 0]
  /\ pending = {} /\ calls = {}
  /\ mishaps = 0

-----------------------------------------------------------------------------
(* The pacemaker's tick, drive_all with the engine.                         *)

Unplanned == {d \in Dirs : Working(d) /\ d \notin planned}

\* A bug: a direction is given a proposal only once it has tasks left to work.
ProposalDueTasked ==
  {d \in Dirs : Working(d) /\ Has(d, "review") /\ ~Has(d, "proposal") /\ tasks[d] > 0}

ReviewDue   == {d \in Dirs : Working(d) /\ ~Has(d, "review")}
ProposalDue == {d \in Dirs : Working(d) /\ Has(d, "review") /\ ~Has(d, "proposal")}

\* A bug: a concluded direction is not looked at any more.
SettledActive(d) == status[d] = "active" /\ runs[d].done >= EvidenceCap

\* The points at which a finding is written up.
Settled(d) == \/ status[d] = "concluded"
              \/ status[d] = "active" /\ runs[d].done >= EvidenceCap
ArticleDue == {d \in approved : synth[d] > 0 /\ Settled(d) /\ ~Has(d, "article")}

\* One step of each kind per tick, for the lowest id, none while one is pending.
Step(type, due) ==
  IF due = {} \/ \E e \in pending : e.type = type THEN {}
  ELSE {Event(type, Min(due), 0)}

Target(d) == IF synth[d] = 0 THEN Coverage
             ELSE Min({synth[d] + ResynthStep, EvidenceCap})

\* A bug: only completed runs count as attempts.
CoverageDueDone ==
  {d \in Dirs : /\ Working(d) /\ d \notin held /\ Has(d, "proposal")
                /\ runs[d].done < Target(d)
                /\ runs[d].open = 0 /\ d \in planned}

CoverageDue ==
  {d \in Dirs : /\ Working(d) /\ d \notin held /\ Has(d, "proposal")
                /\ runs[d].done < Target(d) /\ Attempts(d) < GiveUp * Target(d)
                /\ runs[d].open = 0 /\ d \in planned}

Requests(d) == {e \in pending : e.type = "run" /\ e.dir = d}

\* The key is the number of attempts and the bucket.
Requested == {d \in CoverageDue \ asked : Cardinality(Requests(d)) < MaxRequests}
NewRequest(d) ==
  Event("run", d, Min({i \in 1..MaxRequests : Event("run", d, i) \notin pending}))

\* The pilot was synthetic and nothing is in flight; no count of attempts.
ConfirmDue ==
  {d \in Dirs : /\ Engine /\ Working(d) /\ Has(d, "proposal") /\ synth[d] > 0
                /\ runs[d].done > 0 /\ runs[d].open = 0
                /\ d \notin real /\ d \in planned
                /\ confirms[d] < MaxConfirms
                /\ \A e \in pending : e.dir = d => e.type \notin {"run", "confirm"}}

\* The tick's drivers in turn; the confirmations see the requests.
Tick ==
  /\ LET confirmed == ConfirmDue \ Requested
     IN /\ pending' = pending \cup (IF Unplanned = {} THEN {} ELSE {Event("plan", 0, 0)})
                              \cup Step("review", ReviewDue)
                              \cup Step("proposal", ProposalDue)
                              \cup Step("article", ArticleDue)
                              \cup {NewRequest(d) : d \in Requested}
                              \cup {Event("confirm", d, 0) : d \in confirmed}
        /\ confirms' = [d \in Dirs |-> confirms[d] + (IF d \in confirmed THEN 1 ELSE 0)]
  /\ asked' = asked \cup Requested
  /\ UNCHANGED <<status, approved, held, planned, tasks, docs, runs, real, synth,
                 calls, mishaps>>

\* A bug: the key has no bucket, so that a request that died is never repeated.
NextBucketKept == asked # {} /\ UNCHANGED vars

\* int(time.time() // 21600)
NextBucket ==
  /\ asked # {} /\ asked' = {}
  /\ UNCHANGED <<status, approved, held, planned, tasks, docs, runs, real, synth,
                 confirms, pending, calls, mishaps>>

-----------------------------------------------------------------------------
(* Handler calls; "open" says that the event of the call is not settled.    *)

\* get_research_document
Document(d, k) == docs \cap {<<d, k>>}

\* _dossier: there is nothing to write up without a finding.
Dossier(d) == synth[d] > 0

\* What the handler reads at once; it skips what has nothing to go by.
Skipped(e) == \/ e.type = "plan" /\ Unplanned = {}
              \/ e.type = "proposal" /\ Document(e.dir, "review") = {}
              \/ e.type = "article" /\ ~Dossier(e.dir)

Take(e) ==
  /\ e \in pending /\ Cardinality(calls) < MaxCalls
  /\ IF \E c \in calls : c.event = e /\ c.open THEN Mishap ELSE UNCHANGED mishaps
  /\ IF Skipped(e)
     THEN /\ pending' = pending \ {e}
          /\ calls' = {[c EXCEPT !.open = @ /\ c.event # e] : c \in calls}
     ELSE /\ calls' = calls \cup {[event |-> e, open |-> TRUE, take |-> mishaps',
                                   dirs |-> IF e.type = "plan" THEN Unplanned ELSE {}]}
          /\ UNCHANGED pending
  /\ UNCHANGED <<status, approved, held, planned, tasks, docs, runs, real, synth,
                 asked, confirms>>

\* A bug: the end of a call leaves its twin in charge of the event.
SettleAlone(c) ==
  /\ calls' = calls \ {c}
  /\ pending' = IF c.open THEN pending \ {c.event} ELSE pending

\* The call ends, well or not, and its event is consumed.
Settle(c) ==
  /\ calls' = IF c.open
              THEN {[k EXCEPT !.open = @ /\ k.event # c.event] : k \in calls \ {c}}
              ELSE calls \ {c}
  /\ pending' = IF c.open THEN pending \ {c.event} ELSE pending

\* A bug: every plan brings its full number of tasks.
RoomAlways(d) == MaxTasks

\* persist_plan caps the pending tasks, whoever planned them.
Room(d) == MaxTasks - Min({tasks[d], MaxTasks})

\* The answers that pass grade_plan: tasks for some of the directions shown.
Plans(c) == UNION {[ds -> 1..MaxTasks] : ds \in SUBSET c.dirs \ {{}}}

\* handle_planner_decompose
Plan(c) ==
  /\ c.event.type = "plan"
  /\ \E plan \in Plans(c) :
       /\ IF DOMAIN plan = c.dirs THEN UNCHANGED mishaps ELSE Mishap
       /\ tasks' = [d \in Dirs |-> IF d \in DOMAIN plan THEN tasks[d] + Min({plan[d], Room(d)})
                                                        ELSE tasks[d]]
       /\ planned' = planned \cup DOMAIN plan
  /\ Settle(c)
  /\ UNCHANGED <<status, approved, held, docs, runs, real, synth, asked, confirms>>

\* The answer has the shape asked for, and its citations are in the corpus.
Resolves(c) == c.event.dir \notin Hopeless

\* persist_document: the new final document supersedes the old one.
Finalize(c, kind) ==
  /\ c.event.type = kind /\ Resolves(c)
  /\ docs' = docs \cup {<<c.event.dir, kind>>}
  /\ Settle(c)
  /\ UNCHANGED <<status, approved, held, planned, tasks, runs, real, synth,
                 asked, confirms, mishaps>>

\* handle_ariadne_review, handle_ariadne_propose, handle_synthesis_article
Review(c)  == Finalize(c, "review")
Propose(c) == Finalize(c, "proposal")
Compose(c) == Finalize(c, "article")

\* A design that the sandbox can run is queued for the Quartermaster ...
QueueRun(d) == runs' = [runs EXCEPT ![d].open = @ + 1] /\ UNCHANGED asked

\* ... an infeasible one is recorded as a failed attempt.
RecordInfeasible(d) == runs' = [runs EXCEPT ![d].lost = @ + 1] /\ asked' = asked \ {d}

\* handle_experiment_requested
Design(c) ==
  /\ c.event.type \in {"run", "confirm"}
  /\ QueueRun(c.event.dir) \/ RecordInfeasible(c.event.dir)
  /\ Settle(c)
  /\ UNCHANGED <<status, approved, held, planned, tasks, docs, real, synth,
                 confirms, mishaps>>

\* A hopeless document never passes; any other call may fail, too.
Fail(c) ==
  /\ IF c.event.type \in Kinds /\ c.event.dir \in Hopeless
     THEN UNCHANGED mishaps ELSE Mishap
  /\ Settle(c)
  /\ UNCHANGED <<status, approved, held, planned, tasks, docs, runs, real, synth,
                 asked, confirms>>

\* The dial or the cost cap drops the event.
Suppress(e) ==
  /\ e \in pending /\ Mishap
  /\ \A c \in calls : c.event # e
  /\ pending' = pending \ {e}
  /\ UNCHANGED <<status, approved, held, planned, tasks, docs, runs, real, synth,
                 asked, confirms, calls>>

Crash ==
  /\ calls # {} /\ Mishap
  /\ calls' = {}
  /\ UNCHANGED <<status, approved, held, planned, tasks, docs, runs, real, synth,
                 asked, confirms, pending>>

-----------------------------------------------------------------------------
(* What goes on beside it.                                                  *)

\* The gate is opened by the pacemaker or a human ...
Approve(d) ==
  /\ status[d] = "active" /\ approved' = approved \cup {d}
  /\ UNCHANGED <<status, held, planned, tasks, docs, runs, real, synth,
                 asked, confirms, pending, calls, mishaps>>

\* ... who may close it again.
CloseGate(d) ==
  /\ d \in approved /\ approved' = approved \ {d} /\ Mishap
  /\ UNCHANGED <<status, held, planned, tasks, docs, runs, real, synth,
                 asked, confirms, pending, calls>>

\* A researcher works a task off.
Work(d) ==
  /\ tasks[d] > 0 /\ tasks' = [tasks EXCEPT ![d] = @ - 1]
  /\ UNCHANGED <<status, approved, held, planned, docs, runs, real, synth,
                 asked, confirms, pending, calls, mishaps>>

\* _classify_realism of the code: a run counts as real, or it does not.
Realism(d) == {real, real \cup {d}}

\* A run ends, completed or not.
RunEnds(d) ==
  /\ runs[d].open > 0
  /\ \/ /\ runs' = [runs EXCEPT ![d].open = @ - 1, ![d].done = @ + 1]
        /\ real' \in Realism(d)
     \/ /\ runs' = [runs EXCEPT ![d].open = @ - 1, ![d].lost = @ + 1]
        /\ UNCHANGED real
  /\ asked' = asked \ {d}
  /\ UNCHANGED <<status, approved, held, planned, tasks, docs, synth,
                 confirms, pending, calls, mishaps>>

\* A finding on enough new evidence, which may conclude the direction.
Synthesize(d) ==
  /\ status[d] = "active" /\ runs[d].done >= Coverage
  /\ synth[d] = 0 \/ runs[d].done >= synth[d] + ResynthStep
  /\ synth' = [synth EXCEPT ![d] = runs[d].done]
  /\ status' \in {status, [status EXCEPT ![d] = "concluded"]}
  /\ UNCHANGED <<approved, held, planned, tasks, docs, runs, real,
                 asked, confirms, pending, calls, mishaps>>

\* It is retired, gapped or rejected.
End(d) ==
  /\ status[d] = "active" /\ status' = [status EXCEPT ![d] = "ended"]
  /\ UNCHANGED <<approved, held, planned, tasks, docs, runs, real, synth,
                 asked, confirms, pending, calls, mishaps>>

-----------------------------------------------------------------------------
Proceed(c) == Plan(c) \/ Review(c) \/ Propose(c) \/ Compose(c) \/ Design(c)

\* A call that is answered well, or can never be.
Advances(c) == Proceed(c) \/ (c.event.dir \in Hopeless /\ Fail(c))

Next ==
  \/ Tick \/ NextBucket
  \/ \E e \in pending : Take(e) \/ Suppress(e)
  \/ \E c \in calls : Proceed(c) \/ Fail(c)
  \/ Crash
  \/ \E d \in Dirs : \/ Approve(d) \/ CloseGate(d) \/ Work(d)
                     \/ RunEnds(d) \/ Synthesize(d) \/ End(d)

(* Fairness: the pacemaker ticks and time passes; a pending event gets its  *)
(* slot (the semaphore is a queue); a call ends, and one that is answered   *)
(* badly costs a mishap, but for the hopeless; runs end and evidence is     *)
(* synthesized.  Nothing is assumed of the gate and of the researchers.     *)
Fairness ==
  /\ WF_vars(Tick) /\ WF_vars(NextBucket)
  /\ \A e \in Events :
       /\ SF_vars(Take(e))
       /\ WF_vars(\E c \in calls : c.event = e /\ Advances(c))
  /\ \A d \in Dirs : WF_vars(RunEnds(d)) /\ WF_vars(Synthesize(d))

Spec     == Init /\ [][Next]_vars
FairSpec == Spec /\ Fairness

-----------------------------------------------------------------------------
TypeOK ==
  /\ status \in [Dirs -> {"active", "concluded", "ended"}]
  /\ approved \subseteq Dirs /\ held \subseteq Dirs /\ planned \subseteq Dirs
  /\ tasks \in [Dirs -> Nat] /\ \A d \in Dirs : tasks[d] > 0 => d \in planned
  /\ docs \subseteq Dirs \X Kinds
  /\ runs \in [Dirs -> [done : Nat, lost : Nat, open : Nat]]
  /\ real \subseteq Dirs /\ \A d \in Dirs : synth[d] =< runs[d].done
  /\ asked \subseteq Dirs /\ confirms \in [Dirs -> 0..MaxConfirms]
  /\ pending \subseteq Events /\ Cardinality(calls) =< MaxCalls
  /\ \A c \in calls : /\ c.event \in Events /\ c.dirs \subseteq Dirs
                      /\ c.open => c.event \in pending
  /\ mishaps \in 0..MaxMishaps

(* "a direction never has more than its lean pending set" (persist_plan),   *)
(* however often the same directions are planned.                           *)
PendingCapped == \A d \in Dirs : tasks[d] =< MaxTasks

(* The give-up cap holds with requests on their way: attempts, runs and     *)
(* requests exceed it only by the requests stacked up over several buckets, *)
(* by confirmations and by repeated calls.                                  *)
AttemptsBounded ==
  \A d \in Dirs :
    Attempts(d) + runs[d].open + Cardinality(Requests(d))
      =< GiveUp * EvidenceCap + MaxRequests - 1 + confirms[d] + mishaps

(* An approved direction gets its review and its proposal, whatever becomes *)
(* of its tasks meanwhile: "a failed write retries tomorrow".               *)
ApprovedProposed ==
  \A d \in Dirs \ Hopeless : Working(d) ~> (~Working(d) \/ Has(d, "proposal"))

(* "every approved direction marches to a finding": it reaches the evidence *)
(* that it wants or the give-up cap, also when a request died on its way.   *)
Marching(d) == Working(d) /\ d \notin held /\ Has(d, "proposal") /\ d \in planned
Marched ==
  \A d \in Dirs :
    Marching(d) ~> \/ ~Marching(d) \/ runs[d].done >= Target(d)
                   \/ Attempts(d) >= GiveUp * Target(d)

(* A finding at a settled point is written up, when it concluded its        *)
(* direction as when the evidence is capped.                                *)
Unwritten(d) == /\ d \in approved /\ synth[d] > 0 /\ ~Has(d, "article")
                /\ \/ status[d] = "concluded"
                   \/ status[d] = "active" /\ runs[d].done >= EvidenceCap
SettledWritten ==
  \A d \in Dirs \ Hopeless : Unwritten(d) ~> ~Unwritten(d)

(* "Serial per direction (the in-flight guard)", "the in-flight guard keeps *)
(* a LIVE request from double-firing" (_maybe_drive_experiments).           *)
OneInFlight == \A d \in Dirs : runs[d].open =< 1
=============================================================================
