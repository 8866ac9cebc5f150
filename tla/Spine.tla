------------------------------- MODULE Spine -------------------------------
(***************************************************************************)
(* The spine of one approved direction: an ended experiment is             *)
(* interpreted, enough interpreted experiments are synthesized into a      *)
(* finding, the finding is audited, a finding the lab is sure of is        *)
(* attacked.  Each link is an event with a one-shot key and a handler that *)
(* takes minutes; what a lost event breaks is re-armed from the state of   *)
(* the tables, at most once a day per item.                                *)
(*                                                                         *)
(* Of the bus only this is used: an event is pending until a handler call  *)
(* settles it; a sweep may start a second call on a pending event          *)
(* (Dispatcher shows when); a call may fail or time out, which settles the *)
(* event as well; the process may die, which leaves the event pending.     *)
(*                                                                         *)
(* Simplifications: what a language model answers is arbitrary; a verdict  *)
(* "slop" has the effects of "unclear" and is not told apart; of the grace *)
(* period of the re-arms only this is kept, that a finding whose own event *)
(* is still to be emitted is not re-armed; a tick is one step; the         *)
(* documents sent to the Library are left out.                             *)
(* MaxMishaps is the only bound.                                           *)
(***************************************************************************)
EXTENDS Naturals, Sequences, FiniteSets, FiniteSetsExt

CONSTANTS
  Engine,       \* LOOP_ENGINE: the engine re-arms, or else the watchdog's rung
  Runs,         \* experiment_runs of the direction, by id
  MinRuns,      \* SYNTHESIS_MIN_EXPERIMENTS
  ResynthStep,  \* SYNTHESIS_RESYNTH_STEP
  ReadLimit,    \* the most experiments a synthesis reads (LIMIT 30)
  RearmCap,     \* REARM_CAP_PER_TICK
  Supports,     \* ResearchFinding.supported
  Confidences,  \* ResearchFinding.confidence, in tenths
  RequireReal,  \* SYNTHESIS_REQUIRE_REAL
  MaxCalls,     \* max_concurrent_handlers
  MaxMishaps    \* bound on lost events, failed and repeated calls, crashes

ASSUME SpineAssumption ==
  /\ Engine \in BOOLEAN
  /\ Runs \subseteq Nat /\ IsFiniteSet(Runs)
  /\ MinRuns \in Nat \ {0} /\ ReadLimit \in Nat /\ ResynthStep \in Nat /\ RearmCap \in Nat
  /\ Supports \subseteq {"supported", "refuted", "mixed", "inconclusive"}
  /\ Confidences \subseteq 0..10 /\ RequireReal \in BOOLEAN
  /\ MaxCalls \in Nat \ {0} /\ MaxMishaps \in Nat

VARIABLES
  run,       \* status of each run; "empty" is completed with the result {}
  noted,     \* runs whose interpretation or researcher_notes is set
  moved,     \* how often each run has moved the direction's confidence
  status,    \* claims.status of the direction
  findings,  \* its research_findings, oldest first
  attacked,  \* how many of them are older than the latest critic verdict
  pending,   \* events of the spine with status 'pending'
  keys,      \* the events whose dedup key is taken
  calls,     \* handler calls past their first reads
  mishaps

vars == <<run, noted, moved, status, findings, attacked,
          pending, keys, calls, mishaps>>

Active == {"proposed", "tested", "weakly_supported", "replicated"}
Rank == [proposed |-> 0, tested |-> 1, weakly_supported |-> 2,
         replicated |-> 3, concluded |-> 4]

Event(type, about, key) == [type |-> type, about |-> about, key |-> key]
Once(k) == <<"once", k>>
Today   == <<"daily", 0>>

\* INSERT ... ON CONFLICT DO NOTHING.  A key with the day in it is free again
\* the next day, and days may pass between any two steps.
Lasting(es) == {e \in es : e.key # Today}
Emit(es) == /\ pending' = pending \cup (es \ keys)
            /\ keys' = keys \cup Lasting(es)

Pending(types, about) == \E e \in pending : e.type \in types /\ e.about \in about

Completed == {x \in Runs : run[x] \in {"completed", "empty"}}
Evidence  == Cardinality(Completed)
ReadBack  == Min({Evidence, ReadLimit})
Synthesized == Max({findings[f].n : f \in DOMAIN findings} \cup {0})

Mishap == mishaps < MaxMishaps /\ mishaps' = mishaps + 1

Init ==
  /\ run = [x \in Runs |-> "open"]
  /\ noted = {} /\ moved = [x \in Runs |-> 0]
  /\ status = "proposed"
  /\ findings = <<>> /\ attacked = 0
  /\ pending = {} /\ keys = {} /\ calls = {}
  /\ mishaps = 0

-----------------------------------------------------------------------------
(* A run ends: its row, then its event, which a crash in between loses.     *)

EndEvent(x) == IF run[x] = "failed" THEN "experiment.failed" ELSE "experiment.completed"

EndRun(x) ==
  /\ run[x] = "open"
  /\ \E end \in {"completed", "empty", "failed"} : run' = [run EXCEPT ![x] = end]
  /\ \/ Emit({Event(EndEvent(x)', x, Once(0))}) /\ UNCHANGED mishaps
     \/ Mishap /\ UNCHANGED <<pending, keys>>
  /\ UNCHANGED <<noted, moved, status, findings, attacked, calls>>

-----------------------------------------------------------------------------
(* Handler calls.  A call is a record of its event, of the step it is about *)
(* to take, of what it has read and of how often its event was taken up.    *)

Call(e, at, saw, take) == [event |-> e, at |-> at, saw |-> saw, take |-> take]
CallsOn(e) == {c \in calls : c.event = e}

\* A bug: the call does not wait for a place.
TakeAtOnce(e, at, saw) ==
  /\ \/ CallsOn(e) = {} /\ UNCHANGED mishaps
     \/ CallsOn(e) # {} /\ Mishap
  /\ calls' = calls \cup {Call(e, at, saw, mishaps')}
  /\ UNCHANGED <<pending, keys>>

\* The sweep takes up pending events whether or not they are being worked.
Take(e, at, saw) ==
  /\ \/ CallsOn(e) = {} /\ UNCHANGED mishaps
     \/ CallsOn(e) # {} /\ Mishap
  /\ Cardinality(calls) < MaxCalls
  /\ calls' = calls \cup {Call(e, at, saw, mishaps')}
  /\ UNCHANGED <<pending, keys>>

\* The first reads find nothing to do.
Skip(e) == /\ pending' = pending \ {e}
           /\ UNCHANGED <<keys, calls, mishaps>>

Step(c, at, saw) == calls' = (calls \ {c}) \cup {[c EXCEPT !.at = at, !.saw = saw]}

\* The call returns and its event is consumed, es having been emitted.
Return(c, es) ==
  /\ calls' = calls \ {c}
  /\ pending' = (pending \cup (es \ keys)) \ {c.event}
  /\ keys' = keys \cup Lasting(es)

(* handle_experiment_completed, up to the answer of the model *)
BeginInterpret(e) ==
  /\ e \in pending /\ e.type = "experiment.completed"
  /\ IF run[e.about] = "completed" THEN Take(e, "mark", 0) ELSE Skip(e)
  /\ UNCHANGED <<run, noted, moved, status, findings, attacked>>

Mark(c) ==
  /\ c \in calls /\ c.at = "mark"
  /\ noted' = noted \cup {c.event.about}
  /\ Step(c, "move", 0)
  /\ UNCHANGED <<run, moved, status, findings, attacked, pending, keys, mishaps>>

MoveConfidence(c) ==
  /\ c \in calls /\ c.at = "move"
  /\ moved' = IF status \in Active THEN [moved EXCEPT ![c.event.about] = @ + 1] ELSE moved
  /\ Step(c, "trigger", 0)
  /\ UNCHANGED <<run, noted, status, findings, attacked, pending, keys, mishaps>>

Bucket(n) == n \div Max({1, ResynthStep})

TriggerSynthesis(c) ==
  /\ c \in calls /\ c.at = "trigger"
  /\ Return(c, IF Evidence >= MinRuns
               THEN {Event("finding.synthesize", 0, Once(Bucket(Evidence)))} ELSE {})
  /\ UNCHANGED <<run, noted, moved, status, findings, attacked, mishaps>>

(* handle_experiment_failed *)
NoteFailure(e) ==
  /\ e \in pending /\ e.type = "experiment.failed"
  /\ noted' = noted \cup {e.about}
  /\ Skip(e)
  /\ UNCHANGED <<run, moved, status, findings, attacked>>

(* handle_finding_synthesize *)
\* A bug: no look at what is synthesized already.
BeginSynthesizeAgain(e) ==
  /\ e \in pending /\ e.type = "finding.synthesize"
  /\ IF ReadBack >= MinRuns
     THEN Take(e, "persist", [n |-> ReadBack, since |-> Len(findings)])
     ELSE Skip(e)
  /\ UNCHANGED <<run, noted, moved, status, findings, attacked>>

BeginSynthesize(e) ==
  /\ e \in pending /\ e.type = "finding.synthesize"
  /\ IF ReadBack >= MinRuns /\ Synthesized < ReadBack
     THEN Take(e, "persist", [n |-> ReadBack, since |-> Len(findings)])
     ELSE Skip(e)
  /\ UNCHANGED <<run, noted, moved, status, findings, attacked>>

GraduateTo(supported, confidence, real) ==
  IF supported # "inconclusive" /\ confidence >= 6 /\ (real \/ ~RequireReal)
  THEN "concluded"
  ELSE IF supported = "supported" THEN "weakly_supported" ELSE "tested"

\* persist_research_finding: one transaction with the monotone graduation
PersistFinding(c) ==
  /\ c \in calls /\ c.at = "persist"
  /\ \E s \in Supports, conf \in Confidences, real \in BOOLEAN :
       LET to == GraduateTo(s, conf, real) IN
       /\ findings' = Append(findings, [n |-> c.saw.n, confidence |-> conf, audit |-> "none"])
       /\ status' = IF status \in Active /\ Rank[to] > Rank[status] THEN to ELSE status
  /\ Step(c, "compose", Len(findings'))
  /\ UNCHANGED <<run, noted, moved, attacked, pending, keys, mishaps>>

AnnounceFinding(c) ==
  /\ c \in calls /\ c.at = "compose"
  /\ Return(c, {Event("finding.composed", c.saw, Once(0))})
  /\ UNCHANGED <<run, noted, moved, status, findings, attacked, mishaps>>

(* handle_finding_composed *)
BeginAudit(e) ==
  /\ e \in pending /\ e.type = "finding.composed"
  /\ IF findings[e.about].audit = "none" THEN Take(e, "audit", e.about) ELSE Skip(e)
  /\ UNCHANGED <<run, noted, moved, status, findings, attacked>>

\* A bug: the update has no condition on the verdict.
RecordAuditAlways(c) ==
  /\ c \in calls /\ c.at = "audit"
  /\ \E verdict \in {"pass", "unclear"} :
       /\ findings' = [findings EXCEPT ![c.saw].audit = verdict]
       /\ Return(c, {})
  /\ UNCHANGED <<run, noted, moved, status, attacked, mishaps>>

\* A bug: any verdict arms.
RecordAuditArming(c) ==
  /\ c \in calls /\ c.at = "audit"
  /\ IF findings[c.saw].audit # "none"
     THEN Return(c, {}) /\ UNCHANGED findings
     ELSE \E verdict \in {"pass", "unclear"} :
            /\ findings' = [findings EXCEPT ![c.saw].audit = verdict]
            /\ Return(c, {Event("finding.high_signal", c.saw, Once(0))})
  /\ UNCHANGED <<run, noted, moved, status, attacked, mishaps>>

\* update_research_finding_audit: only the first verdict counts and arms
RecordAudit(c) ==
  LET f == c.saw IN
  /\ c \in calls /\ c.at = "audit"
  /\ IF findings[f].audit # "none"
     THEN Return(c, {}) /\ UNCHANGED findings
     ELSE \E verdict \in {"pass", "unclear"} :
            /\ findings' = [findings EXCEPT ![f].audit = verdict]
            /\ Return(c, IF verdict = "pass" /\ findings[f].confidence >= 7
                         THEN {Event("finding.high_signal", f, Once(0))} ELSE {})
  /\ UNCHANGED <<run, noted, moved, status, attacked, mishaps>>

(* handle_finding_high_signal on a direction: the verdict is inserted.  A   *)
(* "weaken" then moves the confidence of an active direction; of one that   *)
(* is not, update_claim_confidence raises and the event ends as failed,     *)
(* which is no different here.                                              *)
Attack(e) ==
  /\ e \in pending /\ e.type = "finding.high_signal"
  /\ attacked' = Len(findings)
  /\ Skip(e)
  /\ UNCHANGED <<run, noted, moved, status, findings>>

Handle(types, about) ==
  \/ \E e \in pending :
       /\ e.type \in types /\ e.about \in about
       /\ \/ BeginInterpret(e)
          \/ NoteFailure(e)
          \/ BeginSynthesize(e)
          \/ BeginAudit(e)
          \/ Attack(e)
  \/ \E c \in calls :
       /\ c.event.type \in types /\ c.event.about \in about
       /\ \/ Mark(c)
          \/ MoveConfidence(c)
          \/ TriggerSynthesis(c)
          \/ PersistFinding(c)
          \/ AnnounceFinding(c)
          \/ RecordAudit(c)

-----------------------------------------------------------------------------
(* The re-arms: what each transition of the engine, or each part of the     *)
(* watchdog's rung, finds due.  A pending event of the item keeps it off,   *)
(* and the day's key lets it be emitted once a day.                         *)

\* ORDER BY id LIMIT n
Lowest(n, S) == {x \in S : Cardinality({y \in S : y < x}) < n}

\* A bug: interpreted runs are due as well.
InterpretDueAll ==
  LET due == {x \in Runs : /\ run[x] # "open"
                           /\ ~Pending({"experiment.completed", "experiment.failed"}, {x})} IN
  {Event(EndEvent(x), x, Today) : x \in Lowest(RearmCap, due)}

\* A bug: only completed runs are due.
InterpretDueCompleted ==
  LET due == {x \in Runs : /\ run[x] \in {"completed", "empty"} /\ x \notin noted
                           /\ ~Pending({"experiment.completed", "experiment.failed"}, {x})} IN
  {Event(EndEvent(x), x, Today) : x \in Lowest(RearmCap, due)}

InterpretDue ==
  LET due == {x \in Runs : /\ run[x] # "open" /\ x \notin noted
                           /\ ~Pending({"experiment.completed", "experiment.failed"}, {x})} IN
  {Event(EndEvent(x), x, Today) : x \in Lowest(RearmCap, due)}

\* A bug: only the interpreted runs are counted.
SynthesizeDueNoted ==
  IF /\ status \in Active /\ ~Pending({"finding.synthesize"}, {0})
     /\ Cardinality(Completed \cap noted) >= MinRuns /\ Synthesized < Evidence
  THEN {Event("finding.synthesize", 0, Today)} ELSE {}

SynthesizeDue ==
  IF /\ status \in Active /\ ~Pending({"finding.synthesize"}, {0})
     /\ Evidence >= MinRuns /\ Synthesized < Evidence
  THEN {Event("finding.synthesize", 0, Today)} ELSE {}

Announcing(f) == \E c \in calls : c.at = "compose" /\ c.saw = f

\* A bug: the guard asks for the findings that were audited.
AuditDueAudited ==
  IF Engine /\ status \in Active /\ ~Pending({"finding.composed"}, DOMAIN findings)
  THEN LET due == {f \in DOMAIN findings : findings[f].audit # "none"} IN
       {Event("finding.composed", f, Today) : f \in Lowest(RearmCap, due)}
  ELSE {}

\* Only the engine re-arms this link: the rung asks for tasks with unaudited
\* rows in `findings`, which synthesis does not write.
AuditDue ==
  IF Engine /\ status \in Active /\ ~Pending({"finding.composed"}, DOMAIN findings)
  THEN LET due == {f \in DOMAIN findings :
                    findings[f].audit = "none" /\ ~Announcing(f)} IN
       {Event("finding.composed", f, Today) : f \in Lowest(RearmCap, due)}
  ELSE {}

\* drive_all, or _rearm_research_spines.  The fourth transition would re-arm
\* the attack on findings with supported = 'yes': synthesis writes no such
\* value (ResearchFinding.supported), so that none is ever due.
Rearm ==
  /\ Emit(InterpretDue \cup SynthesizeDue \cup AuditDue)
  /\ UNCHANGED <<run, noted, moved, status, findings, attacked, calls, mishaps>>

-----------------------------------------------------------------------------
\* An event is suppressed (dial, cost cap) before any handler sees it.
Suppress(e) ==
  /\ e \in pending /\ CallsOn(e) = {} /\ Mishap
  /\ pending' = pending \ {e}
  /\ UNCHANGED <<run, noted, moved, status, findings, attacked, keys, calls>>

\* A call raises or overruns HANDLER_TIMEOUT_S.
Fail(c) ==
  /\ c \in calls /\ Mishap
  /\ calls' = calls \ {c} /\ pending' = pending \ {c.event}
  /\ UNCHANGED <<run, noted, moved, status, findings, attacked, keys>>

Crash ==
  /\ calls # {} /\ Mishap
  /\ calls' = {}
  /\ UNCHANGED <<run, noted, moved, status, findings, attacked, pending, keys>>

\* The closure ladder or a re-framed agenda ends the direction.
Retire ==
  /\ status \in Active /\ status' = "invalidated"
  /\ UNCHANGED <<run, noted, moved, findings, attacked, pending, keys, calls, mishaps>>

Types == {"experiment.completed", "experiment.failed", "finding.synthesize",
          "finding.composed", "finding.high_signal"}

Next ==
  \/ \E x \in Runs : EndRun(x)
  \/ Handle(Types, Nat)
  \/ Rearm
  \/ \E e \in pending : Suppress(e)
  \/ \E c \in calls : Fail(c)
  \/ Crash
  \/ Retire

(* Fairness: a pending event is taken up and a handler call goes on (the    *)
(* sweep, and a bus that settles every event: EventContract), and the       *)
(* pacemaker or the watchdog ticks, every day.                              *)
Fairness ==
  /\ \A x \in Runs : WF_vars(Handle({"experiment.completed", "experiment.failed"}, {x}))
  /\ WF_vars(Handle({"finding.synthesize"}, {0}))
  /\ WF_vars(Handle({"finding.composed"}, Nat))
  /\ WF_vars(Rearm)

Spec     == Init /\ [][Next]_vars
FairSpec == Spec /\ Fairness

-----------------------------------------------------------------------------
Events == [type : Types, about : Nat, key : {"once", "daily"} \X Nat]

TypeOK ==
  /\ run \in [Runs -> {"open", "completed", "empty", "failed"}]
  /\ noted \subseteq {x \in Runs : run[x] # "open"}
  /\ moved \in [Runs -> Nat]
  /\ status \in Active \cup {"concluded", "invalidated"}
  /\ findings \in Seq([n : 0..Cardinality(Runs), audit : {"none", "pass", "unclear"},
                       confidence : Confidences])
  /\ attacked \in 0..Len(findings)
  /\ pending \subseteq Events
  /\ keys \subseteq Events
  /\ Cardinality(calls) =< MaxCalls
  /\ \A c \in calls :
       /\ c.event \in Events
       /\ c.at \in {"mark", "move", "trigger", "persist", "compose", "audit"}
  /\ mishaps \in 0..MaxMishaps

(* A run moves the confidence of its direction once, and once more for each *)
(* mishap at most: set_experiment_interpretation comes before the move, and *)
(* the re-arm passes over what is interpreted or still pending.             *)
MovesCounted == \A x \in Runs : moved[x] =< 1 + mishaps

(* A verdict of the audit stands, though a second call on the event or a    *)
(* re-armed one may answer differently, and a stronger verdict would arm    *)
(* the critic.                                                              *)
AuditStands ==
  [][\A f \in DOMAIN findings :
       findings[f].audit # "none" => findings'[f].audit = findings[f].audit]_vars

(* Two findings rest on the same evidence only if the handler of the second *)
(* was under way when the first was written: what is synthesized is never   *)
(* synthesized again, by any bucket, re-arm or repeated event.              *)
SynthesizedOnce ==
  \A c \in calls : c.at = "persist" =>
    \A g \in 1..c.saw.since : findings[g].n < c.saw.n

(* A critic verdict on a finding comes after a passed audit, of that        *)
(* finding or of a later one.                                               *)
AttackedAfterAudit ==
  attacked > 0 => \E f \in 1..attacked : findings[f].audit = "pass"

(* Every ended run is interpreted, or its failure noted, whatever is lost   *)
(* on the way -- unless runs whose result is {} fill the re-arm's LIMIT:    *)
(* their handler skips them, so they stay due, and come first, every day.   *)
Starved == Cardinality({x \in Runs : run[x] = "empty"}) >= RearmCap
RunsInterpreted ==
  \A x \in Runs : (run[x] \in {"completed", "failed"}) ~> (x \in noted \/ Starved)

(* Evidence past the threshold becomes a finding on at least that much      *)
(* evidence, unless the direction ends first.  What is beyond ReadLimit     *)
(* never does: the re-arm counts every run and finds it due each day, the   *)
(* handler reads ReadLimit of them and skips.                               *)
EvidenceSynthesized ==
  \A n \in MinRuns..Min({Cardinality(Runs), ReadLimit}) :
    (Evidence >= n) ~> (Synthesized >= n \/ status \notin Active)

Audited(f) == f \in DOMAIN findings /\ findings[f].audit # "none"

(* With the engine on, a finding on a direction that stays active is        *)
(* audited, whatever becomes of its event.                                  *)
FindingsAudited ==
  \A f \in 1..Cardinality(Runs) :
    (Engine /\ f \in DOMAIN findings)
      ~> (Audited(f) \/ status \notin Active)

(* "A finding left un-audited past the grace window (e.g. a missed NOTIFY)  *)
(* gets its finding.composed re-issued" (loop_engine._guard_rearm_audit):   *)
(* if its direction is not invalidated, it is audited.                      *)
UnauditedReissued ==
  \A f \in 1..Cardinality(Runs) :
    (Engine /\ f \in DOMAIN findings) ~> (Audited(f) \/ status = "invalidated")
=============================================================================
