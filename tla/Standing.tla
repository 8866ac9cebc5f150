------------------------------ MODULE Standing ------------------------------
(***************************************************************************)
(* The confidence of one research direction and the three handlers that    *)
(* move it: a researcher who reads the library for a task                  *)
(* (agents/researcher/grounded*.py, feedback.py), the critic who reads the *)
(* web against it (agents/critic), and the interpretation of an experiment *)
(* (experiment_interpret.py).  Each reads the confidence, awaits, and      *)
(* writes a new one, so that any two of them can cross.                    *)
(*                                                                         *)
(* Papers are what a citation resolves to: retrieved documents are known   *)
(* by their title.  Confidence is counted in steps of a small scale.  What *)
(* a model answers is any answer of the schema.                            *)
(***************************************************************************)
EXTENDS Fetcher, Integers, FiniteSetsExt

CONSTANTS
  Tasks,        \* research tasks of the direction
  Reviews,      \* finding.high_signal events of the direction
  Reports,      \* finished experiments of the direction
  External,     \* certified papers from outside
  OwnWords,     \* documents of the lab's own: notes, findings, proposals
  Invented,     \* titles of nothing
  Runnable,     \* tasks that name a data set or a model staged here
  Refs,         \* how many retrieved documents are kept (12)
  Point,        \* the weak point each fetch of a review is for, from 1
  Points,       \* weak points of a plan
  MaxPages,     \* MAX_PAGES_PER_WEAKPOINT
  Top, Ceiling, Start,      \* the scale, _RESEARCH_CONFIDENCE_CEILING, birth
  Support, Contradict, Exhausted, MaxRound,
  Weaken, KillWeaken, MaxWeaken,
  Swings        \* what a report may propose

ASSUME StandingAssumption ==
  /\ Runnable \subseteq Tasks
  /\ Reviews \subseteq Callers /\ Point \in [Fetches -> Nat \ {0}] /\ Points \in Nat
  /\ Refs \in Nat /\ MaxPages \in Nat
  /\ Top \in Nat /\ Ceiling \in 0..Top /\ Start \in 0..Ceiling
  /\ {Support, Contradict, Exhausted, MaxRound, Weaken, KillWeaken, MaxWeaken} \subseteq Nat
  /\ Swings \subseteq Int
  /\ External \cap (OwnWords \cup Invented) = {}
  /\ IsFiniteSet(External \cup OwnWords \cup Invented)

VARIABLES
  live,     \* the direction's status is one of the active four
  conf,     \* its confidence
  peak,     \* history: the highest of its birth and what experiments wrote
  task,     \* the work of each research task
  review,   \* the work of each review
  report    \* the work of each interpretation

standingVars == <<live, conf, peak, task, review, report>>
vars == <<fetcherVars, standingVars>>

Papers == External \cup OwnWords \cup Invented
Least(a, b)    == IF a < b THEN a ELSE b
Greatest(a, b) == IF a < b THEN b ELSE a
Within(low, high, x) == Greatest(low, Least(high, x))

\* a task of which nothing is under way
Forgotten(at) == [at |-> at, refs |-> {}, cited |-> {}, delta |-> 0, read |-> 0]

TaskEnds   == {"completed", "failed", "cancelled"}
ReviewEnds == {"done", "raised"}

Init ==
  /\ FetcherInit
  /\ live = TRUE /\ conf = Start /\ peak = Start
  /\ task = [t \in Tasks |-> Forgotten("pending")]
  /\ review = [c \in Reviews |-> [at |-> "signal", point |-> 0, delta |-> 0, read |-> 0]]
  /\ report = [e \in Reports |-> [at |-> "finished", delta |-> 0, read |-> 0]]

\* update_claim_confidence; a direction that is not active makes it raise
Write(new) == live /\ conf' = new

-----------------------------------------------------------------------------
(* The researcher.                                                         *)

TaskStep(t, step) == task' = [task EXCEPT ![t] = step]
TaskEndsAs(t, end) == TaskStep(t, Forgotten(end))
OnlyTask == UNCHANGED <<fetcherVars, live, review, report>>

\* What the scores of a search may rank first among the documents it sees.
Ranked(documents) == {best \in SUBSET documents : Cardinality(best) <= Refs}

\* A bug: the lab's own documents come back as evidence.
RetrieveAll(documents) == Ranked(documents)

\* retrieve(exclude_lab=True)
Retrieve(documents) == Ranked(documents \ OwnWords)

\* The queries fall back to the direction; each retrieves, the merged
\* documents are cut.  A retrieval that fails fails the task.
FindEvidence(t) ==
  /\ task[t].at = "pending"
  /\ \/ \E found \in Retrieve(External \cup OwnWords) :
          TaskStep(t, [task[t] EXCEPT !.at = "reading", !.refs = found])
     \/ TaskEndsAs(t, "failed")
  /\ UNCHANGED <<conf, peak>> /\ OnlyTask

\* answer_question: its events and the graph are best-effort, its model is not
AskMimir(t) ==
  /\ task[t].at = "reading"
  /\ \/ TaskStep(t, [task[t] EXCEPT !.at = "judging"])
     \/ TaskEndsAs(t, "failed")
  /\ UNCHANGED <<conf, peak>> /\ OnlyTask

\* grade_finding: grounded, as the number of cited titles that resolve
Resolved(cited, refs) == cited \cap refs
Grounded(cited, refs) == cited # {} /\ 2 * Cardinality(Resolved(cited, refs)) >= Cardinality(cited)

Decisive == {"supported", "contradicted"}
Blockers == {"inconclusive", "thin_corpus", "needs_experiment"}

\* disposition: a decisive verdict that rests on nothing is not decisive
Disposition(verdict, blocker, nothing, runnable) ==
  CASE verdict \notin Decisive /\ runnable /\ blocker = "thin_corpus" -> "needs_experiment"
    [] verdict \in Decisive /\ ~nothing                              -> verdict
    [] OTHER                                                         -> blocker

\* finding_feedback: the moves a disposition may propose, the decisive ones
\* scaled by the confidence the model has in its finding
Proposed(disposition, grounded) ==
  CASE disposition = "supported" /\ grounded    -> 0 .. Support
    [] disposition = "contradicted" /\ grounded -> -Contradict .. 0
    [] disposition = "corpus_exhausted"         -> {-Exhausted}
    [] OTHER                                    -> {0}

\* aggregate_direction: a round moves a direction by so much and no more
Moves(disposition, grounded) ==
  {Within(-MaxRound, MaxRound, delta) : delta \in Proposed(disposition, grounded)}

\* The model judges; grading and disposition follow without an await.
Judge(t) ==
  /\ task[t].at = "judging"
  /\ \/ TaskEndsAs(t, "failed")
     \/ \E verdict \in Decisive \cup {"inconclusive"}, blocker \in Blockers, cited \in SUBSET Papers :
          LET refs == task[t].refs
              base == Disposition(verdict, blocker, Resolved(cited, refs) = {}, t \in Runnable)
          IN \* refine_disposition may find that the corpus is exhausted
             \E d \in {base} \cup (IF base = "thin_corpus" THEN {"corpus_exhausted"} ELSE {}) :
               \E delta \in Moves(d, Grounded(cited, refs)) :
                 TaskStep(t, IF delta = 0
                   THEN Forgotten("settled")
                   ELSE [task[t] EXCEPT !.at = "steering", !.delta = delta,
                           !.cited = IF d = "corpus_exhausted" THEN {} ELSE cited])
  /\ UNCHANGED <<conf, peak>> /\ OnlyTask

\* apply_feedback reads the confidence of an active direction, in a
\* connection of its own
ReadStanding(t) ==
  /\ task[t].at = "steering"
  /\ TaskStep(t, IF live THEN [task[t] EXCEPT !.at = "moving", !.read = conf] ELSE Forgotten("settled"))
  /\ UNCHANGED <<conf, peak>> /\ OnlyTask

\* A bug: the ceiling of literature is not there.
SteeredUncapped(read, delta) == Within(0, Top, read + delta)

\* Literature does not lift a direction past the ceiling.
Steered(read, delta) ==
  LET new == Within(0, Top, read + delta)
  IN IF delta > 0 /\ new > Ceiling THEN Greatest(read, Ceiling) ELSE new

\* A direction that ended since raises, as a lost connection does, and both are
\* swallowed.
Steer(t) ==
  /\ task[t].at = "moving"
  /\ Write(Steered(task[t].read, task[t].delta)) \/ UNCHANGED conf
  /\ TaskStep(t, Forgotten("settled"))
  /\ UNCHANGED peak /\ OnlyTask

\* complete_task comes whatever became of the steering, but for the timeout
\* of the handler, which no handler catches.
SettleTask(t) ==
  /\ \/ task[t].at = "settled" /\ TaskEndsAs(t, "completed") /\ UNCHANGED mishaps
     \/ task[t].at \notin {"pending"} \cup TaskEnds /\ TaskEndsAs(t, "cancelled") /\ Mishap
  /\ UNCHANGED <<cache, gate, fetch, closed, live, conf, peak, review, report>>

Research(t) == \/ FindEvidence(t) \/ AskMimir(t) \/ Judge(t) \/ ReadStanding(t)
               \/ Steer(t)        \/ SettleTask(t)

-----------------------------------------------------------------------------
(* The critic.                                                             *)

ReviewStep(c, step) == review' = [review EXCEPT ![c] = step]
ReviewEndsAs(c, end) == ReviewStep(c, [at |-> end, point |-> 0, delta |-> 0, read |-> 0])
OnlyReview == UNCHANGED <<live, task, report>>

PagesOf(c, n) == {f \in InBatch(c) : Point[f] = n}

\* plan_attack names the weak points; without a plan the handler fails
PlanAttack(c) ==
  /\ review[c].at = "signal"
  /\ ReviewStep(c, [review[c] EXCEPT !.at = "searching", !.point = 1]) \/ ReviewEndsAs(c, "raised")
  /\ UNCHANGED <<conf, peak, fetcherVars>> /\ OnlyReview

\* search_web and its siblings: whatever they find, or nothing when they fail
Hits(c) == {hits \in SUBSET PagesOf(c, review[c].point) : Cardinality(hits) <= MaxPages}

\* _search_for_weak_point: a source that fails is skipped; one batch of pages
\* for each weak point, one after the other
SearchWeakPoint(c) ==
  /\ review[c].at = "searching" /\ review[c].point <= Points
  /\ \E hits \in Hits(c) :
       /\ fetch' = [f \in Fetches |-> IF f \in hits THEN "asked" ELSE fetch[f]]
       /\ ReviewStep(c, IF hits = {} THEN [review[c] EXCEPT !.point = review[c].point + 1] ELSE [review[c] EXCEPT !.at = "fetching"])
  /\ UNCHANGED <<cache, gate, closed, mishaps, conf, peak>> /\ OnlyReview

\* web_fetch_many returns when every page has, or raises when one does.  What
\* the pages say is left to the judge: the calls that returned are forgotten.
Gather(c) ==
  /\ review[c].at = "fetching"
  /\ LET ended == {fetch[f] : f \in PagesOf(c, review[c].point)} IN
     \/ "raised" \in ended /\ ReviewEndsAs(c, "raised") /\ UNCHANGED fetch
     \/ /\ ended \subseteq Ends \cup {"idle"} /\ "raised" \notin ended
        /\ ReviewStep(c, [review[c] EXCEPT !.at = "searching", !.point = review[c].point + 1])
        /\ fetch' = [f \in Fetches |-> IF f \in PagesOf(c, review[c].point) THEN "idle" ELSE fetch[f]]
  /\ UNCHANGED <<cache, gate, closed, mishaps, conf, peak>> /\ OnlyReview

\* The steps between the pages and the verdict.  A page without text is skipped,
\* one that cannot be read costs only itself, an experiment that fails is told
\* as such: but a prompt that cannot be built fails the handler.
GoesOn(c, at, next) ==
  /\ review[c].at = at
  /\ ReviewStep(c, [review[c] EXCEPT !.at = next]) \/ ReviewEndsAs(c, "raised")
  /\ UNCHANGED <<conf, peak, fetcherVars>> /\ OnlyReview

Extract(c)      == review[c].point > Points /\ GoesOn(c, "searching", "extracted")
StressTest(c)   == GoesOn(c, "extracted", "tested")
JudgeVerdict(c) == GoesOn(c, "tested", "judged")

\* The verdict's own delta, its default, and the weaken a kill becomes: what a
\* review may take off.  To watch takes nothing.
Pressure(action) ==
  CASE action = "weaken" -> 1..MaxWeaken \cup {Weaken}
    [] action = "kill"   -> {KillWeaken}
    [] OTHER             -> {0}

\* create_critic_verdict is written before anything is moved.
RecordVerdict(c) ==
  /\ review[c].at = "judged"
  /\ \E action \in {"watch", "weaken", "kill"} : \E delta \in Pressure(action) :
       IF delta = 0 THEN ReviewEndsAs(c, "done")
                    ELSE ReviewStep(c, [review[c] EXCEPT !.at = "recorded", !.delta = delta])
  /\ UNCHANGED <<conf, peak, fetcherVars>> /\ OnlyReview

\* get_claim reads any direction, whatever its status
ReadTarget(c) ==
  /\ review[c].at = "recorded"
  /\ ReviewStep(c, [review[c] EXCEPT !.at = "weakening", !.read = conf])
  /\ UNCHANGED <<conf, peak, fetcherVars>> /\ OnlyReview

\* On a direction that ended the handler fails, with its verdict on record.
Press(c) ==
  /\ review[c].at = "weakening"
  /\ \/ Write(Greatest(0, review[c].read - review[c].delta)) /\ ReviewEndsAs(c, "done")
     \/ ~live /\ UNCHANGED conf /\ ReviewEndsAs(c, "raised")
  /\ UNCHANGED <<peak, fetcherVars>> /\ OnlyReview

\* HANDLER_TIMEOUT_S
TimeOut(c) ==
  /\ review[c].at \notin {"signal"} \cup ReviewEnds
  /\ CancelBatch(c) /\ Mishap /\ ReviewEndsAs(c, "raised")
  /\ UNCHANGED <<conf, peak>> /\ OnlyReview

Criticise(c) == \/ PlanAttack(c)    \/ SearchWeakPoint(c) \/ Gather(c) \/ Extract(c)
                \/ StressTest(c)    \/ JudgeVerdict(c)
                \/ RecordVerdict(c) \/ ReadTarget(c)      \/ Press(c)  \/ TimeOut(c)

-----------------------------------------------------------------------------
(* The interpretation of an experiment, and what else happens.             *)

ReportStep(e, step) == report' = [report EXCEPT ![e] = step]

ReadForReport(e) ==
  /\ report[e].at = "finished"
  /\ \E swing \in Swings :
       ReportStep(e, IF swing = 0 THEN [report[e] EXCEPT !.at = "done"]
                     ELSE [report[e] EXCEPT !.at = "moving", !.delta = swing, !.read = conf])
  /\ UNCHANGED <<fetcherVars, live, conf, peak, task, review>>

\* The top of the scale is earned here; an ended direction is skipped.
Interpret(e) ==
  /\ report[e].at = "moving"
  /\ ReportStep(e, [at |-> "done", delta |-> 0, read |-> 0])
  /\ LET new == Within(0, Top, report[e].read + report[e].delta) IN
     \/ Write(new) /\ peak' = Greatest(peak, new)
     \/ ~live /\ UNCHANGED <<conf, peak>>
  /\ UNCHANGED <<fetcherVars, live, task, review>>

\* Anyone else's page: Mimir stages a source, a reader opens a link.
AskPage(f) ==
  /\ Caller[f] \notin Reviews /\ fetch[f] = "idle"
  /\ Goes(f, "asked")
  /\ UNCHANGED <<cache, gate, closed, mishaps, standingVars>>

\* The ladder, Ariadne or an operator ends the direction.
EndDirection == live /\ live' = FALSE /\ UNCHANGED <<fetcherVars, conf, peak, task, review, report>>

Next ==
  \/ \E t \in Tasks : Research(t)
  \/ \E c \in Reviews : Criticise(c)
  \/ \E e \in Reports : ReadForReport(e) \/ Interpret(e)
  \/ \E f \in Fetches : AskPage(f) \/ (Fetch(f) /\ UNCHANGED standingVars)
  \/ \E u \in Urls : Expire(u) /\ UNCHANGED standingVars
  \/ EndDirection

Spec == Init /\ [][Next]_vars

-----------------------------------------------------------------------------
TaskWork ==
  [at : {"pending", "reading", "judging", "steering", "moving", "settled"} \cup TaskEnds,
   refs : SUBSET Papers, cited : SUBSET Papers, delta : Int, read : 0..Top]
ReviewWork ==
  [at : {"signal", "searching", "fetching", "extracted", "tested", "judged", "recorded",
         "weakening"} \cup ReviewEnds,
   point : 0..(Points + 1), delta : Nat, read : 0..Top]
ReportWork == [at : {"finished", "moving", "done"}, delta : Int, read : 0..Top]

TypeOK ==
  /\ FetcherTypeOK
  /\ live \in BOOLEAN /\ conf \in 0..Top /\ peak \in 0..Top
  /\ task \in [Tasks -> TaskWork]
  /\ review \in [Reviews -> ReviewWork]
  /\ report \in [Reports -> ReportWork]

(* "Literature reading alone can't take a direction past PROVISIONAL         *)
(* confidence -- the top band is EARNED by experiment": a confidence above   *)
(* the ceiling is one an interpretation of an experiment had reached,        *)
(* however the writes of the three handlers cross.                           *)
LiteratureCapped == conf > Ceiling => conf <= peak

(* The guard "against the self-grounding pathology": a move that a verdict   *)
(* makes rests on citations of which at least half are papers from outside   *)
(* that were retrieved for the task, never on the lab's own documents.       *)
OwnWordsDontCount == \A t \in Tasks :
  task[t].at \in {"steering", "moving"} /\ task[t].cited # {} =>
    2 * Cardinality(task[t].cited \cap task[t].refs \cap External) >= Cardinality(task[t].cited)

(* What literature writes never lowers a direction that stands higher on an  *)
(* experiment, when it meant to lift it: "never drag down a direction        *)
(* already above it on stronger (experiment) evidence".                      *)
NeverDragged == [][\A t \in Tasks :
  task[t].at = "moving" /\ task'[t].at = "settled" /\ task[t].delta > 0 => conf' >= conf]_vars
=============================================================================
