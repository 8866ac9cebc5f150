--------------------------- MODULE StandingProofs ---------------------------
(***************************************************************************)
(* Proofs about Standing: the types, the gates of the web, what literature *)
(* may cite, and what it may reach.                                        *)
(***************************************************************************)
EXTENDS Standing, TLAPS

USE FetcherAssumption, StandingAssumption

\* A page of a later weak point has not been asked for.
PagesUnasked == \A c \in Reviews : \A f \in InBatch(c) :
  \/ review[c].at = "signal"
  \/ review[c].at = "searching" /\ Point[f] >= review[c].point
  \/ review[c].at = "fetching" /\ Point[f] > review[c].point
  => fetch[f] = "idle"

\* A batch is out for a weak point of the plan.
PointInPlan == \A c \in Reviews : review[c].at = "fetching" => review[c].point <= Points

\* A gate is taken by a fetch of its host.
GateOfHost == \A h \in Hosts : gate[h] # Nobody => HostOf(gate[h]) = h

\* What is above the ceiling was reached by an experiment.
Earned(x) == x > Ceiling => x <= peak

\* So is what a handler has read and is about to move.
ReadsEarned ==
  /\ Earned(conf)
  /\ \A t \in Tasks : task[t].at = "moving" => Earned(task[t].read)
  /\ \A c \in Reviews : review[c].at = "weakening" => Earned(review[c].read)

\* What a task has retrieved is from outside, and half of what a move of it
\* rests on is among it.
CitesOutside == \A t \in Tasks :
  /\ task[t].refs \subseteq External
  /\ task[t].at \in {"steering", "moving"} /\ task[t].cited # {} =>
       2 * Cardinality(task[t].cited \cap task[t].refs) >= Cardinality(task[t].cited)
-----------------------------------------------------------------------------
(* Types.                                                                  *)

TypeInv == TypeOK /\ PointInPlan

\* What was clipped to the scale is on it.
LEMMA OnScale ==
  ASSUME NEW x \in Int
  PROVE  /\ Within(0, Top, x) \in 0..Top
         /\ Within(-MaxRound, MaxRound, x) \in Int
BY DEF Within, Least, Greatest, StandingAssumption

LEMMA ForgottenTask ==
  ASSUME NEW at \in {"pending", "settled"} \cup TaskEnds
  PROVE  Forgotten(at) \in TaskWork
BY DEF Forgotten, TaskWork, StandingAssumption

LEMMA TaskStepTypes ==
  ASSUME task \in [Tasks -> TaskWork], NEW t \in Tasks, NEW w \in TaskWork, TaskStep(t, w)
  PROVE  task' \in [Tasks -> TaskWork]
BY DEF TaskStep

LEMMA InitTypes == Init => TypeInv
<1> SUFFICES ASSUME Init PROVE TypeInv
  OBVIOUS
<1>1. FetcherTypeOK
  BY DEF Init, FetcherInit, FetcherTypeOK, FetcherAssumption
<1>2. task \in [Tasks -> TaskWork]
  BY ForgottenTask DEF Init
<1>3. /\ review \in [Reviews -> ReviewWork] /\ report \in [Reports -> ReportWork]
      /\ live \in BOOLEAN /\ conf \in 0..Top /\ peak \in 0..Top
  BY DEF Init, ReviewWork, ReportWork, StandingAssumption
<1>4. PointInPlan
  BY DEF Init, PointInPlan
<1> QED BY <1>1, <1>2, <1>3, <1>4 DEF TypeInv, TypeOK

\* No step of a fetch leaves its type.
LEMMA FetchTypes ==
  ASSUME FetcherTypeOK, NEW f \in Fetches, Fetch(f)
  PROVE  FetcherTypeOK'
<1> USE DEF FetcherTypeOK, FetcherAssumption, Goes, Pending, Ends, HostOf
<1>1. CASE Lookup(f)
  BY <1>1 DEF Lookup
<1>2. CASE TakeGate(f)
  BY <1>2 DEF TakeGate
<1>3. CASE TransportFails(f)
  BY <1>3 DEF TransportFails, ReleaseGate
<1>4. CASE Answered(f)
  BY <1>4 DEF Answered, ReleaseGate
<1>5. CASE Raises(f)
  BY <1>5 DEF Raises, Mishap
<1>6. CASE Render(f)
  BY <1>6 DEF Render
<1>7. CASE Store(f)
  BY <1>7 DEF Store
<1> QED BY <1>1, <1>2, <1>3, <1>4, <1>5, <1>6, <1>7 DEF Fetch

LEMMA ResearchTypes ==
  ASSUME TypeInv, NEW t \in Tasks, Research(t)
  PROVE  TypeInv'
<1> USE DEF TypeInv, TypeOK
<1>1. /\ task[t] \in TaskWork /\ \A end \in TaskEnds \cup {"settled"} : Forgotten(end) \in TaskWork
  BY ForgottenTask
<1>2. SUFFICES /\ FetcherTypeOK' /\ conf' \in 0..Top /\ task' \in [Tasks -> TaskWork]
               /\ UNCHANGED <<live, peak, review, report>>
  BY <1>2 DEF PointInPlan
<1>3. CASE FindEvidence(t)
  <2>1. UNCHANGED <<fetcherVars, live, conf, peak, review, report>>
    BY <1>3 DEF FindEvidence, OnlyTask
  <2>2. \A found \in Retrieve(External \cup OwnWords) :
          [task[t] EXCEPT !.at = "reading", !.refs = found] \in TaskWork
    BY <1>1 DEF Retrieve, Ranked, TaskWork, Papers
  <2>3. task' \in [Tasks -> TaskWork]
    <3>1. CASE TaskEndsAs(t, "failed")
      BY <1>1, <3>1, TaskStepTypes DEF TaskEndsAs, TaskEnds
    <3>2. CASE ~TaskEndsAs(t, "failed")
      <4>1. PICK found \in Retrieve(External \cup OwnWords) :
              TaskStep(t, [task[t] EXCEPT !.at = "reading", !.refs = found])
        BY <1>3, <3>2 DEF FindEvidence
      <4> QED BY <2>2, <4>1, TaskStepTypes
    <3> QED BY <3>1, <3>2
  <2> QED BY <2>1, <2>3 DEF FetcherTypeOK, fetcherVars
<1>4. CASE AskMimir(t)
  <2>1. UNCHANGED <<fetcherVars, live, conf, peak, review, report>>
    BY <1>4 DEF AskMimir, OnlyTask
  <2>2. [task[t] EXCEPT !.at = "judging"] \in TaskWork
    BY <1>1 DEF TaskWork
  <2>3. task' \in [Tasks -> TaskWork]
    BY <1>1, <1>4, <2>2 DEF AskMimir, TaskStep, TaskEndsAs, TaskEnds
  <2> QED BY <2>1, <2>3 DEF FetcherTypeOK, fetcherVars
<1>5. CASE Judge(t)
  <2>1. UNCHANGED <<fetcherVars, live, conf, peak, review, report>>
    BY <1>5 DEF Judge, OnlyTask
  <2>2. ASSUME NEW cited \in SUBSET Papers, NEW d, NEW grounded \in BOOLEAN, NEW delta \in Moves(d, grounded)
        PROVE  [task[t] EXCEPT !.at = "steering", !.delta = delta, !.cited = cited] \in TaskWork
    <3>1. Proposed(d, grounded) \subseteq Int
      BY DEF Proposed, StandingAssumption
    <3>2. delta \in Int
      BY <3>1, <2>2, OnScale DEF Moves
    <3> QED BY <1>1, <3>2 DEF TaskWork
  <2>3. CASE TaskEndsAs(t, "failed")
    BY <1>1, <2>1, <2>3 DEF TaskStep, TaskEndsAs, TaskEnds, FetcherTypeOK, fetcherVars
  <2>4. CASE ~TaskEndsAs(t, "failed")
    <3>1. PICK cited \in SUBSET Papers :
            \E d : \E delta \in Moves(d, Grounded(cited, task[t].refs)) :
              TaskStep(t, IF delta = 0
                   THEN Forgotten("settled")
                   ELSE [task[t] EXCEPT !.at = "steering", !.delta = delta,
                           !.cited = IF d = "corpus_exhausted" THEN {} ELSE cited])
      BY <1>5, <2>4 DEF Judge
    <3> DEFINE grounded == Grounded(cited, task[t].refs)
    <3>2. grounded \in BOOLEAN
      BY DEF Grounded
    <3>3. PICK d : \E delta \in Moves(d, grounded) :
              TaskStep(t, IF delta = 0
                   THEN Forgotten("settled")
                   ELSE [task[t] EXCEPT !.at = "steering", !.delta = delta,
                           !.cited = IF d = "corpus_exhausted" THEN {} ELSE cited])
      BY <3>1
    <3>4. PICK delta \in Moves(d, grounded) :
              TaskStep(t, IF delta = 0
                   THEN Forgotten("settled")
                   ELSE [task[t] EXCEPT !.at = "steering", !.delta = delta,
                           !.cited = IF d = "corpus_exhausted" THEN {} ELSE cited])
      BY <3>3
    <3> DEFINE kept == IF d = "corpus_exhausted" THEN {} ELSE cited
               moved == [task[t] EXCEPT !.at = "steering", !.delta = delta, !.cited = kept]
               step == IF delta = 0 THEN Forgotten("settled") ELSE moved
    <3>5. kept \in SUBSET Papers
      OBVIOUS
    <3>6. TaskStep(t, step)
      BY <3>4
    <3> HIDE DEF grounded, kept
    <3>7. moved \in TaskWork
      BY <2>2, <3>2, <3>5
    <3> HIDE DEF moved
    <3>8. step \in TaskWork
      BY <1>1, <3>7
    <3> HIDE DEF step
    <3> QED BY <2>1, <3>6, <3>8, TaskStepTypes DEF FetcherTypeOK, fetcherVars
  <2> QED BY <2>3, <2>4
<1>6. CASE ReadStanding(t)
  <2>1. UNCHANGED <<fetcherVars, live, conf, peak, review, report>>
    BY <1>6 DEF ReadStanding, OnlyTask
  <2>2. [task[t] EXCEPT !.at = "moving", !.read = conf] \in TaskWork
    BY <1>1 DEF TaskWork
  <2>3. task' \in [Tasks -> TaskWork]
    BY <1>1, <1>6, <2>2 DEF ReadStanding, TaskStep
  <2> QED BY <2>1, <2>3 DEF FetcherTypeOK, fetcherVars
<1>7. CASE Steer(t)
  <2>1. UNCHANGED <<fetcherVars, live, peak, review, report>>
    BY <1>7 DEF Steer, OnlyTask
  <2>2. task[t].read \in 0..Top /\ task[t].delta \in Int
    BY <1>1 DEF TaskWork
  <2>3. Steered(task[t].read, task[t].delta) \in 0..Top
    BY <2>2, OnScale DEF Steered, Greatest, StandingAssumption
  <2>4. conf' \in 0..Top
    BY <1>7, <2>3 DEF Steer, Write
  <2>5. task' \in [Tasks -> TaskWork]
    BY <1>1, <1>7 DEF Steer, TaskStep
  <2> QED BY <2>1, <2>4, <2>5 DEF FetcherTypeOK, fetcherVars
<1>8. CASE SettleTask(t)
  <2>1. UNCHANGED <<cache, gate, fetch, closed, live, conf, peak, review, report>>
    BY <1>8 DEF SettleTask
  <2>2. mishaps' \in 0..MaxMishaps
    BY <1>8 DEF SettleTask, Mishap, FetcherTypeOK, FetcherAssumption
  <2>3. task' \in [Tasks -> TaskWork]
    BY <1>1, <1>8 DEF SettleTask, TaskEndsAs, TaskStep, TaskEnds
  <2> QED BY <2>1, <2>2, <2>3 DEF FetcherTypeOK
<1> QED BY <1>3, <1>4, <1>5, <1>6, <1>7, <1>8 DEF Research

LEMMA ReviewStepTypes ==
  ASSUME review \in [Reviews -> ReviewWork], NEW c \in Reviews, NEW w \in ReviewWork, ReviewStep(c, w)
  PROVE  review' \in [Reviews -> ReviewWork]
BY DEF ReviewStep

\* A review that is not sent for pages stays within its plan.
LEMMA ReviewStepInPlan ==
  ASSUME review \in [Reviews -> ReviewWork], PointInPlan,
         NEW c \in Reviews, NEW w \in ReviewWork, ReviewStep(c, w), w.at # "fetching"
  PROVE  PointInPlan'
BY DEF ReviewStep, PointInPlan

LEMMA ReviewEndTypes ==
  ASSUME review \in [Reviews -> ReviewWork], NEW c \in Reviews, NEW end \in ReviewEnds, ReviewEndsAs(c, end)
  PROVE  /\ review' \in [Reviews -> ReviewWork]
         /\ PointInPlan => PointInPlan'
BY DEF ReviewEndsAs, ReviewStep, ReviewWork, ReviewEnds, PointInPlan, StandingAssumption

\* A review that goes on stays in its type, and within its plan.
LEMMA GoesOnTypes ==
  ASSUME TypeInv, NEW c \in Reviews, NEW at, NEW next \in {"extracted", "tested", "judged"},
         GoesOn(c, at, next)
  PROVE  TypeInv'
<1> USE DEF TypeInv, TypeOK
<1>1. UNCHANGED <<fetcherVars, live, conf, peak, task, report>>
  BY DEF GoesOn, OnlyReview
<1>2. review' \in [Reviews -> ReviewWork] /\ PointInPlan'
  <2>1. CASE ReviewEndsAs(c, "raised")
    BY <2>1, ReviewEndTypes DEF ReviewEnds
  <2>2. CASE ReviewStep(c, [review[c] EXCEPT !.at = next])
    <3>1. [review[c] EXCEPT !.at = next] \in ReviewWork
      BY DEF ReviewWork
    <3>2. PointInPlan'
      BY <2>2 DEF PointInPlan, ReviewStep, ReviewWork
    <3> QED BY <2>2, <3>1, <3>2, ReviewStepTypes
  <2> QED BY <2>1, <2>2 DEF GoesOn
<1> QED BY <1>1, <1>2 DEF FetcherTypeOK, fetcherVars

LEMMA CriticiseTypes ==
  ASSUME TypeInv, NEW c \in Reviews, Criticise(c)
  PROVE  TypeInv'
<1> USE DEF TypeInv, TypeOK
<1>1. review[c] \in ReviewWork
  OBVIOUS
<1>2. CASE PlanAttack(c)
  <2>1. UNCHANGED <<fetcherVars, live, conf, peak, task, report>>
    BY <1>2 DEF PlanAttack, OnlyReview
  <2>2. review' \in [Reviews -> ReviewWork] /\ PointInPlan'
    <3> DEFINE searching == [review[c] EXCEPT !.at = "searching", !.point = 1]
    <3>1. CASE ReviewEndsAs(c, "raised")
      BY <3>1, ReviewEndTypes DEF ReviewEnds
    <3>2. CASE ReviewStep(c, searching)
      <4>1. 1 \in 0..(Points + 1)
        BY DEF StandingAssumption
      <4>2. searching \in ReviewWork /\ searching.at # "fetching"
        BY <1>1, <4>1 DEF ReviewWork
      <4> HIDE DEF searching
      <4> QED BY <3>2, <4>2, ReviewStepTypes, ReviewStepInPlan
    <3> QED BY <1>2, <3>1, <3>2 DEF PlanAttack
  <2> QED BY <2>1, <2>2 DEF FetcherTypeOK, fetcherVars
<1>3. CASE SearchWeakPoint(c)
  <2>1. UNCHANGED <<cache, gate, closed, mishaps, live, conf, peak, task, report>>
    BY <1>3 DEF SearchWeakPoint, OnlyReview
  <2>2. fetch' \in [Fetches -> {"idle"} \cup Pending \cup Ends]
    BY <1>3 DEF SearchWeakPoint, FetcherTypeOK, Pending
  <2>3. PICK hits : ReviewStep(c, IF hits = {} THEN [review[c] EXCEPT !.point = review[c].point + 1]
                                  ELSE [review[c] EXCEPT !.at = "fetching"])
    BY <1>3 DEF SearchWeakPoint
  <2>4. review' \in [Reviews -> ReviewWork] /\ PointInPlan'
    <3>1. /\ review[c].at = "searching" /\ review[c].point \in 0..Points
      BY <1>1, <1>3 DEF SearchWeakPoint, ReviewWork, StandingAssumption
    <3>2. [review[c] EXCEPT !.point = review[c].point + 1] \in ReviewWork
      BY <1>1, <3>1 DEF ReviewWork, StandingAssumption
    <3>3. [review[c] EXCEPT !.at = "fetching"] \in ReviewWork
      BY <1>1 DEF ReviewWork
    <3>4. CASE hits = {}
      BY <2>3, <3>1, <3>2, <3>4 DEF ReviewStep, ReviewWork, PointInPlan
    <3>5. CASE hits # {}
      BY <2>3, <3>1, <3>3, <3>5 DEF ReviewStep, ReviewWork, PointInPlan
    <3> QED BY <3>4, <3>5
  <2> QED BY <2>1, <2>2, <2>4 DEF FetcherTypeOK
<1>4. CASE Gather(c)
  <2>1. UNCHANGED <<cache, gate, closed, mishaps, live, conf, peak, task, report>>
    BY <1>4 DEF Gather, OnlyReview
  <2>2. fetch' \in [Fetches -> {"idle"} \cup Pending \cup Ends]
    BY <1>4 DEF Gather, FetcherTypeOK
  <2>3. review' \in [Reviews -> ReviewWork] /\ PointInPlan'
    <3>1. CASE ReviewEndsAs(c, "raised")
      BY <3>1, ReviewEndTypes DEF ReviewEnds
    <3> DEFINE searching == [review[c] EXCEPT !.at = "searching", !.point = review[c].point + 1]
    <3>2. CASE ReviewStep(c, searching)
      <4>1. review[c].point \in 0..Points
        BY <1>1, <1>4 DEF Gather, ReviewWork, PointInPlan, StandingAssumption
      <4>2. review[c].point + 1 \in 0..(Points + 1)
        BY <4>1 DEF StandingAssumption
      <4>3. searching \in ReviewWork /\ searching.at # "fetching"
        BY <1>1, <4>2 DEF ReviewWork
      <4> HIDE DEF searching
      <4> QED BY <3>2, <4>3, ReviewStepTypes, ReviewStepInPlan
    <3> QED BY <1>4, <3>1, <3>2 DEF Gather
  <2> QED BY <2>1, <2>2, <2>3 DEF FetcherTypeOK
<1>5. CASE Extract(c)
  BY <1>5, GoesOnTypes DEF Extract
<1>6. CASE StressTest(c)
  BY <1>6, GoesOnTypes DEF StressTest
<1>7. CASE JudgeVerdict(c)
  BY <1>7, GoesOnTypes DEF JudgeVerdict
<1>8. CASE RecordVerdict(c)
  <2>1. UNCHANGED <<fetcherVars, live, conf, peak, task, report>>
    BY <1>8 DEF RecordVerdict, OnlyReview
  <2>2. PICK action \in {"watch", "weaken", "kill"} : \E delta \in Pressure(action) :
          IF delta = 0 THEN ReviewEndsAs(c, "done")
          ELSE ReviewStep(c, [review[c] EXCEPT !.at = "recorded", !.delta = delta])
    BY <1>8 DEF RecordVerdict
  <2>3. PICK delta \in Pressure(action) :
          IF delta = 0 THEN ReviewEndsAs(c, "done")
          ELSE ReviewStep(c, [review[c] EXCEPT !.at = "recorded", !.delta = delta])
    BY <2>2
  <2>4. delta \in Nat
    BY DEF Pressure, StandingAssumption
  <2>5. review' \in [Reviews -> ReviewWork] /\ PointInPlan'
    <3>1. CASE delta = 0
      BY <2>3, <3>1, ReviewEndTypes DEF ReviewEnds
    <3> DEFINE recorded == [review[c] EXCEPT !.at = "recorded", !.delta = delta]
    <3>2. CASE delta # 0
      <4>1. ReviewStep(c, recorded)
        BY <2>3, <3>2
      <4>2. recorded \in ReviewWork /\ recorded.at # "fetching"
        BY <1>1, <2>4 DEF ReviewWork
      <4> HIDE DEF recorded
      <4> QED BY <4>1, <4>2, ReviewStepTypes, ReviewStepInPlan
    <3> QED BY <3>1, <3>2
  <2> QED BY <2>1, <2>5 DEF FetcherTypeOK, fetcherVars
<1>9. CASE ReadTarget(c)
  <2>1. UNCHANGED <<fetcherVars, live, conf, peak, task, report>>
    BY <1>9 DEF ReadTarget, OnlyReview
  <2>2. [review[c] EXCEPT !.at = "weakening", !.read = conf] \in ReviewWork
    BY <1>1 DEF ReviewWork
  <2>3. PointInPlan'
    BY <1>1, <1>9 DEF ReadTarget, ReviewStep, ReviewWork, PointInPlan
  <2>4. review' \in [Reviews -> ReviewWork]
    BY <1>9, <2>2, ReviewStepTypes DEF ReadTarget
  <2> QED BY <2>1, <2>3, <2>4 DEF FetcherTypeOK, fetcherVars
<1>10. CASE Press(c)
  <2>1. UNCHANGED <<fetcherVars, live, peak, task, report>>
    BY <1>10 DEF Press, OnlyReview
  <2>2. conf' \in 0..Top
    BY <1>1, <1>10 DEF Press, Write, Greatest, ReviewWork, StandingAssumption
  <2>3. review' \in [Reviews -> ReviewWork] /\ PointInPlan'
    BY <1>10, ReviewEndTypes DEF Press, ReviewEnds
  <2> QED BY <2>1, <2>2, <2>3 DEF FetcherTypeOK, fetcherVars
<1>11. CASE TimeOut(c)
  <2>1. UNCHANGED <<cache, gate, closed, live, conf, peak, task, report>>
    BY <1>11 DEF TimeOut, CancelBatch, OnlyReview
  <2>2. fetch' \in [Fetches -> {"idle"} \cup Pending \cup Ends] /\ mishaps' \in 0..MaxMishaps
    BY <1>11 DEF TimeOut, CancelBatch, Mishap, FetcherTypeOK, Ends, FetcherAssumption
  <2>3. review' \in [Reviews -> ReviewWork] /\ PointInPlan'
    BY <1>11, ReviewEndTypes DEF TimeOut, ReviewEnds
  <2> QED BY <2>1, <2>2, <2>3 DEF FetcherTypeOK
<1> QED BY <1>2, <1>3, <1>4, <1>5, <1>6, <1>7, <1>8, <1>9, <1>10, <1>11 DEF Criticise

LEMMA NextTypes == TypeInv /\ [Next]_vars => TypeInv'
<1> SUFFICES ASSUME TypeInv, [Next]_vars PROVE TypeInv'
  OBVIOUS
<1>1. CASE UNCHANGED vars
  BY <1>1 DEF vars, fetcherVars, standingVars, TypeInv, TypeOK, FetcherTypeOK, PointInPlan
<1>2. ASSUME NEW t \in Tasks, Research(t) PROVE TypeInv'
  BY <1>2, ResearchTypes
<1>3. ASSUME NEW c \in Reviews, Criticise(c) PROVE TypeInv'
  BY <1>3, CriticiseTypes
<1>4. ASSUME NEW e \in Reports, ReadForReport(e) PROVE TypeInv'
  <2> USE DEF TypeInv, TypeOK
  <2>1. UNCHANGED <<fetcherVars, live, conf, peak, task, review>>
    BY <1>4 DEF ReadForReport
  <2>2. report' \in [Reports -> ReportWork]
    <3> report[e] \in ReportWork
      OBVIOUS
    <3>1. PICK swing \in Swings :
            ReportStep(e, IF swing = 0 THEN [report[e] EXCEPT !.at = "done"]
              ELSE [report[e] EXCEPT !.at = "moving", !.delta = swing, !.read = conf])
      BY <1>4 DEF ReadForReport
    <3>2. [report[e] EXCEPT !.at = "done"] \in ReportWork
      BY DEF ReportWork
    <3> DEFINE moving == [report[e] EXCEPT !.at = "moving", !.delta = swing, !.read = conf]
    <3>3. moving \in ReportWork
      <4>1. swing \in Int /\ conf \in 0..Top
        BY DEF StandingAssumption
      <4> QED BY <4>1 DEF ReportWork
    <3>4. ReportStep(e, IF swing = 0 THEN [report[e] EXCEPT !.at = "done"] ELSE moving)
      BY <3>1
    <3> HIDE DEF moving
    <3> QED BY <3>2, <3>3, <3>4 DEF ReportStep
  <2> QED BY <2>1, <2>2 DEF FetcherTypeOK, fetcherVars, PointInPlan
<1>5. ASSUME NEW e \in Reports, Interpret(e) PROVE TypeInv'
  <2> USE DEF TypeInv, TypeOK
  <2>1. UNCHANGED <<fetcherVars, live, task, review>>
    BY <1>5 DEF Interpret
  <2>2. report' \in [Reports -> ReportWork]
    BY <1>5 DEF Interpret, ReportStep, ReportWork, StandingAssumption
  <2>3. Within(0, Top, report[e].read + report[e].delta) \in 0..Top
    BY OnScale DEF ReportWork
  <2>4. conf' \in 0..Top /\ peak' \in 0..Top
    BY <1>5, <2>3 DEF Interpret, Write, Greatest
  <2> QED BY <2>1, <2>2, <2>4 DEF FetcherTypeOK, fetcherVars, PointInPlan
<1>6. ASSUME NEW f \in Fetches, AskPage(f) PROVE TypeInv'
  BY <1>6 DEF AskPage, Goes, standingVars, TypeInv, TypeOK, FetcherTypeOK, Pending, PointInPlan
<1>7. ASSUME NEW f \in Fetches, Fetch(f), UNCHANGED standingVars PROVE TypeInv'
  BY <1>7, FetchTypes DEF standingVars, TypeInv, TypeOK, PointInPlan
<1>8. ASSUME NEW u \in Urls, Expire(u), UNCHANGED standingVars PROVE TypeInv'
  BY <1>8 DEF Expire, standingVars, TypeInv, TypeOK, FetcherTypeOK, PointInPlan
<1>9. CASE EndDirection
  BY <1>9 DEF EndDirection, fetcherVars, TypeInv, TypeOK, FetcherTypeOK, PointInPlan
<1> QED BY <1>1, <1>2, <1>3, <1>4, <1>5, <1>6, <1>7, <1>8, <1>9 DEF Next

(* Whatever is read, moved, fetched or cancelled, the state keeps its type: *)
(* a confidence stays on the scale.                                         *)
THEOREM TypeCorrect == Spec => []TypeOK
<1>1. Spec => []TypeInv
  BY InitTypes, NextTypes, PTL DEF Spec
<1>2. TypeInv => TypeOK
  BY DEF TypeInv
<1> QED BY <1>1, <1>2, PTL

-----------------------------------------------------------------------------
(* The gates.                                                              *)

GateInv == TypeInv /\ PagesUnasked /\ GateOfHost /\ GateAccounted

\* A step that takes no gate, and touches no request that holds one but to
\* raise it, keeps the account.
LEMMA GatesKept ==
  ASSUME FetcherTypeOK, GateOfHost, GateAccounted, gate' = gate,
         \A f \in Fetches :
           \/ fetch'[f] \in {fetch[f], "raised"}
           \/ fetch[f] \notin {"holding", "raised"} /\ fetch'[f] # "holding"
  PROVE  GateOfHost' /\ GateAccounted'
BY DEF FetcherTypeOK, GateOfHost, GateAccounted, HostOf

LEMMA FetchGates ==
  ASSUME FetcherTypeOK, GateOfHost, GateAccounted, NEW f \in Fetches, Fetch(f)
  PROVE  GateOfHost' /\ GateAccounted'
<1> USE DEF FetcherTypeOK, FetcherAssumption, Goes
<1>1. CASE Lookup(f)
  <2>1. gate' = gate /\ fetch[f] = "asked" /\ fetch'[f] # "holding"
    BY <1>1 DEF Lookup
  <2>2. \A g \in Fetches : g # f => fetch'[g] = fetch[g]
    BY <1>1 DEF Lookup
  <2> QED BY <2>1, <2>2, GatesKept
<1>2. CASE TakeGate(f)
  <2>1. /\ fetch[f] = "queued" /\ gate[HostOf(f)] = Nobody
        /\ gate' = [gate EXCEPT ![HostOf(f)] = f] /\ fetch' = [fetch EXCEPT ![f] = "holding"]
    BY <1>2 DEF TakeGate
  <2>2. HostOf(f) \in Hosts
    BY DEF HostOf
  <2>3. GateOfHost'
    BY <2>1, <2>2 DEF GateOfHost, HostOf
  <2>4. GateAccounted'
    BY <2>1, <2>2 DEF GateAccounted, HostOf
  <2> QED BY <2>3, <2>4
<1>3. ASSUME fetch[f] = "holding", ReleaseGate(f),
             \E to \in {"nothing", "read", "blocked", "shell"} : fetch' = [fetch EXCEPT ![f] = to]
      PROVE  GateOfHost' /\ GateAccounted'
  <2>1. gate[HostOf(f)] = f /\ HostOf(f) \in Hosts
    BY <1>3 DEF GateAccounted, HostOf
  <2>2. gate' = [gate EXCEPT ![HostOf(f)] = Nobody] /\ fetch'[f] # "holding"
    BY <1>3 DEF ReleaseGate
  <2>3. \A g \in Fetches : g # f => fetch'[g] = fetch[g]
    BY <1>3
  <2>4. GateOfHost'
    BY <2>1, <2>2 DEF GateOfHost, HostOf
  <2>5. \A g \in Fetches : fetch'[g] = "holding" => gate'[HostOf(g)] = g
    BY <2>1, <2>2, <2>3 DEF GateAccounted, HostOf
  <2>6. \A h \in Hosts : gate'[h] # Nobody => gate'[h] # f /\ gate'[h] = gate[h]
    BY <2>1, <2>2 DEF GateOfHost
  <2> QED BY <2>3, <2>4, <2>5, <2>6 DEF GateAccounted, HostOf
<1>4. CASE TransportFails(f)
  BY <1>3, <1>4 DEF TransportFails
<1>5. CASE Answered(f)
  BY <1>3, <1>5 DEF Answered
<1>6. CASE Raises(f)
  <2>1. gate' = gate /\ fetch' = [fetch EXCEPT ![f] = "raised"]
    BY <1>6 DEF Raises
  <2> QED BY <2>1, GatesKept
<1>7. CASE Render(f)
  <2>1. gate' = gate /\ fetch[f] \in {"shell", "rendering"} /\ fetch'[f] # "holding"
    BY <1>7 DEF Render
  <2>2. \A g \in Fetches : g # f => fetch'[g] = fetch[g]
    BY <1>7 DEF Render
  <2> QED BY <2>1, <2>2, GatesKept
<1>8. CASE Store(f)
  <2>1. gate' = gate /\ fetch[f] \in {"read", "blocked"} /\ fetch'[f] # "holding"
    BY <1>8 DEF Store
  <2>2. \A g \in Fetches : g # f => fetch'[g] = fetch[g]
    BY <1>8 DEF Store
  <2> QED BY <2>1, <2>2, GatesKept
<1> QED BY <1>1, <1>2, <1>4, <1>5, <1>6, <1>7, <1>8 DEF Fetch

\* A fetch that is under way leaves the idle ones alone.
LEMMA FetchLeavesIdle ==
  ASSUME FetcherTypeOK, NEW f \in Fetches, Fetch(f)
  PROVE  \A g \in Fetches : fetch[g] = "idle" => fetch'[g] = "idle"
BY DEF FetcherTypeOK, Goes, Fetch, Lookup, TakeGate, TransportFails, Answered, Raises, Render, Store

\* Nothing is asked for where no review moves and no page of a review leaves
\* idleness.
LEMMA UnaskedKept ==
  ASSUME PagesUnasked, review' = review,
         \A f \in Fetches : fetch[f] = "idle" => fetch'[f] = "idle" \/ Caller[f] \notin Reviews
  PROVE  PagesUnasked'
BY DEF PagesUnasked, InBatch

\* A review that goes past its pages asks for none.
LEMMA UnaskedPast ==
  ASSUME PagesUnasked, NEW c \in Reviews, review \in [Reviews -> ReviewWork], NEW w \in ReviewWork,
         ReviewStep(c, w), w.at \notin {"signal", "searching", "fetching"},
         \A f \in Fetches : fetch[f] = "idle" => fetch'[f] = "idle"
  PROVE  PagesUnasked'
BY DEF PagesUnasked, InBatch, ReviewStep

LEMMA UnaskedEnd ==
  ASSUME PagesUnasked, NEW c \in Reviews, review \in [Reviews -> ReviewWork], NEW end \in ReviewEnds,
         ReviewEndsAs(c, end), \A f \in Fetches : fetch[f] = "idle" => fetch'[f] = "idle"
  PROVE  PagesUnasked'
<1> DEFINE w == [at |-> end, point |-> 0, delta |-> 0, read |-> 0]
<1>1. w \in ReviewWork /\ w.at \notin {"signal", "searching", "fetching"}
  BY DEF ReviewWork, ReviewEnds, StandingAssumption
<1>2. ReviewStep(c, w)
  BY DEF ReviewEndsAs
<1> HIDE DEF w
<1> QED BY <1>1, <1>2, UnaskedPast

LEMMA GoesOnUnasked ==
  ASSUME TypeInv, PagesUnasked, NEW c \in Reviews, NEW at, NEW next \in {"extracted", "tested", "judged"},
         GoesOn(c, at, next)
  PROVE  PagesUnasked'
<1> USE DEF TypeInv, TypeOK
<1>1. fetch' = fetch
  BY DEF GoesOn, fetcherVars
<1>2. CASE ReviewEndsAs(c, "raised")
  BY <1>1, <1>2, UnaskedEnd DEF ReviewEnds
<1> DEFINE w == [review[c] EXCEPT !.at = next]
<1>3. CASE ReviewStep(c, w)
  <2>1. w \in ReviewWork /\ w.at \notin {"signal", "searching", "fetching"}
    BY DEF ReviewWork
  <2> HIDE DEF w
  <2> QED BY <1>1, <1>3, <2>1, UnaskedPast
<1> QED BY <1>2, <1>3 DEF GoesOn

LEMMA CriticiseGates ==
  ASSUME GateInv, NEW c \in Reviews, Criticise(c)
  PROVE  PagesUnasked' /\ GateOfHost' /\ GateAccounted'
<1> USE DEF GateInv, TypeInv, TypeOK
<1>1. review[c] \in ReviewWork /\ FetcherTypeOK
  OBVIOUS
<1>2. ASSUME UNCHANGED fetcherVars, PagesUnasked' PROVE PagesUnasked' /\ GateOfHost' /\ GateAccounted'
  BY <1>2 DEF fetcherVars, GateOfHost, GateAccounted
<1>3. CASE PlanAttack(c)
  <2>1. UNCHANGED fetcherVars /\ review[c].at = "signal"
    BY <1>3 DEF PlanAttack
  <2>2. CASE ReviewEndsAs(c, "raised")
    BY <1>2, <2>1, <2>2, UnaskedEnd DEF ReviewEnds, fetcherVars
  <2>3. CASE ReviewStep(c, [review[c] EXCEPT !.at = "searching", !.point = 1])
    <3>1. review'[c].at = "searching" /\ \A d \in Reviews : d # c => review'[d] = review[d]
      BY <1>1, <2>3 DEF ReviewStep, ReviewWork
    <3>2. \A f \in InBatch(c) : fetch[f] = "idle"
      BY <2>1 DEF PagesUnasked
    <3> QED BY <1>2, <2>1, <3>1, <3>2 DEF PagesUnasked, InBatch, fetcherVars
  <2> QED BY <1>3, <2>2, <2>3 DEF PlanAttack
<1>4. CASE SearchWeakPoint(c)
  <2>1. review[c].at = "searching" /\ review[c].point \in Nat /\ gate' = gate
    BY <1>1, <1>4 DEF SearchWeakPoint, ReviewWork, StandingAssumption
  <2>2. PICK hits \in Hits(c) :
          /\ fetch' = [f \in Fetches |-> IF f \in hits THEN "asked" ELSE fetch[f]]
          /\ ReviewStep(c, IF hits = {} THEN [review[c] EXCEPT !.point = review[c].point + 1]
                           ELSE [review[c] EXCEPT !.at = "fetching"])
    BY <1>4 DEF SearchWeakPoint
  <2>3. \A f \in hits : f \in InBatch(c) /\ Point[f] = review[c].point /\ fetch[f] = "idle"
    BY <2>1, <2>2 DEF Hits, PagesOf, PagesUnasked, InBatch
  <2>4. GateOfHost' /\ GateAccounted'
    BY <1>1, <2>1, <2>2, <2>3, GatesKept
  <2>5. \A d \in Reviews : d # c => review'[d] = review[d]
    BY <2>2 DEF ReviewStep
  <2>6. \A f \in Fetches \ hits : fetch'[f] = fetch[f]
    BY <2>2
  <2>7. review'[c].at # "signal"
    BY <1>1, <2>1, <2>2 DEF ReviewStep, ReviewWork
  <2>8. ASSUME NEW f \in InBatch(c),
               \/ review'[c].at = "searching" /\ Point[f] >= review'[c].point
               \/ review'[c].at = "fetching" /\ Point[f] > review'[c].point
        PROVE  fetch'[f] = "idle"
    <3>1. f \notin hits /\ Point[f] >= review[c].point
      <4>1. Point[f] \in Nat
        BY DEF InBatch, StandingAssumption
      <4>2. CASE hits = {}
        BY <1>1, <2>1, <2>2, <2>8, <4>1, <4>2 DEF ReviewStep, ReviewWork
      <4>3. CASE hits # {}
        BY <1>1, <2>1, <2>2, <2>3, <2>8, <4>1, <4>3 DEF ReviewStep, ReviewWork
      <4> QED BY <4>2, <4>3
    <3>2. f \in Fetches /\ fetch[f] = "idle"
      BY <2>1, <3>1 DEF PagesUnasked, InBatch
    <3> QED BY <2>6, <3>1, <3>2
  <2>9. ASSUME NEW d \in Reviews, d # c, NEW f \in InBatch(d) PROVE fetch'[f] = fetch[f]
    BY <2>3, <2>6, <2>9 DEF InBatch
  <2>10. PagesUnasked'
    BY <2>5, <2>7, <2>8, <2>9 DEF PagesUnasked, InBatch
  <2> QED BY <2>4, <2>10
<1>5. CASE Gather(c)
  <2> DEFINE pages == PagesOf(c, review[c].point)
  <2>1. gate' = gate /\ review[c].at = "fetching" /\ review[c].point \in Nat
    BY <1>1, <1>5 DEF Gather, ReviewWork, StandingAssumption
  <2>2. CASE ReviewEndsAs(c, "raised") /\ UNCHANGED fetch
    <3>1. PagesUnasked'
      BY <2>2, UnaskedEnd DEF ReviewEnds
    <3> QED BY <1>1, <2>1, <2>2, <3>1, GatesKept
  <2>3. CASE /\ \A f \in pages : fetch[f] \in (Ends \cup {"idle"}) \ {"raised"}
             /\ ReviewStep(c, [review[c] EXCEPT !.at = "searching", !.point = review[c].point + 1])
             /\ fetch' = [f \in Fetches |-> IF f \in pages THEN "idle" ELSE fetch[f]]
    <3>1. \A f \in Fetches : \/ fetch'[f] = fetch[f]
                             \/ fetch[f] \notin {"holding", "raised"} /\ fetch'[f] = "idle"
      BY <2>3 DEF Ends
    <3>2. GateOfHost' /\ GateAccounted'
      BY <1>1, <2>1, <3>1, GatesKept
    <3>3. review'[c].at = "searching" /\ review'[c].point = review[c].point + 1
      BY <1>1, <2>3 DEF ReviewStep, ReviewWork
    <3>4. \A d \in Reviews : d # c => review'[d] = review[d]
      BY <2>3 DEF ReviewStep
    <3>5. \A f \in InBatch(c) : Point[f] \in Nat
      BY DEF InBatch, StandingAssumption
    <3>6. \A f \in InBatch(c) : Point[f] >= review'[c].point => fetch[f] = "idle"
      BY <2>1, <3>3, <3>5 DEF PagesUnasked
    <3> QED BY <3>1, <3>2, <3>3, <3>4, <3>6 DEF PagesUnasked, InBatch
  <2> QED BY <1>5, <2>2, <2>3 DEF Gather
<1>6. CASE Extract(c)
  BY <1>2, <1>6, GoesOnUnasked DEF Extract, GoesOn
<1>7. CASE StressTest(c)
  BY <1>2, <1>7, GoesOnUnasked DEF StressTest, GoesOn
<1>8. CASE JudgeVerdict(c)
  BY <1>2, <1>8, GoesOnUnasked DEF JudgeVerdict, GoesOn
<1>9. CASE RecordVerdict(c)
  <2>1. UNCHANGED fetcherVars /\ fetch' = fetch
    BY <1>9 DEF RecordVerdict, fetcherVars
  <2>2. PICK action \in {"watch", "weaken", "kill"} : \E delta \in Pressure(action) :
          IF delta = 0 THEN ReviewEndsAs(c, "done")
          ELSE ReviewStep(c, [review[c] EXCEPT !.at = "recorded", !.delta = delta])
    BY <1>9 DEF RecordVerdict
  <2>3. PICK delta \in Pressure(action) :
          IF delta = 0 THEN ReviewEndsAs(c, "done")
          ELSE ReviewStep(c, [review[c] EXCEPT !.at = "recorded", !.delta = delta])
    BY <2>2
  <2>4. delta \in Nat
    BY DEF Pressure, StandingAssumption
  <2>5. CASE delta = 0
    BY <1>2, <2>1, <2>3, <2>5, UnaskedEnd DEF ReviewEnds
  <2> DEFINE w == [review[c] EXCEPT !.at = "recorded", !.delta = delta]
  <2>6. CASE delta # 0
    <3>1. ReviewStep(c, w)
      BY <2>3, <2>6
    <3>2. w \in ReviewWork /\ w.at = "recorded"
      BY <1>1, <2>4 DEF ReviewWork
    <3> HIDE DEF w
    <3>3. PagesUnasked'
      BY <2>1, <3>1, <3>2, UnaskedPast
    <3> QED BY <1>2, <2>1, <3>3
  <2> QED BY <2>5, <2>6
<1>10. CASE ReadTarget(c)
  <2> DEFINE w == [review[c] EXCEPT !.at = "weakening", !.read = conf]
  <2>1. UNCHANGED fetcherVars /\ fetch' = fetch /\ ReviewStep(c, w)
    BY <1>10 DEF ReadTarget, fetcherVars
  <2>2. w \in ReviewWork /\ w.at = "weakening"
    BY <1>1 DEF ReviewWork
  <2> HIDE DEF w
  <2>3. PagesUnasked'
    BY <2>1, <2>2, UnaskedPast
  <2> QED BY <1>2, <2>1, <2>3
<1>11. CASE Press(c)
  <2>1. UNCHANGED fetcherVars /\ fetch' = fetch
    BY <1>11 DEF Press, fetcherVars
  <2>2. PagesUnasked'
    BY <1>11, <2>1, UnaskedEnd DEF Press, ReviewEnds
  <2> QED BY <1>2, <2>1, <2>2
<1>12. CASE TimeOut(c)
  <2>1. gate' = gate /\ \A f \in Fetches : \/ fetch'[f] = fetch[f]
                                           \/ fetch[f] # "idle" /\ fetch'[f] = "raised"
    BY <1>12 DEF TimeOut, CancelBatch, Pending
  <2>2. PagesUnasked'
    BY <1>12, <2>1, UnaskedEnd DEF TimeOut, ReviewEnds
  <2>3. GateOfHost' /\ GateAccounted'
    BY <1>1, <2>1, GatesKept
  <2> QED BY <2>2, <2>3
<1> QED BY <1>3, <1>4, <1>5, <1>6, <1>7, <1>8, <1>9, <1>10, <1>11, <1>12 DEF Criticise

LEMMA NextGates == GateInv /\ [Next]_vars => GateInv'
<1> SUFFICES ASSUME GateInv, [Next]_vars PROVE PagesUnasked' /\ GateOfHost' /\ GateAccounted'
  BY NextTypes DEF GateInv
<1> USE DEF GateInv, TypeInv, TypeOK
<1>1. ASSUME UNCHANGED <<gate, fetch, review>> PROVE PagesUnasked' /\ GateOfHost' /\ GateAccounted'
  BY <1>1 DEF PagesUnasked, GateOfHost, GateAccounted
<1>2. CASE UNCHANGED vars
  BY <1>1, <1>2 DEF vars, fetcherVars, standingVars
<1>3. ASSUME NEW t \in Tasks, Research(t) PROVE PagesUnasked' /\ GateOfHost' /\ GateAccounted'
  BY <1>1, <1>3 DEF Research, FindEvidence, AskMimir, Judge, ReadStanding, Steer, SettleTask,
                    OnlyTask, fetcherVars
<1>4. ASSUME NEW c \in Reviews, Criticise(c) PROVE PagesUnasked' /\ GateOfHost' /\ GateAccounted'
  BY <1>4, CriticiseGates
<1>5. ASSUME NEW e \in Reports, ReadForReport(e) \/ Interpret(e)
      PROVE  PagesUnasked' /\ GateOfHost' /\ GateAccounted'
  BY <1>1, <1>5 DEF ReadForReport, Interpret, fetcherVars
<1>6. ASSUME NEW f \in Fetches, AskPage(f) PROVE PagesUnasked' /\ GateOfHost' /\ GateAccounted'
  <2>1. /\ gate' = gate /\ review' = review /\ Caller[f] \notin Reviews /\ fetch[f] = "idle"
        /\ fetch' = [fetch EXCEPT ![f] = "asked"]
    BY <1>6 DEF AskPage, Goes, standingVars
  <2>2. PagesUnasked'
    BY <2>1, UnaskedKept DEF FetcherTypeOK
  <2>3. \A g \in Fetches : g # f => fetch'[g] = fetch[g]
    BY <2>1 DEF FetcherTypeOK
  <2>4. fetch'[f] = "asked"
    BY <2>1 DEF FetcherTypeOK
  <2> QED BY <2>1, <2>2, <2>3, <2>4, GatesKept
<1>7. ASSUME NEW f \in Fetches, Fetch(f), UNCHANGED standingVars
      PROVE  PagesUnasked' /\ GateOfHost' /\ GateAccounted'
  BY <1>7, FetchGates, FetchLeavesIdle, UnaskedKept DEF standingVars
<1>8. ASSUME NEW u \in Urls, Expire(u), UNCHANGED standingVars
      PROVE  PagesUnasked' /\ GateOfHost' /\ GateAccounted'
  BY <1>1, <1>8 DEF Expire, standingVars
<1>9. CASE EndDirection
  BY <1>1, <1>9 DEF EndDirection, fetcherVars
<1> QED BY <1>2, <1>3, <1>4, <1>5, <1>6, <1>7, <1>8, <1>9 DEF Next

(* "caps in-flight requests at 1 per domain": a request under way has the    *)
(* gate of its host, and a gate that is taken is held by a request under way *)
(* or was left behind by one that raised -- for any number of handlers,      *)
(* pages, hosts and crossings.                                               *)
THEOREM GatesAccounted == Spec => []GateAccounted
<1>1. Init => GateInv
  <2> SUFFICES ASSUME Init PROVE PagesUnasked /\ GateOfHost /\ GateAccounted
    BY InitTypes DEF GateInv
  <2>1. PagesUnasked
    BY DEF Init, FetcherInit, PagesUnasked, InBatch
  <2>2. GateOfHost /\ GateAccounted
    BY DEF Init, FetcherInit, GateOfHost, GateAccounted
  <2> QED BY <2>1, <2>2
<1>2. Spec => []GateInv
  BY <1>1, NextGates, PTL DEF Spec
<1>3. GateInv => GateAccounted
  BY DEF GateInv
<1> QED BY <1>2, <1>3, PTL

-----------------------------------------------------------------------------
(* What literature may cite, and what it may reach.                        *)

StandInv == TypeInv /\ ReadsEarned /\ CitesOutside

\* What the work of a task must be for both.
SoundWork(w) ==
  /\ w.at = "moving" => Earned(w.read)
  /\ w.refs \subseteq External
  /\ w.at \in {"steering", "moving"} /\ w.cited # {} =>
       2 * Cardinality(w.cited \cap w.refs) >= Cardinality(w.cited)

LEMMA SoundTask ==
  ASSUME StandInv, NEW t \in Tasks
  PROVE  SoundWork(task[t])
BY DEF StandInv, ReadsEarned, CitesOutside, SoundWork

LEMMA SoundForgotten ==
  ASSUME NEW at \in {"pending", "settled"} \cup TaskEnds
  PROVE  SoundWork(Forgotten(at))
BY DEF SoundWork, Forgotten, TaskEnds

LEMMA SoundStep ==
  ASSUME StandInv, NEW t \in Tasks, NEW w, SoundWork(w), TaskStep(t, w),
         UNCHANGED <<peak, review>>, Earned(conf')
  PROVE  ReadsEarned' /\ CitesOutside'
<1>1. \A s \in Tasks : task'[s] = IF s = t THEN w ELSE task[s]
  BY DEF TaskStep, StandInv, TypeInv, TypeOK
<1>2. \A s \in Tasks : SoundWork(task'[s])
  BY <1>1, SoundTask
<1>3. peak' = peak /\ review' = review
  OBVIOUS
<1> QED BY <1>2, <1>3 DEF StandInv, ReadsEarned, CitesOutside, SoundWork, Earned

\* Literature that moves a direction leaves it on what was earned.
LEMMA SteeredEarned ==
  ASSUME NEW read \in 0..Top, NEW delta \in Int, peak \in 0..Top, Earned(read)
  PROVE  Earned(Steered(read, delta))
BY DEF Earned, Steered, Within, Least, Greatest, StandingAssumption

\* A verdict that moves anything and cites is grounded.
LEMMA MovesGrounded ==
  ASSUME NEW d, NEW grounded \in BOOLEAN, NEW delta \in Moves(d, grounded), delta # 0
  PROVE  d = "corpus_exhausted" \/ grounded
<1> SUFFICES ASSUME d # "corpus_exhausted", grounded = FALSE PROVE delta = 0
  OBVIOUS
<1>1. Proposed(d, grounded) = {0}
  BY DEF Proposed
<1>2. delta = Within(-MaxRound, MaxRound, 0)
  BY <1>1 DEF Moves
<1> QED BY <1>2 DEF Within, Least, Greatest, StandingAssumption

LEMMA ResearchSound ==
  ASSUME StandInv, NEW t \in Tasks, Research(t)
  PROVE  ReadsEarned' /\ CitesOutside'
<1> USE DEF StandInv, TypeInv, TypeOK
<1>1. /\ task[t] \in TaskWork /\ SoundWork(task[t]) /\ Earned(conf) /\ conf \in 0..Top /\ peak \in 0..Top
  BY SoundTask DEF ReadsEarned
<1>2. \A end \in TaskEnds \cup {"settled"} : SoundWork(Forgotten(end))
  BY SoundForgotten
<1>3. CASE FindEvidence(t)
  <2>1. UNCHANGED <<peak, review, conf>> /\ Earned(conf')
    BY <1>1, <1>3 DEF FindEvidence, OnlyTask, Earned
  <2>2. CASE TaskEndsAs(t, "failed")
    BY <1>2, <2>1, <2>2, SoundStep DEF TaskEndsAs, TaskEnds
  <2>3. CASE ~TaskEndsAs(t, "failed")
    <3>1. PICK found \in Retrieve(External \cup OwnWords) :
            TaskStep(t, [task[t] EXCEPT !.at = "reading", !.refs = found])
      BY <1>3, <2>3 DEF FindEvidence
    <3> DEFINE w == [task[t] EXCEPT !.at = "reading", !.refs = found]
    <3>2. found \subseteq External
      BY DEF Retrieve, Ranked
    <3>3. w.at = "reading" /\ w.refs = found
      BY <1>1 DEF TaskWork
    <3>4. TaskStep(t, w)
      BY <3>1
    <3> HIDE DEF w
    <3>5. SoundWork(w)
      BY <3>2, <3>3 DEF SoundWork
    <3> QED BY <2>1, <3>4, <3>5, SoundStep
  <2> QED BY <2>2, <2>3
<1>4. CASE AskMimir(t)
  <2>1. UNCHANGED <<peak, review, conf>> /\ Earned(conf')
    BY <1>1, <1>4 DEF AskMimir, OnlyTask, Earned
  <2> DEFINE w == [task[t] EXCEPT !.at = "judging"]
  <2>2. w.at = "judging" /\ w.refs = task[t].refs
    BY <1>1 DEF TaskWork
  <2>3. TaskStep(t, w) \/ TaskStep(t, Forgotten("failed"))
    BY <1>4 DEF AskMimir, TaskEndsAs
  <2> HIDE DEF w
  <2>4. SoundWork(w)
    BY <1>1, <2>2 DEF SoundWork
  <2> QED BY <1>2, <2>1, <2>3, <2>4, SoundStep DEF TaskEnds
<1>5. CASE Judge(t)
  <2>1. UNCHANGED <<peak, review, conf>> /\ Earned(conf')
    BY <1>1, <1>5 DEF Judge, OnlyTask, Earned
  <2>2. CASE TaskEndsAs(t, "failed")
    BY <1>2, <2>1, <2>2, SoundStep DEF TaskEndsAs, TaskEnds
  <2>3. CASE ~TaskEndsAs(t, "failed")
    <3>1. PICK cited \in SUBSET Papers :
            \E d : \E delta \in Moves(d, Grounded(cited, task[t].refs)) :
              TaskStep(t, IF delta = 0
                   THEN Forgotten("settled")
                   ELSE [task[t] EXCEPT !.at = "steering", !.delta = delta,
                           !.cited = IF d = "corpus_exhausted" THEN {} ELSE cited])
      BY <1>5, <2>3 DEF Judge
    <3> DEFINE grounded == Grounded(cited, task[t].refs)
    <3>2. PICK d : \E delta \in Moves(d, grounded) :
              TaskStep(t, IF delta = 0
                   THEN Forgotten("settled")
                   ELSE [task[t] EXCEPT !.at = "steering", !.delta = delta,
                           !.cited = IF d = "corpus_exhausted" THEN {} ELSE cited])
      BY <3>1
    <3>3. PICK delta \in Moves(d, grounded) :
              TaskStep(t, IF delta = 0
                   THEN Forgotten("settled")
                   ELSE [task[t] EXCEPT !.at = "steering", !.delta = delta,
                           !.cited = IF d = "corpus_exhausted" THEN {} ELSE cited])
      BY <3>2
    <3> DEFINE kept == IF d = "corpus_exhausted" THEN {} ELSE cited
               moved == [task[t] EXCEPT !.at = "steering", !.delta = delta, !.cited = kept]
               step == IF delta = 0 THEN Forgotten("settled") ELSE moved
    <3>4. TaskStep(t, step)
      BY <3>3
    <3>5. moved.at = "steering" /\ moved.cited = kept /\ moved.refs = task[t].refs
      BY <1>1 DEF TaskWork
    <3>6. grounded \in BOOLEAN
      BY DEF Grounded
    <3>7. grounded => 2 * Cardinality(cited \cap task[t].refs) >= Cardinality(cited)
      BY DEF Grounded, Resolved
    <3> HIDE DEF grounded
    <3>8. ASSUME delta # 0, kept # {}
          PROVE  2 * Cardinality(kept \cap task[t].refs) >= Cardinality(kept)
      <4>1. d # "corpus_exhausted" /\ kept = cited
        BY <3>8
      <4>2. grounded
        BY <3>6, <3>8, <4>1, MovesGrounded
      <4> QED BY <3>7, <4>1, <4>2
    <3> HIDE DEF kept, moved
    <3>9. delta # 0 => SoundWork(moved)
      BY <1>1, <3>5, <3>8 DEF SoundWork
    <3>10. SoundWork(step)
      BY <1>2, <3>9
    <3> HIDE DEF step
    <3> QED BY <2>1, <3>4, <3>10, SoundStep
  <2> QED BY <2>2, <2>3
<1>6. CASE ReadStanding(t)
  <2>1. UNCHANGED <<peak, review, conf>> /\ Earned(conf')
    BY <1>1, <1>6 DEF ReadStanding, OnlyTask, Earned
  <2> DEFINE moving == [task[t] EXCEPT !.at = "moving", !.read = conf]
             step == IF live THEN moving ELSE Forgotten("settled")
  <2>2. /\ moving.at = "moving" /\ moving.read = conf
        /\ moving.refs = task[t].refs /\ moving.cited = task[t].cited
    BY <1>1 DEF TaskWork
  <2>3. TaskStep(t, step) /\ task[t].at = "steering"
    BY <1>6 DEF ReadStanding
  <2> HIDE DEF moving
  <2>4. SoundWork(moving)
    BY <1>1, <2>2, <2>3 DEF SoundWork
  <2>5. SoundWork(step)
    BY <1>2, <2>4
  <2> HIDE DEF step
  <2> QED BY <2>1, <2>3, <2>5, SoundStep
<1>7. CASE Steer(t)
  <2>1. UNCHANGED <<peak, review>> /\ task[t].at = "moving" /\ TaskStep(t, Forgotten("settled"))
    BY <1>7 DEF Steer, OnlyTask
  <2>2. task[t].read \in 0..Top /\ task[t].delta \in Int /\ Earned(task[t].read)
    BY <1>1, <2>1 DEF TaskWork, SoundWork
  <2>3. Earned(Steered(task[t].read, task[t].delta))
    BY <1>1, <2>2, SteeredEarned
  <2>4. Earned(conf')
    <3>1. conf' = conf \/ conf' = Steered(task[t].read, task[t].delta)
      BY <1>7 DEF Steer, Write
    <3> QED BY <1>1, <2>3, <3>1 DEF Earned
  <2> QED BY <1>2, <2>1, <2>4, SoundStep
<1>8. CASE SettleTask(t)
  <2>1. UNCHANGED <<peak, review, conf>> /\ Earned(conf')
    BY <1>1, <1>8 DEF SettleTask, Earned
  <2>2. TaskStep(t, Forgotten("completed")) \/ TaskStep(t, Forgotten("cancelled"))
    BY <1>8 DEF SettleTask, TaskEndsAs
  <2> QED BY <1>2, <2>1, <2>2, SoundStep DEF TaskEnds
<1> QED BY <1>3, <1>4, <1>5, <1>6, <1>7, <1>8 DEF Research

\* Whoever moves no task, and reads and writes what was earned, keeps both.
LEMMA SoundElse ==
  ASSUME StandInv, task' = task, peak' \in 0..Top, peak' >= peak, Earned(conf)', conf' \in 0..Top,
         NEW reading, review' = reading,
         \A c \in Reviews : reading[c].at = "weakening" =>
           reading[c] = review[c] \/ reading[c].read = conf
  PROVE  ReadsEarned' /\ CitesOutside'
<1> USE DEF StandInv, TypeInv, TypeOK
<1>1. CitesOutside'
  BY DEF CitesOutside
<1>2. \A x \in 0..Top : Earned(x) => Earned(x)'
  BY DEF Earned, StandingAssumption
<1>3. \A t \in Tasks : task[t].read \in 0..Top
  BY DEF TaskWork
<1>4. \A c \in Reviews : review[c].read \in 0..Top
  BY DEF ReviewWork
<1>5. \A t \in Tasks : task'[t].at = "moving" => task'[t].read \in 0..Top /\ Earned(task[t].read)
  BY <1>3 DEF ReadsEarned
<1>6. \A c \in Reviews : review'[c].at = "weakening" =>
        \/ review'[c].read = review[c].read /\ Earned(review[c].read)
        \/ review'[c].read = conf /\ Earned(conf)
  BY DEF ReadsEarned
<1> QED BY <1>1, <1>2, <1>4, <1>5, <1>6 DEF ReadsEarned, Earned

LEMMA CriticiseSound ==
  ASSUME StandInv, NEW c \in Reviews, Criticise(c)
  PROVE  ReadsEarned' /\ CitesOutside'
<1> USE DEF StandInv, TypeInv, TypeOK
<1>1. /\ review[c] \in ReviewWork /\ task' = task /\ peak' = peak
      /\ Earned(conf) /\ conf \in 0..Top /\ peak \in 0..Top /\ peak >= peak
  <2>1. task' = task /\ peak' = peak
    BY DEF Criticise, PlanAttack, SearchWeakPoint, Gather, Extract, StressTest, JudgeVerdict,
           GoesOn, RecordVerdict, ReadTarget, Press, TimeOut, OnlyReview
  <2>2. Earned(conf) /\ peak >= peak
    BY DEF ReadsEarned
  <2> QED BY <2>1, <2>2
<1>2. ASSUME Earned(conf)', conf' \in 0..Top,
             \E w : ReviewStep(c, w) /\ (w.at = "weakening" => w.read = conf)
      PROVE  ReadsEarned' /\ CitesOutside'
  <2>1. \A d \in Reviews : review'[d].at = "weakening" => review'[d] = review[d] \/ review'[d].read = conf
    BY <1>2 DEF ReviewStep
  <2> QED BY <1>1, <1>2, <2>1, SoundElse
<1>3. ASSUME conf' = conf,
             \E w : ReviewStep(c, w) /\ (w.at = "weakening" => w.read = conf)
      PROVE  ReadsEarned' /\ CitesOutside'
  BY <1>1, <1>2, <1>3 DEF Earned
<1>4. ASSUME NEW end \in ReviewEnds, ReviewEndsAs(c, end)
      PROVE  \E w : ReviewStep(c, w) /\ (w.at = "weakening" => w.read = conf)
  BY <1>4 DEF ReviewEndsAs, ReviewEnds
<1>5. ASSUME NEW at, NEW next \in {"extracted", "tested", "judged"}, GoesOn(c, at, next)
      PROVE  ReadsEarned' /\ CitesOutside'
  <2>1. [review[c] EXCEPT !.at = next].at = next
    BY <1>1 DEF ReviewWork
  <2> QED BY <1>3, <1>4, <1>5, <2>1 DEF GoesOn, ReviewEnds
<1>6. CASE PlanAttack(c)
  <2> DEFINE w == [review[c] EXCEPT !.at = "searching", !.point = 1]
  <2>1. w.at = "searching" /\ (ReviewStep(c, w) \/ ReviewEndsAs(c, "raised")) /\ conf' = conf
    BY <1>1, <1>6 DEF PlanAttack, ReviewWork
  <2> HIDE DEF w
  <2> QED BY <1>3, <1>4, <2>1 DEF ReviewEnds
<1>7. CASE SearchWeakPoint(c)
  <2>1. PICK hits : ReviewStep(c, IF hits = {} THEN [review[c] EXCEPT !.point = review[c].point + 1]
                                  ELSE [review[c] EXCEPT !.at = "fetching"])
    BY <1>7 DEF SearchWeakPoint
  <2> DEFINE w == IF hits = {} THEN [review[c] EXCEPT !.point = review[c].point + 1]
                  ELSE [review[c] EXCEPT !.at = "fetching"]
  <2>2. w.at # "weakening" /\ ReviewStep(c, w) /\ conf' = conf
    BY <1>1, <1>7, <2>1 DEF SearchWeakPoint, ReviewWork
  <2> HIDE DEF w
  <2> QED BY <1>3, <2>2
<1>8. CASE Gather(c)
  <2> DEFINE w == [review[c] EXCEPT !.at = "searching", !.point = review[c].point + 1]
  <2>1. w.at = "searching" /\ (ReviewStep(c, w) \/ ReviewEndsAs(c, "raised")) /\ conf' = conf
    BY <1>1, <1>8 DEF Gather, ReviewWork
  <2> HIDE DEF w
  <2> QED BY <1>3, <1>4, <2>1 DEF ReviewEnds
<1>9. CASE Extract(c) \/ StressTest(c) \/ JudgeVerdict(c)
  BY <1>5, <1>9 DEF Extract, StressTest, JudgeVerdict
<1>10. CASE RecordVerdict(c)
  <2>1. PICK action \in {"watch", "weaken", "kill"} : \E delta \in Pressure(action) :
          IF delta = 0 THEN ReviewEndsAs(c, "done")
          ELSE ReviewStep(c, [review[c] EXCEPT !.at = "recorded", !.delta = delta])
    BY <1>10 DEF RecordVerdict
  <2>2. PICK delta \in Pressure(action) :
          IF delta = 0 THEN ReviewEndsAs(c, "done")
          ELSE ReviewStep(c, [review[c] EXCEPT !.at = "recorded", !.delta = delta])
    BY <2>1
  <2> DEFINE w == [review[c] EXCEPT !.at = "recorded", !.delta = delta]
  <2>3. w.at = "recorded" /\ (ReviewStep(c, w) \/ ReviewEndsAs(c, "done")) /\ conf' = conf
    BY <1>1, <1>10, <2>2 DEF RecordVerdict, ReviewWork
  <2> HIDE DEF w
  <2> QED BY <1>3, <1>4, <2>3 DEF ReviewEnds
<1>11. CASE ReadTarget(c)
  <2> DEFINE w == [review[c] EXCEPT !.at = "weakening", !.read = conf]
  <2>1. w.read = conf /\ ReviewStep(c, w) /\ conf' = conf
    BY <1>1, <1>11 DEF ReadTarget, ReviewWork
  <2> HIDE DEF w
  <2> QED BY <1>3, <2>1
<1>12. CASE Press(c)
  <2>1. review[c].at = "weakening" /\ review[c].read \in 0..Top /\ review[c].delta \in Nat
    BY <1>1, <1>12 DEF Press, ReviewWork
  <2>2. Earned(review[c].read)
    BY <2>1 DEF ReadsEarned
  <2>3. Earned(Greatest(0, review[c].read - review[c].delta))
    BY <1>1, <2>1, <2>2 DEF Earned, Greatest, StandingAssumption
  <2>4. Greatest(0, review[c].read - review[c].delta) \in 0..Top
    BY <2>1 DEF Greatest, StandingAssumption
  <2>5. conf' \in {conf, Greatest(0, review[c].read - review[c].delta)}
    BY <1>12 DEF Press, Write
  <2>6. Earned(conf)' /\ conf' \in 0..Top
    BY <1>1, <2>3, <2>4, <2>5 DEF Earned
  <2>7. ReviewEndsAs(c, "done") \/ ReviewEndsAs(c, "raised")
    BY <1>12 DEF Press
  <2> QED BY <1>2, <1>4, <2>6, <2>7 DEF ReviewEnds
<1>13. CASE TimeOut(c)
  BY <1>3, <1>4, <1>13 DEF TimeOut, ReviewEnds
<1> QED BY <1>6, <1>7, <1>8, <1>9, <1>10, <1>11, <1>12, <1>13 DEF Criticise

LEMMA NextSound == StandInv /\ [Next]_vars => StandInv'
<1> SUFFICES ASSUME StandInv, [Next]_vars PROVE ReadsEarned' /\ CitesOutside'
  BY NextTypes DEF StandInv
<1> USE DEF StandInv, TypeInv, TypeOK
<1>1. ASSUME UNCHANGED <<conf, peak, task, review>> PROVE ReadsEarned' /\ CitesOutside'
  BY <1>1 DEF ReadsEarned, CitesOutside, Earned
<1>2. CASE UNCHANGED vars
  BY <1>1, <1>2 DEF vars, standingVars
<1>3. ASSUME NEW t \in Tasks, Research(t) PROVE ReadsEarned' /\ CitesOutside'
  BY <1>3, ResearchSound
<1>4. ASSUME NEW c \in Reviews, Criticise(c) PROVE ReadsEarned' /\ CitesOutside'
  BY <1>4, CriticiseSound
<1>5. ASSUME NEW e \in Reports, ReadForReport(e) PROVE ReadsEarned' /\ CitesOutside'
  BY <1>1, <1>5 DEF ReadForReport
<1>6. ASSUME NEW e \in Reports, Interpret(e) PROVE ReadsEarned' /\ CitesOutside'
  <2> DEFINE new == Within(0, Top, report[e].read + report[e].delta)
  <2>1. task' = task /\ review' = review
    BY <1>6 DEF Interpret
  <2>2. (conf' = new /\ peak' = Greatest(peak, new)) \/ UNCHANGED <<conf, peak>>
    BY <1>6 DEF Interpret, Write
  <2>3. new \in 0..Top
    BY OnScale DEF ReportWork
  <2> HIDE DEF new
  <2>4. /\ peak' \in 0..Top /\ peak' >= peak /\ conf' \in 0..Top /\ Earned(conf)'
    BY <2>2, <2>3 DEF Greatest, Earned, ReadsEarned
  <2> QED BY <2>1, <2>4, SoundElse
<1>7. ASSUME NEW f \in Fetches, AskPage(f) PROVE ReadsEarned' /\ CitesOutside'
  BY <1>1, <1>7 DEF AskPage, standingVars
<1>8. CASE UNCHANGED standingVars
  BY <1>1, <1>8 DEF standingVars
<1>9. CASE EndDirection
  BY <1>1, <1>9 DEF EndDirection
<1> QED BY <1>2, <1>3, <1>4, <1>5, <1>6, <1>7, <1>8, <1>9 DEF Next

LEMMA StandInvariant == Spec => []StandInv
<1>1. Init => StandInv
  <2> SUFFICES ASSUME Init PROVE ReadsEarned /\ CitesOutside
    BY InitTypes DEF StandInv
  <2> QED BY DEF Init, ReadsEarned, CitesOutside, Earned, Forgotten, StandingAssumption
<1> QED BY <1>1, NextSound, PTL DEF Spec

(* "Literature reading alone can't take a direction past PROVISIONAL         *)
(* confidence": however readers, critics and interpretations cross, and      *)
(* however stale what each of them read is, a confidence above the ceiling   *)
(* is one that an experiment had reached.                                    *)
THEOREM LiteratureIsCapped == Spec => []LiteratureCapped
<1>1. StandInv => LiteratureCapped
  BY DEF StandInv, ReadsEarned, Earned, LiteratureCapped
<1> QED BY <1>1, StandInvariant, PTL

(* The guard "against the self-grounding pathology": what moves a direction  *)
(* on a verdict rests, by half of its citations, on papers from outside that *)
(* were retrieved for the task.                                              *)
THEOREM OwnWordsNeverCount == Spec => []OwnWordsDontCount
<1>1. ASSUME StandInv PROVE OwnWordsDontCount
  <2> SUFFICES ASSUME NEW t \in Tasks, task[t].at \in {"steering", "moving"}, task[t].cited # {}
               PROVE  2 * Cardinality(task[t].cited \cap task[t].refs \cap External)
                        >= Cardinality(task[t].cited)
    BY DEF OwnWordsDontCount
  <2>1. task[t].refs \subseteq External
    BY <1>1 DEF StandInv, CitesOutside
  <2>2. task[t].cited \cap task[t].refs \cap External = task[t].cited \cap task[t].refs
    BY <2>1
  <2> QED BY <1>1, <2>2 DEF StandInv, CitesOutside
<1> QED BY <1>1, StandInvariant, PTL
=============================================================================
