---------------------------- MODULE ClosureProofs ----------------------------
(***************************************************************************)
(* Proofs about Closure, for every value of its constants; and, in the      *)
(* second half, about Agenda, which decides what its directions stand under.*)
(***************************************************************************)
EXTENDS Closure, FiniteSetTheorems, WellFoundedInduction, TLAPS

Bounds == /\ SynthMin \in Nat /\ Relooks \in Nat /\ StuckAfter \in Nat /\ TaskCap \in Nat
          /\ MaxQueued \in Nat /\ MaxPlans \in Nat /\ MaxMishaps \in Nat

(* What the steps of the ladder know.  `retries` needs it too: an older     *)
(* open retry is one that a refill of the planner pushed down.              *)
Ladders == {"look", "judge", "guard", "gap"}

RetryInv ==
  /\ OpenRetries =< 1
  /\ ~At("idle") => OpenRetries = 0
  /\ ground = "gap" => OpenRetries = 0
  /\ wd.at \in Ladders \cup {"requeue"} => ground # "gap"
  /\ wd.at \in {"reopen", "flip"} => ground = "gap"

SettledInv == settle \in {"seen", "ripe"} => saw

(* TypeOK but for the bound on retries, which RetryInv gives; the planner's *)
(* cap counts the latest task too.                                          *)
Types ==
  /\ status \in Lifecycle!DirectionStatus /\ ground \in {"none", "gap", "other"}
  /\ ground = "none" <=> status # "invalidated"
  /\ latest \in [stage : Stages, disp : Dispositions]
  /\ planned \in 0..TaskCap /\ retries \in Nat
  /\ planned + (IF Open(latest) /\ latest.stage = "planner" THEN 1 ELSE 0) =< TaskCap
  /\ thin \in 0..StuckAfter /\ relooks \in 0..Relooks
  /\ done \in 0..SynthMin /\ recent \in BOOLEAN /\ finding \in BOOLEAN
  /\ acquires \in {"none", "recent", "stale"} /\ fetched \in BOOLEAN
  /\ replies \in {"few", "known", "fresh"}
  /\ scout \in {"never", "recent", "late"} /\ queued \in 0..MaxQueued
  /\ today \in BOOLEAN /\ settle \in {"none", "blind", "seen", "ripe"} /\ saw \in BOOLEAN
  /\ news \in BOOLEAN
  /\ wd \in [at : Steps, stage : Stages]
  /\ plans \in 0..MaxPlans /\ mishaps \in 0..MaxMishaps

-----------------------------------------------------------------------------
(* The edges, one status at a time, and what Move does with them.           *)

\* What the edges of the lifecycle say, written out.
LEMMA Edges ==
  /\ Lifecycle!Legal["proposed"] = Lifecycle!DirectionStatus \ {"proposed"}
  /\ Lifecycle!Legal["tested"] = Lifecycle!DirectionStatus \ {"proposed", "tested"}
  /\ Lifecycle!Legal["weakly_supported"] = {"replicated", "concluded", "invalidated"}
  /\ Lifecycle!Legal["replicated"] = {"concluded", "invalidated"}
  /\ Lifecycle!Legal["invalidated"] = {"proposed"}
  /\ Lifecycle!Legal["concluded"] = {}
BY DEF Lifecycle!Legal

(* A move takes a legal edge or none, leaves a dead direction as it is, and *)
(* the reason of an invalidation is there exactly when it is invalidated.   *)
LEMMA Moving ==
  ASSUME NEW to \in Lifecycle!DirectionStatus \ {"proposed"}, NEW why \in {"gap", "other"},
         status \in Lifecycle!DirectionStatus, ground \in {"none", "gap", "other"},
         ground = "none" <=> status # "invalidated",
         Move(to, why)
  PROVE  /\ status' \in Lifecycle!DirectionStatus /\ ground' \in {"none", "gap", "other"}
         /\ ground' = "none" <=> status' # "invalidated"
         /\ status' = status \/ status' \in Lifecycle!Legal[status]
         /\ ground' = ground \/ (ground' = why /\ to = "invalidated")
         /\ status = "invalidated" => UNCHANGED lifeVars
<1>1. CASE to \in Lifecycle!Legal[status]
  BY <1>1, Edges DEF Move, lifeVars, Lifecycle!DirectionStatus, Lifecycle!Active
<1>2. CASE to \notin Lifecycle!Legal[status]
  BY <1>2 DEF Move, lifeVars
<1>3. QED BY <1>1, <1>2

(* A new task: who queued it and how many older ones stay open.             *)
LEMMA Queueing ==
  ASSUME Types, Bounds, NEW stage \in Stages, AddTask(stage)
  PROVE  /\ latest' \in [stage : Stages, disp : Dispositions]
         /\ planned' \in Nat /\ retries' \in Nat
         /\ planned' + (IF stage = "planner" THEN 1 ELSE 0) =
              (IF stage = "planner" THEN 1 ELSE 0) + planned
                + (IF Open(latest) /\ latest.stage = "planner" THEN 1 ELSE 0)
         /\ OpenRetries' = OpenRetries + (IF stage = "planner" THEN 0 ELSE 1)
         /\ latest'.disp = "open" /\ latest'.stage = stage
BY DEF Types, Bounds, AddTask, Open, OpenRetries, Stages, Dispositions

-----------------------------------------------------------------------------
(* Every step keeps the types.                                              *)
LEMMA TypesKept == ASSUME Types, Bounds, [Next]_vars PROVE Types'
<1> USE DEF Types, Bounds
<1>0. ClosureAssumption
  BY ClosureAssumption
<1>1. CASE FinishLatest
  <2>1. PICK d \in Outcome : /\ latest' = [latest EXCEPT !.disp = d]
                             /\ thin' = IF d = "thin" THEN Capped(thin, StuckAfter) ELSE 0
                             /\ CountRelook(d) /\ AskForPapers(d)
    BY <1>1 DEF FinishLatest
  <2>2. d \in Dispositions \ {"open"}
    BY DEF Outcome, Refined, Dispositions
  <2>3. latest' \in [stage : Stages, disp : Dispositions] /\ ~Open(latest')
    BY <2>1, <2>2 DEF Open
  <2>4. /\ thin' \in 0..StuckAfter
        /\ relooks' \in 0..Relooks
        /\ acquires' \in {"none", "recent", "stale"}
    <3>1. thin' \in 0..StuckAfter
      BY <2>1, <1>0 DEF Capped, ClosureAssumption
    <3>2. relooks' \in 0..Relooks
      BY <2>1, <1>0 DEF CountRelook, Capped, ClosureAssumption
    <3>3. acquires' \in {"none", "recent", "stale"}
      BY <2>1 DEF AskForPapers
    <3> QED BY <3>1, <3>2, <3>3
  <2>5. fetched' \in BOOLEAN
    BY <1>1 DEF FinishLatest
  <2>6. UNCHANGED <<lifeVars, planned, retries, workVars, replies, sweepVars, news, wd,
                    plans, mishaps>>
    BY <1>1 DEF FinishLatest
  <2>7. QED BY <2>3, <2>4, <2>5, <2>6 DEF Open, lifeVars, workVars, sweepVars
<1>2. CASE FinishOlder
  BY <1>2 DEF FinishOlder, CountRelook, AskForPapers, Outcome, Refined, Capped, Open,
     lifeVars, workVars, sweepVars
<1>3. CASE FailTask
  <2>1. latest' \in [stage : Stages, disp : Dispositions] /\ ~Open(latest')
    BY <1>3 DEF FailTask, Open, Dispositions
  <2>2. mishaps' \in 0..MaxMishaps
    BY <1>3 DEF FailTask, Mishap
  <2>5. fetched' \in BOOLEAN
    BY <1>3 DEF FailTask
  <2>3. UNCHANGED <<lifeVars, planned, retries, thin, relooks, workVars, acquires,
                    replies, sweepVars, news, wd, plans>>
    BY <1>3 DEF FailTask
  <2>4. QED BY <2>1, <2>2, <2>3, <2>5 DEF Open, lifeVars, workVars, sweepVars
<1>4. CASE Plan
  <2>1. AddTask("planner") /\ "planner" \in Stages
    BY <1>4 DEF Plan, Stages
  <2>2. QED BY <1>4, <2>1, Queueing DEF Plan, Open, lifeVars, workVars, fetchVars, sweepVars
<1>5. CASE Experiment
  BY <1>5 DEF Experiment, lifeVars, taskVars, fetchVars, sweepVars, Open
<1>6. CASE Synthesize
  BY <1>6, Moving DEF Synthesize, taskVars, fetchVars, sweepVars, Open,
     Lifecycle!DirectionStatus, Lifecycle!Active, Move, lifeVars
<1>7. CASE Retire \/ Supersede
  BY <1>7, Moving DEF Retire, Supersede, taskVars, workVars, fetchVars, sweepVars, Open,
     Lifecycle!DirectionStatus, Lifecycle!Active
<1>8. CASE Reply \/ Ingest
  <2>1. CASE Reply
    <3>1. /\ acquires' \in {"none", "recent", "stale"} /\ fetched' \in BOOLEAN
          /\ replies' \in {"few", "known", "fresh"}
      BY <2>1 DEF Reply
    <3>2. UNCHANGED <<lifeVars, taskVars, workVars, sweepVars, news, wd, plans, mishaps>>
      BY <2>1 DEF Reply
    <3>3. QED BY <3>1, <3>2 DEF lifeVars, taskVars, workVars, sweepVars, Open
  <2>2. CASE Ingest
    BY <2>2 DEF Ingest, lifeVars, taskVars, workVars, fetchVars, sweepVars, Open
  <2>3. QED BY <1>8, <2>1, <2>2
<1>9. CASE SettleSeen \/ SettleBlind \/ LoseSweep
  <2>1. queued' \in 0..MaxQueued
    BY <1>9 DEF SettleSeen, SettleBlind, LoseSweep
  <2>2. mishaps' \in 0..MaxMishaps
    BY <1>9 DEF SettleSeen, SettleBlind, LoseSweep, Mishap
  <2>3. settle' \in {"none", "blind", "seen", "ripe"} /\ saw' \in BOOLEAN
    BY <1>9 DEF SettleSeen, SettleBlind, LoseSweep
  <2>4. UNCHANGED <<lifeVars, taskVars, workVars, fetchVars, scout, today, news, wd, plans>>
    BY <1>9 DEF SettleSeen, SettleBlind, LoseSweep
  <2>5. QED BY <2>1, <2>2, <2>3, <2>4 DEF lifeVars, taskVars, workVars, fetchVars, Open
<1>10. CASE Wait \/ NewDay \/ Stall
  <2>1. CASE Wait
    BY <2>1 DEF Wait, lifeVars, taskVars, workVars, Open
  <2>2. CASE NewDay
    <3>1. today' \in BOOLEAN
      BY <2>2 DEF NewDay
    <3>2. UNCHANGED <<lifeVars, taskVars, workVars, fetchVars, scout, queued, settle, saw,
                      news, wd, plans, mishaps>>
      BY <2>2 DEF NewDay
    <3>3. QED BY <3>1, <3>2 DEF lifeVars, taskVars, workVars, fetchVars, Open
  <2>3. CASE Stall
    <3>1. recent' \in BOOLEAN /\ replies' \in {"few", "known", "fresh"}
      BY <2>3 DEF Stall
    <3>2. UNCHANGED <<lifeVars, taskVars, done, finding, acquires, fetched, sweepVars, news,
                      wd, plans, mishaps>>
      BY <2>3 DEF Stall
    <3>3. QED BY <3>1, <3>2 DEF lifeVars, taskVars, sweepVars, Open
  <2>4. QED BY <1>10, <2>1, <2>2, <2>3
<1>11. CASE Look \/ ReadLatest \/ Guard \/ GuardFails \/ Spot \/ Recheck \/ Die
  BY <1>11 DEF Look, ReadLatest, Guard, GuardFails, Spot, Recheck, Die, At, GoTo, Done,
     Resting, Steps, Stages, Mishap, lifeVars, taskVars, workVars, fetchVars, sweepVars, Open
<1>12. CASE Judge
  <2>1. wd' \in [at : Steps, stage : Stages]
    BY <1>12 DEF Judge, Done, Resting, GoTo, Steps, Stages
  <2>2. CASE Requeue("acquire_retry") /\ UNCHANGED sweepVars
    <3>1. AddTask("acquire_retry") /\ "acquire_retry" \in Stages
      BY <2>2 DEF Requeue, Stages
    <3>2. QED BY <1>12, <2>1, <2>2, <3>1, Queueing
                 DEF Judge, Requeue, Open, lifeVars, workVars, fetchVars, sweepVars
  <2>3. CASE Requeue("scouted_retry") /\ UNCHANGED sweepVars
    <3>1. AddTask("scouted_retry") /\ "scouted_retry" \in Stages
      BY <2>3 DEF Requeue, Stages
    <3>2. QED BY <1>12, <2>1, <2>3, <3>1, Queueing
                 DEF Judge, Requeue, Open, lifeVars, workVars, fetchVars, sweepVars
  <2>4. CASE Ask /\ UNCHANGED <<latest, planned, retries, thin>>
    <3>1. /\ relooks' \in 0..Relooks /\ scout' \in {"never", "recent", "late"}
          /\ queued' \in 0..MaxQueued /\ today' \in BOOLEAN
          /\ settle' \in {"none", "blind", "seen", "ripe"} /\ saw' \in BOOLEAN
      <4>1. CASE today
        BY <2>4, <4>1 DEF Ask, sweepVars
      <4>2. CASE ~today
        <5>1. queued' \in 0..MaxQueued
          BY <2>4, <4>2 DEF Ask
        <5>2. relooks' = 0 /\ scout' = "recent" /\ settle' = "none" /\ today' = TRUE
              /\ saw' = saw
          BY <2>4, <4>2 DEF Ask
        <5>3. QED BY <5>1, <5>2
      <4>3. QED BY <4>1, <4>2
    <3>2. QED BY <1>12, <2>1, <2>4, <3>1 DEF Judge, Open, lifeVars, workVars, fetchVars
  <2>5. CASE UNCHANGED <<taskVars, sweepVars>>
    BY <1>12, <2>1, <2>5 DEF Judge, Open, lifeVars, taskVars, workVars, fetchVars, sweepVars
  <2>6. QED BY <1>12, <2>2, <2>3, <2>4, <2>5 DEF Judge
<1>13. CASE Gap
  <2>1. Move("invalidated", "gap")
        /\ "invalidated" \in Lifecycle!DirectionStatus \ {"proposed"}
    BY <1>13 DEF Gap, Lifecycle!DirectionStatus
  <2>2. /\ status' \in Lifecycle!DirectionStatus /\ ground' \in {"none", "gap", "other"}
        /\ ground' = "none" <=> status' # "invalidated"
    BY <2>1, Moving
  <2>3. wd' \in [at : Steps, stage : Stages]
    BY <1>13 DEF Gap, Done, Resting, Steps, Stages
  <2>4. UNCHANGED <<taskVars, workVars, fetchVars, sweepVars, news, plans, mishaps>>
    BY <1>13 DEF Gap
  <2>5. QED BY <2>2, <2>3, <2>4 DEF taskVars, workVars, fetchVars, sweepVars, Open
<1>14. CASE Flip
  <2>1. wd' \in [at : Steps, stage : Stages]
    BY <1>14 DEF Flip, GoTo, Steps
  <2>2. /\ status' = "proposed" /\ ground' = "none" /\ news' = FALSE
        /\ UNCHANGED <<taskVars, workVars, fetchVars, sweepVars, plans, mishaps>>
    BY <1>14 DEF Flip
  <2>3. /\ status' \in Lifecycle!DirectionStatus /\ ground' \in {"none", "gap", "other"}
        /\ ground' = "none" <=> status' # "invalidated"
        /\ news' \in BOOLEAN
    BY <2>2 DEF Lifecycle!DirectionStatus, Lifecycle!Active
  <2>4. QED BY <2>1, <2>2, <2>3 DEF taskVars, workVars, fetchVars, sweepVars, Open
<1>15. CASE RequeueReopened
  <2>1. AddTask("reopened") /\ "reopened" \in Stages
    BY <1>15 DEF RequeueReopened, Requeue, Stages
  <2>2. QED BY <1>15, <2>1, Queueing DEF RequeueReopened, Requeue, Done, Resting, Steps,
               Stages, Open, lifeVars, workVars, fetchVars, sweepVars
<1>16. CASE UNCHANGED vars
  BY <1>16 DEF vars, Open
<1>17. QED BY <1>1, <1>2, <1>3, <1>4, <1>5, <1>6, <1>7, <1>8, <1>9, <1>10, <1>11, <1>12,
              <1>13, <1>14, <1>15, <1>16 DEF Next, Research, Ladder, Reopen

-----------------------------------------------------------------------------
(* Away from the ladder's own inserts and moves, a step leaves the watchdog *)
(* and the reason alone, and opens no retry.                                *)
LEMMA Elsewhere ==
  ASSUME Types, Bounds,
         \/ Research \/ FailTask \/ Plan \/ Experiment \/ Synthesize \/ Retire \/ Supersede
         \/ Reply \/ SettleSeen \/ SettleBlind \/ LoseSweep \/ Ingest
         \/ Wait \/ NewDay \/ Stall \/ UNCHANGED vars
  PROVE  /\ wd' = wd
         /\ OpenRetries' =< OpenRetries
         /\ ground' = ground \/ (ground' = "other" /\ ground = "none")
<1> USE DEF Types
<1>1. CASE FinishLatest
  BY <1>1 DEF FinishLatest, OpenRetries, Open, lifeVars, Outcome, Refined
<1>2. CASE FinishOlder
  BY <1>2 DEF FinishOlder, OpenRetries, Open, lifeVars
<1>3. CASE FailTask
  BY <1>3 DEF FailTask, OpenRetries, Open, lifeVars
<1>4. CASE Plan
  <2>1. AddTask("planner") /\ "planner" \in Stages
    BY <1>4 DEF Plan, Stages
  <2>2. QED BY <1>4, <2>1, Queueing DEF Plan, lifeVars, OpenRetries, Open
<1>5. CASE Experiment \/ Reply \/ SettleSeen \/ SettleBlind \/ LoseSweep \/ Ingest
           \/ Wait \/ NewDay \/ Stall \/ UNCHANGED vars
  <2>1. UNCHANGED <<wd, latest, retries, ground>>
    BY <1>5 DEF Experiment, Reply, SettleSeen, SettleBlind, LoseSweep, Ingest, Wait, NewDay,
       Stall, vars, lifeVars, taskVars
  <2>2. QED BY <2>1 DEF OpenRetries, Open
<1>6. CASE Synthesize
  <2>1. UNCHANGED <<wd, latest, retries>>
    BY <1>6 DEF Synthesize, taskVars
  <2>2. PICK to \in {"tested", "weakly_supported", "concluded"} : Move(to, "none")
    BY <1>6 DEF Synthesize
  <2>3. ground' = ground
    BY <2>2 DEF Move, lifeVars
  <2>4. QED BY <2>1, <2>3 DEF OpenRetries, Open
<1>7. CASE Retire \/ Supersede
  <2>1. UNCHANGED <<wd, latest, retries>> /\ status \in Active
    BY <1>7 DEF Retire, Supersede, taskVars
  <2>2. ground = "none"
    BY <2>1 DEF Active, Lifecycle!Active
  <2>3. ground' \in {"none", "other"}
    BY <1>7, <2>2 DEF Retire, Supersede, Move, lifeVars
  <2>4. QED BY <2>1, <2>2, <2>3 DEF OpenRetries, Open
<1>8. QED BY <1>1, <1>2, <1>3, <1>4, <1>5, <1>6, <1>7 DEF Research

(* At most one retry is open: the pass that inserts one has seen none open, *)
(* and none opens behind its back.                                          *)
LEMMA RetriesKept ==
  ASSUME Types, Bounds, RetryInv, [Next]_vars PROVE RetryInv'
<1>0. OpenRetries \in Nat /\ wd \in [at : Steps, stage : Stages]
  BY DEF Types, OpenRetries
<1>1. CASE \/ Research \/ FailTask \/ Plan \/ Experiment \/ Synthesize \/ Retire \/ Supersede
           \/ Reply \/ SettleSeen \/ SettleBlind \/ LoseSweep \/ Ingest
           \/ Wait \/ NewDay \/ Stall \/ UNCHANGED vars
  <2>1. /\ wd' = wd
        /\ OpenRetries' =< OpenRetries
        /\ ground' = ground \/ (ground' = "other" /\ ground = "none")
    BY <1>1, Elsewhere
  <2>2. OpenRetries' \in Nat
    <3>1. Types'
      BY TypesKept
    <3>2. retries' \in Nat
      BY <3>1 DEF Types
    <3>3. OpenRetries' = retries' + 1 \/ OpenRetries' = retries' + 0
      BY Zenon DEF OpenRetries
    <3>4. QED BY <3>2, <3>3
  <2>3. QED BY <1>0, <2>1, <2>2 DEF RetryInv, At
<1>2. CASE Look
  <2>1. UNCHANGED <<lifeVars, taskVars>> /\ wd' = [wd EXCEPT !.at = "look"]
        /\ status \in Active /\ NoneOpen
    BY <1>2 DEF Look, GoTo, Candidate
  <2>2. OpenRetries = 0 /\ OpenRetries' = 0
    BY <2>1 DEF NoneOpen, OpenRetries, Open, taskVars
  <2>3. ground' = "none"
    BY <2>1 DEF Types, lifeVars, Active, Lifecycle!Active
  <2>4. wd'.at = "look"
    BY <1>0, <2>1
  <2>5. QED BY <2>2, <2>3, <2>4 DEF RetryInv, At
<1>3. CASE ReadLatest \/ Guard \/ GuardFails
  <2>1. UNCHANGED <<lifeVars, taskVars>> /\ wd'.at \in {"judge", "guard", "gap", "idle"}
        /\ wd.at \in Ladders
    BY <1>0, <1>3 DEF ReadLatest, Guard, GuardFails, GoTo, Done, Resting, At, Ladders
  <2>2. QED BY <2>1 DEF RetryInv, At, lifeVars, taskVars, OpenRetries, Open, Ladders
<1>4. CASE Judge
  <2>1. UNCHANGED lifeVars /\ wd.at = "judge" /\ wd'.at \in {"guard", "idle"}
    BY <1>0, <1>4 DEF Judge, GoTo, Done, Resting, At
  <2>2. OpenRetries = 0 /\ ground' # "gap"
    BY <2>1 DEF RetryInv, At, Ladders, lifeVars
  <2>3. CASE wd'.at = "guard"
    <3>1. UNCHANGED <<latest, retries>>
      BY <1>4, <2>3 DEF Judge, Done, Resting, taskVars
    <3>2. QED BY <2>2, <2>3, <3>1 DEF RetryInv, At, OpenRetries, Open
  <2>4. CASE UNCHANGED <<latest, retries>> /\ wd'.at = "idle"
    BY <2>1, <2>2, <2>4 DEF RetryInv, At, OpenRetries, Open, Ladders
  <2>5. CASE Requeue("acquire_retry") /\ wd'.at = "idle"
    <3>1. AddTask("acquire_retry") /\ "acquire_retry" \in Stages
      BY <2>5 DEF Requeue, Stages
    <3>2. OpenRetries' = 1
      BY <2>2, <3>1, Queueing
    <3>3. QED BY <2>2, <2>5, <3>2 DEF RetryInv, At, Ladders
  <2>6. CASE Requeue("scouted_retry") /\ wd'.at = "idle"
    <3>1. AddTask("scouted_retry") /\ "scouted_retry" \in Stages
      BY <2>6 DEF Requeue, Stages
    <3>2. OpenRetries' = 1
      BY <2>2, <3>1, Queueing
    <3>3. QED BY <2>2, <2>6, <3>2 DEF RetryInv, At, Ladders
  <2>7. QED BY <1>4, <2>1, <2>3, <2>4, <2>5, <2>6 DEF Judge, taskVars
<1>5. CASE Gap \/ Die
  <2>1. UNCHANGED taskVars /\ wd'.at = "idle" /\ wd.at # "idle"
    <3>1. CASE Gap
      BY <3>1 DEF Gap, Done, Resting, At
    <3>2. CASE Die
      BY <3>2 DEF Die, Done, Resting, At
    <3>3. QED BY <1>5, <3>1, <3>2
  <2>2. OpenRetries' = 0
    BY <2>1 DEF RetryInv, At, taskVars, OpenRetries, Open
  <2>3. QED BY <2>1, <2>2 DEF RetryInv, At, Ladders
<1>6. CASE Spot
  <2>1. UNCHANGED <<lifeVars, taskVars>> /\ ground = "gap" /\ wd'.at = "reopen"
    BY <1>0, <1>6 DEF Spot, GoTo
  <2>2. QED BY <2>1 DEF RetryInv, At, lifeVars, taskVars, OpenRetries, Open, Ladders
<1>7. CASE Recheck
  <2>1. UNCHANGED <<lifeVars, taskVars>> /\ wd.at = "reopen" /\ wd'.at \in {"flip", "idle"}
    BY <1>0, <1>7 DEF Recheck, GoTo, Done, Resting, At
  <2>2. QED BY <2>1 DEF RetryInv, At, lifeVars, taskVars, OpenRetries, Open, Ladders
<1>8. CASE Flip
  <2>1. UNCHANGED taskVars /\ wd.at = "flip" /\ wd'.at = "requeue" /\ ground' = "none"
    BY <1>0, <1>8 DEF Flip, GoTo, At
  <2>2. QED BY <2>1 DEF RetryInv, At, taskVars, OpenRetries, Open, Ladders
<1>9. CASE RequeueReopened
  <2>1. UNCHANGED lifeVars /\ wd.at = "requeue" /\ wd'.at = "idle" /\ AddTask("reopened")
        /\ "reopened" \in Stages
    BY <1>9 DEF RequeueReopened, Requeue, Done, Resting, At, Stages
  <2>2. OpenRetries' = 1 /\ ground # "gap"
    BY <2>1, Queueing DEF RetryInv, At, Ladders
  <2>3. QED BY <2>1, <2>2 DEF RetryInv, At, lifeVars, Ladders
<1>10. QED BY <1>1, <1>2, <1>3, <1>4, <1>5, <1>6, <1>7, <1>8, <1>9 DEF Next, Ladder, Reopen

(* A settled sweep was seen: only a settle with scanned > 0 makes one, a    *)
(* new request forgets it.                                                  *)
LEMMA SweepsKept ==
  ASSUME Types, SettledInv, [Next]_vars PROVE SettledInv'
<1>1. CASE SettleSeen
  BY <1>1 DEF SettleSeen, SettledInv
<1>2. CASE SettleBlind
  BY <1>2 DEF SettleBlind, SettledInv
<1>3. CASE Wait
  <2>1. saw' = saw /\ (settle' = settle \/ (settle = "seen" /\ settle' = "ripe"))
    BY <1>3 DEF Wait
  <2>2. QED BY <2>1 DEF SettledInv
<1>4. CASE Judge
  <2>1. saw' = saw /\ settle' \in {settle, "none"}
    BY <1>4 DEF Judge, Ask, sweepVars
  <2>2. QED BY <2>1 DEF SettledInv
<1>5. CASE UNCHANGED <<settle, saw>>
  BY <1>5 DEF SettledInv
<1>6. CASE ~(SettleSeen \/ SettleBlind \/ Wait \/ Judge)
  <2>1. UNCHANGED <<settle, saw>>
    BY <1>6 DEF Next, Research, FinishLatest, FinishOlder, FailTask, Plan, Experiment,
       Synthesize, Retire, Supersede, Reply, LoseSweep, Ingest, NewDay, Stall, Ladder, Look,
       ReadLatest, Guard, Gap, GuardFails, Reopen, Spot, Recheck, Flip, RequeueReopened, Die,
       sweepVars, vars
  <2>2. QED BY <1>5, <2>1
<1>7. QED BY <1>1, <1>2, <1>3, <1>4, <1>6

-----------------------------------------------------------------------------
IInv == Types /\ RetryInv /\ SettledInv

\* The initial state satisfies the inductive invariant.
LEMMA Start == Init => IInv
<1> SUFFICES ASSUME Init PROVE IInv
  OBVIOUS
<1>1. Types
  <2>1. /\ status = "proposed" /\ "proposed" \in Lifecycle!DirectionStatus
        /\ ground = "none"
    BY DEF Init, Lifecycle!DirectionStatus, Lifecycle!Active
  <2>2. /\ latest = [stage |-> "planner", disp |-> "open"]
        /\ latest \in [stage : Stages, disp : Dispositions]
        /\ planned = 0 /\ retries = 0 /\ 1 =< TaskCap
    BY ClosureAssumption DEF Init, Stages, Dispositions, ClosureAssumption
  <2>3. wd \in [at : Steps, stage : Stages]
    BY DEF Init, Resting, Steps, Stages
  <2>4. /\ thin \in 0..StuckAfter /\ relooks \in 0..Relooks /\ done \in 0..SynthMin
        /\ queued \in 0..MaxQueued /\ plans \in 0..MaxPlans /\ mishaps \in 0..MaxMishaps
    BY ClosureAssumption DEF Init, ClosureAssumption
  <2>5. /\ recent = FALSE /\ finding = FALSE /\ fetched = FALSE /\ today = FALSE
        /\ saw = FALSE /\ news = FALSE
        /\ acquires = "none" /\ replies = "few" /\ scout = "never" /\ settle = "none"
    BY DEF Init
  <2>6. planned \in 0..TaskCap /\ retries \in Nat
        /\ planned + (IF Open(latest) /\ latest.stage = "planner" THEN 1 ELSE 0) =< TaskCap
    BY <2>2, ClosureAssumption DEF Open, ClosureAssumption
  <2>7. QED BY <2>1, <2>2, <2>3, <2>4, <2>5, <2>6 DEF Types
<1>2. RetryInv
  BY DEF Init, RetryInv, At, Resting, OpenRetries, Open, Ladders
<1>3. QED BY <1>1, <1>2 DEF Init, IInv, SettledInv

\* The bounds are naturals, by the assumption on the constants.
LEMMA Bounded == Bounds
BY ClosureAssumption DEF Bounds, ClosureAssumption

(* The inductive invariant of the ladder.                                   *)
THEOREM Inductive == Spec => []IInv
<1>1. IInv /\ [Next]_vars => IInv'
  BY Bounded, TypesKept, RetriesKept, SweepsKept DEF IInv
<1>2. QED BY <1>1, Start, PTL DEF Spec

(* TypeOK: the rows, the ladder's memory and the watchdog's pass keep their *)
(* types; that there is one retry in the queue at most is part of it.       *)
THEOREM TypeCorrect == Spec => []TypeOK
<1>1. IInv => TypeOK
  <2>1. ASSUME Types, RetryInv PROVE retries \in 0..1
    BY <2>1 DEF Types, RetryInv, OpenRetries
  <2>2. QED BY <2>1 DEF IInv, Types, TypeOK
<1>2. QED BY <1>1, Inductive, PTL

(* OneRetry: the ladder never double-fires, whatever the planner queues     *)
(* between its reads and its insert.                                        *)
THEOREM LadderFiresOnce == Spec => []OneRetry
<1>1. IInv => OneRetry
  BY DEF IInv, RetryInv, OneRetry
<1>2. QED BY <1>1, Inductive, PTL

(* LadderSawTheField: the ladder declares no gap on a sweep that was lost,  *)
(* late or blind.                                                           *)
THEOREM GapAfterASweep == Spec => LadderSawTheField
<1>1. IInv /\ [Next]_vars => [At("judge") /\ wd'.at = "guard" => saw]_vars
  <2> SUFFICES ASSUME IInv, Next, At("judge"), wd'.at = "guard" PROVE saw
    BY DEF vars
  <2>1. wd \in [at : Steps, stage : Stages] /\ wd.at = "judge"
    BY DEF IInv, Types, At
  <2>2. Judge
    <3>1. CASE \/ Research \/ FailTask \/ Plan \/ Experiment \/ Synthesize \/ Retire
               \/ Supersede \/ Reply \/ SettleSeen \/ SettleBlind \/ LoseSweep \/ Ingest
               \/ Wait \/ NewDay \/ Stall
      BY <2>1, <3>1, Elsewhere, Bounded DEF IInv
    <3>2. CASE Look \/ ReadLatest \/ Guard \/ Gap \/ GuardFails \/ Reopen
      BY <2>1, <3>2 DEF Look, ReadLatest, Guard, Gap, GuardFails, Reopen, Spot, Recheck, Flip,
         RequeueReopened, At
    <3>3. CASE Die
      BY <3>3 DEF Die, Done, Resting
    <3>4. QED BY <3>1, <3>2, <3>3 DEF Next, Ladder
  <2>3. ~SweepDue /\ ~SweepRuns
    BY <2>2 DEF Judge, Done, Resting
  <2>4. settle = "ripe"
    BY <2>3 DEF SweepDue, SweepRuns, IInv, Types
  <2>5. QED BY <2>4 DEF IInv, SettledInv
<1>2. QED BY <1>1, Inductive, PTL DEF Spec, LadderSawTheField

(* LifecycleKept: whoever writes the status, it moves along the legal edges *)
(* of the abstract lifecycle.                                               *)
THEOREM ImplementsLifecycle == Spec => LifecycleKept
<1>1. Init => Lifecycle!Init
  BY DEF Init, Lifecycle!Init
<1>2. IInv /\ [Next]_vars => [Lifecycle!Next]_status
  <2> SUFFICES ASSUME IInv, [Next]_vars PROVE status' = status \/ Lifecycle!Next
    OBVIOUS
  <2> USE DEF IInv, Types
  <2>1. CASE Synthesize
    <3>1. PICK to \in {"tested", "weakly_supported", "concluded"} : Move(to, "none")
      BY <2>1 DEF Synthesize
    <3>2. QED BY <3>1 DEF Move, lifeVars, Lifecycle!Next
  <2>2. CASE Retire \/ Gap
    <3>1. Move("invalidated", "other") \/ Move("invalidated", "gap")
      BY <2>2 DEF Retire, Gap
    <3>2. QED BY <3>1 DEF Move, lifeVars, Lifecycle!Next
  <2>3. CASE Supersede
    <3>1. "invalidated" \in Lifecycle!Legal[status] /\ status' = "invalidated"
      BY <2>3, Edges DEF Supersede, Active, Lifecycle!Active, Lifecycle!DirectionStatus
    <3>2. QED BY <3>1 DEF Lifecycle!Next
  <2>4. CASE Flip
    <3>1. ground = "gap" /\ status' = "proposed"
      BY <2>4 DEF Flip, RetryInv, At
    <3>2. "proposed" \in Lifecycle!Legal[status]
      BY <3>1, Edges
    <3>3. QED BY <3>1, <3>2 DEF Lifecycle!Next
  <2>5. CASE ~(Synthesize \/ Retire \/ Gap \/ Supersede \/ Flip)
    BY <2>5 DEF Next, Research, FinishLatest, FinishOlder, FailTask, Plan, Experiment, Reply,
       SettleSeen, SettleBlind, LoseSweep, Ingest, Wait, NewDay, Stall, Ladder, Look,
       ReadLatest, Judge, Guard, GuardFails, Reopen, Spot, Recheck, RequeueReopened, Die,
       lifeVars, vars
  <2>6. QED BY <2>1, <2>2, <2>3, <2>4, <2>5
<1>3. QED BY <1>1, <1>2, Inductive, PTL DEF Spec, LifecycleKept, Lifecycle!Spec
-----------------------------------------------------------------------------
(* The agenda the directions stand on: Ag is Agenda, its constants and       *)
(* variables declared under names of their own where Closure has the same.   *)

CONSTANTS Dirs, Strong, Budget, MaxCalls, Decisions, MaxLooks, MaxLosses
VARIABLES stands, worked, gate, verdict, missions, pending, calls, tick, ready, looks, losses

Ag == INSTANCE Agenda WITH status <- stands, mishaps <- losses, MaxMishaps <- MaxLosses

Deliberating == {c \in calls : c.type = "deliberate"}

\* Deliberations whose UPDATE of the missions has started: they do not see what
\* is inserted from then on.
Persisting == {c \in Deliberating : c.at = "persist"}
AnyOpen == \E c \in Deliberating : c.open

\* The missions that Q will end.
Seen(Q) == UNION {q.seen : q \in Q}

Shaped(c) == c = [type |-> c.type, open |-> c.open, take |-> c.take, seen |-> c.seen,
                  at |-> c.at, dirs |-> c.dirs]

\* Whichever of them write next: what they leave standing and what they add.
Standing ==
  \A Q \in SUBSET Persisting :
    Cardinality(missions \ Seen(Q)) + Cardinality(Q) =< 1 + losses

\* A mishap for every deliberation but the one in charge of the event.
Repeated == Cardinality(Deliberating) =< losses + (IF AnyOpen THEN 1 ELSE 0)

AgendaInv == /\ IsFiniteSet(calls) /\ IsFiniteSet(missions) /\ losses \in Nat
             /\ (\A c \in calls : Shaped(c)) /\ Standing /\ Repeated

(* B stands for A: every call in A comes from one of B, that differs only   *)
(* in whether its event is open and in the directions left to it.           *)
SameTask(j, k) == j.type = k.type /\ j.at = k.at /\ j.seen = k.seen
From(A, B) == \E f \in Injection(A, B) : \A j \in A : SameTask(j, f[j])

LEMMA FromSubset == ASSUME NEW B, NEW A, A \subseteq B PROVE From(A, B)
<1> DEFINE f == [j \in A |-> j]
<1>1. f \in Injection(A, B) /\ \A j \in A : SameTask(j, f[j])
  BY DEF Injection, IsInjective, SameTask
<1> HIDE DEF f
<1> QED BY <1>1 DEF From

LEMMA FromTrans == ASSUME NEW A, NEW B, NEW C, From(A, B), From(B, C) PROVE From(A, C)
<1>1. PICK f \in Injection(A, B) : \A j \in A : SameTask(j, f[j])
  BY DEF From
<1>2. PICK g \in Injection(B, C) : \A k \in B : SameTask(k, g[k])
  BY DEF From
<1> DEFINE h == [j \in A |-> g[f[j]]]
<1>3. f \in [A -> B] /\ g \in [B -> C]
  BY <1>1, <1>2 DEF Injection
<1>4. h \in Injection(A, C)
  <2>1. h \in [A -> C]
    BY <1>3
  <2>2. \A i, j \in A : h[i] = h[j] => i = j
    BY <1>1, <1>2, <1>3 DEF Injection, IsInjective
  <2> HIDE DEF h
  <2> QED BY <2>1, <2>2 DEF Injection, IsInjective
<1>5. \A j \in A : SameTask(j, h[j])
  BY <1>1, <1>2, <1>3 DEF SameTask
<1> HIDE DEF h
<1> QED BY <1>4, <1>5 DEF From

LEMMA FromImage ==
  ASSUME NEW B, NEW g, \A k \in B : SameTask(g[k], k)
  PROVE  From({g[k] : k \in B}, B)
<1> DEFINE A == {g[k] : k \in B}
           f == [j \in A |-> CHOOSE k \in B : g[k] = j]
<1>1. \A j \in A : f[j] \in B /\ g[f[j]] = j
  OBVIOUS
<1>2. f \in [A -> B]
  BY <1>1
<1> HIDE DEF f
<1>3. f \in Injection(A, B)
  BY <1>1, <1>2 DEF Injection, IsInjective
<1>4. \A j \in A : SameTask(j, f[j])
  BY <1>1 DEF SameTask
<1> QED BY <1>3, <1>4 DEF From

\* As many calls in P as in Q, and the same tasks.
Matches(P, Q) ==
  /\ IsFiniteSet(P) /\ Cardinality(P) = Cardinality(Q)
  /\ \A j \in Q : \E k \in P : SameTask(j, k)
  /\ \A k \in P : \E j \in Q : SameTask(j, k)

LEMMA FromCount ==
  ASSUME NEW A, NEW B, IsFiniteSet(B), From(A, B)
  PROVE  /\ IsFiniteSet(A)
         /\ \A Q \in SUBSET A : \E P \in SUBSET B : Matches(P, Q)
<1>1. PICK f \in Injection(A, B) : \A j \in A : SameTask(j, f[j])
  BY DEF From
<1>2. f \in [A -> B] /\ \A i, j \in A : f[i] = f[j] => i = j
  BY <1>1 DEF Injection, IsInjective
<1>3. IsFiniteSet(A)
  BY <1>1, FS_Injection
<1>4. ASSUME NEW Q \in SUBSET A PROVE \E P \in SUBSET B : Matches(P, Q)
  <2> DEFINE P == {f[j] : j \in Q}
             h == [j \in Q |-> f[j]]
  <2>1. h \in Injection(Q, P) /\ h \in Surjection(Q, P)
    BY <1>2 DEF Injection, IsInjective, Surjection
  <2>2. IsFiniteSet(Q)
    BY <1>3, FS_Subset
  <2> HIDE DEF h
  <2>3. IsFiniteSet(P) /\ Cardinality(P) = Cardinality(Q)
    BY <2>1, <2>2, FS_Surjection
  <2>4. P \in SUBSET B
    BY <1>2
  <2>5. /\ \A j \in Q : f[j] \in P /\ SameTask(j, f[j])
        /\ \A k \in P : \E j \in Q : SameTask(j, k)
    BY <1>1
  <2>6. Matches(P, Q)
    BY <2>3, <2>5 DEF Matches
  <2> HIDE DEF P
  <2> QED BY <2>4, <2>6
<1> QED BY <1>3, <1>4
-----------------------------------------------------------------------------
LEMMA Counts ==
  ASSUME IsFiniteSet(calls)
  PROVE  /\ IsFiniteSet(Deliberating) /\ Cardinality(Deliberating) \in Nat
         /\ \A Q \in SUBSET Deliberating :
              IsFiniteSet(Q) /\ Cardinality(Q) \in Nat /\ Cardinality(Q) =< Cardinality(Deliberating)
<1>1. Deliberating \subseteq calls
  BY DEF Deliberating
<1> QED BY <1>1, FS_Subset, FS_CardinalityType

LEMMA MissionCount ==
  ASSUME IsFiniteSet(missions), NEW X
  PROVE  IsFiniteSet(missions \ X) /\ Cardinality(missions \ X) \in Nat
<1>1. missions \ X \subseteq missions
  OBVIOUS
<1> QED BY <1>1, FS_Subset, FS_CardinalityType

\* What is kept while no mission is written and no call starts to write.
LEMMA StandingKept ==
  ASSUME AgendaInv, losses' \in Nat, losses =< losses', UNCHANGED missions,
         From(calls', calls)
  PROVE  Standing'
<1> SUFFICES ASSUME NEW Q \in SUBSET (Persisting')
             PROVE  Cardinality(missions \ Seen(Q)) + Cardinality(Q) =< 1 + losses'
  BY DEF Standing, Seen
<1>1. Q \in SUBSET (calls') /\ IsFiniteSet(calls)
  BY DEF Persisting, Deliberating, AgendaInv
<1>0. \A A : From(A, calls) => \A R \in SUBSET A : \E P \in SUBSET calls : Matches(P, R)
  BY <1>1, FromCount
<1>2. PICK P \in SUBSET calls : Matches(P, Q)
  BY <1>0, <1>1
<1>3. P \in SUBSET Persisting
  BY <1>2 DEF Matches, Persisting, Deliberating, SameTask
<1>4. Seen(P) = Seen(Q)
  BY <1>2 DEF Matches, Seen, SameTask
<1>5. Cardinality(missions \ Seen(P)) + Cardinality(P) =< 1 + losses
  BY <1>3 DEF AgendaInv, Standing
<1>6. Cardinality(missions \ Seen(P)) \in Nat /\ Cardinality(P) \in Nat /\ losses \in Nat
  BY <1>2, MissionCount, FS_CardinalityType DEF AgendaInv, Matches
<1> QED BY <1>2, <1>4, <1>5, <1>6 DEF Matches

LEMMA FewerCalls ==
  ASSUME IsFiniteSet(calls), NEW B \in SUBSET calls, From(calls', B)
  PROVE  /\ IsFiniteSet(calls') /\ Cardinality(Deliberating') \in Nat
         /\ Cardinality(Deliberating') =< Cardinality({k \in B : k.type = "deliberate"})
<1> DEFINE D == {k \in B : k.type = "deliberate"}
<1>1. IsFiniteSet(B) /\ IsFiniteSet(D) /\ D \subseteq B
  <2>1. D \subseteq B
    OBVIOUS
  <2> HIDE DEF D
  <2> QED BY <2>1, FS_Subset
<1>2. \A A : From(A, B) => /\ IsFiniteSet(A)
                           /\ \A Q \in SUBSET A : \E P \in SUBSET B : Matches(P, Q)
  BY <1>1, FromCount
<1>3. IsFiniteSet(calls') /\ Deliberating' \in SUBSET (calls')
  BY <1>2 DEF Deliberating
<1>4. PICK P \in SUBSET B : Matches(P, Deliberating')
  BY <1>2, <1>3
<1>5. P \subseteq D
  BY <1>4 DEF Matches, SameTask, Deliberating
<1> HIDE DEF D
<1>6. Cardinality(P) =< Cardinality(D) /\ Cardinality(P) \in Nat
  BY <1>1, <1>4, <1>5, FS_Subset, FS_CardinalityType DEF Matches
<1> QED BY <1>3, <1>4, <1>6 DEF Matches, D

\* What the end of another call, or of a direction, leaves of a call.
LEMMA OpenChanged ==
  ASSUME NEW k, Shaped(k), NEW o
  PROVE  /\ SameTask([k EXCEPT !.open = o], k) /\ Shaped([k EXCEPT !.open = o])
         /\ [k EXCEPT !.open = o].open = o /\ [k EXCEPT !.open = o].dirs = k.dirs
<1> DEFINE a == k.type  b == k.open  t == k.take  n == k.seen  p == k.at  d == k.dirs
           r == [type |-> a, open |-> o, take |-> t, seen |-> n, at |-> p, dirs |-> d]
<1>1. k = [type |-> a, open |-> b, take |-> t, seen |-> n, at |-> p, dirs |-> d]
  BY DEF Shaped
<1> HIDE DEF a, b, t, n, p, d
<1>2. [k EXCEPT !.open = o] = r
  BY <1>1
<1>3. r.type = a /\ r.at = p /\ r.seen = n /\ r.open = o /\ r.take = t /\ r.dirs = d
  OBVIOUS
<1>4. r = [type |-> r.type, open |-> r.open, take |-> r.take, seen |-> r.seen,
           at |-> r.at, dirs |-> r.dirs]
  BY <1>3
<1> HIDE DEF r
<1>5. k.type = a /\ k.at = p /\ k.seen = n /\ k.dirs = d
  BY DEF a, p, n, d
<1> QED BY <1>2, <1>3, <1>4, <1>5 DEF SameTask, Shaped

LEMMA DirsChanged ==
  ASSUME NEW k, Shaped(k), NEW x
  PROVE  /\ SameTask([k EXCEPT !.dirs = x], k) /\ Shaped([k EXCEPT !.dirs = x])
         /\ [k EXCEPT !.dirs = x].open = k.open /\ [k EXCEPT !.dirs = x].dirs = x
<1> DEFINE a == k.type  b == k.open  t == k.take  n == k.seen  p == k.at  d == k.dirs
           r == [type |-> a, open |-> b, take |-> t, seen |-> n, at |-> p, dirs |-> x]
<1>1. k = [type |-> a, open |-> b, take |-> t, seen |-> n, at |-> p, dirs |-> d]
  BY DEF Shaped
<1> HIDE DEF a, b, t, n, p, d
<1>2. [k EXCEPT !.dirs = x] = r
  BY <1>1
<1>3. r.type = a /\ r.at = p /\ r.seen = n /\ r.open = b /\ r.take = t /\ r.dirs = x
  OBVIOUS
<1>4. r = [type |-> r.type, open |-> r.open, take |-> r.take, seen |-> r.seen,
           at |-> r.at, dirs |-> r.dirs]
  BY <1>3
<1> HIDE DEF r
<1>5. k.type = a /\ k.at = p /\ k.seen = n /\ k.open = b
  BY DEF a, p, n, b
<1> QED BY <1>2, <1>3, <1>4, <1>5 DEF SameTask, Shaped

\* A deliberation that starts to write takes down the missions it sees.
LEMMA SeenChanged ==
  ASSUME NEW k, Shaped(k), NEW ms
  PROVE  \E next : /\ next = [k EXCEPT !.at = "persist", !.seen = ms]
                   /\ Shaped(next) /\ next.type = k.type /\ next.open = k.open
                   /\ next.at = "persist" /\ next.seen = ms /\ next.dirs = k.dirs
<1> DEFINE a == k.type  b == k.open  t == k.take  n == k.seen  p == k.at  d == k.dirs
<1>1. PICK next : next = [type |-> a, open |-> b, take |-> t, seen |-> ms,
                          at |-> "persist", dirs |-> d]
  OBVIOUS
<1>2. k = [type |-> a, open |-> b, take |-> t, seen |-> n, at |-> p, dirs |-> d]
  BY DEF Shaped
<1>3. a = k.type /\ b = k.open /\ d = k.dirs
  OBVIOUS
<1> HIDE DEF a, b, t, n, p, d
<1>4. /\ next.type = a /\ next.open = b /\ next.seen = ms
      /\ next.at = "persist" /\ next.dirs = d /\ Shaped(next)
  BY <1>1 DEF Shaped
<1>5. next = [k EXCEPT !.at = "persist", !.seen = ms]
  <2> DEFINE r == [type |-> a, open |-> b, take |-> t, seen |-> n, at |-> "persist", dirs |-> d]
  <2>1. [k EXCEPT !.at = "persist"] = r
    BY <1>2
  <2>2. [r EXCEPT !.seen = ms] = next
    BY <1>1
  <2>3. [k EXCEPT !.at = "persist", !.seen = ms]
          = [[k EXCEPT !.at = "persist"] EXCEPT !.seen = ms]
    BY Zenon
  <2> HIDE DEF r
  <2> QED BY <2>1, <2>2, <2>3
<1> QED BY <1>3, <1>4, <1>5

LEMMA ClosedFrom ==
  ASSUME NEW Y, \A k \in Y : Shaped(k), NEW t
  PROVE  /\ From(Ag!Closed(Y, t), Y) /\ \A j \in Ag!Closed(Y, t) : Shaped(j)
         /\ \A k \in Y : k.type # t /\ k.open =>
              \E j \in Ag!Closed(Y, t) : j.type = k.type /\ j.open
<1> DEFINE g == [k \in Y |-> [k EXCEPT !.open = (k.open /\ k.type # t)]]
<1>1. \A k \in Y : SameTask(g[k], k) /\ Shaped(g[k]) /\ g[k].open = (k.open /\ k.type # t)
  BY OpenChanged
<1>2. Ag!Closed(Y, t) = {g[k] : k \in Y}
  BY DEF Ag!Closed
<1> HIDE DEF g
<1>3. From({g[k] : k \in Y}, Y)
  BY <1>1, FromImage
<1>4. ASSUME NEW k \in Y, k.type # t, k.open
      PROVE  g[k] \in Ag!Closed(Y, t) /\ g[k].type = k.type /\ g[k].open
  BY <1>1, <1>2, <1>4 DEF SameTask
<1> QED BY <1>1, <1>2, <1>3, <1>4

LEMMA ForgottenFrom ==
  ASSUME NEW Y, \A k \in Y : Shaped(k), NEW ds
  PROVE  /\ From(Ag!Forgotten(Y, ds), Y) /\ \A j \in Ag!Forgotten(Y, ds) : Shaped(j)
         /\ \A k \in Y : \E j \in Ag!Forgotten(Y, ds) : j.type = k.type /\ j.open = k.open
<1> DEFINE g == [k \in Y |-> [k EXCEPT !.dirs = k.dirs \ ds]]
<1>1. \A k \in Y : SameTask(g[k], k) /\ Shaped(g[k]) /\ g[k].open = k.open
  BY DirsChanged
<1>2. Ag!Forgotten(Y, ds) = {g[k] : k \in Y}
  BY DEF Ag!Forgotten
<1> HIDE DEF g
<1>3. From({g[k] : k \in Y}, Y)
  BY <1>1, FromImage
<1>4. ASSUME NEW k \in Y
      PROVE  g[k] \in Ag!Forgotten(Y, ds) /\ g[k].type = k.type /\ g[k].open = k.open
  BY <1>1, <1>2 DEF SameTask
<1> QED BY <1>1, <1>2, <1>3, <1>4

\* A call that ends leaves the others; if it is no deliberation, what is open
\* of the deliberations stays open.
LEMMA SettleFrom ==
  ASSUME AgendaInv, NEW c \in calls, NEW ds, NEW rest,
         rest = calls \/ rest = Ag!Forgotten(calls \ {c}, ds) \cup {c}, Ag!Settle(c, rest)
  PROVE  /\ From(calls', calls \ {c}) /\ \A j \in calls' : Shaped(j)
         /\ c.type # "deliberate" /\ AnyOpen => AnyOpen'
<1>1. PICK Y : Y = rest \ {c}
  OBVIOUS
<1>2. \A k \in calls : Shaped(k)
  BY DEF AgendaInv
<1>3. /\ From(Y, calls \ {c}) /\ \A j \in Y : Shaped(j)
      /\ \A k \in calls : k.type # c.type /\ k.open => \E j \in Y : j.type = k.type /\ j.open
  <2>1. CASE rest = calls
    <3>1. Y = calls \ {c}
      BY <1>1, <2>1
    <3> QED BY <1>2, <3>1, FromSubset
  <2>2. CASE rest = Ag!Forgotten(calls \ {c}, ds) \cup {c}
    <3>1. PICK X : X = Ag!Forgotten(calls \ {c}, ds)
      OBVIOUS
    <3>2. /\ From(X, calls \ {c}) /\ \A j \in X : Shaped(j)
          /\ \A k \in calls \ {c} : \E j \in X : j.type = k.type /\ j.open = k.open
      BY <1>2, <3>1, ForgottenFrom
    <3>3. Y = X \ {c}
      BY <1>1, <2>2, <3>1
    <3>4. From(Y, calls \ {c})
      BY <3>2, <3>3, FromSubset, FromTrans
    <3> QED BY <3>2, <3>3, <3>4
  <2> QED BY <2>1, <2>2
<1>4. PICK Z : /\ calls' = Z /\ From(Z, calls \ {c}) /\ \A j \in Z : Shaped(j)
               /\ \A k \in calls : k.type # c.type /\ k.open => \E j \in Z : j.type = k.type /\ j.open
  <2>1. CASE c.open
    <3>1. PICK Z : Z = Ag!Closed(Y, c.type)
      OBVIOUS
    <3>2. /\ From(Z, Y) /\ \A j \in Z : Shaped(j)
          /\ \A k \in Y : k.type # c.type /\ k.open => \E j \in Z : j.type = k.type /\ j.open
      BY <1>3, <3>1, ClosedFrom
    <3>3. From(Z, calls \ {c})
      BY <1>3, <3>2, FromTrans
    <3>4. calls' = Z
      BY <1>1, <2>1, <3>1 DEF Ag!Settle
    <3> QED BY <1>3, <3>2, <3>3, <3>4
  <2>2. CASE ~c.open
    <3>1. calls' = Y
      BY <1>1, <2>2 DEF Ag!Settle
    <3> QED BY <1>3, <3>1
  <2> QED BY <2>1, <2>2
<1>5. c.type # "deliberate" /\ AnyOpen => AnyOpen'
  BY <1>4 DEF AnyOpen, Deliberating
<1> QED BY <1>4, <1>5

\* So the end of a call keeps the invariant, unless it writes a mission.
LEMMA SettleCounts ==
  ASSUME AgendaInv, NEW c \in calls, From(calls', calls \ {c}), \A j \in calls' : Shaped(j),
         c.type # "deliberate" /\ AnyOpen => AnyOpen', losses' \in Nat, losses =< losses'
  PROVE  IsFiniteSet(calls') /\ Repeated' /\ From(calls', calls)
<1> DEFINE D == {k \in calls \ {c} : k.type = "deliberate"}
<1>1. IsFiniteSet(calls) /\ calls \ {c} \in SUBSET calls
  BY DEF AgendaInv
<1>2. /\ IsFiniteSet(calls') /\ Cardinality(Deliberating') \in Nat
      /\ Cardinality(Deliberating') =< Cardinality(D)
  BY <1>1, FewerCalls
<1>3. IsFiniteSet(Deliberating) /\ Cardinality(Deliberating) \in Nat
  BY <1>1, Counts
<1>4. D = Deliberating \ {c}
  BY DEF Deliberating
<1>5. Cardinality(Deliberating) =< losses + (IF AnyOpen THEN 1 ELSE 0)
  BY DEF AgendaInv, Repeated
<1>6. losses \in Nat
  BY DEF AgendaInv
<1>7. Cardinality(Deliberating') =< losses' + (IF AnyOpen' THEN 1 ELSE 0)
  <2> HIDE DEF D
  <2>1. CASE c.type = "deliberate"
    <3>1. c \in Deliberating
      BY <2>1 DEF Deliberating
    <3>2. Cardinality(D) = Cardinality(Deliberating) - 1
      BY <1>3, <1>4, <3>1, FS_RemoveElement
    <3> QED BY <1>2, <1>3, <1>5, <1>6, <3>2
  <2>2. CASE c.type # "deliberate"
    <3>1. D = Deliberating
      BY <1>4, <2>2 DEF Deliberating
    <3>2. AnyOpen => AnyOpen'
      BY <2>2
    <3> QED BY <1>2, <1>3, <1>5, <1>6, <3>1, <3>2
  <2> QED BY <2>1, <2>2
<1>8. From(calls', calls)
  <2>1. From(calls \ {c}, calls)
    BY FromSubset
  <2> QED BY <2>1, FromTrans
<1> QED BY <1>2, <1>7, <1>8 DEF Repeated

LEMMA SettleKeeps ==
  ASSUME AgendaInv, NEW c \in calls, NEW ds, NEW rest,
         rest = calls \/ rest = Ag!Forgotten(calls \ {c}, ds) \cup {c}, Ag!Settle(c, rest),
         losses' \in Nat, losses =< losses', UNCHANGED missions
  PROVE  AgendaInv'
<1>1. /\ From(calls', calls \ {c}) /\ \A j \in calls' : Shaped(j)
      /\ c.type # "deliberate" /\ AnyOpen => AnyOpen'
  BY SettleFrom
<1>2. IsFiniteSet(calls') /\ Repeated' /\ From(calls', calls)
  BY <1>1, SettleCounts
<1>3. Standing'
  BY <1>2, StandingKept
<1>4. \A j \in calls' : Shaped(j)'
  BY <1>1 DEF Shaped
<1>5. IsFiniteSet(missions')
  BY DEF AgendaInv
<1> QED BY <1>2, <1>3, <1>4, <1>5 DEF AgendaInv

LEMMA ReturnKeeps ==
  ASSUME AgendaInv, NEW c \in calls, Ag!Settle(c, calls), losses' \in Nat, losses =< losses',
         UNCHANGED missions
  PROVE  AgendaInv'
<1>1. PICK ds : ds = {}
  OBVIOUS
<1>2. PICK rest : rest = calls
  OBVIOUS
<1>3. rest = calls \/ rest = Ag!Forgotten(calls \ {c}, ds) \cup {c}
  BY <1>2
<1>4. Ag!Settle(c, rest)
  BY <1>2
<1> QED BY <1>3, <1>4, SettleKeeps

\* Nothing but the calls of other kinds, or the count of mishaps, changes.
LEMMA RestKeeps ==
  ASSUME AgendaInv, UNCHANGED <<missions, calls>>, losses' \in Nat, losses =< losses'
  PROVE  AgendaInv'
<1>1. From(calls', calls)
  BY FromSubset
<1>2. Standing'
  BY <1>1, StandingKept
<1>3. Repeated'
  <2>1. UNCHANGED Deliberating
    BY DEF Deliberating
  <2>2. UNCHANGED AnyOpen
    BY <2>1 DEF AnyOpen
  <2>3. Cardinality(Deliberating) \in Nat
    BY Counts DEF AgendaInv
  <2>4. Cardinality(Deliberating) =< losses + (IF AnyOpen THEN 1 ELSE 0) /\ losses \in Nat
    BY DEF AgendaInv, Repeated
  <2> QED BY <2>1, <2>2, <2>3, <2>4 DEF Repeated
<1>4. \A j \in calls' : Shaped(j)'
  BY DEF AgendaInv, Shaped
<1> QED BY <1>2, <1>3, <1>4 DEF AgendaInv

LEMMA StandingSub ==
  ASSUME AgendaInv, Persisting' \subseteq Persisting, UNCHANGED missions,
         losses' \in Nat, losses =< losses'
  PROVE  Standing'
<1> SUFFICES ASSUME NEW Q \in SUBSET (Persisting')
             PROVE  Cardinality(missions \ Seen(Q)) + Cardinality(Q) =< 1 + losses'
  BY DEF Standing, Seen
<1>1. Q \in SUBSET Persisting /\ Q \in SUBSET Deliberating
  BY DEF Persisting
<1>2. Cardinality(missions \ Seen(Q)) + Cardinality(Q) =< 1 + losses
  BY <1>1 DEF AgendaInv, Standing
<1>3. Cardinality(missions \ Seen(Q)) \in Nat /\ Cardinality(Q) \in Nat /\ losses \in Nat
  BY <1>1, MissionCount, Counts DEF AgendaInv
<1> QED BY <1>2, <1>3

LEMMA TakeKeeps == ASSUME AgendaInv, NEW type \in Ag!Types, Ag!Take(type) PROVE AgendaInv'
<1>1. PICK k : k = Ag!Call(type)
  OBVIOUS
<1>2. /\ k.type = type /\ k.open = TRUE /\ Shaped(k)
      /\ k.at # "persist" \/ k.type # "deliberate"
  BY <1>1 DEF Ag!Call, Shaped
<1>3. calls' = calls \cup {k} /\ UNCHANGED missions
  BY <1>1 DEF Ag!Take, Ag!agenda
<1>4. /\ losses \in Nat
      /\ \/ (\E c \in calls : c.type = type /\ c.open) /\ losses' = losses + 1
         \/ ~(\E c \in calls : c.type = type /\ c.open) /\ losses' = losses
  BY DEF Ag!Take, Ag!Mishap, AgendaInv
<1>5. losses' \in Nat /\ losses =< losses'
  BY <1>4
<1>6. IsFiniteSet(calls') /\ IsFiniteSet(missions') /\ \A j \in calls' : Shaped(j)'
  BY <1>2, <1>3, FS_AddElement DEF AgendaInv, Shaped
<1>7. Standing'
  <2>1. Persisting' \subseteq Persisting
    BY <1>2, <1>3 DEF Persisting, Deliberating
  <2> QED BY <1>3, <1>5, <2>1, StandingSub
<1>8. Repeated'
  <2>1. IsFiniteSet(Deliberating) /\ Cardinality(Deliberating) \in Nat
    BY Counts DEF AgendaInv
  <2>2. Cardinality(Deliberating) =< losses + (IF AnyOpen THEN 1 ELSE 0)
    BY DEF AgendaInv, Repeated
  <2>3. CASE type = "deliberate"
    <3>1. Deliberating' = Deliberating \cup {k} /\ AnyOpen'
      BY <1>2, <1>3, <2>3 DEF Deliberating, AnyOpen
    <3>2. Cardinality(Deliberating') \in {Cardinality(Deliberating), Cardinality(Deliberating) + 1}
      BY <2>1, <3>1, FS_AddElement
    <3>3. \/ AnyOpen /\ losses' = losses + 1
          \/ ~AnyOpen /\ losses' = losses
      BY <1>4, <2>3 DEF AnyOpen, Deliberating
    <3>4. Cardinality(Deliberating') =< losses' + 1
      BY <1>4, <2>1, <2>2, <3>2, <3>3
    <3> QED BY <3>1, <3>4 DEF Repeated
  <2>4. CASE type # "deliberate"
    <3>1. Deliberating' = Deliberating
      BY <1>2, <1>3, <2>4 DEF Deliberating
    <3>2. AnyOpen' <=> AnyOpen
      BY <3>1 DEF AnyOpen
    <3>3. Cardinality(Deliberating) =< losses' + (IF AnyOpen THEN 1 ELSE 0)
      BY <1>4, <1>5, <2>1, <2>2
    <3> QED BY <3>1, <3>2, <3>3 DEF Repeated
  <2> QED BY <2>3, <2>4
<1> QED BY <1>5, <1>6, <1>7, <1>8 DEF AgendaInv

\* A call goes on, with the same event.
LEMMA GoesCounts ==
  ASSUME AgendaInv, NEW c \in calls, NEW next, next.type = c.type, next.open = c.open,
         Shaped(next), Ag!Goes(c, next), losses' \in Nat, losses =< losses'
  PROVE  /\ IsFiniteSet(calls') /\ (\A j \in calls' : Shaped(j)') /\ Repeated'
         /\ Cardinality(Deliberating') \in Nat /\ Cardinality(Deliberating') =< losses + 1
<1>1. calls' = (calls \ {c}) \cup {next} /\ IsFiniteSet(calls) /\ losses \in Nat
  BY DEF Ag!Goes, AgendaInv
<1>2. IsFiniteSet(calls') /\ \A j \in calls' : Shaped(j)'
  BY <1>1, FS_RemoveElement, FS_AddElement DEF AgendaInv, Shaped
<1>3. IsFiniteSet(Deliberating) /\ Cardinality(Deliberating) \in Nat
  BY <1>1, Counts
<1>4. Cardinality(Deliberating) =< losses + (IF AnyOpen THEN 1 ELSE 0)
  BY DEF AgendaInv, Repeated
<1>5. /\ Cardinality(Deliberating') \in Nat
      /\ Cardinality(Deliberating') =< Cardinality(Deliberating)
  <2>1. CASE c.type = "deliberate"
    <3>1. c \in Deliberating /\ Deliberating' = (Deliberating \ {c}) \cup {next}
      BY <1>1, <2>1 DEF Deliberating
    <3>2. /\ IsFiniteSet(Deliberating \ {c})
          /\ Cardinality(Deliberating \ {c}) = Cardinality(Deliberating) - 1
          /\ Cardinality(Deliberating \ {c}) \in Nat
      BY <1>3, <3>1, FS_RemoveElement, FS_CardinalityType
    <3>3. Cardinality(Deliberating')
            \in {Cardinality(Deliberating \ {c}), Cardinality(Deliberating \ {c}) + 1}
      BY <3>1, <3>2, FS_AddElement
    <3> QED BY <1>3, <3>2, <3>3
  <2>2. CASE c.type # "deliberate"
    <3>1. Deliberating' = Deliberating
      BY <1>1, <2>2 DEF Deliberating
    <3> QED BY <1>3, <3>1
  <2> QED BY <2>1, <2>2
<1>6. AnyOpen => AnyOpen'
  BY <1>1 DEF AnyOpen, Deliberating
<1>7. Cardinality(Deliberating') =< losses' + (IF AnyOpen' THEN 1 ELSE 0)
  BY <1>1, <1>3, <1>4, <1>5, <1>6
<1> QED BY <1>1, <1>2, <1>3, <1>4, <1>5, <1>7 DEF Repeated

\* A call that starts to write has seen every mission there is.
LEMMA BeginPersistKeeps == ASSUME AgendaInv, NEW c, Ag!BeginPersist(c) PROVE AgendaInv'
<1>1. c \in calls /\ c.at = "answer" /\ UNCHANGED <<missions, losses>> /\ losses \in Nat /\ Shaped(c)
  BY DEF Ag!BeginPersist, Ag!agenda, AgendaInv
<1>2. CASE Ag!Settle(c, calls)
  BY <1>1, <1>2, ReturnKeeps
<1>3. CASE Ag!Goes(c, [c EXCEPT !.at = "persist", !.seen = missions])
  <2>1. PICK next : /\ next = [c EXCEPT !.at = "persist", !.seen = missions]
                    /\ Shaped(next) /\ next.type = c.type /\ next.open = c.open
                    /\ next.at = "persist" /\ next.seen = missions /\ next.dirs = c.dirs
    <3>1. Shaped(c)
      BY <1>1
    <3> QED BY <3>1, SeenChanged, Zenon
  <2>2. /\ next.type = c.type /\ next.open = c.open /\ next.seen = missions
        /\ next.at = "persist" /\ Shaped(next)
    BY <2>1, Zenon
  <2>3. Ag!Goes(c, next)
    BY <1>3, <2>1
  <2>4. /\ IsFiniteSet(calls') /\ (\A j \in calls' : Shaped(j)') /\ Repeated'
        /\ Cardinality(Deliberating') \in Nat /\ Cardinality(Deliberating') =< losses + 1
    BY <1>1, <2>2, <2>3, GoesCounts
  <2>5. Standing'
    <3> SUFFICES ASSUME NEW Q \in SUBSET (Persisting')
                 PROVE  Cardinality(missions \ Seen(Q)) + Cardinality(Q) =< 1 + losses
      BY <1>1 DEF Standing, Seen
    <3>1. CASE next \in Q
      <4>1. missions \ Seen(Q) = {}
        BY <2>2, <3>1 DEF Seen
      <4>2. Q \subseteq Deliberating' /\ IsFiniteSet(Deliberating')
        <5>1. Deliberating' \subseteq calls' /\ Persisting' \subseteq Deliberating'
          BY DEF Deliberating, Persisting
        <5> QED BY <2>4, <5>1, FS_Subset
      <4>3. Cardinality(Q) \in Nat /\ Cardinality(Q) =< Cardinality(Deliberating')
        BY <4>2, FS_Subset, FS_CardinalityType
      <4>4. Cardinality(missions \ Seen(Q)) = 0
        BY <4>1, FS_EmptySet
      <4> QED BY <1>1, <2>4, <4>3, <4>4
    <3>2. CASE next \notin Q
      <4>1. Q \in SUBSET Persisting
        BY <2>3, <3>2 DEF Ag!Goes, Persisting, Deliberating
      <4> QED BY <4>1 DEF AgendaInv, Standing
    <3> QED BY <3>1, <3>2
  <2> QED BY <1>1, <2>4, <2>5 DEF AgendaInv
<1> QED BY <1>2, <1>3 DEF Ag!BeginPersist

(* The one that writes takes out what it has seen, puts in one mission, and *)
(* is gone: those still to write may count it among themselves until then.  *)
LEMMA PersistKeeps == ASSUME AgendaInv, NEW c, Ag!Persist(c) PROVE AgendaInv'
<1>1. PICK rest : rest = Ag!Forgotten(calls \ {c}, Ag!Superseded) \cup {c}
  OBVIOUS
<1>2. PICK ds : ds = Ag!Superseded
  OBVIOUS
<1>3. PICK m : missions' = (missions \ c.seen) \cup {m}
  BY DEF Ag!Persist, Ag!SupersededMissions
<1>4. /\ c \in calls /\ c.type = "deliberate" /\ c.at = "persist" /\ Ag!Settle(c, rest)
      /\ UNCHANGED losses /\ losses \in Nat /\ IsFiniteSet(missions) /\ IsFiniteSet(calls)
  BY <1>1 DEF Ag!Persist, AgendaInv
<1>5. rest = calls \/ rest = Ag!Forgotten(calls \ {c}, ds) \cup {c}
  BY <1>1, <1>2
<1>6. /\ From(calls', calls \ {c}) /\ \A j \in calls' : Shaped(j)
      /\ c.type # "deliberate" /\ AnyOpen => AnyOpen'
  BY <1>4, <1>5, SettleFrom
<1>7. IsFiniteSet(calls') /\ Repeated'
  <2>1. losses' \in Nat /\ losses =< losses'
    BY <1>4
  <2> QED BY <1>4, <1>6, <2>1, SettleCounts
<1>8. \A j \in calls' : Shaped(j)'
  BY <1>6 DEF Shaped
<1>9. IsFiniteSet(missions')
  <2>1. IsFiniteSet(missions \ c.seen)
    BY <1>4, MissionCount
  <2> QED BY <1>3, <2>1, FS_AddElement
<1>10. Standing'
  <2> SUFFICES ASSUME NEW Q \in SUBSET (Persisting')
               PROVE  Cardinality(missions' \ Seen(Q)) + Cardinality(Q) =< 1 + losses
    BY <1>4 DEF Standing, Seen
  <2>1. IsFiniteSet(calls \ {c})
    BY <1>4, FS_RemoveElement
  <2>2. \A A : From(A, calls \ {c}) =>
          \A R \in SUBSET A : \E P \in SUBSET (calls \ {c}) : Matches(P, R)
    BY <2>1, FromCount
  <2>3. Q \in SUBSET (calls')
    BY DEF Persisting, Deliberating
  <2>4. PICK P \in SUBSET (calls \ {c}) : Matches(P, Q)
    BY <1>6, <2>2, <2>3
  <2>5. PICK W : W = P \cup {c}
    OBVIOUS
  <2>6. W \in SUBSET Persisting
    BY <1>4, <2>4, <2>5 DEF Matches, Persisting, Deliberating, SameTask
  <2>7. Seen(W) = Seen(Q) \cup c.seen
    <3>1. Seen(P) = Seen(Q)
      BY <2>4 DEF Matches, Seen, SameTask
    <3>2. Seen(W) = Seen(P) \cup c.seen
      BY <2>5 DEF Seen
    <3> QED BY <3>1, <3>2
  <2>8. Cardinality(W) = Cardinality(Q) + 1 /\ Cardinality(Q) \in Nat
    <3>1. IsFiniteSet(P) /\ Cardinality(P) = Cardinality(Q) /\ Cardinality(P) \in Nat /\ c \notin P
      BY <2>4, FS_CardinalityType DEF Matches
    <3> QED BY <2>5, <3>1, FS_AddElement
  <2>9. Cardinality(missions \ Seen(W)) + Cardinality(W) =< 1 + losses
    BY <2>6 DEF AgendaInv, Standing
  <2>10. PICK X : X = missions \ Seen(W)
    OBVIOUS
  <2>11. IsFiniteSet(X) /\ Cardinality(X) \in Nat
    BY <1>4, <2>10, MissionCount
  <2>12. /\ IsFiniteSet(X \cup {m}) /\ Cardinality(X \cup {m}) \in {Cardinality(X), Cardinality(X) + 1}
    BY <2>11, FS_AddElement
  <2>13. missions' \ Seen(Q) \subseteq X \cup {m}
    BY <1>3, <2>7, <2>10
  <2>14. /\ Cardinality(missions' \ Seen(Q)) =< Cardinality(X \cup {m})
         /\ Cardinality(missions' \ Seen(Q)) \in Nat
    BY <2>12, <2>13, FS_Subset, FS_CardinalityType
  <2> QED BY <1>4, <2>8, <2>9, <2>10, <2>11, <2>12, <2>14
<1> QED BY <1>4, <1>7, <1>8, <1>9, <1>10 DEF AgendaInv

LEMMA SteerKeeps == ASSUME AgendaInv, NEW c, Ag!Steer(c) PROVE AgendaInv'
<1>1. PICK ds : Ag!Settle(c, Ag!Forgotten(calls \ {c}, ds) \cup {c})
  BY DEF Ag!Steer
<1>2. PICK rest : rest = Ag!Forgotten(calls \ {c}, ds) \cup {c}
  OBVIOUS
<1>3. c \in calls /\ UNCHANGED <<missions, losses>> /\ Ag!Settle(c, rest)
  BY <1>1, <1>2 DEF Ag!Steer
<1>4. losses' \in Nat /\ losses =< losses'
  BY <1>3 DEF AgendaInv
<1>5. rest = calls \/ rest = Ag!Forgotten(calls \ {c}, ds) \cup {c}
  BY <1>2
<1> QED BY <1>3, <1>4, <1>5, SettleKeeps

LEMMA JudgeKeeps == ASSUME AgendaInv, NEW c, Ag!Judge(c) PROVE AgendaInv'
<1>1. /\ c \in calls /\ c.at = "judge" /\ UNCHANGED missions /\ Shaped(c)
      /\ losses \in Nat /\ losses' \in Nat /\ losses =< losses'
  BY DEF Ag!Judge, Ag!Mishap, AgendaInv
<1>2. PICK x : Ag!Goes(c, [c EXCEPT !.dirs = x])
  BY DEF Ag!Judge
<1>3. PICK next : next = [c EXCEPT !.dirs = x]
  OBVIOUS
<1>4. SameTask(next, c) /\ Shaped(next) /\ next.open = c.open /\ Ag!Goes(c, next)
  BY <1>1, <1>2, <1>3, DirsChanged
<1>5. next.type = c.type /\ next.at = "judge"
  BY <1>1, <1>4 DEF SameTask
<1>6. IsFiniteSet(calls') /\ (\A j \in calls' : Shaped(j)') /\ Repeated'
  BY <1>1, <1>4, <1>5, GoesCounts
<1>7. Persisting' \subseteq Persisting
  BY <1>4, <1>5 DEF Ag!Goes, Persisting, Deliberating
<1>8. Standing'
  BY <1>1, <1>7, StandingSub
<1> QED BY <1>1, <1>6, <1>8 DEF AgendaInv

LEMMA CrashKeeps == ASSUME AgendaInv, Ag!Crash PROVE AgendaInv'
<1>1. calls' = {} /\ UNCHANGED missions /\ losses \in Nat /\ losses' = losses + 1
  BY DEF Ag!Crash, Ag!Mishap, AgendaInv, Ag!agenda
<1>2. Deliberating' = {} /\ Persisting' = {}
  BY <1>1 DEF Deliberating, Persisting
<1>3. Repeated'
  BY <1>1, <1>2, FS_EmptySet DEF Repeated
<1>4. Standing'
  BY <1>1, <1>2, StandingSub
<1> QED BY <1>1, <1>3, <1>4, FS_EmptySet DEF AgendaInv

LEMMA EndKeeps == ASSUME AgendaInv, NEW d, Ag!End(d) PROVE AgendaInv'
<1>1. PICK Z : Z = Ag!Forgotten(calls, {d})
  OBVIOUS
<1>2. calls' = Z /\ UNCHANGED <<missions, losses>>
  BY <1>1 DEF Ag!End
<1>3. \A k \in calls : Shaped(k)
  BY DEF AgendaInv
<1>4. /\ From(Z, calls) /\ \A j \in Z : Shaped(j)
      /\ \A k \in calls : \E j \in Z : j.type = k.type /\ j.open = k.open
  BY <1>1, <1>3, ForgottenFrom
<1>5. losses \in Nat /\ losses' \in Nat /\ losses =< losses' /\ IsFiniteSet(calls)
  BY <1>2 DEF AgendaInv
<1>6. Standing'
  BY <1>2, <1>4, <1>5, StandingKept
<1>7. IsFiniteSet(calls') /\ Repeated'
  <2>1. From(calls', calls) /\ calls \in SUBSET calls
    BY <1>2, <1>4
  <2>2. /\ IsFiniteSet(calls') /\ Cardinality(Deliberating') \in Nat
        /\ Cardinality(Deliberating') =< Cardinality(Deliberating)
    BY <1>5, <2>1, FewerCalls DEF Deliberating
  <2>3. AnyOpen => AnyOpen'
    BY <1>2, <1>4 DEF AnyOpen, Deliberating
  <2>4. Cardinality(Deliberating) =< losses + (IF AnyOpen THEN 1 ELSE 0)
    BY DEF AgendaInv, Repeated
  <2>5. Cardinality(Deliberating) \in Nat
    BY <1>5, Counts
  <2> QED BY <1>2, <1>5, <2>2, <2>3, <2>4, <2>5 DEF Repeated
<1>8. \A j \in calls' : Shaped(j)'
  BY <1>2, <1>4 DEF Shaped
<1> QED BY <1>2, <1>5, <1>6, <1>7, <1>8 DEF AgendaInv

LEMMA AgendaInitially == Ag!Init => AgendaInv
<1> SUFFICES ASSUME Ag!Init PROVE AgendaInv
  OBVIOUS
<1>1. calls = {} /\ missions = {} /\ losses = 0
  BY DEF Ag!Init
<1>2. Deliberating = {} /\ Persisting = {}
  BY <1>1 DEF Deliberating, Persisting
<1>3. \A Q \in SUBSET Persisting : missions \ Seen(Q) = {} /\ Q = {}
  BY <1>1, <1>2
<1> QED BY <1>1, <1>2, <1>3, FS_EmptySet DEF AgendaInv, Standing, Repeated

LEMMA AgendaStep == AgendaInv /\ [Ag!Next]_Ag!vars => AgendaInv'
<1> SUFFICES ASSUME AgendaInv, [Ag!Next]_Ag!vars PROVE AgendaInv'
  OBVIOUS
<1>m. losses \in Nat
  BY DEF AgendaInv
<1>1. ASSUME Ag!Tick \/ Ag!TickFails \/ Ag!CooldownEnds \/ UNCHANGED Ag!vars PROVE AgendaInv'
  <2>1. Ag!StartTick \/ Ag!ApproveRow \/ Ag!Decide \/ Ag!EmitDecided \/ Ag!CooldownEnds
          => UNCHANGED <<missions, calls, losses>>
    <3>1. Ag!StartTick => UNCHANGED <<missions, calls, losses>>
      BY DEF Ag!StartTick, Ag!agenda
    <3>2. Ag!ApproveRow => UNCHANGED <<missions, calls, losses>>
      BY DEF Ag!ApproveRow
    <3>3. Ag!Decide => UNCHANGED <<missions, calls, losses>>
      BY DEF Ag!Decide, Ag!agenda
    <3>4. Ag!EmitDecided => UNCHANGED <<missions, calls, losses>>
      BY DEF Ag!EmitDecided, Ag!agenda
    <3>5. Ag!CooldownEnds => UNCHANGED <<missions, calls, losses>>
      BY DEF Ag!CooldownEnds, Ag!agenda
    <3> QED BY <3>1, <3>2, <3>3, <3>4, <3>5
  <2>2. Ag!TickFails => UNCHANGED <<missions, calls>> /\ losses' = losses + 1
    BY DEF Ag!TickFails, Ag!Mishap, Ag!agenda
  <2>3. UNCHANGED Ag!vars => UNCHANGED <<missions, calls, losses>>
    BY DEF Ag!vars
  <2>4. UNCHANGED <<missions, calls>> /\ (losses' = losses \/ losses' = losses + 1)
    BY <1>1, <2>1, <2>2, <2>3 DEF Ag!Tick
  <2>5. losses' \in Nat /\ losses =< losses'
    BY <1>m, <2>4
  <2> QED BY <2>4, <2>5, RestKeeps
<1>2. ASSUME NEW type \in Ag!Types, Ag!Take(type) \/ Ag!Suppress(type) PROVE AgendaInv'
  BY <1>2, TakeKeeps, RestKeeps DEF Ag!Suppress, Ag!Mishap, AgendaInv, Ag!agenda
<1>3. ASSUME NEW c \in calls, Ag!Proceed(c) PROVE AgendaInv'
  <2>1. CASE Ag!JudgeNone(c)
    BY <2>1, ReturnKeeps DEF Ag!JudgeNone, AgendaInv, Ag!agenda
  <2> QED BY <1>3, <2>1, BeginPersistKeeps, PersistKeeps, SteerKeeps, JudgeKeeps DEF Ag!Proceed
<1>4. ASSUME NEW c \in calls, Ag!Fail(c) PROVE AgendaInv'
  BY <1>4, ReturnKeeps DEF Ag!Fail, Ag!Mishap, AgendaInv, Ag!agenda
<1>5. CASE Ag!Crash
  BY <1>5, CrashKeeps
<1>6. ASSUME NEW d \in Dirs, Ag!SetGate(d) \/ Ag!Work(d) \/ Ag!End(d) PROVE AgendaInv'
  BY <1>6, EndKeeps, RestKeeps DEF Ag!SetGate, Ag!Work, AgendaInv
<1> QED BY <1>1, <1>2, <1>3, <1>4, <1>5, <1>6 DEF Ag!Next

\* The cardinality that Agenda counts with is the cardinality.
LEMMA SameCounting == ASSUME NEW S PROVE Ag!Cardinality(S) = Cardinality(S)
BY DEF Cardinality, Ag!Cardinality

(* One agenda stands at a time: persist_directions ends the missions it     *)
(* sees, so that only a deliberation repeated while its twin still writes,  *)
(* each one a mishap, can leave one more active mission behind.             *)
THEOREM OneAgendaStands == Ag!Spec => []Ag!MissionsBounded
<1>1. AgendaInv => Ag!MissionsBounded
  <2> SUFFICES ASSUME AgendaInv PROVE Cardinality(missions) =< 1 + losses
    BY SameCounting DEF Ag!MissionsBounded
  <2>1. Cardinality(missions \ Seen({})) + Cardinality({}) =< 1 + losses
    BY DEF AgendaInv, Standing
  <2>2. missions \ Seen({}) = missions
    BY DEF Seen
  <2>3. Cardinality(missions) \in Nat /\ Cardinality({}) = 0
    BY FS_EmptySet, FS_CardinalityType DEF AgendaInv
  <2> QED BY <2>1, <2>2, <2>3
<1> QED BY <1>1, AgendaInitially, AgendaStep, PTL DEF Ag!Spec
-----------------------------------------------------------------------------
(* Typing of the agenda, and the verdicts that stand.                       *)

\* j is what the end of another call or of a direction leaves of k.
Left(j, k) == /\ Shaped(j) /\ j.type = k.type /\ j.at = k.at /\ j.seen = k.seen
              /\ j.dirs \subseteq k.dirs /\ (j.open => k.open)

OneOfAType(Y) == \A i, j \in Y : i.type = j.type => i = j

LEMMA ClosedLeft ==
  ASSUME NEW Y, \A k \in Y : Shaped(k), NEW t
  PROVE  /\ \A j \in Ag!Closed(Y, t) :
              \E k \in Y : Left(j, k) /\ (j.open <=> k.open /\ k.type # t)
         /\ OneOfAType(Y) => OneOfAType(Ag!Closed(Y, t))
<1> DEFINE g == [k \in Y |-> [k EXCEPT !.open = (k.open /\ k.type # t)]]
<1>1. \A k \in Y : /\ SameTask(g[k], k) /\ Shaped(g[k])
                   /\ g[k].open = (k.open /\ k.type # t) /\ g[k].dirs = k.dirs
  BY OpenChanged
<1>2. Ag!Closed(Y, t) = {g[k] : k \in Y}
  BY DEF Ag!Closed
<1> HIDE DEF g
<1>3. \A k \in Y : Left(g[k], k) /\ (g[k].open <=> k.open /\ k.type # t)
  BY <1>1 DEF Left, SameTask
<1>4. \A j \in Ag!Closed(Y, t) : \E k \in Y : Left(j, k) /\ (j.open <=> k.open /\ k.type # t)
  BY <1>2, <1>3
<1>5. OneOfAType(Y) => OneOfAType(Ag!Closed(Y, t))
  BY <1>2, <1>3 DEF OneOfAType, Left
<1> QED BY <1>4, <1>5

LEMMA ForgottenLeft ==
  ASSUME NEW Y, \A k \in Y : Shaped(k), NEW ds
  PROVE  /\ \A j \in Ag!Forgotten(Y, ds) :
              j.dirs \cap ds = {} /\ \E k \in Y : Left(j, k) /\ (j.open <=> k.open)
         /\ OneOfAType(Y) => OneOfAType(Ag!Forgotten(Y, ds))
<1> DEFINE g == [k \in Y |-> [k EXCEPT !.dirs = k.dirs \ ds]]
<1>1. \A k \in Y : /\ SameTask(g[k], k) /\ Shaped(g[k])
                   /\ g[k].open = k.open /\ g[k].dirs = k.dirs \ ds
  BY DirsChanged
<1>2. Ag!Forgotten(Y, ds) = {g[k] : k \in Y}
  BY DEF Ag!Forgotten
<1> HIDE DEF g
<1>3. \A k \in Y : g[k].dirs \cap ds = {} /\ Left(g[k], k) /\ (g[k].open <=> k.open)
  BY <1>1 DEF Left, SameTask
<1>4. \A j \in Ag!Forgotten(Y, ds) :
        j.dirs \cap ds = {} /\ \E k \in Y : Left(j, k) /\ (j.open <=> k.open)
  BY <1>2, <1>3
<1>5. OneOfAType(Y) => OneOfAType(Ag!Forgotten(Y, ds))
  BY <1>2, <1>3 DEF OneOfAType, Left
<1> QED BY <1>4, <1>5

\* When c ends: the others, those of its event no longer open.
LEMMA SettleLeft ==
  ASSUME \A k \in calls : Shaped(k), NEW c \in calls, NEW ds, NEW rest,
         (rest = calls /\ ds = {}) \/ rest = Ag!Forgotten(calls \ {c}, ds) \cup {c},
         Ag!Settle(c, rest)
  PROVE  /\ \A j \in calls' : j.dirs \cap ds = {} /\ \E k \in calls \ {c} :
              Left(j, k) /\ (j.open <=> k.open /\ ~(c.open /\ k.type = c.type))
         /\ OneOfAType(calls) => OneOfAType(calls')
<1>1. PICK Y : Y = rest \ {c}
  OBVIOUS
<1>2. OneOfAType(calls) => OneOfAType(calls \ {c})
  BY DEF OneOfAType
<1>3. /\ \A j \in Y : j.dirs \cap ds = {} /\ \E k \in calls \ {c} : Left(j, k) /\ (j.open <=> k.open)
      /\ OneOfAType(calls) => OneOfAType(Y)
  <2>1. CASE rest = calls /\ ds = {}
    <3>1. Y = calls \ {c}
      BY <1>1, <2>1
    <3>2. \A k \in Y : Left(k, k) /\ k.dirs \cap ds = {}
      BY <2>1, <3>1 DEF Left
    <3> QED BY <1>2, <3>1, <3>2
  <2>2. CASE rest = Ag!Forgotten(calls \ {c}, ds) \cup {c}
    <3>1. PICK X : X = Ag!Forgotten(calls \ {c}, ds)
      OBVIOUS
    <3>2. /\ \A j \in X : j.dirs \cap ds = {} /\ \E k \in calls \ {c} : Left(j, k) /\ (j.open <=> k.open)
          /\ OneOfAType(calls \ {c}) => OneOfAType(X)
      BY <3>1, ForgottenLeft
    <3>3. Y \subseteq X
      BY <1>1, <2>2, <3>1
    <3> QED BY <1>2, <3>2, <3>3 DEF OneOfAType
  <2> QED BY <2>1, <2>2
<1>4. \A k \in Y : Shaped(k)
  BY <1>3 DEF Left
<1>5. CASE c.open
  <2>1. PICK Z : Z = Ag!Closed(Y, c.type)
    OBVIOUS
  <2>2. /\ \A j \in Z : \E k \in Y : Left(j, k) /\ (j.open <=> k.open /\ k.type # c.type)
        /\ OneOfAType(Y) => OneOfAType(Z)
    BY <1>4, <2>1, ClosedLeft
  <2>3. calls' = Z
    BY <1>1, <1>5, <2>1 DEF Ag!Settle
  <2>4. ASSUME NEW j \in Z
        PROVE  /\ j.dirs \cap ds = {}
               /\ \E k \in calls \ {c} : Left(j, k) /\ (j.open <=> k.open /\ k.type # c.type)
    <3>1. PICK i \in Y : Left(j, i) /\ (j.open <=> i.open /\ i.type # c.type)
      BY <2>2
    <3>2. PICK k \in calls \ {c} : Left(i, k) /\ (i.open <=> k.open)
      BY <1>3
    <3>3. Left(j, k) /\ j.dirs \cap ds = {}
      BY <1>3, <3>1, <3>2 DEF Left
    <3> QED BY <3>1, <3>2, <3>3 DEF Left
  <2> QED BY <1>3, <1>5, <2>2, <2>3, <2>4
<1>6. CASE ~c.open
  <2>1. calls' = Y
    BY <1>1, <1>6 DEF Ag!Settle
  <2> QED BY <1>3, <1>6, <2>1
<1> QED BY <1>5, <1>6

\* A verdict is written on directions that live.
DirsTyped ==
  /\ stands \in [Dirs -> {"none", "active"}]
  /\ gate \in [Dirs -> {"none", "approved", "held"}]
  /\ verdict \in [Dirs -> {"none", "pass", "hold"}]
  /\ \A d \in Dirs : stands[d] = "none" => gate[d] = "none" /\ verdict[d] = "none" /\ d \notin worked
  /\ worked \subseteq Dirs

TickTyped ==
  /\ tick \in [at : {"idle", "approve", "emit"},
               rows : SUBSET {d \in Dirs : stands[d] # "none"},
               what : {"none", "deliberate", "reflect"}]
  /\ tick.at = "emit" => tick.what # "none"

CallTyped(c) ==
  /\ c.type \in Ag!Types /\ c.at \in {"answer", "persist", "judge"}
  /\ c.dirs \subseteq {d \in Dirs : stands[d] # "none"} /\ c.seen \subseteq Nat
  /\ IsFiniteSet(c.seen) /\ (c.open => c.type \in pending)

CallsTyped ==
  /\ pending \subseteq Ag!Types /\ Cardinality(calls) =< MaxCalls
  /\ \A c \in calls : CallTyped(c)

CountsTyped ==
  /\ missions \subseteq Nat
  /\ ready \in BOOLEAN /\ looks \in 0..MaxLooks /\ losses \in 0..MaxLosses

AgendaTyped == AgendaInv /\ DirsTyped /\ TickTyped /\ CallsTyped /\ CountsTyped

LEMMA TypedOK == AgendaTyped => Ag!TypeOK
<1> SUFFICES ASSUME AgendaTyped PROVE Ag!TypeOK
  OBVIOUS
<1>1. \A c \in calls : CallTyped(c)
  BY DEF AgendaTyped, CallsTyped
<1>2. \A c \in calls :
        /\ c.type \in Ag!Types /\ c.at \in {"answer", "persist", "judge"}
        /\ c.dirs \subseteq Dirs /\ c.seen \subseteq Nat
        /\ c.open => c.type \in pending
  BY <1>1 DEF CallTyped
<1>3. Ag!Cardinality(calls) =< MaxCalls
  BY SameCounting DEF AgendaTyped, CallsTyped
<1>4. CallsTyped /\ DirsTyped /\ TickTyped /\ CountsTyped
  BY DEF AgendaTyped
<1> QED BY <1>2, <1>3, <1>4 DEF Ag!TypeOK, CallsTyped, DirsTyped, TickTyped, CountsTyped

\* What keeps its type when directions ds end and others come.
LEMMA VacateTyped ==
  ASSUME DirsTyped, TickTyped, NEW ds, stands' \in [Dirs -> {"none", "active"}],
         \A d \in Dirs \ ds : stands[d] # "none" => stands'[d] # "none", Ag!Vacate(ds)
  PROVE  DirsTyped' /\ TickTyped'
<1>1. /\ gate' = [d \in Dirs |-> IF d \in ds THEN "none" ELSE gate[d]]
      /\ verdict' = [d \in Dirs |-> IF d \in ds THEN "none" ELSE verdict[d]]
      /\ worked' = worked \ ds
      /\ tick' = [tick EXCEPT !.rows = tick.rows \ ds]
  BY DEF Ag!Vacate
<1>2. DirsTyped'
  BY <1>1 DEF DirsTyped
<1>3. /\ tick.rows \ ds \subseteq {d \in Dirs : stands'[d] # "none"}
      /\ tick'.rows = tick.rows \ ds /\ tick'.at = tick.at /\ tick'.what = tick.what
      /\ tick' \in [at : {"idle", "approve", "emit"}, rows : {tick.rows \ ds},
                    what : {"none", "deliberate", "reflect"}]
  BY <1>1 DEF TickTyped
<1> QED BY <1>2, <1>3 DEF TickTyped

LEMMA IdleTyped == ASSUME tick' = Ag!Idle PROVE TickTyped'
BY DEF TickTyped, Ag!Idle

LEMMA TickKept == ASSUME TickTyped, UNCHANGED <<stands, tick>> PROVE TickTyped'
BY DEF TickTyped

\* No call more than before, and each left as the end of one leaves it.
LEMMA CallsLeft ==
  ASSUME AgendaTyped, MaxCalls \in Nat, NEW ds, From(calls', calls), pending' \subseteq Ag!Types,
         \A d \in Dirs \ ds : stands[d] # "none" => stands'[d] # "none",
         \A j \in calls' : /\ j.dirs \cap ds = {} /\ (j.open => j.type \in pending')
                           /\ \E k \in calls : Left(j, k)
  PROVE  CallsTyped'
<1>1. IsFiniteSet(calls) /\ \A k \in calls : CallTyped(k)
  BY DEF AgendaTyped, AgendaInv, CallsTyped
<1>2. Cardinality(calls') =< MaxCalls
  <2>1. \A A : From(A, calls) => /\ IsFiniteSet(A)
                                 /\ \A Q \in SUBSET A : \E P \in SUBSET calls : Matches(P, Q)
    BY <1>1, FromCount
  <2>2. PICK P \in SUBSET calls : Matches(P, calls')
    BY <2>1
  <2>3. Cardinality(calls') =< Cardinality(calls) /\ Cardinality(calls') \in Nat
    BY <1>1, <2>2, FS_Subset, FS_CardinalityType DEF Matches
  <2>4. Cardinality(calls) \in Nat /\ Cardinality(calls) =< MaxCalls /\ MaxCalls \in Nat
    BY <1>1, FS_CardinalityType DEF AgendaTyped, CallsTyped
  <2> QED BY <2>3, <2>4
<1>3. ASSUME NEW j \in calls' PROVE CallTyped(j)'
  <2>1. PICK k \in calls : Left(j, k)
    OBVIOUS
  <2>2. CallTyped(k) /\ j.dirs \cap ds = {} /\ (j.open => j.type \in pending')
    BY <1>1
  <2> QED BY <2>1, <2>2 DEF CallTyped, Left
<1> QED BY <1>2, <1>3 DEF CallsTyped

\* The end of a call.
LEMMA SettleTyped ==
  ASSUME AgendaTyped, MaxCalls \in Nat, NEW c \in calls, NEW ds, NEW rest,
         (rest = calls /\ ds = {}) \/ rest = Ag!Forgotten(calls \ {c}, ds) \cup {c},
         Ag!Settle(c, rest), \A d \in Dirs \ ds : stands[d] # "none" => stands'[d] # "none"
  PROVE  CallsTyped'
<1>0. /\ \A k \in calls : Shaped(k) /\ CallTyped(k)
      /\ AgendaInv /\ pending \subseteq Ag!Types
  BY DEF AgendaTyped, AgendaInv, CallsTyped
<1>1. \A j \in calls' : j.dirs \cap ds = {} /\ \E k \in calls \ {c} :
        Left(j, k) /\ (j.open <=> k.open /\ ~(c.open /\ k.type = c.type))
  BY <1>0, SettleLeft
<1>2. From(calls', calls)
  <2>1. rest = calls \/ rest = Ag!Forgotten(calls \ {c}, ds) \cup {c}
    OBVIOUS
  <2>2. From(calls', calls \ {c})
    BY <1>0, <2>1, SettleFrom
  <2>3. From(calls \ {c}, calls)
    BY FromSubset
  <2> QED BY <2>2, <2>3, FromTrans
<1>3. pending' = IF c.open THEN pending \ {c.type} ELSE pending
  BY DEF Ag!Settle
<1>4. ASSUME NEW j \in calls'
      PROVE  /\ j.dirs \cap ds = {} /\ (j.open => j.type \in pending')
             /\ \E k \in calls : Left(j, k)
  <2>1. PICK k \in calls \ {c} : Left(j, k) /\ (j.open <=> k.open /\ ~(c.open /\ k.type = c.type))
    BY <1>1
  <2>2. (k.open => k.type \in pending) /\ j.type = k.type
    BY <1>0, <2>1 DEF CallTyped, Left
  <2>3. j.open => j.type \in pending'
    BY <1>3, <2>1, <2>2
  <2> QED BY <1>1, <2>1, <2>3
<1>5. pending' \subseteq Ag!Types
  BY <1>0, <1>3
<1> QED BY <1>2, <1>4, <1>5, CallsLeft

LEMMA ReturnTyped ==
  ASSUME AgendaTyped, MaxCalls \in Nat, NEW c \in calls, Ag!Settle(c, calls), UNCHANGED stands
  PROVE  CallsTyped'
<1>1. PICK ds : ds = {}
  OBVIOUS
<1>2. PICK rest : rest = calls
  OBVIOUS
<1>3. Ag!Settle(c, rest) /\ rest = calls /\ ds = {}
  BY <1>1, <1>2
<1>4. (rest = calls /\ ds = {}) \/ rest = Ag!Forgotten(calls \ {c}, ds) \cup {c}
  BY <1>3
<1>5. \A d \in Dirs \ ds : stands[d] # "none" => stands'[d] # "none"
  OBVIOUS
<1> QED BY <1>3, <1>4, <1>5, SettleTyped

\* A call goes on.
LEMMA GoesTyped ==
  ASSUME AgendaTyped, MaxCalls \in Nat, NEW c \in calls, NEW next, Ag!Goes(c, next),
         UNCHANGED stands, CallTyped(next)
  PROVE  CallsTyped'
<1>1. /\ calls' = (calls \ {c}) \cup {next} /\ UNCHANGED pending
      /\ IsFiniteSet(calls) /\ \A k \in calls : CallTyped(k)
  BY DEF Ag!Goes, AgendaTyped, AgendaInv, CallsTyped
<1>2. Cardinality(calls') =< MaxCalls
  <2>1. /\ IsFiniteSet(calls \ {c}) /\ Cardinality(calls \ {c}) = Cardinality(calls) - 1
    BY <1>1, FS_RemoveElement
  <2>2. Cardinality(calls) \in Nat /\ Cardinality(calls \ {c}) \in Nat
    BY <1>1, <2>1, FS_CardinalityType
  <2>3. Cardinality(calls') \in {Cardinality(calls \ {c}), Cardinality(calls \ {c}) + 1}
    BY <1>1, <2>1, FS_AddElement
  <2>4. Cardinality(calls) =< MaxCalls
    BY DEF AgendaTyped, CallsTyped
  <2> QED BY <2>1, <2>2, <2>3, <2>4
<1>3. \A k \in calls' : CallTyped(k)'
  BY <1>1 DEF CallTyped
<1> QED BY <1>1, <1>2, <1>3 DEF CallsTyped, AgendaTyped

LEMMA TakeTyped ==
  ASSUME AgendaTyped, MaxCalls \in Nat, NEW type \in Ag!Types, Ag!Take(type)
  PROVE  CallsTyped'
<1>1. PICK k : k = Ag!Call(type)
  OBVIOUS
<1>2. /\ k.type = type /\ k.at \in {"answer", "persist", "judge"} /\ k.seen = {}
      /\ k.dirs \subseteq Ag!Live
  BY <1>1 DEF Ag!Call, Ag!ToJudge, Ag!Unjudged, Ag!Held
<1>3. /\ calls' = calls \cup {k} /\ UNCHANGED <<pending, stands>> /\ type \in pending
      /\ Cardinality(calls) < MaxCalls /\ IsFiniteSet(calls)
      /\ pending \subseteq Ag!Types /\ \A j \in calls : CallTyped(j)
  BY <1>1, SameCounting DEF Ag!Take, Ag!agenda, AgendaTyped, AgendaInv, CallsTyped
<1>4. Cardinality(calls') =< MaxCalls
  <2>1. Cardinality(calls') \in {Cardinality(calls), Cardinality(calls) + 1}
    BY <1>3, FS_AddElement
  <2>2. Cardinality(calls) \in Nat
    BY <1>3, FS_CardinalityType
  <2> QED BY <1>3, <2>1, <2>2
<1>5. CallTyped(k)'
  BY <1>2, <1>3, FS_EmptySet DEF CallTyped, Ag!Live
<1>6. \A j \in calls : CallTyped(j)'
  BY <1>3 DEF CallTyped
<1> QED BY <1>3, <1>4, <1>5, <1>6 DEF CallsTyped

\* Calls that are left alone, beside events that come, or of which go those nobody has.
LEMMA CallsKept ==
  ASSUME AgendaTyped, UNCHANGED <<calls, stands>>, pending' \subseteq Ag!Types,
         \A c \in calls : c.type \in pending => c.type \in pending'
  PROVE  CallsTyped'
BY DEF AgendaTyped, CallsTyped, CallTyped

\* Missions have numbers.
LEMMA MissionNumbered ==
  ASSUME AgendaTyped
  PROVE  Ag!NewMission \in Nat
<1>1. PICK known : known = missions \cup UNION {k.seen : k \in calls}
  OBVIOUS
<1>2. IsFiniteSet(known) /\ known \subseteq Nat
  <2>1. PICK f : f = [k \in calls |-> k.seen]
    OBVIOUS
  <2>2. PICK S : S = {k.seen : k \in calls}
    OBVIOUS
  <2>3. \A T \in S : IsFiniteSet(T) /\ T \subseteq Nat
    BY <2>2 DEF AgendaTyped, CallsTyped, CallTyped
  <2>4. IsFiniteSet(S)
    <3>1. IsFiniteSet(calls) /\ f \in Surjection(calls, S)
      BY <2>1, <2>2 DEF AgendaTyped, AgendaInv, Surjection
    <3> QED BY <3>1, FS_Surjection
  <2>5. IsFiniteSet(UNION S) /\ UNION S \subseteq Nat
    BY <2>3, <2>4, FS_UNION
  <2>6. IsFiniteSet(missions) /\ missions \subseteq Nat
    BY DEF AgendaTyped, AgendaInv, CountsTyped
  <2> QED BY <1>1, <2>2, <2>5, <2>6, FS_Union
<1>3. PICK n \in Nat : n = Cardinality(known)
  BY <1>2, FS_CardinalityType
<1>4. (1..(n + 1)) \ known # {}
  <2> SUFFICES ASSUME 1..(n + 1) \subseteq known PROVE FALSE
    OBVIOUS
  <2>1. Cardinality(1..(n + 1)) =< n
    BY <1>2, <1>3, FS_Subset
  <2>2. Cardinality(1..(n + 1)) = n + 1
    BY FS_Interval
  <2> QED BY <2>1, <2>2
<1>5. PICK S : S = (1..(n + 1)) \ known
  OBVIOUS
<1>6. S \subseteq Nat /\ S # {}
  BY <1>4, <1>5
<1>7. Ag!Min(S) \in Nat
  <2>1. PICK m \in S : \A k \in S : ~(<<k, m>> \in OpToRel(<, Nat))
    BY <1>6, WFMin, NatLessThanWellFounded
  <2>2. \A k \in S : ~(k < m)
    BY <1>6, <2>1 DEF OpToRel
  <2>3. \E x \in S : \A y \in S : x =< y
    BY <1>6, <2>2
  <2> QED BY <1>6, <2>3 DEF Ag!Min
<1>8. Ag!Cardinality(known) = n
  BY <1>3, SameCounting
<1> QED BY <1>1, <1>5, <1>7, <1>8 DEF Ag!NewMission

Typed == DirsTyped /\ TickTyped /\ CallsTyped /\ CountsTyped

LEMMA TickIsTyped ==
  ASSUME Ag!AgendaAssumption, AgendaTyped, Ag!Tick \/ Ag!TickFails
  PROVE  Typed'
<1>0. /\ DirsTyped /\ TickTyped /\ CallsTyped /\ CountsTyped
      /\ MaxCalls \in Nat /\ MaxLooks \in Nat \ {0} /\ MaxLosses \in Nat
  BY DEF AgendaTyped, Ag!AgendaAssumption
<1>1. CASE Ag!StartTick
  <2>1. PICK rows \in Ag!kSubset(Ag!Min({Ag!Slots, Ag!Cardinality(Ag!Eligible)}), Ag!Eligible) :
          tick' = [tick EXCEPT !.at = "approve", !.rows = rows]
    BY <1>1 DEF Ag!StartTick
  <2>2. rows \subseteq {d \in Dirs : stands[d] # "none"}
    BY <2>1 DEF Ag!kSubset, Ag!Eligible, Ag!Live
  <2>3. UNCHANGED <<stands, worked, gate, verdict, missions, pending, calls, ready, looks, losses>>
    BY <1>1 DEF Ag!StartTick, Ag!agenda
  <2>4. tick' = [[tick EXCEPT !.at = "approve"] EXCEPT !.rows = rows]
    BY <2>1, Zenon
  <2>5. TickTyped'
    BY <1>0, <2>2, <2>3, <2>4 DEF TickTyped
  <2>6. CallsTyped'
    BY <1>0, <2>3, CallsKept DEF CallsTyped
  <2> QED BY <1>0, <2>3, <2>5, <2>6 DEF Typed, DirsTyped, CountsTyped
<1>2. CASE Ag!ApproveRow
  <2>1. PICK d \in tick.rows : /\ gate' = [gate EXCEPT ![d] = "approved"]
                               /\ tick' = [tick EXCEPT !.rows = tick.rows \ {d}]
    BY <1>2 DEF Ag!ApproveRow
  <2>2. UNCHANGED <<stands, worked, verdict, missions, pending, calls, ready, looks, losses>>
    BY <1>2 DEF Ag!ApproveRow
  <2>3. stands[d] # "none" /\ d \in Dirs
    BY <1>0, <2>1 DEF TickTyped
  <2>4. DirsTyped'
    BY <1>0, <2>1, <2>2, <2>3 DEF DirsTyped
  <2>5. TickTyped'
    BY <1>0, <2>1, <2>2 DEF TickTyped
  <2>6. CallsTyped'
    BY <1>0, <2>2, CallsKept DEF CallsTyped
  <2> QED BY <1>0, <2>2, <2>4, <2>5, <2>6 DEF Typed, CountsTyped
<1>3. CASE Ag!Decide
  <2>1. UNCHANGED <<stands, worked, gate, verdict, missions, calls, ready, losses>>
    BY <1>3 DEF Ag!Decide, Ag!agenda
  <2>2. /\ pending \subseteq pending' /\ pending' \subseteq pending \cup {"adjudicate", "relook"}
        /\ looks' \in 0..MaxLooks
        /\ \E what \in {"none", "deliberate", "reflect"} : Ag!Return(what)
    <3>1. CASE Ag!Hatch
      <4>1. PICK looked \in Ag!LooksToday :
              IF Ag!Live # {} /\ (Ag!AdjudicatePending \/ ~looked)
              THEN /\ IF Ag!AdjudicatePending THEN UNCHANGED <<pending, looks>>
                      ELSE pending' = pending \cup {"relook"} /\ looks' = looks + 1
                   /\ Ag!Return("none")
              ELSE /\ Ag!Return(IF ready THEN "deliberate" ELSE "none")
                   /\ UNCHANGED <<pending, looks>>
        BY <3>1 DEF Ag!Hatch
      <4>2. ~looked => looks # MaxLooks
        BY <1>0, <4>1 DEF Ag!LooksToday
      <4>3. looks \in 0..MaxLooks
        BY <1>0 DEF CountsTyped
      <4> QED BY <1>0, <4>1, <4>2, <4>3
    <3>2. CASE ~Ag!Hatch
      <4>1. /\ pending' = pending \cup (IF Ag!AdjudicateDue THEN {"adjudicate"} ELSE {})
            /\ UNCHANGED looks
            /\ \E what \in IF pending \cap {"deliberate", "reflect"} = {} THEN Ag!Beat
                           ELSE {"none"} : Ag!Return(what)
        BY <1>3, <3>2 DEF Ag!Decide
      <4>2. Ag!Beat \subseteq {"none", "deliberate", "reflect"}
        BY DEF Ag!Beat
      <4> QED BY <1>0, <4>1, <4>2 DEF CountsTyped
    <3> QED BY <3>1, <3>2
  <2>3. PICK what \in {"none", "deliberate", "reflect"} : Ag!Return(what)
    BY <2>2
  <2>4. TickTyped'
    BY <2>1, <2>3 DEF Ag!Return, Ag!Idle, TickTyped
  <2>5. CallsTyped'
    <3>1. pending' \subseteq Ag!Types
      BY <1>0, <2>2 DEF CallsTyped, Ag!Types
    <3> QED BY <2>1, <2>2, <3>1, CallsKept
  <2> QED BY <1>0, <2>1, <2>2, <2>4, <2>5 DEF Typed, DirsTyped, CountsTyped
<1>4. CASE Ag!EmitDecided
  <2>1. /\ UNCHANGED <<stands, worked, gate, verdict, missions, calls, looks, losses>>
        /\ tick.at = "emit" /\ pending' = pending \cup {tick.what}
        /\ ready' = (ready /\ tick.what # "deliberate") /\ tick' = Ag!Idle
    BY <1>4 DEF Ag!EmitDecided, Ag!agenda
  <2>2. TickTyped'
    BY <2>1, IdleTyped
  <2>3. CallsTyped'
    <3>1. pending' \subseteq Ag!Types
      BY <1>0, <2>1 DEF CallsTyped, TickTyped, Ag!Types
    <3> QED BY <2>1, <3>1, CallsKept
  <2> QED BY <1>0, <2>1, <2>2, <2>3 DEF Typed, DirsTyped, CountsTyped
<1>5. CASE Ag!TickFails
  <2>1. /\ UNCHANGED <<stands, worked, gate, verdict, missions, pending, calls, ready, looks>>
        /\ losses < MaxLosses /\ losses' = losses + 1 /\ tick' = Ag!Idle
    BY <1>5 DEF Ag!TickFails, Ag!Mishap, Ag!agenda
  <2>2. TickTyped'
    BY <2>1, IdleTyped
  <2>3. CallsTyped'
    BY <1>0, <2>1, CallsKept DEF CallsTyped
  <2> QED BY <1>0, <2>1, <2>2, <2>3 DEF Typed, DirsTyped, CountsTyped
<1> QED BY <1>1, <1>2, <1>3, <1>4, <1>5 DEF Ag!Tick

LEMMA EventIsTyped ==
  ASSUME Ag!AgendaAssumption, AgendaTyped, NEW type \in Ag!Types,
         Ag!Take(type) \/ Ag!Suppress(type)
  PROVE  Typed'
<1>0. /\ DirsTyped /\ TickTyped /\ CallsTyped /\ CountsTyped
      /\ MaxCalls \in Nat /\ MaxLosses \in Nat
  BY DEF AgendaTyped, Ag!AgendaAssumption
<1>1. /\ UNCHANGED <<stands, worked, gate, verdict, missions, tick, ready, looks>>
      /\ losses' \in 0..MaxLosses
  BY <1>0 DEF Ag!Take, Ag!Suppress, Ag!Mishap, Ag!agenda, CountsTyped
<1>2. CallsTyped'
  <2>1. CASE Ag!Take(type)
    BY <1>0, <2>1, TakeTyped
  <2>2. CASE Ag!Suppress(type)
    BY <1>0, <2>2, CallsKept DEF Ag!Suppress, Ag!agenda, CallsTyped
  <2> QED BY <2>1, <2>2
<1>3. TickTyped'
  BY <1>0, <1>1, TickKept
<1> QED BY <1>0, <1>1, <1>2, <1>3 DEF Typed, DirsTyped, CountsTyped

LEMMA CallIsTyped ==
  ASSUME Ag!AgendaAssumption, AgendaTyped, NEW c \in calls, Ag!Proceed(c) \/ Ag!Fail(c)
  PROVE  Typed'
<1>0. /\ DirsTyped /\ TickTyped /\ CallsTyped /\ CountsTyped /\ Shaped(c) /\ CallTyped(c)
      /\ MaxCalls \in Nat /\ MaxLosses \in Nat
  BY DEF AgendaTyped, AgendaInv, CallsTyped, Ag!AgendaAssumption
<1>1. CASE Ag!BeginPersist(c)
  <2>1. UNCHANGED <<stands, worked, gate, verdict, missions, tick, ready, looks, losses>>
    BY <1>1 DEF Ag!BeginPersist, Ag!agenda
  <2>2. CallsTyped'
    <3>1. CASE Ag!Settle(c, calls)
      BY <1>0, <2>1, <3>1, ReturnTyped
    <3>2. CASE Ag!Goes(c, [c EXCEPT !.at = "persist", !.seen = missions])
      <4>0. Shaped(c)
        BY <1>0
      <4>1. PICK next : /\ next = [c EXCEPT !.at = "persist", !.seen = missions]
                        /\ Shaped(next) /\ next.type = c.type /\ next.open = c.open
                        /\ next.at = "persist" /\ next.seen = missions /\ next.dirs = c.dirs
        BY <4>0, SeenChanged, Zenon
      <4>2. Ag!Goes(c, next)
        BY <3>2, <4>1
      <4>3. CallTyped(next)
        BY <1>0, <4>1 DEF CallTyped, CountsTyped, AgendaTyped, AgendaInv
      <4> QED BY <1>0, <2>1, <4>2, <4>3, GoesTyped
    <3> QED BY <1>1, <3>1, <3>2 DEF Ag!BeginPersist
  <2>3. TickTyped'
    BY <1>0, <2>1, TickKept
  <2> QED BY <1>0, <2>1, <2>2, <2>3 DEF Typed, DirsTyped, CountsTyped
<1>2. CASE Ag!Persist(c)
  <2>1. PICK ds : ds = Ag!Superseded
    OBVIOUS
  <2>2. PICK rest : rest = Ag!Forgotten(calls \ {c}, ds) \cup {c}
    OBVIOUS
  <2>3. PICK new : stands' = [d \in Dirs |-> IF d \in new THEN "active"
                                    ELSE IF d \in Ag!Superseded THEN "none" ELSE stands[d]]
    BY <1>2 DEF Ag!Persist
  <2>4. /\ Ag!Vacate(ds) /\ Ag!Settle(c, rest) /\ UNCHANGED <<ready, looks, losses>>
        /\ missions' = (missions \ c.seen) \cup {Ag!NewMission}
    BY <1>2, <2>1, <2>2 DEF Ag!Persist, Ag!SupersededMissions
  <2>5. /\ stands' \in [Dirs -> {"none", "active"}]
        /\ \A d \in Dirs \ ds : stands[d] # "none" => stands'[d] # "none"
    BY <1>0, <2>1, <2>3 DEF DirsTyped
  <2>6. DirsTyped' /\ TickTyped'
    BY <1>0, <2>4, <2>5, VacateTyped
  <2>7. CallsTyped'
    BY <1>0, <2>2, <2>4, <2>5, SettleTyped
  <2> QED BY <1>0, <2>4, <2>6, <2>7, MissionNumbered DEF Typed, CountsTyped
<1>3. CASE Ag!Steer(c)
  <2>1. PICK ds : /\ stands' = [d \in Dirs |-> IF d \in ds THEN "none" ELSE stands[d]]
                  /\ Ag!Vacate(ds) /\ Ag!Settle(c, Ag!Forgotten(calls \ {c}, ds) \cup {c})
    BY <1>3 DEF Ag!Steer
  <2>2. PICK rest : rest = Ag!Forgotten(calls \ {c}, ds) \cup {c}
    OBVIOUS
  <2>3. Ag!Settle(c, rest) /\ UNCHANGED <<missions, ready, looks, losses>>
    BY <1>3, <2>1, <2>2 DEF Ag!Steer
  <2>4. /\ stands' \in [Dirs -> {"none", "active"}]
        /\ \A d \in Dirs \ ds : stands[d] # "none" => stands'[d] # "none"
    BY <1>0, <2>1 DEF DirsTyped
  <2>5. DirsTyped' /\ TickTyped'
    BY <1>0, <2>1, <2>4, VacateTyped
  <2>6. CallsTyped'
    BY <1>0, <2>2, <2>3, <2>4, SettleTyped
  <2> QED BY <1>0, <2>3, <2>5, <2>6 DEF Typed, CountsTyped
<1>4. CASE Ag!Judge(c)
  <2>1. PICK d \in c.dirs :
          /\ \/ /\ \E v \in {"pass", "hold"} : verdict' = [verdict EXCEPT ![d] = v]
                /\ UNCHANGED losses
             \/ losses < MaxLosses /\ losses' = losses + 1 /\ UNCHANGED verdict
          /\ Ag!Goes(c, [c EXCEPT !.dirs = c.dirs \ {d}])
    BY <1>4 DEF Ag!Judge, Ag!Mishap
  <2>2. UNCHANGED <<stands, worked, gate, missions, tick, ready, looks>>
    BY <1>4 DEF Ag!Judge
  <2>3. d \in Dirs /\ stands[d] # "none"
    BY <1>0, <2>1 DEF CallTyped
  <2>4. DirsTyped'
    BY <1>0, <2>1, <2>2, <2>3 DEF DirsTyped
  <2>5. CallsTyped'
    <3>1. PICK next : next = [c EXCEPT !.dirs = c.dirs \ {d}]
      OBVIOUS
    <3>2. SameTask(next, c) /\ next.open = c.open /\ next.dirs = c.dirs \ {d}
      BY <1>0, <3>1, DirsChanged
    <3>3. CallTyped(next)
      BY <1>0, <3>2 DEF CallTyped, SameTask
    <3>4. Ag!Goes(c, next)
      BY <2>1, <3>1
    <3> QED BY <1>0, <2>2, <3>3, <3>4, GoesTyped
  <2>6. CountsTyped'
    BY <1>0, <2>1, <2>2 DEF CountsTyped
  <2>7. TickTyped'
    BY <1>0, <2>2, TickKept
  <2> QED BY <2>4, <2>5, <2>6, <2>7 DEF Typed
<1>5. CASE Ag!JudgeNone(c) \/ Ag!Fail(c)
  <2>1. /\ UNCHANGED <<stands, worked, gate, verdict, missions, tick, ready, looks>>
        /\ losses' \in 0..MaxLosses /\ Ag!Settle(c, calls)
    BY <1>0, <1>5 DEF Ag!JudgeNone, Ag!Fail, Ag!Mishap, Ag!agenda, CountsTyped
  <2>2. CallsTyped'
    BY <1>0, <2>1, ReturnTyped
  <2>3. TickTyped'
    BY <1>0, <2>1, TickKept
  <2> QED BY <1>0, <2>1, <2>2, <2>3 DEF Typed, DirsTyped, CountsTyped
<1> QED BY <1>1, <1>2, <1>3, <1>4, <1>5 DEF Ag!Proceed

LEMMA RestIsTyped ==
  ASSUME Ag!AgendaAssumption, AgendaTyped,
         \/ Ag!Crash \/ Ag!CooldownEnds \/ UNCHANGED Ag!vars
         \/ \E d \in Dirs : Ag!SetGate(d) \/ Ag!Work(d) \/ Ag!End(d)
  PROVE  Typed'
<1>0. /\ DirsTyped /\ TickTyped /\ CallsTyped /\ CountsTyped
      /\ MaxCalls \in Nat /\ MaxLosses \in Nat /\ Decisions \subseteq {"none", "approved", "held"}
  BY DEF AgendaTyped, Ag!AgendaAssumption
<1>1. CASE Ag!Crash
  <2>1. /\ UNCHANGED <<stands, worked, gate, verdict, missions, pending, ready, looks>>
        /\ losses' \in 0..MaxLosses /\ tick' = Ag!Idle /\ calls' = {}
    BY <1>0, <1>1 DEF Ag!Crash, Ag!Mishap, Ag!agenda, CountsTyped
  <2>2. CallsTyped'
    BY <1>0, <2>1, FS_EmptySet DEF CallsTyped
  <2>3. TickTyped'
    BY <2>1, IdleTyped
  <2> QED BY <1>0, <2>1, <2>2, <2>3 DEF Typed, DirsTyped, CountsTyped
<1>2. CASE Ag!CooldownEnds \/ UNCHANGED Ag!vars
  <2>1. /\ UNCHANGED <<stands, worked, gate, verdict, missions, pending, calls, tick, looks, losses>>
        /\ ready' \in BOOLEAN
    BY <1>0, <1>2 DEF Ag!CooldownEnds, Ag!agenda, Ag!vars, CountsTyped
  <2>2. CallsTyped'
    BY <1>0, <2>1, CallsKept DEF CallsTyped
  <2>3. TickTyped'
    BY <1>0, <2>1, TickKept
  <2> QED BY <1>0, <2>1, <2>2, <2>3 DEF Typed, DirsTyped, CountsTyped
<1>3. ASSUME NEW d \in Dirs, Ag!SetGate(d) PROVE Typed'
  <2>1. PICK decision \in Decisions : gate' = [gate EXCEPT ![d] = decision]
    BY <1>3 DEF Ag!SetGate
  <2>2. /\ UNCHANGED <<stands, worked, verdict, missions, pending, calls, tick, ready, looks, losses>>
        /\ stands[d] # "none"
    BY <1>3 DEF Ag!SetGate
  <2>3. DirsTyped'
    BY <1>0, <2>1, <2>2 DEF DirsTyped
  <2>4. CallsTyped'
    BY <1>0, <2>2, CallsKept DEF CallsTyped
  <2>5. TickTyped'
    BY <1>0, <2>2, TickKept
  <2> QED BY <1>0, <2>2, <2>3, <2>4, <2>5 DEF Typed, CountsTyped
<1>4. ASSUME NEW d \in Dirs, Ag!Work(d) PROVE Typed'
  <2>1. /\ UNCHANGED <<stands, gate, verdict, missions, pending, calls, tick, ready, looks, losses>>
        /\ stands[d] # "none" /\ worked' = worked \cup {d}
    BY <1>4 DEF Ag!Work, Ag!Committed, Ag!Live
  <2>2. DirsTyped'
    BY <1>0, <2>1 DEF DirsTyped
  <2>3. CallsTyped'
    BY <1>0, <2>1, CallsKept DEF CallsTyped
  <2>4. TickTyped'
    BY <1>0, <2>1, TickKept
  <2> QED BY <1>0, <2>1, <2>2, <2>3, <2>4 DEF Typed, CountsTyped
<1>5. ASSUME NEW d \in Dirs, Ag!End(d) PROVE Typed'
  <2>1. /\ UNCHANGED <<missions, pending, ready, looks, losses>> /\ Ag!Vacate({d})
        /\ stands' = [stands EXCEPT ![d] = "none"]
    BY <1>5 DEF Ag!End
  <2>2. PICK Z : Z = Ag!Forgotten(calls, {d})
    OBVIOUS
  <2>3. calls' = Z /\ \A k \in calls : Shaped(k) /\ CallTyped(k)
    BY <1>5, <2>2 DEF Ag!End, AgendaTyped, AgendaInv, CallsTyped
  <2>4. /\ From(Z, calls)
        /\ \A j \in Z : j.dirs \cap {d} = {} /\ \E k \in calls : Left(j, k) /\ (j.open <=> k.open)
    <3>1. \A k \in calls : Shaped(k)
      BY <2>3
    <3>2. From(Z, calls)
      BY <2>2, <3>1, ForgottenFrom
    <3>3. \A j \in Z : j.dirs \cap {d} = {} /\ \E k \in calls : Left(j, k) /\ (j.open <=> k.open)
      <4>1. PICK ds : ds = {d}
        OBVIOUS
      <4>2. Z = Ag!Forgotten(calls, ds)
        BY <2>2, <4>1
      <4>3. \A j \in Ag!Forgotten(calls, ds) :
              j.dirs \cap ds = {} /\ \E k \in calls : Left(j, k) /\ (j.open <=> k.open)
        BY <3>1, ForgottenLeft
      <4> QED BY <4>1, <4>2, <4>3
    <3> QED BY <3>2, <3>3
  <2>5. /\ stands' \in [Dirs -> {"none", "active"}]
        /\ \A x \in Dirs \ {d} : stands[x] # "none" => stands'[x] # "none"
    BY <1>0, <2>1 DEF DirsTyped
  <2>6. DirsTyped' /\ TickTyped'
    BY <1>0, <2>1, <2>5, VacateTyped
  <2>7. ASSUME NEW j \in calls'
        PROVE  /\ j.dirs \cap {d} = {} /\ (j.open => j.type \in pending')
               /\ \E k \in calls : Left(j, k)
    <3>1. PICK k \in calls : Left(j, k) /\ (j.open <=> k.open)
      BY <2>3, <2>4
    <3> QED BY <2>1, <2>3, <2>4, <3>1 DEF Left, CallTyped
  <2>8. CallsTyped'
    <3>1. From(calls', calls) /\ pending' \subseteq Ag!Types
      BY <1>0, <2>1, <2>3, <2>4 DEF CallsTyped
    <3> QED BY <1>0, <2>5, <2>7, <3>1, CallsLeft
  <2> QED BY <1>0, <2>1, <2>6, <2>8 DEF Typed, CountsTyped
<1> QED BY <1>1, <1>2, <1>3, <1>4, <1>5

LEMMA TypedInitially == ASSUME Ag!AgendaAssumption PROVE Ag!Init => AgendaTyped
<1> SUFFICES ASSUME Ag!Init PROVE AgendaTyped
  OBVIOUS
<1>1. MaxCalls \in Nat /\ MaxLooks \in Nat \ {0} /\ MaxLosses \in Nat
  BY DEF Ag!AgendaAssumption
<1>2. DirsTyped /\ CountsTyped
  BY <1>1 DEF Ag!Init, DirsTyped, CountsTyped
<1>3. TickTyped
  BY DEF Ag!Init, Ag!Idle, TickTyped
<1>4. CallsTyped
  BY <1>1, FS_EmptySet DEF Ag!Init, CallsTyped
<1> QED BY <1>2, <1>3, <1>4, AgendaInitially DEF AgendaTyped

LEMMA TypedStep ==
  ASSUME Ag!AgendaAssumption PROVE AgendaTyped /\ [Ag!Next]_Ag!vars => AgendaTyped'
<1> SUFFICES ASSUME AgendaTyped, [Ag!Next]_Ag!vars PROVE AgendaTyped'
  OBVIOUS
<1>1. AgendaInv'
  BY AgendaStep DEF AgendaTyped
<1>2. Typed'
  BY TickIsTyped, EventIsTyped, CallIsTyped, RestIsTyped DEF Ag!Next
<1> QED BY <1>1, <1>2 DEF AgendaTyped, Typed

(* The agenda is well typed: the rows a tick approves, the directions a call  *)
(* judges and every gate, verdict and mark of work belong to directions that  *)
(* live, calls in charge of an event find it pending, and no more handlers    *)
(* run than the dispatcher has slots.                                         *)
THEOREM AgendaTypeCorrect == ASSUME Ag!AgendaAssumption PROVE Ag!Spec => []Ag!TypeOK
BY TypedInitially, TypedStep, TypedOK, PTL DEF Ag!Spec

\* While nothing has failed or been repeated: one call at a time judges, it has the
\* event, and no direction that it has yet to judge has passed.
Judging == {"adjudicate", "relook"}

Unspoilt(c) == /\ c.open /\ (c.at = "judge" <=> c.type \in Judging)
               /\ c.at = "judge" => \A d \in c.dirs : verdict[d] # "pass"

Single == /\ \A c \in calls : Unspoilt(c)
          /\ OneOfAType(calls) /\ ~(Judging \subseteq pending)

PassInv == AgendaTyped /\ (losses = 0 => Single)

LEMMA LeftSingle ==
  ASSUME AgendaTyped, Single, \A d \in Dirs : verdict'[d] = "pass" => verdict[d] = "pass",
         OneOfAType(calls'), pending' \subseteq pending,
         \A j \in calls' : j.open /\ \E k \in calls : Left(j, k)
  PROVE  Single'
<1>1. ASSUME NEW j \in calls' PROVE Unspoilt(j)'
  <2>1. PICK k \in calls : Left(j, k)
    OBVIOUS
  <2>2. Unspoilt(k) /\ k.dirs \subseteq Dirs /\ j.open
    BY DEF Single, AgendaTyped, CallsTyped, CallTyped
  <2> QED BY <2>1, <2>2 DEF Unspoilt, Left
<1>2. ~(Judging \subseteq pending')
  BY DEF Single
<1>3. OneOfAType(calls)'
  BY DEF OneOfAType
<1> QED BY <1>1, <1>2, <1>3 DEF Single, Judging

\* The end of a call leaves the others in charge of their events.
LEMMA SettleSingle ==
  ASSUME AgendaTyped, Single, \A d \in Dirs : verdict'[d] = "pass" => verdict[d] = "pass",
         NEW c \in calls, NEW ds, NEW rest,
         (rest = calls /\ ds = {}) \/ rest = Ag!Forgotten(calls \ {c}, ds) \cup {c},
         Ag!Settle(c, rest)
  PROVE  Single'
<1>1. (\A k \in calls : Shaped(k) /\ k.open) /\ OneOfAType(calls)
  BY DEF AgendaTyped, AgendaInv, Single, Unspoilt
<1>2. /\ \A j \in calls' : \E k \in calls \ {c} :
           Left(j, k) /\ (j.open <=> k.open /\ ~(c.open /\ k.type = c.type))
      /\ OneOfAType(calls')
  BY <1>1, SettleLeft
<1>3. \A k \in calls \ {c} : k.type # c.type
  BY <1>1 DEF OneOfAType
<1>4. \A j \in calls' : j.open /\ \E k \in calls : Left(j, k)
  BY <1>1, <1>2, <1>3
<1>5. pending' \subseteq pending
  BY DEF Ag!Settle
<1> QED BY <1>2, <1>4, <1>5, LeftSingle

LEMMA ReturnSingle ==
  ASSUME AgendaTyped, Single, UNCHANGED verdict, NEW c \in calls, Ag!Settle(c, calls)
  PROVE  Single'
<1>1. PICK ds : ds = {}
  OBVIOUS
<1>2. PICK rest : rest = calls
  OBVIOUS
<1>3. Ag!Settle(c, rest) /\ ((rest = calls /\ ds = {}) \/ rest = Ag!Forgotten(calls \ {c}, ds) \cup {c})
  BY <1>1, <1>2
<1> QED BY <1>3, SettleSingle

\* A call goes on, with its event, as the one that judges or as one that does not.
LEMMA GoesSingle ==
  ASSUME AgendaTyped, Single, NEW c \in calls, NEW next, Ag!Goes(c, next), next.type = c.type,
         Unspoilt(next)',
         UNCHANGED verdict \/ c.at = "judge"
  PROVE  Single'
<1>1. /\ calls' = (calls \ {c}) \cup {next} /\ UNCHANGED pending
      /\ OneOfAType(calls) /\ ~(Judging \subseteq pending) /\ \A k \in calls : Unspoilt(k)
  BY DEF Ag!Goes, Single
<1>2. ASSUME NEW k \in calls \ {c} PROVE Unspoilt(k)'
  <2>1. Unspoilt(k)
    BY <1>1
  <2>2. CASE UNCHANGED verdict
    BY <2>1, <2>2 DEF Unspoilt, Judging
  <2>3. CASE c.at = "judge"
    <3>1. c.type \in pending \cap Judging
      BY <1>1, <2>3 DEF Unspoilt, AgendaTyped, CallsTyped, CallTyped
    <3>2. k.type \in pending /\ k.type # c.type
      BY <1>1, <2>1 DEF Unspoilt, AgendaTyped, CallsTyped, CallTyped, OneOfAType
    <3>3. k.at # "judge"
      BY <1>1, <2>1, <3>1, <3>2 DEF Unspoilt, Judging
    <3> QED BY <2>1, <3>3 DEF Unspoilt, Judging
  <2> QED BY <2>2, <2>3
<1>3. OneOfAType(calls)'
  BY <1>1 DEF OneOfAType
<1> QED BY <1>1, <1>2, <1>3 DEF Single, Judging

LEMMA TakeSingle ==
  ASSUME AgendaTyped, Single, NEW type \in Ag!Types, Ag!Take(type), UNCHANGED losses
  PROVE  Single'
<1>1. PICK k : k = Ag!Call(type)
  OBVIOUS
<1>2. /\ k.type = type /\ k.open /\ (k.at = "judge" <=> type \in Judging)
      /\ k.at = "judge" => k.dirs = Ag!ToJudge(type)
  BY <1>1 DEF Ag!Call, Ag!Types, Judging
<1>3. /\ calls' = calls \cup {k} /\ UNCHANGED <<pending, verdict>> /\ losses \in Nat
  BY <1>1 DEF Ag!Take, Ag!agenda, AgendaTyped, AgendaInv
<1>4. \A c \in calls : c.type # type
  BY <1>3 DEF Ag!Take, Ag!Mishap, Single, Unspoilt
<1>5. Unspoilt(k)'
  BY <1>2, <1>3 DEF Unspoilt, Judging, Ag!ToJudge, Ag!Unjudged, Ag!Held
<1>6. \A c \in calls : Unspoilt(c)'
  BY <1>3 DEF Single, Unspoilt, Judging
<1>7. OneOfAType(calls)'
  BY <1>2, <1>3, <1>4 DEF OneOfAType, Single
<1> QED BY <1>3, <1>5, <1>6, <1>7 DEF Single, Judging

\* What may be asked for beside an adjudication is none.
LEMMA AskSingle ==
  ASSUME AgendaTyped, Single, UNCHANGED <<calls, verdict>>, ~(Judging \subseteq pending')
  PROVE  Single'
BY DEF Single, Unspoilt, Judging

LEMMA JudgeSingle ==
  ASSUME AgendaTyped, Single, NEW c \in calls, Ag!Judge(c), UNCHANGED losses
  PROVE  Single'
<1>0. ~Ag!Mishap
  BY DEF Ag!Mishap, AgendaTyped, AgendaInv
<1>1. PICK d \in c.dirs : /\ \E v \in {"pass", "hold"} : verdict' = [verdict EXCEPT ![d] = v]
                          /\ Ag!Goes(c, [c EXCEPT !.dirs = c.dirs \ {d}])
  BY <1>0 DEF Ag!Judge
<1>2. PICK next : next = [c EXCEPT !.dirs = c.dirs \ {d}]
  OBVIOUS
<1>3. Shaped(c) /\ Unspoilt(c) /\ c.dirs \subseteq Dirs /\ verdict \in [Dirs -> {"none", "pass", "hold"}]
  BY DEF AgendaTyped, AgendaInv, Single, CallsTyped, CallTyped, DirsTyped
<1>4. SameTask(next, c) /\ next.open = c.open /\ next.dirs = c.dirs \ {d}
  BY <1>2, <1>3, DirsChanged
<1>5. Unspoilt(next)'
  BY <1>1, <1>3, <1>4 DEF Unspoilt, SameTask, Judging
<1>6. Ag!Goes(c, next) /\ next.type = c.type /\ c.at = "judge"
  BY <1>1, <1>2, <1>4 DEF SameTask, Ag!Judge
<1> QED BY <1>5, <1>6, GoesSingle

LEMMA ProceedSingle ==
  ASSUME AgendaTyped, Single, NEW c \in calls, Ag!Proceed(c), UNCHANGED losses
  PROVE  Single'
<1>0. Shaped(c) /\ Unspoilt(c) /\ verdict \in [Dirs -> {"none", "pass", "hold"}]
  BY DEF AgendaTyped, AgendaInv, Single, DirsTyped
<1>1. CASE Ag!BeginPersist(c)
  <2>1. UNCHANGED verdict /\ c.at = "answer"
    BY <1>1 DEF Ag!BeginPersist, Ag!agenda
  <2>2. CASE Ag!Goes(c, [c EXCEPT !.at = "persist", !.seen = missions])
    <3>0. Shaped(c)
      BY <1>0
    <3>1. PICK next : /\ next = [c EXCEPT !.at = "persist", !.seen = missions]
                      /\ Shaped(next) /\ next.type = c.type /\ next.open = c.open
                      /\ next.at = "persist" /\ next.seen = missions /\ next.dirs = c.dirs
      BY <3>0, SeenChanged, Zenon
    <3>2. Ag!Goes(c, next)
      BY <2>2, <3>1
    <3>3. Unspoilt(next)'
      BY <1>0, <2>1, <3>1 DEF Unspoilt, Judging
    <3> QED BY <2>1, <3>1, <3>2, <3>3, GoesSingle
  <2> QED BY <1>1, <2>1, <2>2, ReturnSingle DEF Ag!BeginPersist
<1>2. ASSUME NEW ds, Ag!Vacate(ds), Ag!Settle(c, Ag!Forgotten(calls \ {c}, ds) \cup {c})
      PROVE  Single'
  <2>1. PICK rest : rest = Ag!Forgotten(calls \ {c}, ds) \cup {c}
    OBVIOUS
  <2>2. Ag!Settle(c, rest) /\ \A d \in Dirs : verdict'[d] = "pass" => verdict[d] = "pass"
    BY <1>2, <2>1 DEF Ag!Vacate
  <2> QED BY <2>1, <2>2, SettleSingle
<1>3. CASE Ag!Persist(c)
  BY <1>2, <1>3 DEF Ag!Persist
<1>4. CASE Ag!Steer(c)
  BY <1>2, <1>4 DEF Ag!Steer
<1>5. CASE Ag!JudgeNone(c)
  BY <1>5, ReturnSingle DEF Ag!JudgeNone, Ag!agenda
<1> QED BY <1>1, <1>3, <1>4, <1>5, JudgeSingle DEF Ag!Proceed

LEMMA EndSingle == ASSUME AgendaTyped, Single, NEW d \in Dirs, Ag!End(d) PROVE Single'
<1>1. PICK ds : ds = {d}
  OBVIOUS
<1>2. PICK Z : Z = Ag!Forgotten(calls, ds)
  OBVIOUS
<1>3. calls' = Z /\ UNCHANGED pending /\ \A x \in Dirs : verdict'[x] = "pass" => verdict[x] = "pass"
  BY <1>1, <1>2 DEF Ag!End, Ag!Vacate
<1>4. (\A k \in calls : Shaped(k) /\ k.open) /\ OneOfAType(calls)
  BY DEF AgendaTyped, AgendaInv, Single, Unspoilt
<1>5. /\ \A j \in Ag!Forgotten(calls, ds) : \E k \in calls : Left(j, k) /\ (j.open <=> k.open)
      /\ OneOfAType(Ag!Forgotten(calls, ds))
  BY <1>4, ForgottenLeft
<1> QED BY <1>2, <1>3, <1>4, <1>5, LeftSingle

\* The drivers ask for one adjudication at a time.
LEMMA DecideSingle == ASSUME AgendaTyped, Single, Ag!Decide PROVE Single'
<1>1. UNCHANGED <<calls, verdict>>
  BY DEF Ag!Decide, Ag!agenda
<1>2. \/ UNCHANGED pending
      \/ pending \cap Judging = {} /\ \E x \in Judging : pending' = pending \cup {x}
  <2>1. CASE Ag!Hatch
    BY <2>1 DEF Ag!Hatch, Ag!AdjudicatePending, Judging
  <2>2. CASE ~Ag!Hatch
    BY <2>2 DEF Ag!Decide, Ag!AdjudicateDue, Ag!AdjudicatePending, Judging
  <2> QED BY <2>1, <2>2
<1>3. ~(Judging \subseteq pending')
  BY <1>2 DEF Single, Judging
<1> QED BY <1>1, <1>3, AskSingle

LEMMA SingleStep ==
  ASSUME Ag!AgendaAssumption, AgendaTyped, losses = 0 => Single, [Ag!Next]_Ag!vars, losses' = 0
  PROVE  Single'
<1>0. losses \in Nat
  BY DEF AgendaTyped, AgendaInv
<1>m. ~Ag!Mishap
  BY <1>0 DEF Ag!Mishap
<1>1. Single /\ UNCHANGED losses
  <2>1. UNCHANGED losses
    <3>1. Ag!Tick => UNCHANGED losses
      BY DEF Ag!Tick, Ag!StartTick, Ag!ApproveRow, Ag!Decide, Ag!EmitDecided
    <3>2. \A c : Ag!Proceed(c) => UNCHANGED losses
      BY <1>m DEF Ag!Proceed, Ag!BeginPersist, Ag!Persist, Ag!Steer, Ag!Judge, Ag!JudgeNone
    <3>3. \A type : Ag!Take(type) => UNCHANGED losses
      BY <1>m DEF Ag!Take
    <3>4. Ag!CooldownEnds \/ UNCHANGED Ag!vars => UNCHANGED losses
      BY DEF Ag!CooldownEnds, Ag!vars
    <3>5. \A d : Ag!SetGate(d) \/ Ag!Work(d) \/ Ag!End(d) => UNCHANGED losses
      BY DEF Ag!SetGate, Ag!Work, Ag!End
    <3> QED BY <1>m, <3>1, <3>2, <3>3, <3>4, <3>5
            DEF Ag!Next, Ag!TickFails, Ag!Suppress, Ag!Fail, Ag!Crash
  <2> QED BY <2>1
<1>2. CASE Ag!Tick
  <2>1. Ag!StartTick \/ Ag!ApproveRow => UNCHANGED <<calls, verdict, pending>>
    BY DEF Ag!StartTick, Ag!ApproveRow, Ag!agenda
  <2>2. CASE Ag!EmitDecided
    <3>1. UNCHANGED <<calls, verdict>> /\ pending' = pending \cup {tick.what}
      BY <2>2 DEF Ag!EmitDecided, Ag!agenda
    <3>2. tick.what \notin Judging
      BY DEF AgendaTyped, TickTyped, Judging
    <3>3. ~(Judging \subseteq pending')
      BY <1>1, <3>1, <3>2 DEF Single
    <3> QED BY <1>1, <3>1, <3>3, AskSingle
  <2>3. ASSUME UNCHANGED <<calls, verdict, pending>> PROVE Single'
    BY <1>1, <2>3, AskSingle DEF Single
  <2> QED BY <1>1, <1>2, <2>1, <2>2, <2>3, DecideSingle DEF Ag!Tick
<1>3. ASSUME NEW type \in Ag!Types, Ag!Take(type) PROVE Single'
  BY <1>1, <1>3, TakeSingle
<1>4. ASSUME NEW c \in calls, Ag!Proceed(c) PROVE Single'
  BY <1>1, <1>4, ProceedSingle
<1>5. ASSUME NEW d \in Dirs, Ag!SetGate(d) \/ Ag!Work(d) PROVE Single'
  <2>1. UNCHANGED <<calls, verdict, pending>>
    BY <1>5 DEF Ag!SetGate, Ag!Work
  <2> QED BY <1>1, <2>1, AskSingle DEF Single
<1>6. CASE Ag!CooldownEnds \/ UNCHANGED Ag!vars
  <2>1. UNCHANGED <<calls, verdict, pending>>
    BY <1>6 DEF Ag!CooldownEnds, Ag!agenda, Ag!vars
  <2> QED BY <1>1, <2>1, AskSingle DEF Single
<1> QED BY <1>m, <1>1, <1>2, <1>3, <1>4, <1>5, <1>6, EndSingle
        DEF Ag!Next, Ag!TickFails, Ag!Suppress, Ag!Fail, Ag!Crash

LEMMA PassInitially == ASSUME Ag!AgendaAssumption PROVE Ag!Init => PassInv
<1> SUFFICES ASSUME Ag!Init PROVE PassInv
  OBVIOUS
<1>1. calls = {} /\ pending = {}
  BY DEF Ag!Init
<1> QED BY <1>1, TypedInitially DEF PassInv, Single, OneOfAType, Judging

LEMMA PassStep == ASSUME Ag!AgendaAssumption PROVE PassInv /\ [Ag!Next]_Ag!vars => PassInv'
BY TypedStep, SingleStep DEF PassInv

\* Only the call that judges takes a verdict back.
LEMMA PassKept ==
  PassInv /\ [Ag!Next]_Ag!vars
    => [\A d \in Dirs : (verdict[d] = "pass" /\ verdict'[d] = "hold") => losses > 0]_Ag!vars
<1> SUFFICES ASSUME PassInv, Ag!Next, NEW d \in Dirs, verdict[d] = "pass", verdict'[d] = "hold"
             PROVE  losses > 0
  OBVIOUS
<1>1. /\ AgendaTyped /\ losses \in Nat /\ verdict \in [Dirs -> {"none", "pass", "hold"}]
      /\ losses = 0 => Single
  BY DEF PassInv, AgendaTyped, AgendaInv, DirsTyped
<1>2. \E c \in calls : Ag!Judge(c)
  <2> SUFFICES ASSUME \A c \in calls : ~Ag!Judge(c) PROVE FALSE
    OBVIOUS
  <2>1. \/ UNCHANGED verdict
        \/ \E ds : verdict' = [x \in Dirs |-> IF x \in ds THEN "none" ELSE verdict[x]]
    <3>1. Ag!Tick \/ Ag!TickFails \/ Ag!Crash \/ Ag!CooldownEnds => UNCHANGED verdict
      BY DEF Ag!Tick, Ag!StartTick, Ag!ApproveRow, Ag!Decide, Ag!EmitDecided, Ag!TickFails,
             Ag!Crash, Ag!CooldownEnds, Ag!agenda
    <3>2. \A type : Ag!Take(type) \/ Ag!Suppress(type) => UNCHANGED verdict
      BY DEF Ag!Take, Ag!Suppress, Ag!agenda
    <3>3. \A c : Ag!BeginPersist(c) \/ Ag!JudgeNone(c) \/ Ag!Fail(c) => UNCHANGED verdict
      BY DEF Ag!BeginPersist, Ag!JudgeNone, Ag!Fail, Ag!agenda
    <3>4. \A x : Ag!SetGate(x) \/ Ag!Work(x) => UNCHANGED verdict
      BY DEF Ag!SetGate, Ag!Work
    <3>5. \A c, x : Ag!Persist(c) \/ Ag!Steer(c) \/ Ag!End(x) => \E ds : Ag!Vacate(ds)
      BY DEF Ag!Persist, Ag!Steer, Ag!End
    <3>6. \A ds : Ag!Vacate(ds)
             => verdict' = [x \in Dirs |-> IF x \in ds THEN "none" ELSE verdict[x]]
      BY DEF Ag!Vacate
    <3>7. (\E ds : Ag!Vacate(ds)) \/ UNCHANGED verdict
      BY <3>1, <3>2, <3>3, <3>4, <3>5 DEF Ag!Next, Ag!Proceed
    <3> QED BY <3>6, <3>7
  <2> QED BY <1>1, <2>1
<1>3. PICK c \in calls : Ag!Judge(c)
  BY <1>2
<1>4. losses # 0
  <2> SUFFICES ASSUME Single PROVE FALSE
    BY <1>1
  <2>1. PICK x \in c.dirs : \/ \E v : verdict' = [verdict EXCEPT ![x] = v]
                            \/ UNCHANGED verdict
    BY <1>3 DEF Ag!Judge
  <2>2. c.at = "judge" /\ Unspoilt(c)
    BY <1>3 DEF Ag!Judge, Single
  <2> QED BY <1>1, <2>1, <2>2 DEF Unspoilt
<1> QED BY <1>1, <1>4

(* A pass stands: while no call has failed or been repeated, no adjudication  *)
(* turns the verdict "pass" of a direction that lives into "hold".            *)
THEOREM PassesStand == ASSUME Ag!AgendaAssumption PROVE Ag!Spec => Ag!PassStands
BY PassInitially, PassStep, PassKept, PTL DEF Ag!Spec, Ag!PassStands
=============================================================================
