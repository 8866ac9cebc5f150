------------------------ MODULE QuartermasterProofs ------------------------
(***************************************************************************)
(* Proofs about Quartermaster, for every set of experiments, every         *)
(* capacity of the two lanes and every number of attempts and mishaps:     *)
(* type correctness, the bound on each lane, events that tell what the row *)
(* says, and the life of a row; and, at the end, about Spine, which a run  *)
(* that has ended goes on to.                                              *)
(***************************************************************************)
EXTENDS Quartermaster, Sequences, FiniteSetTheorems, WellFoundedInduction, TLAPS

\* The verdict of the runner of e is still to be written.  A row in this
\* state can only have been killed, or failed by its designer.
Undecided(e) == \/ status[e] \in {"running", "killed"}
                \/ status[e] = "failed" /\ design[e] = "infeasible"

Launching(e) == wd = "launch" /\ target = e

\* What the stages of a runner say of its row.
RunnerTellsTheRow(e) ==
  /\ runner[e].at \in {"ready", "container", "save", "debug", "record"} => Undecided(e)
  /\ runner[e].at \in {"container", "save", "debug"} => design[e] # "infeasible"
  /\ runner[e].at = "debug" => runner[e].attempt < MaxIters
  /\ runner[e].at \in {"record", "announce"} => runner[e].out # "none"
  /\ Owned(e) /\ runner[e].out = "completed" => design[e] # "infeasible"
  /\ runner[e].at = "announce" =>
       /\ runner[e].out = "completed" => status[e] = "completed"
       /\ runner[e].out = "failed" => status[e] = "failed"
       /\ runner[e].out = "killed" => status[e] \in {"killed", "failed"}
  /\ runner[e].at = "crashed" => status[e] \in Ended \cup {"running"}

\* A row that is being launched is nobody's yet, and was queued a moment ago.
LaunchTellsTheRow(e) == Launching(e) => ~Owned(e) /\ Undecided(e)

\* An announced end is the end.
EventsAreLast(e) ==
  \A k \in {"completed", "failed"} : <<e, k>> \in events =>
    /\ ~Owned(e) /\ ~Launching(e)
    /\ status[e] \in IF k = "completed" THEN {"completed"} ELSE {"failed", "killed"}

DraftsAreRows(e) == /\ e \in drafts => status[e] # "absent"
                    /\ status[e] = "completed" => design[e] # "infeasible"

RowInv(e) == /\ RunnerTellsTheRow(e) /\ LaunchTellsTheRow(e)
             /\ EventsAreLast(e) /\ DraftsAreRows(e)

IInv == TypeOK /\ \A e \in Experiments : RowInv(e)

USE QuartermasterAssumption

\* The runs in a lane can be counted.
LEMMA LaneCount ==
  ASSUME NEW l
  PROVE  IsFiniteSet(InLane(l)) /\ Cardinality(InLane(l)) \in Nat
<1>1. IsFiniteSet(InLane(l)) BY FS_Subset DEF InLane
<1> QED BY <1>1, FS_CardinalityType

LEMMA InitIInv == Init => IInv
<1> SUFFICES ASSUME Init PROVE IInv
  OBVIOUS
<1>1. TypeOK
  <2>1. NoRunner \in [at : {"none", "ready", "container", "save", "debug", "record",
                             "announce", "crashed"},
                       lane : Lanes \cup {"none"}, attempt : 0..MaxIters,
                       out : {"none", "completed", "failed", "killed"}]
    BY DEF NoRunner
  <2>2. \A e \in Experiments : runner[e] = NoRunner
    BY DEF Init
  <2>3. runner \in [Experiments ->
          [at : {"none", "ready", "container", "save", "debug", "record", "announce", "crashed"},
           lane : Lanes \cup {"none"}, attempt : 0..MaxIters,
           out : {"none", "completed", "failed", "killed"}]]
    BY <2>1 DEF Init
  <2>4. \A e \in Experiments : runner[e].lane = "none" /\ ~Owned(e)
    BY <2>2 DEF NoRunner, Owned
  <2>5. /\ status \in [Experiments -> Status]
        /\ design \in [Experiments -> Designs \cup {"none"}]
        /\ container \in [Experiments -> {"none", "up", "dead"}]
        /\ load \in [Lanes -> Nat] /\ mishaps \in 0..MaxMishaps
    BY DEF Init, Status
  <2> QED BY <2>3, <2>4, <2>5 DEF Init, TypeOK
<1>2. ASSUME NEW e \in Experiments PROVE RowInv(e)
  BY <1>2 DEF Init, RowInv, RunnerTellsTheRow, LaunchTellsTheRow, EventsAreLast,
     DraftsAreRows, Launching, Owned, NoRunner
<1> QED BY <1>1, <1>2 DEF IInv

\* Steps that change no row, no runner and no launch.
Aside == /\ UNCHANGED <<status, design, events, runner, drafts>>
         /\ wd' = "launch" => wd = "launch" /\ target' = target

LEMMA AsideKeepsIInv ==
  ASSUME IInv, TypeOK', Aside
  PROVE  IInv'
BY DEF Aside, IInv, RowInv, RunnerTellsTheRow, LaunchTellsTheRow, EventsAreLast, DraftsAreRows,
       Launching, Owned, Undecided

LEMMA WatchdogAsideType ==
  ASSUME TypeOK,
         \/ Boot \/ Tick \/ Remove \/ Kill \/ ReadQueue \/ EndTick \/ TickFails
         \/ \E e \in Experiments :
              Condemn(e) \/ Spare(e) \/ Defer(e) \/ HumanKill(e) \/ Expire(e)
  PROVE  TypeOK' /\ Aside
<1> USE DEF Aside
<1>1. CASE Boot BY <1>1 DEF TypeOK, Boot, Mishap, rowVars, Owned, Lane, Rows
<1>2. CASE Tick BY <1>2 DEF TypeOK, Tick, rowVars, Owned, Lane, Rows
<1>3. CASE Remove BY <1>3 DEF TypeOK, Remove, Mishap, rowVars, Owned, Lane
<1>4. CASE Kill BY <1>4 DEF TypeOK, Kill, KillContainer, Mishap, rowVars, Owned, Lane
<1>5. CASE ReadQueue
  <2>1. load' \in [Lanes -> Nat]
    BY <1>5, LaneCount DEF ReadQueue
  <2> QED BY <1>5, <2>1 DEF TypeOK, ReadQueue, rowVars, Owned, Lane, Rows
<1>6. CASE EndTick BY <1>6 DEF TypeOK, EndTick, Rest, rowVars, Owned, Lane
<1>7. CASE TickFails
  <2>1. load' \in [Lanes -> Nat] /\ mishaps' \in 0..MaxMishaps
    BY <1>7 DEF TypeOK, TickFails, Rest, Mishap
  <2> QED BY <1>7, <2>1 DEF TypeOK, TickFails, Rest, rowVars, Owned, Lane
<1>8. ASSUME NEW e \in Experiments, Condemn(e) PROVE TypeOK' /\ Aside
  BY <1>8 DEF TypeOK, Condemn, Mishap, rowVars, Owned, Lane
<1>9. ASSUME NEW e \in Experiments, Spare(e) PROVE TypeOK' /\ Aside
  BY <1>9 DEF TypeOK, Spare, rowVars, Owned, Lane
<1>10. ASSUME NEW e \in Experiments, Defer(e) PROVE TypeOK' /\ Aside
  BY <1>10 DEF TypeOK, Defer, rowVars, Owned, Lane
<1>11. ASSUME NEW e \in Experiments, HumanKill(e) PROVE TypeOK' /\ Aside
  BY <1>11 DEF TypeOK, HumanKill, KillContainer, Mishap, rowVars, wdVars, Owned, Lane
<1>12. ASSUME NEW e \in Experiments, Expire(e) PROVE TypeOK' /\ Aside
  BY <1>12 DEF TypeOK, Expire, rowVars, wdVars, Owned, Lane
<1> QED BY <1>1, <1>2, <1>3, <1>4, <1>5, <1>6, <1>7, <1>8, <1>9, <1>10, <1>11, <1>12

\* Queueing a row, and the designer's second statement.
LEMMA DesignerKeepsIInv ==
  ASSUME IInv, NEW e \in Experiments,
         (\E d \in Designs : Queue(e, d)) \/ RejectDraft(e)
  PROVE  IInv'
<1>1. ASSUME NEW d \in Designs, Queue(e, d) PROVE IInv'
  <2>1. ~Owned(e) /\ e \notin drafts /\ ~Launching(e)
        /\ \A k \in {"completed", "failed"} : <<e, k>> \notin events
    BY <1>1 DEF IInv, TypeOK, RowInv, RunnerTellsTheRow, LaunchTellsTheRow, EventsAreLast,
       DraftsAreRows, Undecided, Owned, Ended, Queue
  <2>2. TypeOK'
    BY <1>1, <2>1 DEF IInv, TypeOK, Queue, SetStatus, Status, wdVars, Owned, Lane
  <2>3. ASSUME NEW f \in Experiments PROVE RowInv(f)'
    <3>1. CASE f = e
      BY <1>1, <2>1, <3>1 DEF IInv, TypeOK, RowInv, RunnerTellsTheRow, LaunchTellsTheRow,
         EventsAreLast, DraftsAreRows, Owned, Launching, Queue, SetStatus, wdVars
    <3>2. CASE f # e
      <4>1. /\ status'[f] = status[f] /\ design'[f] = design[f]
            /\ f \in drafts' <=> f \in drafts
            /\ UNCHANGED <<events, runner, wd, target>>
        BY <1>1, <2>3, <3>2 DEF IInv, TypeOK, Queue, SetStatus, wdVars
      <4> QED BY <2>3, <4>1 DEF IInv, RowInv, RunnerTellsTheRow, LaunchTellsTheRow,
            EventsAreLast, DraftsAreRows, Undecided, Owned, Launching
    <3> QED BY <3>1, <3>2
  <2> QED BY <2>2, <2>3 DEF IInv
<1>2. CASE RejectDraft(e)
  <2>1. TypeOK'
    BY <1>2 DEF IInv, TypeOK, RejectDraft, SetStatus, Status, Ended, wdVars, Owned, Lane
  <2>2. ASSUME NEW f \in Experiments PROVE RowInv(f)'
    BY <1>2, <2>2 DEF IInv, TypeOK, RowInv, RunnerTellsTheRow, LaunchTellsTheRow,
       EventsAreLast, DraftsAreRows, Undecided, Owned, Launching, Ended, RejectDraft,
       SetStatus, wdVars
  <2> QED BY <2>1, <2>2 DEF IInv
<1> QED BY <1>1, <1>2

\* A kill of a row, by the sweep or by hand, changes only one without an end.
LEMMA KillRowEffect ==
  ASSUME TypeOK, NEW e \in Experiments, KillRow(e)
  PROVE  /\ status' \in [Experiments -> Status]
         /\ \A f \in Experiments : status'[f] # status[f] =>
              f = e /\ status'[f] = "killed" /\ status[f] \in {"queued", "running"}
BY DEF TypeOK, KillRow, SetStatus, Status, Ended

LEMMA KillersKeepIInv ==
  ASSUME IInv, HumanMark \/ \E e \in Experiments : Orphan(e)
  PROVE  IInv'
<1>1. PICK e \in Experiments : (HumanMark /\ switch = e) \/ Orphan(e)
  BY DEF IInv, TypeOK, HumanMark
<1>2. KillRow(e) /\ UNCHANGED <<design, events, runner, drafts>>
      /\ (wd' = "launch" => wd = "launch" /\ target' = target)
  BY <1>1 DEF HumanMark, Orphan, wdVars
<1>3. TypeOK'
  BY <1>1, <1>2, KillRowEffect DEF IInv, TypeOK, HumanMark, Orphan, wdVars, Owned, Lane
<1>4. ASSUME NEW f \in Experiments PROVE RowInv(f)'
  BY <1>2, <1>4, KillRowEffect DEF IInv, TypeOK, RowInv, RunnerTellsTheRow,
     LaunchTellsTheRow, EventsAreLast, DraftsAreRows, Undecided, Owned, Launching, Ended
<1> QED BY <1>3, <1>4 DEF IInv

\* Admission and launch.
LEMMA AdmitKeepsIInv ==
  ASSUME IInv, NEW e \in Experiments, Admit(e)
  PROVE  IInv'
<1>1. TypeOK'
  BY DEF IInv, TypeOK, Admit, MarkRunning, SetStatus, Status, Ended, Owned, Lane
<1>2. ASSUME NEW f \in Experiments PROVE RowInv(f)'
  BY <1>2 DEF IInv, TypeOK, RowInv, RunnerTellsTheRow, LaunchTellsTheRow, EventsAreLast,
     DraftsAreRows, Undecided, Owned, Launching, Ended, Admit, MarkRunning, SetStatus
<1> QED BY <1>1, <1>2 DEF IInv

LEMMA LaunchKeepsIInv ==
  ASSUME IInv, Launch
  PROVE  IInv'
<1>1. PICK e \in Experiments : target = e
  BY DEF IInv, TypeOK, Launch
<1>2. Launching(e) /\ runner' = [runner EXCEPT ![e] = Started(e)]
  BY <1>1 DEF Launch, Launching
<1>3. TypeOK'
  <2>1. Lane(e) \in Lanes /\ 1 \in 0..MaxIters
    BY DEF Lane, Lanes
  <2>2. load' \in [Lanes -> Nat]
    BY <1>1, <2>1 DEF IInv, TypeOK, Launch
  <2> QED BY <1>2, <2>1, <2>2 DEF IInv, TypeOK, Launch, Started, rowVars, Owned, Lane
<1>4. ASSUME NEW f \in Experiments PROVE RowInv(f)'
  BY <1>1, <1>2, <1>4 DEF IInv, TypeOK, RowInv, RunnerTellsTheRow, LaunchTellsTheRow,
     EventsAreLast, DraftsAreRows, Undecided, Owned, Launching, Launch, Started, rowVars
<1> QED BY <1>3, <1>4 DEF IInv

\* A step of one runner that moves its stage, its outcome or its row, and
\* nothing of anybody else.
Private(e) ==
  /\ UNCHANGED <<design, drafts, wdVars, switch>>
  /\ \A f \in Experiments \ {e} :
       /\ status'[f] = status[f] /\ runner'[f] = runner[f]
       /\ \A k \in {"completed", "failed"} : <<f, k>> \in events' => <<f, k>> \in events

LEMMA OthersKeep ==
  ASSUME IInv, TypeOK', NEW e \in Experiments, Private(e), RowInv(e)'
  PROVE  IInv'
<1>1. ASSUME NEW f \in Experiments, f # e PROVE RowInv(f)'
  BY <1>1 DEF IInv, Private, RowInv, RunnerTellsTheRow, LaunchTellsTheRow, EventsAreLast,
     DraftsAreRows, Undecided, Owned, Launching, wdVars
<1> QED BY <1>1 DEF IInv

Stages == {"none", "ready", "container", "save", "debug", "record", "announce", "crashed"}
Outs   == {"none", "completed", "failed", "killed"}

\* The type of a state in which only the runner of e, a row, a container, a
\* reason, an event or the mishaps have changed, and e has a runner.
LEMMA RunnerType ==
  ASSUME TypeOK, NEW e \in Experiments, Owned(e), Private(e),
         UNCHANGED load,
         status' \in [Experiments -> Status],
         events' \subseteq Experiments \X {"completed", "failed"},
         container' \in [Experiments -> {"none", "up", "dead"}],
         reason' \subseteq Experiments, mishaps' \in 0..MaxMishaps,
         NEW r, runner' = [runner EXCEPT ![e] = r],
         \/ r = NoRunner
         \/ r.at # "none" /\ r.lane = runner[e].lane
            /\ r \in [at : Stages, lane : Lanes \cup {"none"}, attempt : 0..MaxIters, out : Outs]
  PROVE  TypeOK'
<1>1. NoRunner \in [at : Stages, lane : Lanes \cup {"none"}, attempt : 0..MaxIters, out : Outs]
  BY DEF NoRunner, Stages, Outs
<1>2. runner' \in [Experiments ->
        [at : Stages, lane : Lanes \cup {"none"}, attempt : 0..MaxIters, out : Outs]]
  BY <1>1 DEF TypeOK, Stages, Outs
<1>3. ASSUME NEW f \in Experiments
      PROVE  runner'[f].lane = IF Owned(f)' THEN Lane(f)' ELSE "none"
  <2>1. CASE f = e
    BY <2>1 DEF TypeOK, Private, Owned, Lane, NoRunner, Stages
  <2>2. CASE f # e
    BY <2>2 DEF TypeOK, Private, Owned, Lane
  <2> QED BY <2>1, <2>2
<1> QED BY <1>2, <1>3 DEF TypeOK, Private, wdVars, Stages, Outs

\* What the session's return leaves behind.
LEMMA ReturnEffect ==
  ASSUME TypeOK, NEW e \in Experiments, NEW out \in {"completed", "failed"},
         Return(e, out)
  PROVE  \E r \in [at : Stages, lane : Lanes \cup {"none"}, attempt : 0..MaxIters, out : Outs] :
           /\ runner' = [runner EXCEPT ![e] = r]
           /\ r.at = "record" /\ r.lane = runner[e].lane /\ r.out # "none"
           /\ (r.out = "completed") = (out = "completed")
           /\ reason' \subseteq Experiments
<1> DEFINE o == IF out = "failed" /\ e \in reason THEN "killed" ELSE out
           r == [runner[e] EXCEPT !.at = "record", !.out = o]
<1>1. o \in Outs /\ o # "none" /\ (o = "completed") = (out = "completed")
  BY DEF Outs
<1>2. runner[e] \in [at : Stages, lane : Lanes \cup {"none"}, attempt : 0..MaxIters, out : Outs]
  BY DEF TypeOK, Stages, Outs
<1> HIDE DEF o
<1>3. r \in [at : Stages, lane : Lanes \cup {"none"}, attempt : 0..MaxIters, out : Outs]
      /\ r.at = "record" /\ r.lane = runner[e].lane /\ r.out = o
  BY <1>1, <1>2 DEF Stages
<1>4. runner' = [runner EXCEPT ![e] = r]
  BY DEF TypeOK, Return, o
<1>5. reason' \subseteq Experiments
  BY DEF TypeOK, Return
<1> QED BY <1>1, <1>3, <1>4, <1>5

LEMMA AfterFailureEffect ==
  ASSUME TypeOK, NEW e \in Experiments, AfterFailure(e)
  PROVE  \E r \in [at : Stages, lane : Lanes \cup {"none"}, attempt : 0..MaxIters, out : Outs] :
           /\ runner' = [runner EXCEPT ![e] = r]
           /\ r.lane = runner[e].lane
           /\ \/ r.at = "record" /\ r.out \notin {"none", "completed"}
              \/ r.at = "debug"  /\ r.out = runner[e].out /\ r.attempt < MaxIters
           /\ reason' \subseteq Experiments
<1>1. CASE e \in reason \/ runner[e].attempt >= MaxIters
  BY <1>1, ReturnEffect DEF AfterFailure
<1>2. CASE ~(e \in reason \/ runner[e].attempt >= MaxIters)
  <2> DEFINE r == [runner[e] EXCEPT !.at = "debug"]
  <2>1. r \in [at : Stages, lane : Lanes \cup {"none"}, attempt : 0..MaxIters, out : Outs]
        /\ r.at = "debug" /\ r.lane = runner[e].lane /\ r.out = runner[e].out
        /\ r.attempt < MaxIters
    BY <1>2 DEF TypeOK, Stages, Outs
  <2>2. runner' = [runner EXCEPT ![e] = r] /\ reason' = reason
    BY <1>2 DEF AfterFailure, Go, TypeOK
  <2> QED BY <2>1, <2>2 DEF TypeOK
<1> QED BY <1>1, <1>2

\* The attempts of a session touch no row and no event.
LEMMA AttemptEffect ==
  ASSUME IInv, NEW e \in Experiments, Attempt(e)
  PROVE  /\ UNCHANGED <<rowVars, drafts, wdVars, switch, mishaps>>
         /\ Owned(e) /\ runner[e].at \in {"ready", "container", "save", "debug"}
         /\ container' \in [Experiments -> {"none", "up", "dead"}]
         /\ reason' \subseteq Experiments
         /\ \E r \in [at : Stages, lane : Lanes \cup {"none"}, attempt : 0..MaxIters, out : Outs] :
              /\ runner' = [runner EXCEPT ![e] = r]
              /\ r.at \in {"ready", "container", "save", "debug", "record"}
              /\ r.lane = runner[e].lane
              /\ r.at \in {"container", "save", "debug"} => design[e] # "infeasible"
              /\ r.at = "record" => r.out # "none"
              /\ r.at = "debug" => r.attempt < MaxIters
              /\ r.out = "completed" => design[e] # "infeasible"
<1> USE DEF IInv
<1>0. /\ RunnerTellsTheRow(e)
      /\ runner[e] \in [at : Stages, lane : Lanes \cup {"none"}, attempt : 0..MaxIters, out : Outs]
  BY DEF RowInv, TypeOK, Stages, Outs
<1>1. CASE GiveUp(e)
  BY <1>0, <1>1, ReturnEffect DEF GiveUp, Owned, TypeOK
<1>2. CASE RunContainer(e)
  <2> DEFINE r == [runner[e] EXCEPT !.at = "container"]
  <2>1. r \in [at : Stages, lane : Lanes \cup {"none"}, attempt : 0..MaxIters, out : Outs]
        /\ r.at = "container" /\ r.lane = runner[e].lane /\ r.out = runner[e].out
        /\ runner' = [runner EXCEPT ![e] = r]
    BY <1>0, <1>2 DEF RunContainer, Go, Stages, TypeOK
  <2> QED BY <1>0, <1>2, <2>1 DEF RunContainer, Owned, TypeOK
<1>3. CASE NoLaunch(e)
  BY <1>0, <1>3, AfterFailureEffect DEF NoLaunch, Owned, TypeOK
<1>4. CASE Succeed(e)
  <2> DEFINE r == [runner[e] EXCEPT !.at = "save"]
  <2>1. r \in [at : Stages, lane : Lanes \cup {"none"}, attempt : 0..MaxIters, out : Outs]
        /\ r.at = "save" /\ r.lane = runner[e].lane /\ r.out = runner[e].out
        /\ runner' = [runner EXCEPT ![e] = r]
    BY <1>0, <1>4 DEF Succeed, Go, Stages, TypeOK
  <2> QED BY <1>0, <1>4, <2>1 DEF Succeed, Owned, TypeOK, RunnerTellsTheRow
<1>5. CASE Save(e)
  BY <1>0, <1>5, ReturnEffect DEF Save, Owned, TypeOK, RunnerTellsTheRow
<1>6. CASE Fail(e)
  <2>1. container' \in [Experiments -> {"none", "up", "dead"}]
    BY <1>6 DEF Fail, TypeOK
  <2> QED BY <1>0, <1>6, <2>1, AfterFailureEffect DEF Fail, Owned, RunnerTellsTheRow
<1>7. CASE Debug(e)
  <2> DEFINE r == [runner[e] EXCEPT !.at = "ready", !.attempt = @ + 1]
  <2>1. runner[e].attempt + 1 \in 0..MaxIters
    BY <1>0, <1>7 DEF RunnerTellsTheRow, Debug
  <2>2. r \in [at : Stages, lane : Lanes \cup {"none"}, attempt : 0..MaxIters, out : Outs]
        /\ r.at = "ready" /\ r.lane = runner[e].lane /\ r.out = runner[e].out
        /\ runner' = [runner EXCEPT ![e] = r]
    BY <1>0, <1>7, <2>1 DEF Debug, Stages, TypeOK
  <2> QED BY <1>0, <1>7, <2>2 DEF Debug, Owned, TypeOK, RunnerTellsTheRow
<1>8. CASE DebugFails(e)
  BY <1>0, <1>8, ReturnEffect DEF DebugFails, Owned, TypeOK
<1> QED BY <1>1, <1>2, <1>3, <1>4, <1>5, <1>6, <1>7, <1>8 DEF Attempt

LEMMA AttemptKeepsIInv ==
  ASSUME IInv, NEW e \in Experiments, Attempt(e)
  PROVE  IInv'
<1>1. PICK r \in [at : Stages, lane : Lanes \cup {"none"}, attempt : 0..MaxIters, out : Outs] :
        /\ runner' = [runner EXCEPT ![e] = r]
        /\ r.at \in {"ready", "container", "save", "debug", "record"}
        /\ r.lane = runner[e].lane
        /\ r.at \in {"container", "save", "debug"} => design[e] # "infeasible"
        /\ r.at = "record" => r.out # "none"
        /\ r.at = "debug" => r.attempt < MaxIters
        /\ r.out = "completed" => design[e] # "infeasible"
  BY AttemptEffect
<1>2. /\ UNCHANGED <<rowVars, drafts, wdVars, switch, mishaps>>
      /\ Owned(e) /\ runner[e].at \in {"ready", "container", "save", "debug"}
      /\ container' \in [Experiments -> {"none", "up", "dead"}]
      /\ reason' \subseteq Experiments
  BY AttemptEffect
<1>3. Private(e)
  BY <1>1, <1>2 DEF Private, rowVars, IInv, TypeOK
<1>4. TypeOK'
  <2>1. r.at # "none"
    BY <1>1
  <2>2. /\ status' \in [Experiments -> Status] /\ mishaps' \in 0..MaxMishaps
        /\ events' \subseteq Experiments \X {"completed", "failed"} /\ UNCHANGED load
    BY <1>2 DEF IInv, TypeOK, rowVars, wdVars
  <2> QED BY <1>1, <1>2, <1>3, <2>1, <2>2, RunnerType DEF IInv
<1>5. runner'[e] = r
  BY <1>1 DEF IInv, TypeOK
<1>6. RowInv(e)'
  BY <1>1, <1>2, <1>5 DEF IInv, RowInv, RunnerTellsTheRow, LaunchTellsTheRow,
     EventsAreLast, DraftsAreRows, Undecided, Owned, Launching, rowVars, wdVars
<1> QED BY <1>3, <1>4, <1>6, OthersKeep

\* The verdict: a result goes to a row that was running, or killed under it.
LEMMA RecordKeepsIInv ==
  ASSUME IInv, NEW e \in Experiments, Record(e)
  PROVE  IInv'
<1> DEFINE r == [runner[e] EXCEPT !.at = "announce"]
<1>1. /\ r \in [at : Stages, lane : Lanes \cup {"none"}, attempt : 0..MaxIters, out : Outs]
      /\ r.at = "announce" /\ r.lane = runner[e].lane /\ r.out = runner[e].out
      /\ runner' = [runner EXCEPT ![e] = r]
  BY DEF Record, Go, IInv, TypeOK, Stages, Outs
<1>2. Owned(e) /\ Undecided(e) /\ r.out \in {"completed", "failed", "killed"}
      /\ (r.out = "completed" => design[e] # "infeasible")
  BY <1>1 DEF Record, IInv, TypeOK, RowInv, RunnerTellsTheRow, Owned
<1> HIDE DEF r
<1>3. status' \in [Experiments -> Status] /\ \A f \in Experiments \ {e} : status'[f] = status[f]
  BY <1>1, <1>2, KillRowEffect DEF Record, SetStatus, IInv, TypeOK, Status, Ended
<1>4. /\ r.out = "completed" => status'[e] = "completed"
      /\ r.out = "failed" => status'[e] = "failed"
      /\ r.out = "killed" => status'[e] \in {"killed", "failed"}
  <2>1. CASE r.out = "killed"
    BY <1>1, <1>2, <2>1 DEF Record, KillRow, SetStatus, Undecided, IInv, TypeOK
  <2>2. CASE r.out # "killed"
    BY <1>1, <1>2, <2>2 DEF Record, SetStatus, IInv, TypeOK
  <2> QED BY <2>1, <2>2
<1>5. Private(e)
  BY <1>1, <1>3 DEF Private, Record, IInv, TypeOK
<1>6. TypeOK'
  BY <1>1, <1>2, <1>3, <1>5, RunnerType DEF IInv, TypeOK, Record, wdVars
<1>7. runner'[e] = r
  BY <1>1 DEF IInv, TypeOK
<1>8. RowInv(e)'
  BY <1>1, <1>2, <1>4, <1>7 DEF Record, IInv, RowInv, RunnerTellsTheRow, LaunchTellsTheRow,
     EventsAreLast, DraftsAreRows, Undecided, Owned, Launching, wdVars
<1> QED BY <1>5, <1>6, <1>8, OthersKeep

\* The event, after which nothing of this process touches the row.
LEMMA AnnounceKeepsIInv ==
  ASSUME IInv, NEW e \in Experiments, Announce(e)
  PROVE  IInv'
<1>1. Owned(e)
  BY DEF Announce, Owned
<1>2. runner' = [runner EXCEPT ![e] = NoRunner] /\ runner'[e] = NoRunner
  BY DEF Announce, IInv, TypeOK
<1>3. Private(e)
  BY <1>2 DEF Private, Announce, IInv, TypeOK
<1>4. TypeOK'
  <2>1. events' \subseteq Experiments \X {"completed", "failed"}
    BY DEF Announce, Announced, IInv, TypeOK
  <2>2. /\ status' \in [Experiments -> Status] /\ mishaps' \in 0..MaxMishaps
        /\ container' \in [Experiments -> {"none", "up", "dead"}]
        /\ reason' \subseteq Experiments /\ UNCHANGED load
    BY DEF IInv, TypeOK, Announce, wdVars
  <2> QED BY <1>1, <1>2, <1>3, <2>1, <2>2, RunnerType DEF IInv
<1>5. ~Owned(e)' /\ ~Launching(e)'
  BY <1>1, <1>2 DEF IInv, RowInv, LaunchTellsTheRow, Owned, Launching, NoRunner, Announce, wdVars
<1>6. EventsAreLast(e)'
  <2>1. status[e] \in IF Announced(e) = "completed" THEN {"completed"} ELSE {"failed", "killed"}
    BY DEF Announce, Announced, IInv, TypeOK, RowInv, RunnerTellsTheRow
  <2> QED BY <1>1, <1>5, <2>1 DEF EventsAreLast, Announce, IInv, RowInv, Announced
<1>7. RowInv(e)'
  BY <1>2, <1>5, <1>6 DEF Announce, IInv, RowInv, RunnerTellsTheRow, LaunchTellsTheRow,
     DraftsAreRows, Undecided, Owned, Launching, NoRunner
<1> QED BY <1>3, <1>4, <1>7, OthersKeep

\* What a runner raises, and the "runner crashed" it records if it can.
LEMMA RaisesKeepsIInv ==
  ASSUME IInv, NEW e \in Experiments, RunnerRaises(e)
  PROVE  IInv'
<1> DEFINE r == [runner[e] EXCEPT !.at = "crashed"]
<1>1. /\ r \in [at : Stages, lane : Lanes \cup {"none"}, attempt : 0..MaxIters, out : Outs]
      /\ r.at = "crashed" /\ r.lane = runner[e].lane /\ r.out = runner[e].out
      /\ runner' = [runner EXCEPT ![e] = r]
  BY DEF RunnerRaises, Go, IInv, TypeOK, Stages, Outs
<1> HIDE DEF r
<1>2. Owned(e) /\ status[e] \in Ended \cup {"running"}
  BY DEF RunnerRaises, IInv, TypeOK, RowInv, RunnerTellsTheRow, Owned, Undecided, Ended
<1>3. Private(e)
  BY <1>1 DEF Private, RunnerRaises, rowVars, IInv, TypeOK
<1>4. TypeOK'
  <2>1. /\ status' \in [Experiments -> Status] /\ mishaps' \in 0..MaxMishaps
        /\ events' \subseteq Experiments \X {"completed", "failed"}
        /\ container' \in [Experiments -> {"none", "up", "dead"}]
        /\ reason' \subseteq Experiments /\ UNCHANGED load
    BY DEF IInv, TypeOK, RunnerRaises, Mishap, rowVars, wdVars
  <2> QED BY <1>1, <1>2, <1>3, <2>1, RunnerType DEF IInv
<1>5. runner'[e] = r
  BY <1>1 DEF IInv, TypeOK
<1>6. RowInv(e)'
  BY <1>1, <1>2, <1>5 DEF RunnerRaises, IInv, RowInv, RunnerTellsTheRow, LaunchTellsTheRow,
     EventsAreLast, DraftsAreRows, Owned, Launching, rowVars, wdVars
<1> QED BY <1>3, <1>4, <1>6, OthersKeep

LEMMA CrashKeepsIInv ==
  ASSUME IInv, NEW e \in Experiments, Crash(e)
  PROVE  IInv'
<1>1. Owned(e) /\ status[e] \in Ended \cup {"running"}
  BY DEF Crash, IInv, RowInv, RunnerTellsTheRow, Owned
<1>2. runner' = [runner EXCEPT ![e] = NoRunner] /\ runner'[e] = NoRunner
  BY DEF Crash, IInv, TypeOK
<1>3. /\ status' \in [Experiments -> Status] /\ mishaps' \in 0..MaxMishaps
      /\ status'[e] \in {"failed", status[e]}
      /\ \A f \in Experiments \ {e} : status'[f] = status[f]
  BY DEF Crash, SetStatus, Mishap, IInv, TypeOK, Status, Ended
<1>4. Private(e)
  BY <1>2, <1>3 DEF Private, Crash, IInv, TypeOK
<1>5. TypeOK'
  <2>1. /\ events' \subseteq Experiments \X {"completed", "failed"}
        /\ container' \in [Experiments -> {"none", "up", "dead"}]
        /\ reason' \subseteq Experiments /\ UNCHANGED load
    BY DEF IInv, TypeOK, Crash, wdVars
  <2> QED BY <1>1, <1>2, <1>3, <1>4, <2>1, RunnerType DEF IInv
<1>6. RowInv(e)'
  BY <1>1, <1>2, <1>3 DEF Crash, IInv, RowInv, RunnerTellsTheRow, LaunchTellsTheRow,
     EventsAreLast, DraftsAreRows, Owned, Launching, NoRunner, Ended, wdVars
<1> QED BY <1>4, <1>5, <1>6, OthersKeep

\* The process dies: no runner, no launch and no draft is left.
LEMMA DieKeepsIInv ==
  ASSUME IInv, Die
  PROVE  IInv'
<1>1. \A e \in Experiments : runner'[e] = NoRunner /\ ~Owned(e)'
  BY DEF Die, NoRunner, Owned
<1>2. /\ runner' \in [Experiments ->
            [at : Stages, lane : Lanes \cup {"none"}, attempt : 0..MaxIters, out : Outs]]
      /\ container' \in [Experiments -> {"none", "up", "dead"}]
      /\ load' \in [Lanes -> Nat] /\ mishaps' \in 0..MaxMishaps
  <2>1. NoRunner \in [at : Stages, lane : Lanes \cup {"none"}, attempt : 0..MaxIters, out : Outs]
    BY DEF NoRunner, Stages, Outs
  <2>2. load' \in [Lanes -> Nat] /\ mishaps' \in 0..MaxMishaps
    BY DEF Die, Rest, Mishap, IInv, TypeOK
  <2> QED BY <2>1, <2>2 DEF Die
<1>3. TypeOK'
  BY <1>1, <1>2 DEF Die, Rest, rowVars, IInv, TypeOK, NoRunner, Stages, Outs
<1>4. ASSUME NEW e \in Experiments PROVE RowInv(e)'
  BY <1>1, <1>4 DEF Die, Rest, rowVars, IInv, RowInv, RunnerTellsTheRow, LaunchTellsTheRow,
     EventsAreLast, DraftsAreRows, Owned, Launching, NoRunner
<1> QED BY <1>3, <1>4 DEF IInv

LEMMA StutterKeepsIInv ==
  ASSUME IInv, UNCHANGED vars
  PROVE  IInv'
<1>1. TypeOK'
  BY DEF IInv, TypeOK, vars, Owned, Lane
<1> QED BY <1>1, AsideKeepsIInv DEF vars, Aside

LEMMA NextKeepsIInv ==
  ASSUME IInv, [Next]_vars
  PROVE  IInv'
<1>1. CASE UNCHANGED vars BY <1>1, StutterKeepsIInv
<1>2. CASE \/ Boot \/ Tick \/ Remove \/ Kill \/ ReadQueue \/ EndTick \/ TickFails
           \/ \E e \in Experiments :
                Condemn(e) \/ Spare(e) \/ Defer(e) \/ HumanKill(e) \/ Expire(e)
  BY <1>2, WatchdogAsideType, AsideKeepsIInv DEF IInv
<1>3. CASE HumanMark \/ \E e \in Experiments : Orphan(e)
  BY <1>3, KillersKeepIInv
<1>4. CASE Launch BY <1>4, LaunchKeepsIInv
<1>5. CASE Die BY <1>5, DieKeepsIInv
<1>6. ASSUME NEW e \in Experiments, (\E d \in Designs : Queue(e, d)) \/ RejectDraft(e)
      PROVE  IInv'
  BY <1>6, DesignerKeepsIInv
<1>7. ASSUME NEW e \in Experiments, Admit(e) PROVE IInv'
  BY <1>7, AdmitKeepsIInv
<1>8. ASSUME NEW e \in Experiments, Attempt(e) PROVE IInv'
  BY <1>8, AttemptKeepsIInv
<1>9. ASSUME NEW e \in Experiments, Record(e) \/ Announce(e) PROVE IInv'
  BY <1>9, RecordKeepsIInv, AnnounceKeepsIInv
<1>10. ASSUME NEW e \in Experiments, RunnerRaises(e) \/ Crash(e) PROVE IInv'
  BY <1>10, RaisesKeepsIInv, CrashKeepsIInv
<1> QED BY <1>1, <1>2, <1>3, <1>4, <1>5, <1>6, <1>7, <1>8, <1>9, <1>10
       DEF Next, Watchdog, Sweep, Allocate, Runner

\* Every state of the experiments satisfies the invariant.
THEOREM RunInvariant == Spec => []IInv
<1> QED BY InitIInv, NextKeepsIInv, PTL DEF Spec

\* Rows, runners, containers and the watchdog keep their types: no attempt
\* beyond MaxIters, no runner outside its row's lane.
THEOREM Types == Spec => []TypeOK
<1>1. IInv => TypeOK BY DEF IInv
<1> QED BY <1>1, RunInvariant, PTL

\* An announced end is what the row says, and goes on saying it, whoever
\* kills, sweeps or restarts.
THEOREM EventsTell == Spec => []EventTellsTheRow
<1>1. IInv => EventTellsTheRow
  <2> SUFFICES ASSUME IInv PROVE EventTellsTheRow
    OBVIOUS
  <2>1. \A e \in Experiments : EventsAreLast(e)
    BY DEF IInv, RowInv
  <2> QED BY <2>1 DEF EventsAreLast, EventTellsTheRow
<1> QED BY <1>1, RunInvariant, PTL

-----------------------------------------------------------------------------
(* The life of a row *)

Along(e) == status'[e] # status[e] => <<status[e], status'[e]>> \in Edges

LEMMA StatusStep ==
  ASSUME IInv, [Next]_vars
  PROVE  \A e \in Experiments : Along(e)
<1> SUFFICES ASSUME Next PROVE \A e \in Experiments : Along(e)
  BY DEF Along, vars
<1>1. CASE \/ Boot \/ Tick \/ Remove \/ Kill \/ ReadQueue \/ EndTick \/ TickFails
           \/ \E e \in Experiments :
                Condemn(e) \/ Spare(e) \/ Defer(e) \/ HumanKill(e) \/ Expire(e)
  BY <1>1, WatchdogAsideType DEF Aside, Along, IInv
<1>2. CASE HumanMark \/ \E e \in Experiments : Orphan(e)
  <2>1. PICK e \in Experiments : KillRow(e)
    BY <1>2 DEF HumanMark, Orphan, IInv, TypeOK
  <2> QED BY <2>1, KillRowEffect DEF Along, Edges, IInv
<1>3. CASE Launch \/ Die
  BY <1>3 DEF Launch, Die, rowVars, Along
<1>4. ASSUME NEW e \in Experiments, NEW d \in Designs, Queue(e, d)
      PROVE  \A f \in Experiments : Along(f)
  BY <1>4 DEF Queue, SetStatus, Along, Edges, IInv, TypeOK
<1>5. ASSUME NEW e \in Experiments, RejectDraft(e)
      PROVE  \A f \in Experiments : Along(f)
  <2>1. status[e] \in {"queued", "running", "killed", "failed"}
    BY <1>5 DEF RejectDraft, IInv, RowInv, DraftsAreRows, TypeOK, Status, Ended
  <2> QED BY <1>5, <2>1 DEF RejectDraft, SetStatus, Along, Edges, IInv, TypeOK
<1>6. ASSUME NEW e \in Experiments, Admit(e)
      PROVE  \A f \in Experiments : Along(f)
  BY <1>6 DEF Admit, MarkRunning, SetStatus, Along, Edges, IInv, TypeOK
<1>7. ASSUME NEW e \in Experiments, Attempt(e)
      PROVE  \A f \in Experiments : Along(f)
  BY <1>7, AttemptEffect DEF rowVars, Along
<1>8. ASSUME NEW e \in Experiments, Record(e)
      PROVE  \A f \in Experiments : Along(f)
  <2>1. /\ Undecided(e) /\ runner[e].out \in {"completed", "failed", "killed"}
        /\ runner[e].out = "completed" => design[e] # "infeasible"
    BY <1>8 DEF Record, IInv, RowInv, RunnerTellsTheRow, TypeOK, Owned
  <2>2. CASE runner[e].out = "killed"
    BY <1>8, <2>2, KillRowEffect DEF Record, Along, Edges, IInv
  <2>3. CASE runner[e].out # "killed"
    BY <1>8, <2>1, <2>3 DEF Record, SetStatus, Undecided, Along, Edges, IInv, TypeOK
  <2> QED BY <2>2, <2>3
<1>9. ASSUME NEW e \in Experiments, Announce(e) \/ RunnerRaises(e)
      PROVE  \A f \in Experiments : Along(f)
  BY <1>9 DEF Announce, RunnerRaises, rowVars, Along
<1>10. ASSUME NEW e \in Experiments, Crash(e)
       PROVE  \A f \in Experiments : Along(f)
  <2>1. status[e] \in Ended \cup {"running"}
    BY <1>10 DEF Crash, IInv, RowInv, RunnerTellsTheRow
  <2> QED BY <1>10, <2>1 DEF Crash, SetStatus, Along, Edges, Ended, IInv, TypeOK
<1> QED BY <1>1, <1>2, <1>3, <1>4, <1>5, <1>6, <1>7, <1>8, <1>9, <1>10
       DEF Next, Watchdog, Sweep, Allocate, Runner

\* A row never runs twice, is never revived, and an end changes only as a
\* runner's verdict over a kill, or to "runner crashed".
THEOREM RowLife == Spec => RowLifeKept
<1>1. IInv /\ [Next]_vars => [\A e \in Experiments :
        status'[e] # status[e] => <<status[e], status'[e]>> \in Edges]_vars
  BY StatusStep DEF Along
<1> QED BY <1>1, RunInvariant, PTL DEF Spec, RowLifeKept

-----------------------------------------------------------------------------
(* The lanes.  allocate counts the runs once; afterwards runs only end, and *)
(* each launch is counted, so that its count is never too low.              *)

LaneCounted(l) ==
  /\ Cardinality(InLane(l)) =< Cap[l]
  /\ wd \in {"allocate", "launch"} => Cardinality(InLane(l)) =< load[l]
  /\ wd = "launch" /\ l = Lane(target) => load[l] < Cap[l]

Counted == \A l \in Lanes : LaneCounted(l)

\* Runs end, and the watchdog's count and its launch stand.
RunsOnlyEnd ==
  /\ \A e \in Experiments : runner'[e].lane \in {runner[e].lane, "none"}
  /\ wd' \in {"allocate", "launch"} => wd \in {"allocate", "launch"} /\ load' = load
  /\ wd' = "launch" => wd = "launch" /\ Lane(target)' = Lane(target)

LEMMA CapType == \A l \in Lanes : Cap[l] \in Nat
BY DEF Cap

LEMMA EndsKeepCounted ==
  ASSUME TypeOK, Counted, RunsOnlyEnd
  PROVE  Counted'
<1> SUFFICES ASSUME NEW l \in Lanes PROVE LaneCounted(l)'
  BY DEF Counted
<1>1. InLane(l)' \subseteq InLane(l)
  BY DEF InLane, RunsOnlyEnd, Lanes
<1>2. Cardinality(InLane(l)') =< Cardinality(InLane(l))
  BY <1>1, LaneCount, FS_Subset
<1>3. Cardinality(InLane(l)') \in Nat
  BY <1>1, LaneCount, FS_Subset, FS_CardinalityType
<1>4. Cap[l] \in Nat /\ load[l] \in Nat /\ Cap[l]' = Cap[l]
  BY CapType DEF TypeOK, Cap
<1> QED BY <1>2, <1>3, <1>4, LaneCount DEF Counted, LaneCounted, RunsOnlyEnd

LEMMA StepsOnlyEnd ==
  ASSUME IInv, [Next]_vars,
         ~ReadQueue, ~Launch, \A e \in Experiments : ~Admit(e)
  PROVE  RunsOnlyEnd
<1>1. CASE UNCHANGED vars
  BY <1>1 DEF vars, RunsOnlyEnd, Lane
<1>2. CASE Boot \/ Tick \/ Remove \/ Kill
  BY <1>2 DEF Boot, Tick, Remove, Kill, RunsOnlyEnd
<1>3. CASE EndTick \/ TickFails
  BY <1>3 DEF EndTick, TickFails, Rest, RunsOnlyEnd
<1>4. ASSUME NEW e \in Experiments, Orphan(e) \/ Condemn(e) \/ Spare(e)
      PROVE  RunsOnlyEnd
  BY <1>4 DEF Orphan, Condemn, Spare, RunsOnlyEnd
<1>5. ASSUME NEW e \in Experiments, Defer(e) \/ Expire(e) \/ HumanKill(e)
      PROVE  RunsOnlyEnd
  BY <1>5 DEF Defer, Expire, HumanKill, RunsOnlyEnd, rowVars, wdVars, Lane
<1>6. CASE HumanMark
  BY <1>6 DEF HumanMark, RunsOnlyEnd, wdVars, Lane
<1>7. CASE Die
  BY <1>7 DEF Die, Rest, NoRunner, RunsOnlyEnd
<1>8. ASSUME NEW e \in Experiments, NEW d \in Designs, Queue(e, d)
      PROVE  RunsOnlyEnd
  <2>1. ~Launching(e)
    BY <1>8 DEF Queue, IInv, RowInv, LaunchTellsTheRow, Undecided
  <2> QED BY <1>8, <2>1 DEF Queue, Launching, RunsOnlyEnd, wdVars, Lane, IInv, TypeOK
<1>9. ASSUME NEW e \in Experiments, RejectDraft(e)
      PROVE  RunsOnlyEnd
  BY <1>9 DEF RejectDraft, RunsOnlyEnd, wdVars, Lane
<1>10. ASSUME NEW e \in Experiments, Attempt(e)
       PROVE  RunsOnlyEnd
  BY <1>10, AttemptEffect DEF RunsOnlyEnd, rowVars, wdVars, Lane, IInv, TypeOK
<1>11. ASSUME NEW e \in Experiments, Record(e) \/ RunnerRaises(e)
       PROVE  RunsOnlyEnd
  BY <1>11 DEF Record, RunnerRaises, Go, RunsOnlyEnd, rowVars, wdVars, Lane, IInv, TypeOK
<1>12. ASSUME NEW e \in Experiments, Announce(e) \/ Crash(e)
       PROVE  RunsOnlyEnd
  BY <1>12 DEF Announce, Crash, NoRunner, RunsOnlyEnd, wdVars, Lane, IInv, TypeOK
<1> QED BY <1>1, <1>2, <1>3, <1>4, <1>5, <1>6, <1>7, <1>8, <1>9, <1>10, <1>11, <1>12
       DEF Next, Watchdog, Sweep, Allocate, Runner

LEMMA CountingKeepsCounted ==
  ASSUME IInv, Counted, ReadQueue \/ \E e \in Experiments : Admit(e)
  PROVE  Counted'
<1> SUFFICES ASSUME NEW l \in Lanes PROVE LaneCounted(l)'
  BY DEF Counted
<1>1. InLane(l)' = InLane(l) /\ Cap[l]' = Cap[l]
  BY DEF ReadQueue, Admit, InLane, Cap
<1>2. CASE ReadQueue
  BY <1>1, <1>2, LaneCount DEF ReadQueue, Counted, LaneCounted
<1>3. ASSUME NEW e \in Experiments, Admit(e) PROVE LaneCounted(l)'
  <2>1. load' = load /\ (wd' = "launch" => Lane(target)' = Lane(e)) /\ load[Lane(e)] < Cap[Lane(e)]
    BY <1>3 DEF Admit, MarkRunning, Lane
  <2>2. wd = "allocate"
    BY <1>3 DEF Admit
  <2> QED BY <1>1, <2>1, <2>2 DEF Counted, LaneCounted
<1> QED BY <1>2, <1>3

LEMMA LaunchKeepsCounted ==
  ASSUME IInv, Counted, Launch
  PROVE  Counted'
<1> SUFFICES ASSUME NEW l \in Lanes PROVE LaneCounted(l)'
  BY DEF Counted
<1>1. target \in Experiments /\ wd = "launch" /\ wd' = "allocate" /\ Cap[l]' = Cap[l]
  BY DEF Launch, IInv, TypeOK, Cap
<1>2. runner' = [runner EXCEPT ![target] = Started(target)] /\ Lane(target) \in Lanes
  BY DEF Launch, Lane, Lanes
<1>3. CASE l = Lane(target)
  <2>1. InLane(l)' \subseteq InLane(l) \cup {target}
    BY <1>1, <1>2 DEF InLane, IInv, TypeOK
  <2>2. /\ IsFiniteSet(InLane(l) \cup {target})
        /\ Cardinality(InLane(l) \cup {target}) =< Cardinality(InLane(l)) + 1
    <3>1. IsFiniteSet(InLane(l)) /\ Cardinality(InLane(l)) \in Nat
      BY LaneCount
    <3>2. /\ IsFiniteSet(InLane(l) \cup {target})
          /\ Cardinality(InLane(l) \cup {target})
               = IF target \in InLane(l) THEN Cardinality(InLane(l)) ELSE Cardinality(InLane(l)) + 1
      BY <3>1, FS_AddElement
    <3> QED BY <3>1, <3>2
  <2>3. Cardinality(InLane(l)') =< Cardinality(InLane(l)) + 1 /\ Cardinality(InLane(l)') \in Nat
    BY <2>1, <2>2, LaneCount, FS_Subset, FS_CardinalityType
  <2>4. load'[l] = load[l] + 1 /\ load[l] \in Nat
    BY <1>3 DEF Launch, IInv, TypeOK
  <2>5. load[l] < Cap[l] /\ Cardinality(InLane(l)) =< load[l]
    BY <1>1, <1>3 DEF Counted, LaneCounted
  <2> QED BY <1>1, <2>3, <2>4, <2>5, LaneCount, CapType DEF LaneCounted
<1>4. CASE l # Lane(target)
  <2>1. InLane(l)' = InLane(l)
    <3>1. runner[target].lane # l
      BY <1>1 DEF Launch, IInv, TypeOK, RowInv, LaunchTellsTheRow, Launching, Lanes
    <3>2. runner'[target].lane # l
      BY <1>1, <1>2, <1>4 DEF Started, IInv, TypeOK
    <3> QED BY <1>2, <3>1, <3>2 DEF InLane, IInv, TypeOK
  <2>2. load'[l] = load[l]
    BY <1>4 DEF Launch, IInv, TypeOK
  <2> QED BY <1>1, <2>1, <2>2 DEF Counted, LaneCounted
<1> QED BY <1>3, <1>4

\* MAX_CPU and MAX_GPU hold at every moment of every run.
THEOREM LaneBounds == Spec => []LanesBounded
<1>1. Init => Counted
  <2> SUFFICES ASSUME Init, NEW l \in Lanes PROVE LaneCounted(l)
    BY DEF Counted
  <2>1. InLane(l) = {}
    BY DEF Init, NoRunner, InLane, Lanes
  <2>2. Cardinality(InLane(l)) = 0
    BY <2>1, FS_EmptySet
  <2> QED BY <2>2, CapType DEF LaneCounted, Init
<1>2. IInv /\ Counted /\ [Next]_vars => Counted'
  <2> SUFFICES ASSUME IInv, Counted, [Next]_vars PROVE Counted'
    OBVIOUS
  <2>1. CASE ReadQueue \/ \E e \in Experiments : Admit(e)
    BY <2>1, CountingKeepsCounted
  <2>2. CASE Launch BY <2>2, LaunchKeepsCounted
  <2>3. CASE ~ReadQueue /\ ~Launch /\ \A e \in Experiments : ~Admit(e)
    BY <2>3, StepsOnlyEnd, EndsKeepCounted DEF IInv
  <2> QED BY <2>1, <2>2, <2>3
<1>3. Counted => LanesBounded
  BY DEF Counted, LaneCounted, LanesBounded
<1> QED BY <1>1, <1>2, <1>3, RunInvariant, PTL DEF Spec
-----------------------------------------------------------------------------
(* What becomes of an ended run: the spine of its direction.  Sp is Spine,  *)
(* for any values of its constants that fit SpineAssumption, with names of  *)
(* its own for the status of the direction, the mishaps and their bound.    *)
CONSTANTS Engine, Runs, MinRuns, ResynthStep, ReadLimit, RearmCap, Supports, Confidences,
          RequireReal, MaxCalls, MaxFaults
VARIABLES run, noted, moved, standing, findings, attacked, pending, keys, calls, faults

Sp == INSTANCE Spine WITH status <- standing, mishaps <- faults, MaxMishaps <- MaxFaults

Ends == {"experiment.completed", "experiment.failed"}
EndsOf(x) == {e \in pending : e.type \in Ends /\ e.about = x}

\* The calls that are still to move the confidence for run x.
Moving(x) == {c \in calls : c.event.about = x /\ c.at \in {"mark", "move"}}

\* One more such call comes without a mishap: on the event of x that nobody
\* works on, or on the one that the end of the run, or the re-arm, will emit.
Fresh(x) == \/ \E e \in EndsOf(x) : Sp!CallsOn(e) = {}
            \/ x \notin noted /\ EndsOf(x) = {}
Owed(x) == IF Fresh(x) THEN 1 ELSE 0

SpineTyped ==
  /\ run \in [Runs -> {"open", "completed", "empty", "failed"}]
  /\ noted \subseteq {x \in Runs : run[x] # "open"}
  /\ moved \in [Runs -> Nat] /\ faults \in Nat
  /\ IsFiniteSet(calls)
  /\ findings \in Seq([n : 0..Cardinality(Runs), confidence : Confidences,
                       audit : {"none", "pass", "unclear"}])

\* A synthesis rests on more than every finding that was there when it looked.
SawAll(c) ==
  c.at = "persist" =>
    /\ c.saw.n \in 0..Cardinality(Runs) /\ c.saw.since \in 0..Len(findings)
    /\ \A g \in 1..c.saw.since : findings[g].n < c.saw.n

CallFits(c) ==
  /\ c = Sp!Call(c.event, c.at, c.saw, c.take)
  /\ c.event.type # "experiment.failed"
  /\ (c.at \in {"mark", "move", "trigger"}) <=> (c.event.type = "experiment.completed")
  /\ c.event.type = "experiment.completed" =>
       c.event.about \in Runs /\ run[c.event.about] = "completed"
  /\ c.at \in {"move", "trigger"} => c.event.about \in noted
  /\ SawAll(c)

\* The event of a run is of an ended one, and one at a time.
EventsFit ==
  /\ \A e \in pending : e.type \in Ends => e.about \in Runs /\ run[e.about] # "open"
  /\ \A d, e \in pending :
       d.type \in Ends /\ e.type \in Ends /\ d.about = e.about => d = e

CountedFor(x) == moved[x] + Cardinality(Moving(x)) + Owed(x) =< 1 + faults

SpineInv == /\ SpineTyped /\ EventsFit /\ (\A c \in calls : CallFits(c))
            /\ \A x \in Runs : CountedFor(x)

-----------------------------------------------------------------------------
\* The largest of a bounded set of naturals is one of them and an upper bound.
LEMMA MaxOf ==
  ASSUME NEW S, S \subseteq Nat, S # {}, NEW B \in Nat, \A x \in S : x =< B
  PROVE  Sp!Max(S) \in S /\ \A y \in S : y =< Sp!Max(S)
<1> DEFINE T == {n \in 0..B : B - n \in S}
<1>1. T \subseteq Nat /\ T # {}
  <2>1. PICK x \in S : x =< B
    OBVIOUS
  <2>2. B - x \in 0..B /\ B - (B - x) = x
    BY <2>1
  <2>3. B - x \in T
    BY <2>1, <2>2
  <2>4. T \subseteq Nat
    OBVIOUS
  <2> HIDE DEF T
  <2> QED BY <2>3, <2>4
<1>2. PICK m \in T : \A k \in T : ~(<<k, m>> \in OpToRel(<, Nat))
  <2> HIDE DEF T
  <2> QED BY <1>1, WFMin, NatLessThanWellFounded
<1>3. \A k \in T : ~(k < m)
  BY <1>1, <1>2 DEF OpToRel
<1>4. ASSUME NEW y \in S PROVE y =< B - m
  <2>1. CASE y > B - m
    <3>1. B - y \in 0..B /\ B - (B - y) = y /\ B - y < m
      BY <2>1
    <3> QED BY <1>3, <3>1
  <2> QED BY <2>1
<1>5. B - m \in S
  OBVIOUS
<1> HIDE DEF T
<1>6. \E x \in S : \A y \in S : x >= y
  BY <1>4, <1>5
<1> QED BY <1>6 DEF Sp!Max

LEMMA MinOfPair ==
  ASSUME NEW a \in Nat, NEW b \in Nat
  PROVE  Sp!Min({a, b}) \in {a, b} /\ Sp!Min({a, b}) =< a /\ Sp!Min({a, b}) =< b
<1>1. \E x \in {a, b} : \A y \in {a, b} : x =< y
  <2>1. CASE a =< b
    BY <2>1
  <2>2. CASE b < a
    BY <2>2
  <2> QED BY <2>1, <2>2
<1> QED BY <1>1 DEF Sp!Min

\* The cardinality that Spine counts with is the cardinality.
LEMMA SameCounting ==
  ASSUME NEW S
  PROVE  Sp!Cardinality(S) = Cardinality(S) /\ (Sp!IsFiniteSet(S) <=> IsFiniteSet(S))
<1>1. Sp!Cardinality(S) = Cardinality(S)
  BY DEF Cardinality, Sp!Cardinality
<1>2. Sp!IsFiniteSet(S) <=> IsFiniteSet(S)
  BY DEF IsFiniteSet, Sp!IsFiniteSet
<1> QED BY <1>1, <1>2

LEMMA RunsCounted ==
  ASSUME Sp!SpineAssumption
  PROVE  IsFiniteSet(Runs) /\ Cardinality(Runs) \in Nat /\ ReadLimit \in Nat
<1>1. Sp!IsFiniteSet(Runs) /\ ReadLimit \in Nat
  BY DEF Sp!SpineAssumption
<1> QED BY <1>1, SameCounting, FS_CardinalityType

\* What a synthesis reads: no more than the runs there are.
LEMMA EvidenceBounds ==
  ASSUME Sp!SpineAssumption
  PROVE  /\ IsFiniteSet(Sp!Completed) /\ Sp!Evidence \in 0..Cardinality(Runs)
         /\ Sp!ReadBack \in 0..Cardinality(Runs)
<1>1. Sp!Completed \subseteq Runs /\ IsFiniteSet(Runs)
  BY RunsCounted DEF Sp!Completed
<1>2. /\ IsFiniteSet(Sp!Completed) /\ Cardinality(Sp!Completed) =< Cardinality(Runs)
      /\ Cardinality(Sp!Completed) \in Nat /\ Cardinality(Runs) \in Nat
  BY <1>1, FS_Subset, FS_CardinalityType
<1>3. Sp!Evidence = Cardinality(Sp!Completed) /\ ReadLimit \in Nat
  BY SameCounting, RunsCounted DEF Sp!Evidence
<1>4. Sp!ReadBack \in {Sp!Evidence, ReadLimit} /\ Sp!ReadBack =< Sp!Evidence
  BY <1>2, <1>3, MinOfPair DEF Sp!ReadBack
<1> QED BY <1>2, <1>3, <1>4

\* Synthesized is at least what any finding rests on.
LEMMA SynthesizedBound ==
  ASSUME Sp!SpineAssumption, SpineTyped, NEW g \in 1..Len(findings)
  PROVE  Sp!Synthesized \in Nat /\ findings[g].n \in Nat /\ findings[g].n =< Sp!Synthesized
<1> DEFINE S == {findings[f].n : f \in DOMAIN findings} \cup {0}
<1>1. Cardinality(Runs) \in Nat
  BY RunsCounted
<1>2. \A f \in DOMAIN findings : findings[f].n \in 0..Cardinality(Runs)
  <2> DEFINE R == [n : 0..Cardinality(Runs), confidence : Confidences,
                   audit : {"none", "pass", "unclear"}]
  <2>1. findings \in Seq(R)
    BY DEF SpineTyped
  <2>2. \A r \in R : r.n \in 0..Cardinality(Runs)
    OBVIOUS
  <2> HIDE DEF S, R
  <2>3. \A f \in DOMAIN findings : findings[f] \in R
    BY <2>1
  <2> QED BY <2>2, <2>3
<1>3. S \subseteq Nat /\ S # {} /\ \A x \in S : x =< Cardinality(Runs)
  BY <1>1, <1>2
<1>4. g \in DOMAIN findings /\ findings[g].n \in S
  <2>1. findings \in Seq([n : 0..Cardinality(Runs), confidence : Confidences,
                           audit : {"none", "pass", "unclear"}])
    BY DEF SpineTyped
  <2>2. g \in DOMAIN findings
    BY <2>1
  <2> QED BY <2>2
<1> HIDE DEF S
<1>5. Sp!Max(S) \in S /\ \A y \in S : y =< Sp!Max(S)
  BY <1>1, <1>3, MaxOf
<1>6. Sp!Synthesized = Sp!Max(S)
  BY DEF Sp!Synthesized, S
<1> QED BY <1>3, <1>4, <1>5, <1>6
-----------------------------------------------------------------------------
(* What no step takes back: a run that ended has ended, what is noted stays *)
(* noted, and a finding rests on what it rested on.                         *)
Grows ==
  /\ \A x \in Runs : run[x] # "open" => run'[x] = run[x]
  /\ noted \subseteq noted'
  /\ Len(findings) \in Nat /\ Len(findings') \in Nat /\ Len(findings) =< Len(findings')
  /\ \A g \in 1..Len(findings) : findings'[g].n = findings[g].n

LEMMA FitsKept == ASSUME Grows, NEW c, CallFits(c) PROVE CallFits(c)'
<1> USE DEF CallFits
<1>1. c.event.type = "experiment.completed" =>
        c.event.about \in Runs /\ run'[c.event.about] = "completed"
  BY DEF Grows
<1>2. c.at \in {"move", "trigger"} => c.event.about \in noted'
  BY DEF Grows
<1>3. SawAll(c)'
  <2> SUFFICES ASSUME c.at = "persist"
               PROVE  /\ c.saw.n \in 0..Cardinality(Runs) /\ c.saw.since \in 0..Len(findings')
                      /\ \A g \in 1..c.saw.since : findings'[g].n < c.saw.n
    BY DEF SawAll
  <2>1. /\ c.saw.n \in 0..Cardinality(Runs) /\ c.saw.since \in 0..Len(findings)
        /\ \A g \in 1..c.saw.since : findings[g].n < c.saw.n
    BY DEF SawAll
  <2>2. \A g \in 1..c.saw.since : g \in 1..Len(findings)
    BY <2>1 DEF Grows
  <2> QED BY <2>1, <2>2 DEF Grows
<1>4. c = Sp!Call(c.event, c.at, c.saw, c.take) => (c = Sp!Call(c.event, c.at, c.saw, c.take))'
  BY DEF Sp!Call
<1> QED BY <1>1, <1>2, <1>3, <1>4

\* A step that adds at most one call, which fits, keeps the calls fitting.
LEMMA CallsFit ==
  ASSUME Grows, \A c \in calls : CallFits(c), NEW K, calls' \subseteq calls \cup K,
         \A k \in K : CallFits(k)'
  PROVE  \A c \in calls' : CallFits(c)'
BY FitsKept

LEMMA CallFields ==
  ASSUME NEW e, NEW a, NEW s, NEW t
  PROVE  /\ Sp!Call(e, a, s, t).event = e /\ Sp!Call(e, a, s, t).at = a
         /\ Sp!Call(e, a, s, t).saw = s /\ Sp!Call(e, a, s, t).take = t
         /\ Sp!Call(e, a, s, t) = Sp!Call(Sp!Call(e, a, s, t).event, Sp!Call(e, a, s, t).at,
                                    Sp!Call(e, a, s, t).saw, Sp!Call(e, a, s, t).take)
BY DEF Sp!Call

\* A step of a call: the same event, taken up at the same time.
LEMMA StepOfCall ==
  ASSUME NEW c, c = Sp!Call(c.event, c.at, c.saw, c.take), NEW a, NEW s
  PROVE  [c EXCEPT !.at = a, !.saw = s] = Sp!Call(c.event, a, s, c.take)
<1> DEFINE e == c.event  b == c.at  w == c.saw  t == c.take
<1>1. c = [event |-> e, at |-> b, saw |-> w, take |-> t]
  BY DEF Sp!Call
<1> HIDE DEF e, b, w, t
<1> DEFINE r == [event |-> e, at |-> a, saw |-> w, take |-> t]
<1>2. [c EXCEPT !.at = a] = r
  BY <1>1
<1>3. [r EXCEPT !.saw = s] = [event |-> e, at |-> a, saw |-> s, take |-> t]
  OBVIOUS
<1>4. [c EXCEPT !.at = a, !.saw = s] = [[c EXCEPT !.at = a] EXCEPT !.saw = s]
  BY Zenon
<1> HIDE DEF r
<1> QED BY <1>2, <1>3, <1>4 DEF Sp!Call, e, t

-----------------------------------------------------------------------------
\* The calls about to move the confidence can be counted.
LEMMA MovingCount ==
  ASSUME IsFiniteSet(calls), NEW x
  PROVE  IsFiniteSet(Moving(x)) /\ Cardinality(Moving(x)) \in Nat
<1>1. Moving(x) \subseteq calls
  BY DEF Moving
<1> QED BY <1>1, FS_Subset, FS_CardinalityType

LEMMA OwedAtMostOne == ASSUME NEW x PROVE Owed(x) \in 0..1 /\ (Fresh(x) <=> Owed(x) = 1)
BY DEF Owed

(* The count of a run is kept by a step that adds no call and owes no more; *)
(* by a mishap that adds none; by a call that a fresh event, or a mishap,   *)
(* pays for; by a move that a call pays for.                                *)
LEMMA CountCalm ==
  ASSUME SpineTyped, SpineTyped', NEW x \in Runs, CountedFor(x), Moving(x)' \subseteq Moving(x),
         moved'[x] = moved[x], faults =< faults', Fresh(x)' => Fresh(x)
  PROVE  CountedFor(x)'
<1>1. Cardinality(Moving(x)') =< Cardinality(Moving(x))
  BY MovingCount, FS_Subset DEF SpineTyped
<1>2. Cardinality(Moving(x)) \in Nat /\ Cardinality(Moving(x)') \in Nat
  BY MovingCount, FS_Subset, FS_CardinalityType DEF SpineTyped
<1>3. Owed(x) \in 0..1 /\ Owed(x)' \in 0..1 /\ Owed(x)' =< Owed(x)
  BY DEF Owed
<1>4. moved[x] \in Nat /\ faults \in Nat /\ faults' \in Nat
  BY DEF SpineTyped
<1> QED BY <1>1, <1>2, <1>3, <1>4 DEF CountedFor

LEMMA CountMishap ==
  ASSUME SpineTyped, SpineTyped', NEW x \in Runs, CountedFor(x), Moving(x)' \subseteq Moving(x),
         moved'[x] = moved[x], faults' = faults + 1
  PROVE  CountedFor(x)'
<1>1. Cardinality(Moving(x)') =< Cardinality(Moving(x))
  BY MovingCount, FS_Subset DEF SpineTyped
<1>2. Cardinality(Moving(x)) \in Nat /\ Cardinality(Moving(x)') \in Nat
  BY MovingCount, FS_Subset, FS_CardinalityType DEF SpineTyped
<1>3. Owed(x) \in 0..1 /\ Owed(x)' \in 0..1
  BY DEF Owed
<1>4. moved[x] \in Nat /\ faults \in Nat
  BY DEF SpineTyped
<1> QED BY <1>1, <1>2, <1>3, <1>4 DEF CountedFor

LEMMA CountTaken ==
  ASSUME SpineTyped, SpineTyped', NEW x \in Runs, CountedFor(x), NEW k, Moving(x)' \subseteq Moving(x) \cup {k},
         moved'[x] = moved[x],
         \/ Fresh(x) /\ ~Fresh(x)' /\ faults' = faults
         \/ (Fresh(x)' => Fresh(x)) /\ faults' = faults + 1
  PROVE  CountedFor(x)'
<1>0. IsFiniteSet(Moving(x)) /\ Cardinality(Moving(x)) \in Nat
  BY MovingCount DEF SpineTyped
<1>1. /\ IsFiniteSet(Moving(x) \cup {k})
      /\ Cardinality(Moving(x) \cup {k}) =< Cardinality(Moving(x)) + 1
      /\ Cardinality(Moving(x) \cup {k}) \in Nat
  <2>1. /\ IsFiniteSet(Moving(x) \cup {k})
        /\ Cardinality(Moving(x) \cup {k}) \in {Cardinality(Moving(x)), Cardinality(Moving(x)) + 1}
    BY <1>0, FS_AddElement
  <2> QED BY <1>0, <2>1
<1>2. /\ Cardinality(Moving(x)') =< Cardinality(Moving(x)) + 1
      /\ Cardinality(Moving(x)') \in Nat
  <2>1. IsFiniteSet(Moving(x)') /\ Cardinality(Moving(x)') =< Cardinality(Moving(x) \cup {k})
    BY <1>1, FS_Subset
  <2> QED BY <1>0, <1>1, <2>1, FS_CardinalityType
<1>3. /\ Owed(x) \in 0..1 /\ Owed(x)' \in 0..1
      /\ \/ Owed(x) = 1 /\ Owed(x)' = 0 /\ faults' = faults
         \/ Owed(x)' =< Owed(x) /\ faults' = faults + 1
  BY DEF Owed
<1>4. moved[x] \in Nat /\ faults \in Nat
  BY DEF SpineTyped
<1> QED BY <1>0, <1>2, <1>3, <1>4 DEF CountedFor

LEMMA CountSwapped ==
  ASSUME SpineTyped, SpineTyped', NEW x \in Runs, CountedFor(x), NEW c \in Moving(x), NEW K,
         \/ K = {} /\ moved'[x] \in {moved[x], moved[x] + 1}
         \/ (\E k : K = {k}) /\ moved'[x] = moved[x],
         Moving(x)' \subseteq (Moving(x) \ {c}) \cup K,
         faults =< faults', Fresh(x)' => Fresh(x)
  PROVE  CountedFor(x)'
<1>0. IsFiniteSet(Moving(x)) /\ Cardinality(Moving(x)) \in Nat
  BY MovingCount DEF SpineTyped
<1>1. /\ IsFiniteSet(Moving(x) \ {c}) /\ Cardinality(Moving(x) \ {c}) = Cardinality(Moving(x)) - 1
      /\ Cardinality(Moving(x) \ {c}) \in Nat
  BY <1>0, FS_RemoveElement, FS_CardinalityType
<1>2. Cardinality(Moving(x)') \in Nat
  <2>1. Moving(x)' \subseteq calls' /\ IsFiniteSet(calls')
    BY DEF Moving, SpineTyped
  <2> QED BY <2>1, FS_Subset, FS_CardinalityType
<1>3. Owed(x) \in 0..1 /\ Owed(x)' \in 0..1 /\ Owed(x)' =< Owed(x)
  BY DEF Owed
<1>4. moved[x] \in Nat /\ faults \in Nat /\ faults' \in Nat
  BY DEF SpineTyped
<1>5. CASE K = {} /\ moved'[x] \in {moved[x], moved[x] + 1}
  <2>1. Cardinality(Moving(x)') =< Cardinality(Moving(x)) - 1
    BY <1>1, <1>5, FS_Subset
  <2> QED BY <1>0, <1>2, <1>3, <1>4, <1>5, <2>1 DEF CountedFor
<1>6. CASE (\E k : K = {k}) /\ moved'[x] = moved[x]
  <2>1. PICK k : K = {k}
    BY <1>6
  <2>2. /\ IsFiniteSet((Moving(x) \ {c}) \cup {k})
        /\ Cardinality((Moving(x) \ {c}) \cup {k}) =< Cardinality(Moving(x))
        /\ Cardinality((Moving(x) \ {c}) \cup {k}) \in Nat
    <3>1. /\ IsFiniteSet((Moving(x) \ {c}) \cup {k})
          /\ Cardinality((Moving(x) \ {c}) \cup {k})
               \in {Cardinality(Moving(x) \ {c}), Cardinality(Moving(x) \ {c}) + 1}
      BY <1>1, FS_AddElement
    <3> QED BY <1>0, <1>1, <3>1
  <2>3. Cardinality(Moving(x)') =< Cardinality((Moving(x) \ {c}) \cup {k})
    BY <2>1, <2>2, FS_Subset
  <2>4. Cardinality(Moving(x)') =< Cardinality(Moving(x))
    BY <1>0, <1>2, <2>2, <2>3
  <2> QED BY <1>0, <1>2, <1>3, <1>4, <1>6, <2>4 DEF CountedFor
<1> QED BY <1>5, <1>6
-----------------------------------------------------------------------------
LEMMA FindingsStay ==
  ASSUME SpineTyped, UNCHANGED findings, noted \subseteq noted',
         \A x \in Runs : run[x] # "open" => run'[x] = run[x]
  PROVE  Grows
<1>1. Len(findings) \in Nat
  BY DEF SpineTyped
<1> QED BY <1>1 DEF Grows

(* A step of another link: of the ended runs nothing is emitted, taken up   *)
(* or settled.                                                              *)
LEMMA Elsewhere ==
  ASSUME SpineInv, SpineTyped', Grows, UNCHANGED <<run, noted, moved>>, faults =< faults',
         \A e \in pending \cup pending' : e.type \in Ends => (e \in pending <=> e \in pending'),
         NEW K, calls' \subseteq calls \cup K,
         \A k \in K : CallFits(k)' /\ k.event.type \notin Ends,
         \A c \in calls : c.event.type \in Ends => c \in calls'
  PROVE  SpineInv'
<1>1. \A c \in calls' : CallFits(c)'
  BY CallsFit DEF SpineInv
<1>2. EventsFit'
  BY DEF EventsFit, SpineInv
<1>3. ASSUME NEW x \in Runs PROVE CountedFor(x)'
  <2>1. EndsOf(x)' = EndsOf(x)
    BY DEF EndsOf
  <2>2. \A e \in EndsOf(x) : Sp!CallsOn(e)' = {} => Sp!CallsOn(e) = {}
    BY DEF EndsOf, Sp!CallsOn
  <2>3. Fresh(x)' => Fresh(x)
    BY <2>1, <2>2 DEF Fresh
  <2>4. Moving(x)' \subseteq Moving(x)
    <3> SUFFICES ASSUME NEW c \in calls', c.event.about = x, c.at \in {"mark", "move"}
                 PROVE  c \in calls
      BY DEF Moving
    <3>1. c.event.type = "experiment.completed"
      BY <1>1 DEF CallFits
    <3> QED BY <3>1 DEF Ends
  <2> QED BY <2>3, <2>4, CountCalm DEF SpineInv
<1> QED BY <1>1, <1>2, <1>3 DEF SpineInv

\* A mishap only takes away.
LEMMA MishapKeeps ==
  ASSUME SpineInv, UNCHANGED <<run, noted, moved, findings>>, Sp!Mishap,
         pending' \subseteq pending, calls' \subseteq calls
  PROVE  SpineInv'
<1>1. SpineTyped'
  BY FS_Subset DEF SpineInv, SpineTyped, Sp!Mishap
<1>2. Grows
  BY FindingsStay DEF SpineInv
<1>3. \A c \in calls' : CallFits(c)'
  BY <1>2, FitsKept DEF SpineInv
<1>4. EventsFit'
  BY DEF EventsFit, SpineInv
<1>5. ASSUME NEW x \in Runs PROVE CountedFor(x)'
  <2>1. Moving(x)' \subseteq Moving(x)
    BY DEF Moving
  <2> QED BY <1>1, <2>1, CountMishap DEF SpineInv, Sp!Mishap
<1> QED BY <1>1, <1>3, <1>4, <1>5 DEF SpineInv

-----------------------------------------------------------------------------
LEMMA EventFields ==
  ASSUME NEW t, NEW a, NEW k
  PROVE  Sp!Event(t, a, k).type = t /\ Sp!Event(t, a, k).about = a /\ Sp!Event(t, a, k).key = k
BY DEF Sp!Event

\* A run that ends is owed one interpretation, whether or not its event is lost.
LEMMA EndRunKeeps == ASSUME SpineInv, NEW y \in Runs, Sp!EndRun(y) PROVE SpineInv'
<1> USE DEF SpineInv
<1>1. /\ run[y] = "open" /\ UNCHANGED <<noted, moved, standing, findings, attacked, calls>>
      /\ run \in [Runs -> {"open", "completed", "empty", "failed"}]
  BY DEF Sp!EndRun, SpineTyped
<1>2. PICK end \in {"completed", "empty", "failed"} : run' = [run EXCEPT ![y] = end]
  BY DEF Sp!EndRun
<1>3. /\ run' \in [Runs -> {"open", "completed", "empty", "failed"}]
      /\ run'[y] # "open" /\ \A x \in Runs : x # y => run'[x] = run[x]
  BY <1>1, <1>2
<1>4. faults' \in Nat /\ faults =< faults'
  BY DEF Sp!EndRun, Sp!Mishap, SpineTyped
<1>5. SpineTyped'
  <2>1. noted' \subseteq {x \in Runs : run'[x] # "open"}
    BY <1>1, <1>3 DEF SpineTyped
  <2> QED BY <1>1, <1>3, <1>4, <2>1 DEF SpineTyped
<1>6. Grows
  BY <1>1, <1>3, FindingsStay
<1>7. \A c \in calls' : CallFits(c)'
  BY <1>1, <1>6, FitsKept
<1>8. y \notin noted /\ EndsOf(y) = {}
  BY <1>1 DEF SpineTyped, EventsFit, EndsOf
<1>9. PICK e : /\ e.type \in Ends /\ e.about = y
               /\ pending' \subseteq pending \cup {e} /\ pending \subseteq pending'
  <2>1. CASE UNCHANGED <<pending, keys>>
    <3>1. Sp!Event("experiment.failed", y, 0).type \in Ends /\ Sp!Event("experiment.failed", y, 0).about = y
      BY EventFields DEF Ends
    <3> QED BY <2>1, <3>1
  <2>2. CASE Sp!Emit({Sp!Event(Sp!EndEvent(y)', y, Sp!Once(0))})
    <3>1. Sp!EndEvent(y)' \in Ends
      BY DEF Sp!EndEvent, Ends
    <3> QED BY <2>2, <3>1, EventFields DEF Sp!Emit
  <2> QED BY <2>1, <2>2 DEF Sp!EndRun
<1>10. EventsFit'
  BY <1>3, <1>8, <1>9 DEF EventsFit, EndsOf
<1>11. ASSUME NEW x \in Runs PROVE CountedFor(x)'
  <2>1. Moving(x)' \subseteq Moving(x)
    BY <1>1 DEF Moving
  <2>2. CASE x = y
    <3>1. Fresh(x)
      BY <1>8, <2>2 DEF Fresh
    <3> QED BY <1>1, <1>4, <1>5, <2>1, <3>1, CountCalm
  <2>3. CASE x # y
    <3>1. EndsOf(x)' = EndsOf(x)
      BY <1>9, <2>3 DEF EndsOf
    <3>2. Fresh(x)' => Fresh(x)
      BY <1>1, <3>1 DEF Fresh, Sp!CallsOn
    <3> QED BY <1>1, <1>4, <1>5, <2>1, <3>2, CountCalm
  <2> QED BY <2>2, <2>3
<1> QED BY <1>5, <1>7, <1>10, <1>11

\* The handler of a fresh event is paid by the event, a second one by a mishap.
LEMMA InterpretKeeps == ASSUME SpineInv, NEW e, Sp!BeginInterpret(e) PROVE SpineInv'
<1> USE DEF SpineInv
<1> DEFINE y == e.about
<1>1. /\ e \in pending /\ e.type = "experiment.completed" /\ e.type \in Ends
      /\ UNCHANGED <<run, noted, moved, findings>>
  BY DEF Sp!BeginInterpret, Ends
<1>2. y \in Runs /\ e \in EndsOf(y) /\ EndsOf(y) = {e}
  BY <1>1 DEF EventsFit, EndsOf
<1>3. Grows
  BY <1>1, FindingsStay
<1>4. CASE run[y] = "completed"
  <2>0. PICK k : k = Sp!Call(e, "mark", 0, faults')
    OBVIOUS
  <2>1. /\ calls' = calls \cup {k} /\ UNCHANGED pending
        /\ \/ Sp!CallsOn(e) = {} /\ faults' = faults
           \/ Sp!CallsOn(e) # {} /\ faults' = faults + 1
    BY <1>4, <2>0 DEF Sp!BeginInterpret, Sp!Take, Sp!Mishap
  <2>2. k.event = e /\ k.at = "mark" /\ k = Sp!Call(k.event, k.at, k.saw, k.take)
    BY <2>0, CallFields
  <2>3. SpineTyped'
    <3>1. IsFiniteSet(calls')
      BY <2>1, FS_AddElement DEF SpineTyped
    <3> QED BY <1>1, <2>1, <3>1 DEF SpineTyped
  <2>4. CallFits(k)'
    BY <1>1, <1>2, <1>4, <2>2 DEF CallFits, SawAll
  <2>5. \A c \in calls' : CallFits(c)'
    BY <1>3, <2>1, <2>4, CallsFit
  <2>6. EventsFit'
    BY <1>1, <2>1 DEF EventsFit
  <2>7. ASSUME NEW x \in Runs PROVE CountedFor(x)'
    <3>1. EndsOf(x)' = EndsOf(x)
      BY <2>1 DEF EndsOf
    <3>2. \A d : Sp!CallsOn(d)' = {} => Sp!CallsOn(d) = {}
      BY <2>1 DEF Sp!CallsOn
    <3>3. Fresh(x)' => Fresh(x)
      BY <1>1, <3>1, <3>2 DEF Fresh
    <3>4. CASE x = y
      <4>1. Moving(x)' \subseteq Moving(x) \cup {k}
        BY <2>1 DEF Moving
      <4>2. k \in Sp!CallsOn(e)'
        BY <2>1, <2>2 DEF Sp!CallsOn
      <4>3. ~Fresh(x)'
        BY <1>2, <3>1, <3>4, <4>2 DEF Fresh
      <4>4. Sp!CallsOn(e) = {} => Fresh(x)
        BY <1>2, <3>4 DEF Fresh
      <4> QED BY <1>1, <2>1, <2>3, <3>3, <4>1, <4>3, <4>4, CountTaken
    <3>5. CASE x # y
      <4>1. Moving(x)' \subseteq Moving(x)
        BY <2>1, <2>2, <3>5 DEF Moving
      <4>2. faults =< faults'
        BY <2>1 DEF SpineTyped
      <4> QED BY <1>1, <2>3, <3>3, <4>1, <4>2, CountCalm
    <3> QED BY <3>4, <3>5
  <2> QED BY <2>3, <2>5, <2>6, <2>7
<1>5. CASE run[y] # "completed"
  <2>1. pending' = pending \ {e} /\ UNCHANGED <<keys, calls, faults>>
    BY <1>5 DEF Sp!BeginInterpret, Sp!Skip
  <2>2. SpineTyped'
    BY <1>1, <2>1 DEF SpineTyped
  <2>3. \A c \in calls' : CallFits(c)'
    BY <1>3, <2>1, FitsKept
  <2>4. EventsFit'
    BY <1>1, <2>1 DEF EventsFit
  <2>5. Sp!CallsOn(e) = {}
    BY <1>1, <1>5 DEF Sp!CallsOn, CallFits
  <2>6. ASSUME NEW x \in Runs PROVE CountedFor(x)'
    <3>1. Moving(x)' \subseteq Moving(x) /\ faults =< faults'
      BY <2>1 DEF Moving, SpineTyped
    <3>2. CASE x = y
      <4>1. Fresh(x)
        BY <1>2, <2>5, <3>2 DEF Fresh
      <4> QED BY <1>1, <2>2, <3>1, <4>1, CountCalm
    <3>3. CASE x # y
      <4>1. EndsOf(x)' = EndsOf(x)
        BY <2>1, <3>3 DEF EndsOf
      <4>2. Fresh(x)' => Fresh(x)
        BY <1>1, <2>1, <4>1 DEF Fresh, Sp!CallsOn
      <4> QED BY <1>1, <2>2, <3>1, <4>2, CountCalm
    <3> QED BY <3>2, <3>3
  <2> QED BY <2>2, <2>3, <2>4, <2>6
<1> QED BY <1>4, <1>5

LEMMA FailureNotedKeeps == ASSUME SpineInv, NEW e, Sp!NoteFailure(e) PROVE SpineInv'
<1> USE DEF SpineInv
<1> DEFINE y == e.about
<1>1. /\ e \in pending /\ e.type \in Ends /\ noted' = noted \cup {y} /\ pending' = pending \ {e}
      /\ UNCHANGED <<run, moved, findings, calls, faults>>
  BY DEF Sp!NoteFailure, Sp!Skip, Ends
<1>2. y \in Runs /\ run[y] # "open" /\ EndsOf(y) = {e}
  BY <1>1 DEF EventsFit, EndsOf
<1>3. SpineTyped'
  BY <1>1, <1>2 DEF SpineTyped
<1>4. Grows
  BY <1>1, FindingsStay
<1>5. \A c \in calls' : CallFits(c)'
  BY <1>1, <1>4, FitsKept
<1>6. EventsFit'
  BY <1>1 DEF EventsFit
<1>7. ASSUME NEW x \in Runs PROVE CountedFor(x)'
  <2>1. Moving(x)' \subseteq Moving(x) /\ faults =< faults'
    BY <1>1 DEF Moving, SpineTyped
  <2>2. CASE x = y
    <3>1. EndsOf(x)' = {} /\ x \in noted'
      BY <1>1, <1>2, <2>2 DEF EndsOf
    <3>2. ~Fresh(x)'
      BY <3>1 DEF Fresh
    <3> QED BY <1>1, <1>3, <2>1, <3>2, CountCalm
  <2>3. CASE x # y
    <3>1. EndsOf(x)' = EndsOf(x)
      BY <1>1, <2>3 DEF EndsOf
    <3>2. Fresh(x)' => Fresh(x)
      BY <1>1, <3>1 DEF Fresh, Sp!CallsOn
    <3> QED BY <1>1, <1>3, <2>1, <3>2, CountCalm
  <2> QED BY <2>2, <2>3
<1> QED BY <1>3, <1>5, <1>6, <1>7

\* A call steps on: the places of the events are as they were.
LEMMA SteppedOn ==
  ASSUME NEW c \in calls, c = Sp!Call(c.event, c.at, c.saw, c.take), NEW a, NEW s,
         Sp!Step(c, a, s)
  PROVE  \E k : /\ k = Sp!Call(c.event, a, s, c.take) /\ k.event = c.event /\ k.at = a /\ k.saw = s
                /\ calls' = (calls \ {c}) \cup {k}
                /\ \A d : Sp!CallsOn(d)' = {} => Sp!CallsOn(d) = {}
                /\ IsFiniteSet(calls) => IsFiniteSet(calls')
<1>1. PICK k : k = Sp!Call(c.event, a, s, c.take)
  OBVIOUS
<1>2. k.event = c.event /\ k.at = a /\ k.saw = s
  BY <1>1, CallFields
<1>3. calls' = (calls \ {c}) \cup {k}
  BY <1>1, StepOfCall DEF Sp!Step
<1>4. \A d : Sp!CallsOn(d)' = {} => Sp!CallsOn(d) = {}
  BY <1>2, <1>3 DEF Sp!CallsOn
<1>5. IsFiniteSet(calls) => IsFiniteSet(calls')
  BY <1>3, FS_RemoveElement, FS_AddElement
<1> QED BY <1>1, <1>2, <1>3, <1>4, <1>5

LEMMA MarkKeeps == ASSUME SpineInv, NEW c, Sp!Mark(c) PROVE SpineInv'
<1> USE DEF SpineInv
<1> DEFINE y == c.event.about
<1>1. /\ c \in calls /\ c.at = "mark" /\ CallFits(c) /\ noted' = noted \cup {y} /\ Sp!Step(c, "move", 0)
      /\ UNCHANGED <<run, moved, findings, pending, faults>>
  BY DEF Sp!Mark
<1>2. /\ c.event.type = "experiment.completed" /\ y \in Runs /\ run[y] = "completed"
      /\ c = Sp!Call(c.event, c.at, c.saw, c.take)
  BY <1>1 DEF CallFits
<1>3. PICK k : /\ k = Sp!Call(c.event, "move", 0, c.take) /\ k.event = c.event /\ k.at = "move"
               /\ k.saw = 0 /\ calls' = (calls \ {c}) \cup {k}
               /\ \A d : Sp!CallsOn(d)' = {} => Sp!CallsOn(d) = {}
               /\ IsFiniteSet(calls) => IsFiniteSet(calls')
  BY <1>1, <1>2, SteppedOn
<1>4. SpineTyped'
  BY <1>1, <1>2, <1>3 DEF SpineTyped
<1>5. Grows
  BY <1>1, FindingsStay
<1>6. CallFits(k)'
  <2>1. k = Sp!Call(k.event, k.at, k.saw, k.take)
    BY <1>3, CallFields
  <2> QED BY <1>1, <1>2, <1>3, <2>1 DEF CallFits, SawAll
<1>7. \A d \in calls' : CallFits(d)'
  <2>1. calls' \subseteq calls \cup {k} /\ \A j \in {k} : CallFits(j)'
    BY <1>3, <1>6
  <2> QED BY <1>5, <2>1, CallsFit
<1>8. EventsFit'
  BY <1>1 DEF EventsFit
<1>9. ASSUME NEW x \in Runs PROVE CountedFor(x)'
  <2>1. EndsOf(x)' = EndsOf(x) /\ faults =< faults'
    BY <1>1 DEF EndsOf, SpineTyped
  <2>2. Fresh(x)' => Fresh(x)
    BY <1>1, <1>3, <2>1 DEF Fresh
  <2>3. CASE x = y
    <3>1. c \in Moving(x) /\ Moving(x)' \subseteq (Moving(x) \ {c}) \cup {k}
      BY <1>1, <1>3, <2>3 DEF Moving
    <3> QED BY <1>1, <1>4, <2>1, <2>2, <3>1, CountSwapped
  <2>4. CASE x # y
    <3>1. Moving(x)' \subseteq Moving(x)
      BY <1>3, <2>4 DEF Moving
    <3> QED BY <1>1, <1>4, <2>1, <2>2, <3>1, CountCalm
  <2> QED BY <2>3, <2>4
<1> QED BY <1>4, <1>7, <1>8, <1>9

LEMMA MoveKeeps == ASSUME SpineInv, NEW c, Sp!MoveConfidence(c) PROVE SpineInv'
<1> USE DEF SpineInv
<1> DEFINE y == c.event.about
<1>1. /\ c \in calls /\ c.at = "move" /\ CallFits(c) /\ Sp!Step(c, "trigger", 0)
      /\ UNCHANGED <<run, noted, findings, pending, faults>>
      /\ moved \in [Runs -> Nat]
  BY DEF Sp!MoveConfidence, SpineTyped
<1>2. /\ c.event.type = "experiment.completed" /\ y \in Runs /\ run[y] = "completed"
      /\ y \in noted /\ c = Sp!Call(c.event, c.at, c.saw, c.take)
  BY <1>1 DEF CallFits
<1>3. PICK k : /\ k = Sp!Call(c.event, "trigger", 0, c.take) /\ k.event = c.event /\ k.at = "trigger"
               /\ k.saw = 0 /\ calls' = (calls \ {c}) \cup {k}
               /\ \A d : Sp!CallsOn(d)' = {} => Sp!CallsOn(d) = {}
               /\ IsFiniteSet(calls) => IsFiniteSet(calls')
  BY <1>1, <1>2, SteppedOn
<1>4. /\ moved' \in [Runs -> Nat] /\ moved'[y] \in {moved[y], moved[y] + 1}
      /\ \A x \in Runs : x # y => moved'[x] = moved[x]
  <2>1. moved' = moved \/ moved' = [moved EXCEPT ![y] = @ + 1]
    BY DEF Sp!MoveConfidence
  <2> QED BY <1>1, <1>2, <2>1
<1>5. SpineTyped'
  BY <1>1, <1>3, <1>4 DEF SpineTyped
<1>6. Grows
  BY <1>1, FindingsStay
<1>7. CallFits(k)'
  <2>1. k = Sp!Call(k.event, k.at, k.saw, k.take)
    BY <1>3, CallFields
  <2> QED BY <1>1, <1>2, <1>3, <2>1 DEF CallFits, SawAll
<1>8. \A d \in calls' : CallFits(d)'
  <2>1. calls' \subseteq calls \cup {k} /\ \A j \in {k} : CallFits(j)'
    BY <1>3, <1>7
  <2> QED BY <1>6, <2>1, CallsFit
<1>9. EventsFit'
  BY <1>1 DEF EventsFit
<1>10. ASSUME NEW x \in Runs PROVE CountedFor(x)'
  <2>1. EndsOf(x)' = EndsOf(x) /\ faults =< faults'
    BY <1>1 DEF EndsOf, SpineTyped
  <2>2. Fresh(x)' => Fresh(x)
    BY <1>1, <1>3, <2>1 DEF Fresh
  <2>3. CASE x = y
    <3>1. c \in Moving(x) /\ Moving(x)' \subseteq (Moving(x) \ {c}) \cup {}
      BY <1>1, <1>3, <2>3 DEF Moving
    <3> QED BY <1>4, <1>5, <2>1, <2>2, <2>3, <3>1, CountSwapped
  <2>4. CASE x # y
    <3>1. Moving(x)' \subseteq Moving(x)
      BY <1>3, <2>4 DEF Moving
    <3> QED BY <1>4, <1>5, <2>1, <2>2, <2>4, <3>1, CountCalm
  <2> QED BY <2>3, <2>4
<1> QED BY <1>5, <1>8, <1>9, <1>10

LEMMA TriggerKeeps == ASSUME SpineInv, NEW c, Sp!TriggerSynthesis(c) PROVE SpineInv'
<1> USE DEF SpineInv
<1> DEFINE y == c.event.about
<1>1. /\ c \in calls /\ c.at = "trigger" /\ CallFits(c)
      /\ UNCHANGED <<run, noted, moved, findings, faults>>
  BY DEF Sp!TriggerSynthesis
<1>2. c.event.type = "experiment.completed" /\ c.event.type \in Ends /\ y \in Runs /\ y \in noted
  BY <1>1 DEF CallFits, Ends
<1>3. PICK es : /\ calls' = calls \ {c} /\ pending' = (pending \cup es) \ {c.event}
                /\ \A e \in es : e.type \notin Ends
  <2>1. \A b : Sp!Event("finding.synthesize", 0, b).type \notin Ends
    BY EventFields DEF Ends
  <2> QED BY <2>1 DEF Sp!TriggerSynthesis, Sp!Return
<1>4. SpineTyped'
  BY <1>1, <1>3, FS_RemoveElement DEF SpineTyped
<1>5. Grows
  BY <1>1, FindingsStay
<1>6. \A d \in calls' : CallFits(d)'
  BY <1>3, <1>5, FitsKept
<1>7. EventsFit'
  BY <1>1, <1>3 DEF EventsFit
<1>8. ASSUME NEW x \in Runs PROVE CountedFor(x)'
  <2>1. Moving(x)' \subseteq Moving(x) /\ faults =< faults'
    BY <1>1, <1>3 DEF Moving, SpineTyped
  <2>2. EndsOf(x)' = EndsOf(x) \ {c.event}
    BY <1>3 DEF EndsOf
  <2>3. \A e \in EndsOf(x)' : Sp!CallsOn(e)' = Sp!CallsOn(e)
    BY <1>3, <2>2 DEF Sp!CallsOn
  <2>4. Fresh(x)' => Fresh(x)
    <3>1. CASE x = y
      BY <1>2, <1>1, <2>2, <2>3, <3>1 DEF Fresh
    <3>2. CASE x # y
      <4>1. EndsOf(x)' = EndsOf(x)
        BY <2>2, <3>2 DEF EndsOf
      <4> QED BY <1>1, <2>3, <4>1 DEF Fresh
    <3> QED BY <3>1, <3>2
  <2> QED BY <1>1, <1>4, <2>1, <2>4, CountCalm
<1> QED BY <1>4, <1>6, <1>7, <1>8

-----------------------------------------------------------------------------
\* The re-arm emits the end of a run only if none is pending and none was noted.
LEMMA RearmKeeps == ASSUME SpineInv, Sp!Rearm PROVE SpineInv'
<1> USE DEF SpineInv
<1>1. UNCHANGED <<run, noted, moved, findings, calls, faults>>
  BY DEF Sp!Rearm
<1> DEFINE Due(e) == /\ e = Sp!Event(Sp!EndEvent(e.about), e.about, Sp!Today) /\ e.about \in Runs
                     /\ run[e.about] # "open" /\ e.about \notin noted /\ EndsOf(e.about) = {}
<1>2. PICK es : /\ pending' = pending \cup es
                /\ \A e \in es : e.type \in Ends => Due(e)
  <2>1. \A e \in Sp!InterpretDue : Due(e)
    <3> SUFFICES ASSUME NEW e \in Sp!InterpretDue PROVE Due(e)
      OBVIOUS
    <3>1. PICK x \in Runs : /\ run[x] # "open" /\ x \notin noted
                            /\ ~Sp!Pending({"experiment.completed", "experiment.failed"}, {x})
                            /\ e = Sp!Event(Sp!EndEvent(x), x, Sp!Today)
      BY DEF Sp!InterpretDue, Sp!Lowest
    <3>2. e.about = x /\ EndsOf(x) = {}
      BY <3>1, EventFields DEF Sp!Pending, EndsOf, Ends
    <3> QED BY <3>1, <3>2
  <2>2. \A e \in Sp!SynthesizeDue \cup Sp!AuditDue : e.type \notin Ends
    <3>1. \A e \in Sp!SynthesizeDue : e.type = "finding.synthesize"
      BY EventFields DEF Sp!SynthesizeDue
    <3>2. \A e \in Sp!AuditDue : e.type = "finding.composed"
      <4>1. \E S : Sp!AuditDue \subseteq {Sp!Event("finding.composed", f, Sp!Today) : f \in S}
        BY DEF Sp!AuditDue
      <4> QED BY <4>1, EventFields
    <3> QED BY <3>1, <3>2 DEF Ends
  <2> HIDE DEF Due
  <2> QED BY <2>1, <2>2 DEF Sp!Rearm, Sp!Emit
<1>3. SpineTyped'
  BY <1>1 DEF SpineTyped
<1>4. Grows
  BY <1>1, FindingsStay
<1>5. \A d \in calls' : CallFits(d)'
  BY <1>1, <1>4, FitsKept
<1>6. EventsFit'
  <2>1. \A e \in pending' : e.type \in Ends => e.about \in Runs /\ run[e.about] # "open"
    BY <1>2 DEF EventsFit
  <2>2. ASSUME NEW d \in pending', NEW e \in pending', d.type \in Ends, e.type \in Ends,
               d.about = e.about
        PROVE  d = e
    <3>1. CASE d \in pending /\ e \in pending
      BY <2>2, <3>1 DEF EventsFit
    <3>2. CASE d \notin pending
      BY <1>2, <2>2, <3>2 DEF EndsOf
    <3>3. CASE e \notin pending
      BY <1>2, <2>2, <3>3 DEF EndsOf
    <3> QED BY <3>1, <3>2, <3>3
  <2> QED BY <1>1, <2>1, <2>2 DEF EventsFit
<1>7. ASSUME NEW x \in Runs PROVE CountedFor(x)'
  <2>1. Moving(x)' \subseteq Moving(x) /\ faults =< faults'
    BY <1>1 DEF Moving, SpineTyped
  <2>2. CASE EndsOf(x)' = EndsOf(x)
    <3>1. Fresh(x)' => Fresh(x)
      BY <1>1, <2>2 DEF Fresh, Sp!CallsOn
    <3> QED BY <1>1, <1>3, <2>1, <3>1, CountCalm
  <2>3. CASE EndsOf(x)' # EndsOf(x)
    <3>1. PICK e \in es : e.type \in Ends /\ e.about = x
      BY <1>2, <2>3 DEF EndsOf
    <3>2. Fresh(x)
      BY <1>2, <3>1 DEF Fresh
    <3> QED BY <1>1, <1>3, <2>1, <3>2, CountCalm
  <2> QED BY <2>2, <2>3
<1> QED BY <1>3, <1>5, <1>6, <1>7
-----------------------------------------------------------------------------
\* A handler of another link takes its event up, or skips it.
LEMMA TakeElsewhere ==
  ASSUME SpineInv, NEW e, e.type \notin Ends, NEW a, a \notin {"mark", "move", "trigger"}, NEW s,
         Sp!Take(e, a, s), UNCHANGED <<run, noted, moved, findings>>,
         \A t : SawAll(Sp!Call(e, a, s, t))
  PROVE  SpineInv'
<1> USE DEF SpineInv
<1>1. PICK k : k = Sp!Call(e, a, s, faults')
  OBVIOUS
<1>2. /\ k.event = e /\ k.at = a /\ k = Sp!Call(k.event, k.at, k.saw, k.take)
      /\ calls' = calls \cup {k} /\ UNCHANGED pending
      /\ faults' \in Nat /\ faults =< faults'
  BY <1>1, CallFields DEF Sp!Take, Sp!Mishap, SpineTyped
<1>3. SpineTyped'
  <2>1. IsFiniteSet(calls')
    BY <1>2, FS_AddElement DEF SpineTyped
  <2> QED BY <1>2, <2>1 DEF SpineTyped
<1>4. Grows
  BY FindingsStay
<1>5. CallFits(k)
  <2>1. SawAll(k)
    BY <1>1
  <2> QED BY <1>2, <2>1 DEF CallFits, Ends
<1>6. \A j \in {k} : CallFits(j)' /\ j.event.type \notin Ends
  BY <1>2, <1>4, <1>5, FitsKept
<1>7. calls' \subseteq calls \cup {k} /\ \A c \in calls : c.event.type \in Ends => c \in calls'
  BY <1>2
<1> HIDE DEF SpineInv
<1> QED BY <1>2, <1>3, <1>4, <1>6, <1>7, Elsewhere

LEMMA SkipElsewhere ==
  ASSUME SpineInv, NEW e, e.type \notin Ends, Sp!Skip(e), UNCHANGED <<run, noted, moved, findings>>
  PROVE  SpineInv'
<1>1. pending' = pending \ {e} /\ UNCHANGED <<calls, faults>>
  BY DEF Sp!Skip
<1>2. SpineTyped' /\ faults =< faults'
  BY <1>1 DEF SpineInv, SpineTyped
<1>3. Grows
  BY FindingsStay DEF SpineInv
<1>0. PICK K : K = {}
  OBVIOUS
<1>4. /\ calls' \subseteq calls \cup K /\ (\A k \in K : CallFits(k)' /\ k.event.type \notin Ends)
      /\ \A c \in calls : c.event.type \in Ends => c \in calls'
      /\ \A d \in pending \cup pending' : d.type \in Ends => (d \in pending <=> d \in pending')
  BY <1>0, <1>1
<1> QED BY <1>2, <1>3, <1>4, Elsewhere

\* A handler of another link returns; the rows of the findings may change.
LEMMA ReturnElsewhere ==
  ASSUME SpineInv, NEW c \in calls, c.at \in {"compose", "audit"}, NEW es, Sp!Return(c, es),
         \A e \in es : e.type \notin Ends, UNCHANGED <<run, noted, moved, faults>>,
         SpineTyped', Grows
  PROVE  SpineInv'
<1>1. calls' = calls \ {c} /\ pending' = (pending \cup (es \ keys)) \ {c.event}
  BY DEF Sp!Return
<1>2. c.event.type \notin Ends
  BY DEF SpineInv, CallFits, Ends
<1>3. faults =< faults'
  BY DEF SpineInv, SpineTyped
<1>0. PICK K : K = {}
  OBVIOUS
<1>4. /\ calls' \subseteq calls \cup K /\ (\A k \in K : CallFits(k)' /\ k.event.type \notin Ends)
      /\ \A d \in calls : d.event.type \in Ends => d \in calls'
      /\ \A d \in pending \cup pending' : d.type \in Ends => (d \in pending <=> d \in pending')
  BY <1>0, <1>1, <1>2
<1> QED BY <1>3, <1>4, Elsewhere

\* A synthesis reads more than any finding yet rests on.
LEMMA BeginSynthesizeKeeps ==
  ASSUME Sp!SpineAssumption, SpineInv, NEW e, Sp!BeginSynthesize(e)
  PROVE  SpineInv'
<1>1. e.type \notin Ends /\ UNCHANGED <<run, noted, moved, findings>>
  BY DEF Sp!BeginSynthesize, Ends
<1>2. CASE Sp!ReadBack >= MinRuns /\ Sp!Synthesized < Sp!ReadBack
  <2>1. PICK s : s = [n |-> Sp!ReadBack, since |-> Len(findings)]
    OBVIOUS
  <2>2. Sp!Take(e, "persist", s)
    BY <1>2, <2>1 DEF Sp!BeginSynthesize
  <2>3. s.n = Sp!ReadBack /\ s.since = Len(findings)
    BY <2>1
  <2>4. Sp!ReadBack \in 0..Cardinality(Runs) /\ Cardinality(Runs) \in Nat
    BY EvidenceBounds, RunsCounted
  <2>5. \A g \in 1..Len(findings) : findings[g].n < Sp!ReadBack
    BY <1>2, <2>4, SynthesizedBound DEF SpineInv
  <2>6. Len(findings) \in Nat
    BY DEF SpineInv, SpineTyped
  <2>7. \A t : SawAll(Sp!Call(e, "persist", s, t))
    BY <2>3, <2>4, <2>5, <2>6, CallFields DEF SawAll
  <2> QED BY <1>1, <2>2, <2>7, TakeElsewhere
<1>3. CASE ~(Sp!ReadBack >= MinRuns /\ Sp!Synthesized < Sp!ReadBack)
  BY <1>1, <1>3, SkipElsewhere DEF Sp!BeginSynthesize
<1> QED BY <1>2, <1>3

LEMMA BeginAuditKeeps == ASSUME SpineInv, NEW e, Sp!BeginAudit(e) PROVE SpineInv'
<1>1. e.type \notin Ends /\ UNCHANGED <<run, noted, moved, findings>>
  BY DEF Sp!BeginAudit, Ends
<1>2. \A t : SawAll(Sp!Call(e, "audit", e.about, t))
  BY CallFields DEF SawAll
<1>3. Sp!Take(e, "audit", e.about) \/ Sp!Skip(e)
  BY DEF Sp!BeginAudit
<1> QED BY <1>1, <1>2, <1>3, TakeElsewhere, SkipElsewhere

\* A new finding rests on what its call has read.
LEMMA PersistKeeps == ASSUME SpineInv, NEW c, Sp!PersistFinding(c) PROVE SpineInv'
<1> DEFINE R == [n : 0..Cardinality(Runs), confidence : Confidences,
                 audit : {"none", "pass", "unclear"}]
<1>1. /\ c \in calls /\ c.at = "persist" /\ CallFits(c)
      /\ UNCHANGED <<run, noted, moved, pending, faults>>
      /\ findings \in Seq(R) /\ faults =< faults'
  BY DEF Sp!PersistFinding, SpineInv, SpineTyped
<1>2. /\ c = Sp!Call(c.event, c.at, c.saw, c.take) /\ c.event.type \notin Ends
      /\ c.saw.n \in 0..Cardinality(Runs)
  BY <1>1 DEF CallFits, SawAll, Ends
<1>3. PICK r \in R : findings' = Append(findings, r)
  <2>1. PICK conf \in Confidences :
          findings' = Append(findings, [n |-> c.saw.n, confidence |-> conf, audit |-> "none"])
    BY DEF Sp!PersistFinding
  <2>2. [n |-> c.saw.n, confidence |-> conf, audit |-> "none"] \in R
    BY <1>2
  <2> QED BY <2>1, <2>2
<1> HIDE DEF R
<1>4. /\ findings' \in Seq(R) /\ Len(findings) \in Nat /\ Len(findings') = Len(findings) + 1
      /\ \A g \in 1..Len(findings) : findings'[g] = findings[g]
  BY <1>1, <1>3
<1>5. Grows
  BY <1>1, <1>4 DEF Grows
<1>6. PICK s : Sp!Step(c, "compose", s)
  BY DEF Sp!PersistFinding
<1>7. PICK k : /\ k = Sp!Call(c.event, "compose", s, c.take) /\ k.event = c.event /\ k.at = "compose"
               /\ calls' = (calls \ {c}) \cup {k}
               /\ IsFiniteSet(calls) => IsFiniteSet(calls')
  BY <1>1, <1>2, <1>6, SteppedOn
<1>8. SpineTyped'
  BY <1>1, <1>4, <1>7 DEF SpineTyped, SpineInv, R
<1>9. \A j \in {k} : CallFits(j)' /\ j.event.type \notin Ends
  <2>1. k = Sp!Call(k.event, k.at, k.saw, k.take)
    BY <1>7, CallFields
  <2>2. CallFits(k)
    BY <1>2, <1>7, <2>1 DEF CallFits, SawAll, Ends
  <2> QED BY <1>2, <1>5, <1>7, <2>2, FitsKept
<1>10. calls' \subseteq calls \cup {k} /\ \A d \in calls : d.event.type \in Ends => d \in calls'
  BY <1>2, <1>7
<1> QED BY <1>1, <1>5, <1>8, <1>9, <1>10, Elsewhere

LEMMA AnnounceKeeps == ASSUME SpineInv, NEW c, Sp!AnnounceFinding(c) PROVE SpineInv'
<1>1. /\ c \in calls /\ c.at \in {"compose", "audit"}
      /\ UNCHANGED <<run, noted, moved, findings, faults>>
      /\ Sp!Return(c, {Sp!Event("finding.composed", c.saw, Sp!Once(0))})
  BY DEF Sp!AnnounceFinding
<1>2. \A e \in {Sp!Event("finding.composed", c.saw, Sp!Once(0))} : e.type \notin Ends
  BY EventFields DEF Ends
<1>3. SpineTyped'
  BY <1>1, FS_RemoveElement DEF SpineInv, SpineTyped, Sp!Return
<1>4. Grows
  BY <1>1, FindingsStay DEF SpineInv
<1> QED BY <1>1, <1>2, <1>3, <1>4, ReturnElsewhere

\* What a verdict of the audit leaves of a finding.
LEMMA RecordAuditKeeps == ASSUME SpineInv, NEW c, Sp!RecordAudit(c) PROVE SpineInv'
<1> DEFINE R == [n : 0..Cardinality(Runs), confidence : Confidences,
                 audit : {"none", "pass", "unclear"}]
<1>1. /\ c \in calls /\ c.at \in {"compose", "audit"} /\ UNCHANGED <<run, noted, moved, faults>>
      /\ findings \in Seq(R) /\ IsFiniteSet(calls)
  BY DEF Sp!RecordAudit, SpineInv, SpineTyped
<1>2. PICK es : Sp!Return(c, es) /\ \A e \in es : e.type \notin Ends
  <2>1. \A f : Sp!Event("finding.high_signal", f, Sp!Once(0)).type \notin Ends
    BY EventFields DEF Ends
  <2> QED BY <2>1 DEF Sp!RecordAudit
<1>3. /\ findings' \in Seq(R) /\ Len(findings) \in Nat /\ Len(findings') = Len(findings)
      /\ \A g \in 1..Len(findings) : findings'[g].n = findings[g].n
  <2>1. CASE UNCHANGED findings
    BY <1>1, <2>1
  <2>2. CASE \E verdict \in {"pass", "unclear"} : findings' = [findings EXCEPT ![c.saw].audit = verdict]
    <3>1. PICK verdict \in {"pass", "unclear"} : findings' = [findings EXCEPT ![c.saw].audit = verdict]
      BY <2>2
    <3>2. \A r \in R : [r EXCEPT !.audit = verdict] \in R /\ [r EXCEPT !.audit = verdict].n = r.n
      OBVIOUS
    <3> HIDE DEF R
    <3>3. Len(findings) \in Nat /\ DOMAIN findings = 1..Len(findings)
          /\ \A g \in 1..Len(findings) : findings[g] \in R
      BY <1>1
    <3>4. findings' = [findings EXCEPT ![c.saw] = [findings[c.saw] EXCEPT !.audit = verdict]]
      BY <3>1
    <3>5. /\ DOMAIN findings' = 1..Len(findings)
          /\ \A g \in 1..Len(findings) :
               findings'[g] = IF g = c.saw THEN [findings[g] EXCEPT !.audit = verdict] ELSE findings[g]
      BY <3>3, <3>4
    <3>6. \A g \in 1..Len(findings) : findings'[g] \in R /\ findings'[g].n = findings[g].n
      BY <3>2, <3>3, <3>5
    <3>7. findings' = [g \in 1..Len(findings) |-> findings'[g]]
      BY <3>3, <3>4, <3>5
    <3>8. findings' \in Seq(R)
      BY <3>3, <3>6, <3>7
    <3> QED BY <3>3, <3>5, <3>6, <3>8
  <2> QED BY <2>1, <2>2 DEF Sp!RecordAudit
<1>4. SpineTyped'
  BY <1>1, <1>2, <1>3, FS_RemoveElement DEF SpineInv, SpineTyped, Sp!Return
<1>5. Grows
  BY <1>1, <1>3 DEF Grows
<1> QED BY <1>1, <1>2, <1>4, <1>5, ReturnElsewhere

LEMMA AttackKeeps == ASSUME SpineInv, NEW e, Sp!Attack(e) PROVE SpineInv'
BY SkipElsewhere DEF Sp!Attack, Ends

LEMMA RestKeeps == ASSUME SpineInv, UNCHANGED <<run, noted, moved, findings, pending, calls, faults>>
                   PROVE  SpineInv'
<1>1. SpineTyped' /\ faults =< faults'
  BY DEF SpineInv, SpineTyped
<1>2. Grows
  BY FindingsStay DEF SpineInv
<1>0. PICK K : K = {}
  OBVIOUS
<1>3. /\ calls' \subseteq calls \cup K /\ (\A k \in K : CallFits(k)' /\ k.event.type \notin Ends)
      /\ (\A d \in pending \cup pending' : d.type \in Ends => (d \in pending <=> d \in pending'))
      /\ \A c \in calls : c.event.type \in Ends => c \in calls'
  BY <1>0
<1> QED BY <1>1, <1>2, <1>3, Elsewhere

-----------------------------------------------------------------------------
LEMMA SpineInitially == Sp!Init => SpineInv
<1> SUFFICES ASSUME Sp!Init PROVE SpineInv
  OBVIOUS
<1>1. SpineTyped
  BY FS_EmptySet DEF Sp!Init, SpineTyped
<1>2. EventsFit /\ \A c \in calls : CallFits(c)
  BY DEF Sp!Init, EventsFit
<1>3. ASSUME NEW x \in Runs PROVE CountedFor(x)
  <2>1. Moving(x) = {} /\ moved[x] = 0 /\ faults = 0
    BY DEF Sp!Init, Moving
  <2> QED BY <2>1, FS_EmptySet DEF CountedFor, Owed
<1> QED BY <1>1, <1>2, <1>3 DEF SpineInv

LEMMA SpineStep == ASSUME Sp!SpineAssumption, SpineInv, [Sp!Next]_Sp!vars PROVE SpineInv'
<1>1. ASSUME NEW x \in Runs, Sp!EndRun(x) PROVE SpineInv'
  BY <1>1, EndRunKeeps
<1>2. ASSUME NEW e \in pending,
             \/ Sp!BeginInterpret(e) \/ Sp!NoteFailure(e) \/ Sp!BeginSynthesize(e)
             \/ Sp!BeginAudit(e) \/ Sp!Attack(e)
      PROVE  SpineInv'
  BY <1>2, InterpretKeeps, FailureNotedKeeps, BeginSynthesizeKeeps, BeginAuditKeeps, AttackKeeps
<1>3. ASSUME NEW c \in calls,
             \/ Sp!Mark(c) \/ Sp!MoveConfidence(c) \/ Sp!TriggerSynthesis(c)
             \/ Sp!PersistFinding(c) \/ Sp!AnnounceFinding(c) \/ Sp!RecordAudit(c)
      PROVE  SpineInv'
  BY <1>3, MarkKeeps, MoveKeeps, TriggerKeeps, PersistKeeps, AnnounceKeeps, RecordAuditKeeps
<1>4. CASE Sp!Rearm
  BY <1>4, RearmKeeps
<1>5. ASSUME NEW e \in pending, Sp!Suppress(e) PROVE SpineInv'
  BY <1>5, MishapKeeps DEF Sp!Suppress
<1>6. ASSUME NEW c \in calls, Sp!Fail(c) PROVE SpineInv'
  BY <1>6, MishapKeeps DEF Sp!Fail
<1>7. CASE Sp!Crash
  BY <1>7, MishapKeeps DEF Sp!Crash
<1>8. CASE Sp!Retire \/ UNCHANGED Sp!vars
  BY <1>8, RestKeeps DEF Sp!Retire, Sp!vars
<1> QED BY <1>1, <1>2, <1>3, <1>4, <1>5, <1>6, <1>7, <1>8 DEF Sp!Next, Sp!Handle

(* The confidence of a direction moves once for each run, and once more for *)
(* each mishap at most: what has moved it, what is about to and what is     *)
(* still owed never exceed that together.                                   *)
THEOREM ConfidenceMovesCounted ==
  ASSUME Sp!SpineAssumption PROVE Sp!Spec => []Sp!MovesCounted
<1>0. SpineInv /\ [Sp!Next]_Sp!vars => SpineInv'
  BY SpineStep
<1>1. SpineInv => Sp!MovesCounted
  <2> SUFFICES ASSUME SpineInv, NEW x \in Runs PROVE moved[x] =< 1 + faults
    BY DEF Sp!MovesCounted
  <2>1. Cardinality(Moving(x)) \in Nat /\ moved[x] \in Nat /\ faults \in Nat
    BY MovingCount DEF SpineInv, SpineTyped
  <2>2. Owed(x) \in 0..1
    BY DEF Owed
  <2> QED BY <2>1, <2>2 DEF SpineInv, CountedFor
<1> QED BY <1>0, <1>1, SpineInitially, PTL DEF Sp!Spec

(* No synthesis writes a finding on evidence that a finding it could see    *)
(* rests on already, whichever bucket, re-arm or repeated event fired it.   *)
THEOREM EvidenceSynthesizedOnce ==
  ASSUME Sp!SpineAssumption PROVE Sp!Spec => []Sp!SynthesizedOnce
<1>0. SpineInv /\ [Sp!Next]_Sp!vars => SpineInv'
  BY SpineStep
<1>1. SpineInv => Sp!SynthesizedOnce
  BY DEF SpineInv, CallFits, SawAll, Sp!SynthesizedOnce
<1> QED BY <1>0, <1>1, SpineInitially, PTL DEF Sp!Spec

-----------------------------------------------------------------------------
(* The audits.  An event or a call of the audit is about a finding that is  *)
(* there; the critic is armed only by a finding that passed.                *)
Known(f)  == f \in 1..Len(findings)
Passed(f) == Known(f) /\ findings[f].audit = "pass"

AboutFits(e) == /\ e.type = "finding.composed" => Known(e.about)
                /\ e.type = "finding.high_signal" => Passed(e.about)

CallKnown(c) ==
  /\ c.event \in Sp!Events
  /\ c.at \in {"mark", "move", "trigger", "persist", "compose", "audit"}
  /\ c.at \in {"compose", "audit"} => Known(c.saw)

Armed == attacked \in 0..Len(findings) /\ Sp!AttackedAfterAudit

AuditInv ==
  /\ standing \in Sp!Active \cup {"concluded", "invalidated"}
  /\ faults \in 0..MaxFaults /\ Cardinality(calls) =< MaxCalls
  /\ pending \subseteq Sp!Events /\ keys \subseteq Sp!Events
  /\ \A e \in pending : AboutFits(e)
  /\ \A c \in calls : CallKnown(c)
  /\ Armed

\* No finding goes, and no verdict of one is changed.
AuditsStand ==
  /\ Len(findings) \in Nat /\ Len(findings') \in Nat /\ Len(findings) =< Len(findings')
  /\ \A f \in 1..Len(findings) :
       findings[f].audit # "none" => findings'[f].audit = findings[f].audit

\* The findings are numbered, and each has an audit.
LEMMA FindingsTyped ==
  ASSUME SpineTyped
  PROVE  /\ Len(findings) \in Nat /\ DOMAIN findings = 1..Len(findings)
         /\ \A f \in 1..Len(findings) : findings[f].audit \in {"none", "pass", "unclear"}
<1> DEFINE R == [n : 0..Cardinality(Runs), confidence : Confidences,
                 audit : {"none", "pass", "unclear"}]
<1>1. findings \in Seq(R)
  BY DEF SpineTyped
<1>2. \A r \in R : r.audit \in {"none", "pass", "unclear"}
  OBVIOUS
<1> HIDE DEF R
<1> QED BY <1>1, <1>2

\* A verdict is written where there was none; a finding is appended.
LEMMA VerdictsKept ==
  ASSUME SpineInv, SpineInv', AuditInv, [Sp!Next]_Sp!vars
  PROVE  AuditsStand
<1>1. /\ Len(findings) \in Nat /\ DOMAIN findings = 1..Len(findings) /\ Len(findings') \in Nat
  <2>1. SpineTyped /\ SpineTyped'
    BY DEF SpineInv
  <2>2. Len(findings) \in Nat /\ DOMAIN findings = 1..Len(findings)
    BY <2>1, FindingsTyped
  <2>3. Len(findings') \in Nat
    BY <2>1 DEF SpineTyped
  <2> QED BY <2>2, <2>3
<1>2. CASE UNCHANGED findings
  BY <1>1, <1>2 DEF AuditsStand
<1>3. ASSUME NEW c, Sp!PersistFinding(c) PROVE AuditsStand
  <2>1. PICK r : findings' = Append(findings, r)
    BY <1>3 DEF Sp!PersistFinding
  <2>2. \E R : findings \in Seq(R) /\ r \in R
    <3>1. PICK R : findings \in Seq(R)
      BY DEF SpineInv, SpineTyped
    <3>2. findings \in Seq(R \cup {r})
      BY <3>1
    <3> QED BY <3>2
  <2> QED BY <1>1, <2>1, <2>2 DEF AuditsStand
<1>4. ASSUME NEW c, Sp!RecordAudit(c) PROVE AuditsStand
  <2>1. CASE UNCHANGED findings
    BY <1>2, <2>1
  <2>2. CASE findings[c.saw].audit = "none" /\ \E verdict : findings' = [findings EXCEPT ![c.saw].audit = verdict]
    <3>1. PICK verdict : findings' = [findings EXCEPT ![c.saw].audit = verdict]
      BY <2>2
    <3>2. DOMAIN findings' = DOMAIN findings /\ \A g \in DOMAIN findings : g # c.saw => findings'[g] = findings[g]
      BY <3>1
    <3>3. Len(findings') = Len(findings)
      BY <1>1, <3>2
    <3> QED BY <1>1, <2>2, <3>2, <3>3 DEF AuditsStand
  <2> QED BY <1>4, <2>1, <2>2 DEF Sp!RecordAudit
<1> QED BY <1>2, <1>3, <1>4
        DEF Sp!Next, Sp!Handle, Sp!EndRun, Sp!BeginInterpret, Sp!NoteFailure, Sp!BeginSynthesize,
            Sp!BeginAudit, Sp!Attack, Sp!Mark, Sp!MoveConfidence, Sp!TriggerSynthesis,
            Sp!AnnounceFinding, Sp!Rearm, Sp!Suppress, Sp!Fail, Sp!Crash, Sp!Retire, Sp!vars

\* What an event or a call is about stays there, and stays passed.
LEMMA StillKnown ==
  ASSUME AuditsStand
  PROVE  /\ \A f : Known(f) => Known(f)'
         /\ \A f : Passed(f) => Passed(f)'
         /\ \A e : AboutFits(e) => AboutFits(e)'
         /\ \A c : CallKnown(c) => CallKnown(c)'
<1>1. \A f : Known(f) => Known(f)'
  BY DEF AuditsStand, Known
<1>2. \A f : Passed(f) => Passed(f)'
  BY <1>1 DEF AuditsStand, Known, Passed
<1>3. \A e : AboutFits(e) => AboutFits(e)'
  BY <1>1, <1>2 DEF AboutFits
<1>4. \A c : CallKnown(c) => CallKnown(c)'
  BY <1>1 DEF CallKnown
<1> QED BY <1>1, <1>2, <1>3, <1>4

\* The critic's verdict stays behind a finding that passed.
LEMMA StillArmed ==
  ASSUME AuditsStand, Armed, UNCHANGED attacked
  PROVE  Armed'
<1>1. attacked \in 0..Len(findings)'
  BY DEF AuditsStand, Armed
<1>2. ASSUME attacked > 0 PROVE \E f \in 1..attacked : findings'[f].audit = "pass"
  <2>1. PICK f \in 1..attacked : findings[f].audit = "pass"
    BY <1>2 DEF Armed, Sp!AttackedAfterAudit
  <2>2. f \in 1..Len(findings)
    BY <2>1 DEF Armed, AuditsStand
  <2> QED BY <2>1, <2>2 DEF AuditsStand
<1> QED BY <1>1, <1>2 DEF Armed, Sp!AttackedAfterAudit

(* A step adds events about known findings, and calls that are.             *)
LEMMA AuditKeeps ==
  ASSUME AuditInv, AuditsStand,
         standing' \in Sp!Active \cup {"concluded", "invalidated"},
         faults' \in 0..MaxFaults, Cardinality(calls') =< MaxCalls, UNCHANGED attacked,
         NEW es \in SUBSET Sp!Events, \A e \in es : AboutFits(e)',
         pending' \subseteq pending \cup es, keys' \subseteq keys \cup es,
         NEW K, calls' \subseteq calls \cup K, \A k \in K : CallKnown(k)'
  PROVE  AuditInv'
<1>1. \A e \in pending' : AboutFits(e)'
  BY StillKnown DEF AuditInv
<1>2. \A c \in calls' : CallKnown(c)'
  BY StillKnown DEF AuditInv
<1>3. Armed'
  BY StillArmed DEF AuditInv
<1> QED BY <1>1, <1>2, <1>3 DEF AuditInv

\* How many calls there are after one is taken up, goes on or ends.
LEMMA CallsCounted ==
  ASSUME Sp!SpineAssumption, SpineInv, AuditInv
  PROVE  /\ \A S : S \subseteq calls => Cardinality(S) =< MaxCalls
         /\ \A k : Cardinality(calls) < MaxCalls => Cardinality(calls \cup {k}) =< MaxCalls
         /\ \A k : \A c \in calls : Cardinality((calls \ {c}) \cup {k}) =< MaxCalls
<1>1. IsFiniteSet(calls) /\ Cardinality(calls) \in Nat /\ Cardinality(calls) =< MaxCalls /\ MaxCalls \in Nat
  BY FS_CardinalityType DEF SpineInv, SpineTyped, AuditInv, Sp!SpineAssumption
<1>2. ASSUME NEW S, S \subseteq calls PROVE Cardinality(S) =< MaxCalls
  <2>1. Cardinality(S) \in Nat /\ Cardinality(S) =< Cardinality(calls)
    BY <1>1, <1>2, FS_Subset, FS_CardinalityType
  <2> QED BY <1>1, <2>1
<1>3. ASSUME NEW k, Cardinality(calls) < MaxCalls PROVE Cardinality(calls \cup {k}) =< MaxCalls
  <2>1. Cardinality(calls \cup {k}) = IF k \in calls THEN Cardinality(calls) ELSE Cardinality(calls) + 1
    BY <1>1, FS_AddElement
  <2> QED BY <1>1, <1>3, <2>1
<1>4. ASSUME NEW c \in calls, NEW k PROVE Cardinality((calls \ {c}) \cup {k}) =< MaxCalls
  <2>1. IsFiniteSet(calls \ {c}) /\ Cardinality(calls \ {c}) = Cardinality(calls) - 1
    BY <1>1, FS_RemoveElement
  <2>2. Cardinality((calls \ {c}) \cup {k})
          = IF k \in calls \ {c} THEN Cardinality(calls \ {c}) ELSE Cardinality(calls \ {c}) + 1
    BY <2>1, FS_AddElement
  <2> QED BY <1>1, <2>1, <2>2
<1> QED BY <1>2, <1>3, <1>4

\* The events that the spine emits are events.
LEMMA EventTyped ==
  ASSUME NEW t \in Sp!Types, NEW a \in Nat, NEW n \in Nat
  PROVE  Sp!Event(t, a, Sp!Once(n)) \in Sp!Events /\ Sp!Event(t, a, Sp!Today) \in Sp!Events
BY DEF Sp!Event, Sp!Events, Sp!Once, Sp!Today

\* The bucket of a synthesis is a number, whatever its step.
LEMMA BucketTyped ==
  ASSUME Sp!SpineAssumption, NEW n \in Nat
  PROVE  Sp!Bucket(n) \in Nat
<1>1. ResynthStep \in Nat
  BY DEF Sp!SpineAssumption
<1> DEFINE S == {1, ResynthStep}
           B == ResynthStep + 1
<1>2. B \in Nat /\ S \subseteq Nat /\ S # {} /\ \A x \in S : x =< B
  BY <1>1
<1>3. 1 \in S
  OBVIOUS
<1> HIDE DEF S, B
<1>4. Sp!Max(S) \in S /\ 1 =< Sp!Max(S)
  BY <1>2, <1>3, MaxOf
<1>5. Sp!Max(S) \in Nat \ {0}
  <2>1. \A m \in Nat : 1 =< m => m \in Nat \ {0}
    OBVIOUS
  <2> QED BY <1>2, <1>4, <2>1
<1>6. \A m \in Nat \ {0} : n \div m \in Nat
  OBVIOUS
<1> QED BY <1>5, <1>6 DEF Sp!Bucket, S

\* A handler takes its event up, or skips it.
LEMMA AuditTaken ==
  ASSUME Sp!SpineAssumption, SpineInv, AuditInv, AuditsStand, NEW e \in pending,
         NEW a \in {"mark", "persist", "audit"}, NEW s, a = "audit" => Known(s),
         Sp!Take(e, a, s), UNCHANGED <<standing, attacked>>
  PROVE  AuditInv'
<1>1. PICK k : k = Sp!Call(e, a, s, faults')
  OBVIOUS
<1>2. /\ k.event = e /\ k.at = a /\ k.saw = s /\ calls' = calls \cup {k}
      /\ UNCHANGED <<pending, keys>> /\ Cardinality(calls) < MaxCalls
  BY <1>1, CallFields, SameCounting DEF Sp!Take
<1>3. faults' \in 0..MaxFaults
  BY DEF Sp!Take, Sp!Mishap, AuditInv
<1>4. Cardinality(calls') =< MaxCalls
  BY <1>2, CallsCounted
<1>5. \A j \in {k} : CallKnown(j)'
  <2>1. CallKnown(k)
    BY <1>2 DEF CallKnown, AuditInv
  <2> QED BY <2>1, StillKnown
<1>0. PICK es \in SUBSET Sp!Events : es = {}
  OBVIOUS
<1>6. standing' \in Sp!Active \cup {"concluded", "invalidated"}
  BY DEF AuditInv
<1>7. /\ pending' \subseteq pending \cup es /\ keys' \subseteq keys \cup es
      /\ calls' \subseteq calls \cup {k} /\ \A d \in es : AboutFits(d)'
  BY <1>0, <1>2
<1> QED BY <1>3, <1>4, <1>5, <1>6, <1>7, AuditKeeps

\* A step that adds no event and no call.
LEMMA AuditRest ==
  ASSUME Sp!SpineAssumption, SpineInv, AuditInv, AuditsStand,
         standing' \in Sp!Active \cup {"concluded", "invalidated"}, faults' \in 0..MaxFaults,
         UNCHANGED attacked, pending' \subseteq pending, keys' \subseteq keys, calls' \subseteq calls
  PROVE  AuditInv'
<1>0. PICK es \in SUBSET Sp!Events : es = {}
  OBVIOUS
<1>1. PICK K : K = {}
  OBVIOUS
<1>2. /\ pending' \subseteq pending \cup es /\ keys' \subseteq keys \cup es
      /\ calls' \subseteq calls \cup K /\ (\A d \in es : AboutFits(d)')
      /\ \A k \in K : CallKnown(k)'
  BY <1>0, <1>1
<1>3. Cardinality(calls') =< MaxCalls
  BY CallsCounted
<1> QED BY <1>2, <1>3, AuditKeeps

\* A handler finds nothing to do.
LEMMA AuditSkipped ==
  ASSUME Sp!SpineAssumption, SpineInv, AuditInv, AuditsStand, NEW e,
         Sp!Skip(e), UNCHANGED <<standing, attacked>>
  PROVE  AuditInv'
<1>1. /\ pending' \subseteq pending /\ keys' \subseteq keys /\ calls' \subseteq calls
      /\ faults' \in 0..MaxFaults /\ standing' \in Sp!Active \cup {"concluded", "invalidated"}
  BY DEF Sp!Skip, AuditInv
<1> QED BY <1>1, AuditRest

\* A call goes on; it composes only for a finding that is there.
LEMMA AuditStepped ==
  ASSUME Sp!SpineAssumption, SpineInv, AuditInv, AuditsStand, NEW c \in calls,
         NEW a \in {"move", "trigger", "compose"}, NEW s, a = "compose" => Known(s)',
         Sp!Step(c, a, s), UNCHANGED <<attacked, pending, keys, faults>>,
         standing' \in Sp!Active \cup {"concluded", "invalidated"}
  PROVE  AuditInv'
<1>1. c = Sp!Call(c.event, c.at, c.saw, c.take) /\ CallKnown(c)
  BY DEF SpineInv, CallFits, AuditInv
<1>2. PICK k : k = Sp!Call(c.event, a, s, c.take)
  OBVIOUS
<1>3. k.event = c.event /\ k.at = a /\ k.saw = s
  BY <1>2, CallFields
<1>4. calls' = (calls \ {c}) \cup {k}
  BY <1>1, <1>2, StepOfCall DEF Sp!Step
<1>5. \A j \in {k} : CallKnown(j)'
  BY <1>1, <1>3 DEF CallKnown
<1>6. Cardinality(calls') =< MaxCalls /\ calls' \subseteq calls \cup {k}
  BY <1>4, CallsCounted
<1>7. faults' \in 0..MaxFaults
  BY DEF AuditInv
<1>0. PICK es \in SUBSET Sp!Events : es = {}
  OBVIOUS
<1>8. /\ pending' \subseteq pending \cup es /\ keys' \subseteq keys \cup es
      /\ \A d \in es : AboutFits(d)'
  BY <1>0
<1> QED BY <1>5, <1>6, <1>7, <1>8, AuditKeeps

\* A call returns, with events about known findings.
LEMMA AuditReturned ==
  ASSUME Sp!SpineAssumption, SpineInv, AuditInv, AuditsStand, NEW c, NEW es \in SUBSET Sp!Events,
         Sp!Return(c, es), \A e \in es : AboutFits(e)', UNCHANGED <<standing, attacked, faults>>
  PROVE  AuditInv'
<1>0. PICK K : K = {}
  OBVIOUS
<1>1. /\ pending' \subseteq pending \cup es /\ keys' \subseteq keys \cup es
      /\ calls' \subseteq calls \cup K /\ \A k \in K : CallKnown(k)'
  BY <1>0 DEF Sp!Return, Sp!Lasting
<1>2. Cardinality(calls') =< MaxCalls
  BY CallsCounted DEF Sp!Return
<1>3. faults' \in 0..MaxFaults /\ standing' \in Sp!Active \cup {"concluded", "invalidated"}
  BY DEF AuditInv
<1> QED BY <1>1, <1>2, <1>3, AuditKeeps

\* Events are emitted that are about known findings.
LEMMA AuditEmitted ==
  ASSUME Sp!SpineAssumption, SpineInv, AuditInv, AuditsStand, NEW es \in SUBSET Sp!Events,
         Sp!Emit(es), \A e \in es : AboutFits(e)', UNCHANGED <<standing, attacked, calls>>,
         faults' \in 0..MaxFaults
  PROVE  AuditInv'
<1>0. PICK K : K = {}
  OBVIOUS
<1>1. /\ pending' \subseteq pending \cup es /\ keys' \subseteq keys \cup es
      /\ calls' \subseteq calls \cup K /\ \A k \in K : CallKnown(k)'
  BY <1>0 DEF Sp!Emit, Sp!Lasting
<1>2. Cardinality(calls') =< MaxCalls /\ standing' \in Sp!Active \cup {"concluded", "invalidated"}
  BY DEF AuditInv
<1> QED BY <1>1, <1>2, AuditKeeps

-----------------------------------------------------------------------------
\* The end of a run is announced, or its announcement is lost.
LEMMA EndRunArms ==
  ASSUME Sp!SpineAssumption, SpineInv, AuditInv, AuditsStand, NEW x \in Runs, Sp!EndRun(x)
  PROVE  AuditInv'
<1>1. CASE Sp!Mishap /\ UNCHANGED <<pending, keys>>
  <2>1. /\ faults' \in 0..MaxFaults /\ pending' \subseteq pending /\ keys' \subseteq keys
        /\ calls' \subseteq calls /\ UNCHANGED attacked
        /\ standing' \in Sp!Active \cup {"concluded", "invalidated"}
    BY <1>1 DEF Sp!Mishap, Sp!EndRun, AuditInv
  <2> QED BY <2>1, AuditRest
<1>2. CASE Sp!Emit({Sp!Event(Sp!EndEvent(x)', x, Sp!Once(0))}) /\ UNCHANGED faults
  <2>1. PICK t \in Ends : t = Sp!EndEvent(x)'
    BY DEF Sp!EndEvent, Ends
  <2>2. PICK e : e = Sp!Event(t, x, Sp!Once(0))
    OBVIOUS
  <2>3. t \in Sp!Types /\ x \in Nat /\ 0 \in Nat
    BY DEF Ends, Sp!Types, Sp!SpineAssumption
  <2>4. e \in Sp!Events /\ e.type = t
    BY <2>2, <2>3, EventTyped, EventFields
  <2>5. AboutFits(e)'
    BY <2>4 DEF AboutFits, Ends
  <2>6. Sp!Emit({e}) /\ UNCHANGED <<standing, attacked, calls>> /\ faults' \in 0..MaxFaults
    BY <1>2, <2>1, <2>2 DEF Sp!EndRun, AuditInv
  <2> QED BY <2>4, <2>5, <2>6, AuditEmitted
<1> QED BY <1>1, <1>2 DEF Sp!EndRun

\* The re-arms are about ended runs, the direction, and findings that are there.
LEMMA RearmArms ==
  ASSUME Sp!SpineAssumption, SpineInv, AuditInv, AuditsStand, Sp!Rearm
  PROVE  AuditInv'
<1> DEFINE es == Sp!InterpretDue \cup Sp!SynthesizeDue \cup Sp!AuditDue
<1>0. Len(findings) \in Nat /\ DOMAIN findings = 1..Len(findings) /\ UNCHANGED findings
  BY FindingsTyped DEF SpineInv, Sp!Rearm
<1>1. ASSUME NEW e \in Sp!InterpretDue PROVE e \in Sp!Events /\ AboutFits(e)'
  <2>1. PICK x \in Runs : e = Sp!Event(Sp!EndEvent(x), x, Sp!Today)
    BY DEF Sp!InterpretDue, Sp!Lowest
  <2>2. Sp!EndEvent(x) \in Ends /\ Sp!EndEvent(x) \in Sp!Types /\ x \in Nat /\ 0 \in Nat
    BY DEF Sp!EndEvent, Ends, Sp!Types, Sp!SpineAssumption
  <2>3. e \in Sp!Events /\ e.type \in Ends
    BY <2>1, <2>2, EventTyped, EventFields
  <2> QED BY <2>3 DEF AboutFits, Ends
<1>2. ASSUME NEW e \in Sp!SynthesizeDue PROVE e \in Sp!Events /\ AboutFits(e)'
  <2>1. e = Sp!Event("finding.synthesize", 0, Sp!Today)
    BY DEF Sp!SynthesizeDue
  <2>2. "finding.synthesize" \in Sp!Types /\ 0 \in Nat
    BY DEF Sp!Types
  <2>3. e \in Sp!Events /\ e.type = "finding.synthesize"
    BY <2>1, <2>2, EventTyped, EventFields
  <2> QED BY <2>3 DEF AboutFits
<1>3. ASSUME NEW e \in Sp!AuditDue PROVE e \in Sp!Events /\ AboutFits(e)'
  <2>1. PICK f \in DOMAIN findings : e = Sp!Event("finding.composed", f, Sp!Today)
    BY DEF Sp!AuditDue, Sp!Lowest
  <2>2. "finding.composed" \in Sp!Types /\ 0 \in Nat /\ f \in Nat /\ Known(f)'
    BY <1>0 DEF Sp!Types, Known
  <2>3. e \in Sp!Events /\ e.type = "finding.composed" /\ e.about = f
    BY <2>1, <2>2, EventTyped, EventFields
  <2> QED BY <2>2, <2>3 DEF AboutFits
<1>4. es \in SUBSET Sp!Events /\ \A e \in es : AboutFits(e)'
  BY <1>1, <1>2, <1>3
<1>5. Sp!Emit(es) /\ UNCHANGED <<standing, attacked, calls>> /\ faults' \in 0..MaxFaults
  BY DEF Sp!Rearm, AuditInv
<1> HIDE DEF es
<1> QED BY <1>4, <1>5, AuditEmitted

\* A synthesis is asked for by the number of its bucket.
LEMMA TriggerArms ==
  ASSUME Sp!SpineAssumption, SpineInv, AuditInv, AuditsStand, NEW c, Sp!TriggerSynthesis(c)
  PROVE  AuditInv'
<1>1. PICK es : /\ Sp!Return(c, es)
                /\ es \subseteq {Sp!Event("finding.synthesize", 0, Sp!Once(Sp!Bucket(Sp!Evidence)))}
  BY DEF Sp!TriggerSynthesis
<1>2. Sp!Bucket(Sp!Evidence) \in Nat /\ 0 \in Nat /\ "finding.synthesize" \in Sp!Types
  <2>1. Sp!Evidence \in Nat
    BY EvidenceBounds
  <2> QED BY <2>1, BucketTyped DEF Sp!Types
<1>3. \A e \in es : e \in Sp!Events /\ e.type = "finding.synthesize"
  BY <1>1, <1>2, EventTyped, EventFields
<1>4. es \in SUBSET Sp!Events /\ \A e \in es : AboutFits(e)'
  BY <1>3 DEF AboutFits
<1>5. UNCHANGED <<standing, attacked, faults>>
  BY DEF Sp!TriggerSynthesis
<1> QED BY <1>1, <1>4, <1>5, AuditReturned

\* The new finding is the last one, and the direction rises or stays.
LEMMA PersistArms ==
  ASSUME Sp!SpineAssumption, SpineInv, SpineInv', AuditInv, AuditsStand, NEW c, Sp!PersistFinding(c)
  PROVE  AuditInv'
<1>0. PICK f : f = Len(findings')
  OBVIOUS
<1>1. /\ c \in calls /\ Sp!Step(c, "compose", f)
      /\ UNCHANGED <<attacked, pending, keys, faults>>
  BY <1>0 DEF Sp!PersistFinding
<1>2. Known(f)'
  <2>1. PICK r : findings' = Append(findings, r)
    BY DEF Sp!PersistFinding
  <2>2. Len(findings') = Len(findings) + 1
    <3>1. PICK R : findings \in Seq(R)
      BY DEF SpineInv, SpineTyped
    <3>2. findings \in Seq(R \cup {r})
      BY <3>1
    <3> QED BY <2>1, <3>2
  <2>3. f \in 1..Len(findings')
    BY <1>0, <2>2 DEF AuditsStand
  <2> QED BY <2>3 DEF Known
<1>3. standing' \in Sp!Active \cup {"concluded", "invalidated"}
  <2>1. \A s, conf, real : Sp!GraduateTo(s, conf, real) \in Sp!Active \cup {"concluded", "invalidated"}
    BY DEF Sp!GraduateTo, Sp!Active
  <2> QED BY <2>1 DEF Sp!PersistFinding, AuditInv
<1> QED BY <1>1, <1>2, <1>3, AuditStepped

\* A finding that is there is announced.
LEMMA AnnounceArms ==
  ASSUME Sp!SpineAssumption, SpineInv, AuditInv, AuditsStand, NEW c, Sp!AnnounceFinding(c)
  PROVE  AuditInv'
<1>1. PICK e : e = Sp!Event("finding.composed", c.saw, Sp!Once(0))
  OBVIOUS
<1>2. Known(c.saw) /\ Known(c.saw)'
  BY StillKnown DEF Sp!AnnounceFinding, AuditInv, CallKnown
<1>3. c.saw \in Nat /\ 0 \in Nat /\ "finding.composed" \in Sp!Types
  BY <1>2 DEF Known, Sp!Types
<1>4. e \in Sp!Events /\ e.type = "finding.composed" /\ e.about = c.saw
  BY <1>1, <1>3, EventTyped, EventFields
<1>5. AboutFits(e)'
  BY <1>2, <1>4 DEF AboutFits
<1>6. Sp!Return(c, {e}) /\ UNCHANGED <<standing, attacked, faults>>
  BY <1>1 DEF Sp!AnnounceFinding
<1> QED BY <1>4, <1>5, <1>6, AuditReturned

\* Only the verdict "pass", on a finding without one, arms the critic.
LEMMA RecordArms ==
  ASSUME Sp!SpineAssumption, SpineInv, AuditInv, AuditsStand, NEW c, Sp!RecordAudit(c)
  PROVE  AuditInv'
<1>1. UNCHANGED <<standing, attacked, faults>> /\ Known(c.saw) /\ Known(c.saw)'
  BY StillKnown DEF Sp!RecordAudit, AuditInv, CallKnown
<1>2. PICK es : /\ Sp!Return(c, es)
                /\ es = {} \/ /\ es = {Sp!Event("finding.high_signal", c.saw, Sp!Once(0))}
                              /\ findings' = [findings EXCEPT ![c.saw].audit = "pass"]
  BY DEF Sp!RecordAudit
<1>3. CASE es = {}
  <2>1. es \in SUBSET Sp!Events /\ \A e \in es : AboutFits(e)'
    BY <1>3
  <2> QED BY <1>1, <1>2, <2>1, AuditReturned
<1>4. ASSUME es = {Sp!Event("finding.high_signal", c.saw, Sp!Once(0))},
             findings' = [findings EXCEPT ![c.saw].audit = "pass"]
      PROVE  AuditInv'
  <2>1. PICK e : e = Sp!Event("finding.high_signal", c.saw, Sp!Once(0))
    OBVIOUS
  <2>2. c.saw \in Nat /\ 0 \in Nat /\ "finding.high_signal" \in Sp!Types
    BY <1>1 DEF Known, Sp!Types
  <2>3. e \in Sp!Events /\ e.type = "finding.high_signal" /\ e.about = c.saw
    BY <2>1, <2>2, EventTyped, EventFields
  <2>4. findings'[c.saw].audit = "pass"
    <3> DEFINE R == [n : 0..Cardinality(Runs), confidence : Confidences,
                     audit : {"none", "pass", "unclear"}]
    <3>1. findings \in Seq(R)
      BY DEF SpineInv, SpineTyped
    <3>2. \A r \in R : [r EXCEPT !.audit = "pass"].audit = "pass"
      OBVIOUS
    <3> HIDE DEF R
    <3>3. c.saw \in DOMAIN findings /\ findings[c.saw] \in R
      BY <1>1, <3>1 DEF Known
    <3>4. findings' = [findings EXCEPT ![c.saw] = [findings[c.saw] EXCEPT !.audit = "pass"]]
      BY <1>4
    <3> QED BY <3>2, <3>3, <3>4
  <2>5. AboutFits(e)'
    BY <1>1, <2>3, <2>4 DEF AboutFits, Passed
  <2>6. es \in SUBSET Sp!Events /\ \A d \in es : AboutFits(d)'
    BY <1>4, <2>1, <2>3, <2>5
  <2> QED BY <1>1, <1>2, <2>6, AuditReturned
<1> QED BY <1>2, <1>3, <1>4

\* The critic's verdict comes after the passed finding of its event.
LEMMA AttackArms ==
  ASSUME Sp!SpineAssumption, SpineInv, AuditInv, AuditsStand, NEW e \in pending, Sp!Attack(e)
  PROVE  AuditInv'
<1>1. /\ e.type = "finding.high_signal" /\ attacked' = Len(findings) /\ Sp!Skip(e)
      /\ UNCHANGED <<findings, standing>>
  BY DEF Sp!Attack
<1>2. Passed(e.about)
  BY <1>1 DEF AuditInv, AboutFits
<1>3. Armed'
  BY <1>1, <1>2 DEF Armed, Sp!AttackedAfterAudit, Passed, Known, AuditsStand
<1>4. /\ pending' \subseteq pending /\ UNCHANGED <<keys, calls, faults>>
  BY <1>1 DEF Sp!Skip
<1>5. \A d \in pending' : AboutFits(d)'
  BY <1>4, StillKnown DEF AuditInv
<1>6. \A c \in calls' : CallKnown(c)'
  BY <1>4, StillKnown DEF AuditInv
<1> QED BY <1>1, <1>3, <1>4, <1>5, <1>6 DEF AuditInv

-----------------------------------------------------------------------------
\* The invariant holds at the start,
LEMMA AuditInitially == ASSUME Sp!SpineAssumption PROVE Sp!Init => AuditInv
<1> SUFFICES ASSUME Sp!Init PROVE AuditInv
  OBVIOUS
<1>1. Cardinality(calls) =< MaxCalls /\ 0 \in 0..MaxFaults
  BY FS_EmptySet DEF Sp!Init, Sp!SpineAssumption
<1>2. Armed
  BY DEF Sp!Init, Armed, Sp!AttackedAfterAudit
<1> QED BY <1>1, <1>2 DEF Sp!Init, AuditInv, Sp!Active

\* and is kept by every step.
LEMMA AuditStep ==
  ASSUME Sp!SpineAssumption, SpineInv, SpineInv', AuditInv, [Sp!Next]_Sp!vars
  PROVE  AuditInv'
<1>0. AuditsStand
  BY VerdictsKept
<1>1. ASSUME NEW x \in Runs, Sp!EndRun(x) PROVE AuditInv'
  BY <1>0, <1>1, EndRunArms
<1>2. ASSUME NEW e \in pending, Sp!BeginInterpret(e) PROVE AuditInv'
  BY <1>0, <1>2, AuditTaken, AuditSkipped DEF Sp!BeginInterpret
<1>3. ASSUME NEW e \in pending, Sp!NoteFailure(e) PROVE AuditInv'
  BY <1>0, <1>3, AuditSkipped DEF Sp!NoteFailure
<1>4. ASSUME NEW e \in pending, Sp!BeginSynthesize(e) PROVE AuditInv'
  BY <1>0, <1>4, AuditTaken, AuditSkipped DEF Sp!BeginSynthesize
<1>5. ASSUME NEW e \in pending, Sp!BeginAudit(e) PROVE AuditInv'
  <2>1. Known(e.about)
    BY <1>5 DEF Sp!BeginAudit, AuditInv, AboutFits
  <2> QED BY <1>0, <1>5, <2>1, AuditTaken, AuditSkipped DEF Sp!BeginAudit
<1>6. ASSUME NEW e \in pending, Sp!Attack(e) PROVE AuditInv'
  BY <1>0, <1>6, AttackArms
<1>7. ASSUME NEW c \in calls, Sp!Mark(c) \/ Sp!MoveConfidence(c) PROVE AuditInv'
  <2>1. standing' \in Sp!Active \cup {"concluded", "invalidated"}
    BY <1>7 DEF Sp!Mark, Sp!MoveConfidence, AuditInv
  <2> QED BY <1>0, <1>7, <2>1, AuditStepped DEF Sp!Mark, Sp!MoveConfidence
<1>8. ASSUME NEW c \in calls,
             Sp!TriggerSynthesis(c) \/ Sp!PersistFinding(c) \/ Sp!AnnounceFinding(c) \/ Sp!RecordAudit(c)
      PROVE  AuditInv'
  BY <1>0, <1>8, TriggerArms, PersistArms, AnnounceArms, RecordArms
<1>9. CASE Sp!Rearm
  BY <1>0, <1>9, RearmArms
<1>10. ASSUME UNCHANGED <<standing, attacked, keys>>, Sp!Mishap, pending' \subseteq pending, calls' \subseteq calls
       PROVE  AuditInv'
  <2>1. faults' \in 0..MaxFaults /\ standing' \in Sp!Active \cup {"concluded", "invalidated"}
    BY <1>10 DEF Sp!Mishap, AuditInv
  <2> QED BY <1>0, <1>10, <2>1, AuditRest
<1>11. ASSUME NEW e \in pending, Sp!Suppress(e) PROVE AuditInv'
  BY <1>10, <1>11 DEF Sp!Suppress
<1>12. ASSUME NEW c \in calls, Sp!Fail(c) PROVE AuditInv'
  BY <1>10, <1>12 DEF Sp!Fail
<1>13. CASE Sp!Crash
  BY <1>10, <1>13 DEF Sp!Crash
<1>14. CASE Sp!Retire \/ UNCHANGED Sp!vars
  <2>1. /\ faults' \in 0..MaxFaults /\ standing' \in Sp!Active \cup {"concluded", "invalidated"}
        /\ UNCHANGED <<attacked, pending, keys, calls>>
    BY <1>14 DEF Sp!Retire, Sp!vars, AuditInv
  <2> QED BY <1>0, <2>1, AuditRest
<1> QED BY <1>1, <1>2, <1>3, <1>4, <1>5, <1>6, <1>7, <1>8, <1>9, <1>11, <1>12, <1>13, <1>14
        DEF Sp!Next, Sp!Handle

\* Together with the counts of the moves, it is an invariant.
LEMMA AuditInvariant == ASSUME Sp!SpineAssumption PROVE Sp!Spec => [](SpineInv /\ AuditInv)
<1>1. Sp!Init => SpineInv /\ AuditInv
  BY SpineInitially, AuditInitially
<1>2. SpineInv /\ AuditInv /\ [Sp!Next]_Sp!vars => (SpineInv /\ AuditInv)'
  BY SpineStep, AuditStep
<1> QED BY <1>1, <1>2, PTL DEF Sp!Spec

(* Every variable of Spine has its type: events and calls are about runs    *)
(* that ended and findings that are there.                                  *)
THEOREM SpineTypeCorrect == ASSUME Sp!SpineAssumption PROVE Sp!Spec => []Sp!TypeOK
<1>1. SpineInv /\ AuditInv => Sp!TypeOK
  <2> SUFFICES ASSUME SpineInv, AuditInv PROVE Sp!TypeOK
    OBVIOUS
  <2>1. Sp!Cardinality(calls) =< MaxCalls /\ Sp!Cardinality(Runs) = Cardinality(Runs)
    BY SameCounting DEF AuditInv
  <2>2. findings \in Seq([n : 0..Sp!Cardinality(Runs), audit : {"none", "pass", "unclear"},
                          confidence : Confidences])
    <3> DEFINE R == [n : 0..Cardinality(Runs), confidence : Confidences,
                     audit : {"none", "pass", "unclear"}]
               Q == [n : 0..Cardinality(Runs), audit : {"none", "pass", "unclear"},
                     confidence : Confidences]
    <3>1. R = Q
      OBVIOUS
    <3>2. findings \in Seq(R)
      BY DEF SpineInv, SpineTyped
    <3> HIDE DEF R
    <3>3. findings \in Seq(Q)
      BY <3>1, <3>2
    <3> QED BY <2>1, <3>3
  <2>3. /\ run \in [Runs -> {"open", "completed", "empty", "failed"}]
        /\ noted \subseteq {x \in Runs : run[x] # "open"} /\ moved \in [Runs -> Nat]
    BY DEF SpineInv, SpineTyped
  <2>4. /\ standing \in Sp!Active \cup {"concluded", "invalidated"} /\ attacked \in 0..Len(findings)
        /\ pending \subseteq Sp!Events /\ keys \subseteq Sp!Events /\ faults \in 0..MaxFaults
        /\ \A c \in calls :
             /\ c.event \in Sp!Events
             /\ c.at \in {"mark", "move", "trigger", "persist", "compose", "audit"}
    BY DEF AuditInv, CallKnown, Armed
  <2> HIDE DEF SpineInv, AuditInv
  <2> QED BY <2>1, <2>2, <2>3, <2>4 DEF Sp!TypeOK
<1> QED BY <1>1, AuditInvariant, PTL

(* The first verdict of the audit on a finding is its last: neither a       *)
(* second call on its event nor a re-armed one writes over it, and so the   *)
(* critic is armed at most by what the finding keeps.                       *)
THEOREM AuditsAreFinal == ASSUME Sp!SpineAssumption PROVE Sp!Spec => Sp!AuditStands
<1>1. ASSUME SpineInv, SpineInv', AuditInv, [Sp!Next]_Sp!vars
      PROVE  \A f \in DOMAIN findings :
               findings[f].audit # "none" => findings'[f].audit = findings[f].audit
  <2>1. DOMAIN findings = 1..Len(findings)
    BY <1>1, FindingsTyped DEF SpineInv
  <2> QED BY <1>1, <2>1, VerdictsKept DEF AuditsStand
<1> QED BY <1>1, AuditInvariant, PTL DEF Sp!Spec, Sp!AuditStands

(* The critic attacks no finding of a direction before one of them has      *)
(* passed its audit, whatever is re-armed, repeated or lost on the way.     *)
THEOREM AuditComesFirst == ASSUME Sp!SpineAssumption PROVE Sp!Spec => []Sp!AttackedAfterAudit
<1>1. AuditInv => Sp!AttackedAfterAudit
  BY DEF AuditInv, Armed
<1> QED BY <1>1, AuditInvariant, PTL
=============================================================================
