------------------------------- MODULE Agenda -------------------------------
(***************************************************************************)
(* Who decides what the lab works on.  A pacemaker ticks: it approves      *)
(* directions up to a budget, asks for independent verdicts on the others, *)
(* and decides whether Ariadne shall re-frame the agenda (deliberate) or   *)
(* steer it (reflect).  Her handlers and the adjudicator run for minutes   *)
(* beside it, and a human may set any gate at any moment.                  *)
(*                                                                         *)
(* A member of Dirs is a place for one direction: when the direction has   *)
(* ended the place takes a new one, with no gate row and no verdict.       *)
(*                                                                         *)
(* Simplifications: the dial of the pacemaker is on; ARIADNE_AUTO_APPROVE  *)
(* and GATE_REQUIRE_ADJUDICATION are on; what a language model answers is  *)
(* arbitrary, growth of the corpus and the age of a reflection as well;    *)
(* what a tick reads and writes without a long wait in between is one step *)
(* (the count and the choice of the gate; the drivers and the decision); a *)
(* gapped direction has ended, its reopening is left to Closure; a call    *)
(* reads when it is taken up; priorities, lessons and evidence requests    *)
(* are left out.  MaxLooks and MaxMishaps are bounds of the model.         *)
(***************************************************************************)
EXTENDS Naturals, FiniteSets, FiniteSetsExt

CONSTANTS
  Dirs,         \* places for directions
  Strong,       \* those whose scores clear the floors of the gate
  Budget,       \* GATE_BUDGET
  MaxCalls,     \* max_concurrent_handlers
  Decisions,    \* what a human may set a gate to
  MaxLooks,     \* bound on the days with a re-look at held directions
  MaxMishaps    \* bound on failed and repeated calls, crashes, failed ticks

ASSUME AgendaAssumption ==
  /\ IsFiniteSet(Dirs) /\ Strong \subseteq Dirs
  /\ Budget \in Nat /\ MaxCalls \in Nat \ {0}
  /\ Decisions \subseteq {"none", "approved", "held"}
  /\ MaxLooks \in Nat \ {0} /\ MaxMishaps \in Nat

VARIABLES
  status,     \* claims.status of each direction: none (there, or any more), active
  worked,     \* directions with a completed experiment or a finding
  gate,       \* direction_gate: none (or pending), approved, held (or rejected)
  verdict,    \* direction_adjudications: none, pass, hold
  missions,   \* active missions
  pending,    \* types of the agenda's pending events
  calls,      \* handler calls
  tick,       \* where the pacemaker is, the rows it approves, what it emits
  ready,      \* the cooldown of the last deliberation is over
  looks,      \* days on which a re-look has been asked for
  mishaps

vars == <<status, worked, gate, verdict, missions, pending, calls,
          tick, ready, looks, mishaps>>

agenda == <<status, worked, gate, verdict, missions>>

\* "relook" is a direction.adjudicate with reconsider_held.
Types == {"deliberate", "reflect", "adjudicate", "relook"}

Live == {d \in Dirs : status[d] = "active"}
Committed == {d \in Live : gate[d] = "approved"}
Unjudged  == {d \in Live : verdict[d] = "none"}
Held      == {d \in Live : verdict[d] = "hold" /\ gate[d] # "approved"}

\* What _decide counts as able to move the lab.
Actionable == Committed \cup Unjudged \cup {d \in Live : verdict[d] = "pass"}

Mishap == mishaps < MaxMishaps /\ mishaps' = mishaps + 1

Idle == [at |-> "idle", rows |-> {}, what |-> "none"]

Init ==
  /\ status = [d \in Dirs |-> "none"] /\ worked = {}
  /\ gate = [d \in Dirs |-> "none"] /\ verdict = [d \in Dirs |-> "none"]
  /\ missions = {}
  /\ pending = {} /\ calls = {}
  /\ tick = Idle /\ ready = TRUE
  /\ looks = 0 /\ mishaps = 0

-----------------------------------------------------------------------------
(* The pacemaker.                                                           *)

\* A bug: every live direction takes a slot.
SlotsOfLive == Budget - Min({Budget, Cardinality(Live)})

Slots == Budget - Min({Budget, Cardinality(Committed)})

Eligible == {d \in Live \cap Strong : gate[d] = "none" /\ verdict[d] = "pass"}

\* The top rows that fit; the scores that order them are arbitrary.
StartTick ==
  /\ tick.at = "idle"
  /\ \E rows \in kSubset(Min({Slots, Cardinality(Eligible)}), Eligible) :
       tick' = [tick EXCEPT !.at = "approve", !.rows = rows]
  /\ UNCHANGED <<agenda, pending, calls, ready, looks, mishaps>>

\* ON CONFLICT overwrites whatever has become of the gate since.
ApproveRow ==
  /\ tick.at = "approve"
  /\ \E d \in tick.rows :
       /\ gate' = [gate EXCEPT ![d] = "approved"]
       /\ tick' = [tick EXCEPT !.rows = @ \ {d}]
  /\ UNCHANGED <<status, worked, verdict, missions, pending, calls,
                 ready, looks, mishaps>>

AdjudicatePending == pending \cap {"adjudicate", "relook"} # {}

\* A bug: an approved agenda is not judged any more.
AdjudicateDueUncommitted == Unjudged # {} /\ Committed = {} /\ ~AdjudicatePending

\* A bug: it is asked for again although it is queued.
AdjudicateDueAgain == Unjudged # {} /\ "adjudicate" \notin pending

AdjudicateDue == Unjudged # {} /\ ~AdjudicatePending

\* A bug: a wholly held agenda does not count as exhausted.
ExhaustedEmpty == missions # {} /\ Live = {}

Exhausted == /\ missions # {}
             /\ Live = {} \/ (Committed = {} /\ Actionable = {})

\* One re-look a day: another day may have come since the last one.
LooksToday == IF looks = 0 THEN {FALSE} ELSE {TRUE} \cup {looks = MaxLooks}

\* What _decide may return with the exhaustion hatch closed.
Beat == IF missions = {} THEN {"deliberate"}
        ELSE {"none", "reflect"}
             \cup (IF Committed = {} /\ ready THEN {"deliberate"} ELSE {})

Return(what) == tick' = IF what = "none" THEN Idle
                        ELSE [at |-> "emit", rows |-> {}, what |-> what]

\* The exhaustion hatch: first the re-look, then a deliberation.
Hatch ==
  \E looked \in LooksToday :
    IF Live # {} /\ (AdjudicatePending \/ ~looked)
    THEN /\ IF AdjudicatePending THEN UNCHANGED <<pending, looks>>
            ELSE pending' = pending \cup {"relook"} /\ looks' = looks + 1
         /\ Return("none")
    ELSE /\ Return(IF ready THEN "deliberate" ELSE "none")
         /\ UNCHANGED <<pending, looks>>

\* The drivers, then _decide.
Decide ==
  /\ tick.at = "approve" /\ tick.rows = {}
  /\ IF pending \cap {"deliberate", "reflect"} = {} /\ Exhausted
     THEN Hatch
     ELSE /\ pending' = pending \cup (IF AdjudicateDue THEN {"adjudicate"} ELSE {})
          /\ \E what \in IF pending \cap {"deliberate", "reflect"} = {} THEN Beat
                         ELSE {"none"} : Return(what)
          /\ UNCHANGED looks
  /\ UNCHANGED <<agenda, calls, ready, mishaps>>

\* The refresh of the field model comes between the decision and its event.
EmitDecided ==
  /\ tick.at = "emit"
  /\ pending' = pending \cup {tick.what}
  /\ ready' = (ready /\ tick.what # "deliberate")
  /\ tick' = Idle
  /\ UNCHANGED <<agenda, calls, looks, mishaps>>

TickFails ==
  /\ tick.at # "idle" /\ Mishap
  /\ tick' = Idle
  /\ UNCHANGED <<agenda, pending, calls, ready, looks>>

-----------------------------------------------------------------------------
(* Handler calls.  The sweep may take an event up again before it is        *)
(* settled; "open" says that the event of the call still is not.            *)

\* What handle_direction_adjudicate reads.
ToJudge(type) == Unjudged \cup (IF type = "relook" THEN Held ELSE {})

Call(type) ==
  [type |-> type, open |-> TRUE, take |-> mishaps', seen |-> {},
   at |-> CASE type = "deliberate" -> "answer"
            [] type = "reflect" -> "persist"
            [] OTHER -> "judge",
   dirs |-> CASE type = "deliberate" -> {}
              [] type = "reflect" -> Live
              [] OTHER -> ToJudge(type)]

\* A reflection on no agenda and an adjudication of nothing return at once.
Take(type) ==
  /\ type \in pending
  /\ IF \E c \in calls : c.type = type /\ c.open THEN Mishap ELSE UNCHANGED mishaps
  /\ Cardinality(calls) < MaxCalls
  /\ calls' = calls \cup {Call(type)}
  /\ UNCHANGED <<agenda, pending, tick, ready, looks>>

Goes(c, next) == calls' = (calls \ {c}) \cup {next} /\ UNCHANGED pending

Closed(cs, type) == {[k EXCEPT !.open = (@ /\ k.type # type)] : k \in cs}

\* A bug: the end of a call leaves its twin in charge of the event.
SettleAlone(c, rest) ==
  /\ calls' = rest \ {c}
  /\ pending' = IF c.open THEN pending \ {c.type} ELSE pending

\* The call ends, well or not, and its event is consumed.
Settle(c, rest) ==
  /\ calls' = IF c.open THEN Closed(rest \ {c}, c.type) ELSE rest \ {c}
  /\ pending' = IF c.open THEN pending \ {c.type} ELSE pending

(* handle_ariadne_deliberate: the answer, graded; then persist_directions.  *)

\* The UPDATE of the missions sees those committed when it starts.
BeginPersist(c) ==
  /\ c \in calls /\ c.at = "answer"
  /\ \/ Goes(c, [c EXCEPT !.at = "persist", !.seen = missions])
     \/ Settle(c, calls)     \* failed grading, twice: nothing is written
  /\ UNCHANGED <<agenda, tick, ready, looks, mishaps>>

Superseded == Live \ worked

\* A bug: as long as directions survive, so does their mission.
SupersededMissionsUnworked(c) == IF Live \subseteq worked THEN c.seen ELSE {}

SupersededMissions(c) == c.seen

NewMission ==
  LET known == missions \cup UNION {k.seen : k \in calls}
  IN Min((1..(Cardinality(known) + 1)) \ known)

\* The directions ds end; what old calls and the tick still write about them
\* has no effect, and their places are free.
Vacate(ds) ==
  /\ gate' = [d \in Dirs |-> IF d \in ds THEN "none" ELSE gate[d]]
  /\ verdict' = [d \in Dirs |-> IF d \in ds THEN "none" ELSE verdict[d]]
  /\ worked' = worked \ ds
  /\ tick' = [tick EXCEPT !.rows = @ \ ds]
Forgotten(cs, ds) == {[k EXCEPT !.dirs = @ \ ds] : k \in cs}
Free == {d \in Dirs : status[d] = "none"}

\* The statements after that UPDATE, and the commit.
Persist(c) ==
  /\ c \in calls /\ c.type = "deliberate" /\ c.at = "persist"
  /\ \E new \in SUBSET (Free \cup Superseded) :
       /\ new = {} => Free \cup Superseded = {}
       /\ status' = [d \in Dirs |-> IF d \in new THEN "active"
                                    ELSE IF d \in Superseded THEN "none" ELSE status[d]]
  /\ Vacate(Superseded)
  /\ LET others == Forgotten(calls \ {c}, Superseded)
     IN Settle(c, others \cup {c})
  /\ missions' = (missions \ SupersededMissions(c)) \cup {NewMission}
  /\ UNCHANGED <<ready, looks, mishaps>>

(* handle_ariadne_reflect: the answer, graded; then one transaction.        *)

\* advance_direction leaves alone what has no legal edge to 'invalidated' any more.
Steer(c) ==
  /\ c \in calls /\ c.type = "reflect" /\ c.at = "persist"
  /\ \E retired \in SUBSET (c.dirs \cap Live) :
       /\ status' = [d \in Dirs |-> IF d \in retired THEN "none" ELSE status[d]]
       /\ Vacate(retired)
       /\ LET others == Forgotten(calls \ {c}, retired)
          IN Settle(c, others \cup {c})
  /\ UNCHANGED <<missions, ready, looks, mishaps>>

(* handle_direction_adjudicate: one model call and one UPSERT at a time.    *)

\* Left without a verdict if the model call fails.
Judge(c) ==
  /\ c \in calls /\ c.at = "judge"
  /\ \E d \in c.dirs :
       /\ \/ /\ \E v \in {"pass", "hold"} : verdict' = [verdict EXCEPT ![d] = v]
             /\ UNCHANGED mishaps
          \/ Mishap /\ UNCHANGED verdict
       /\ Goes(c, [c EXCEPT !.dirs = @ \ {d}])
  /\ UNCHANGED <<status, worked, gate, missions, tick, ready, looks>>

\* All that was to be judged is, or has ended in the meantime.
JudgeNone(c) ==
  /\ c \in calls /\ c.at = "judge" /\ c.dirs = {}
  /\ Settle(c, calls)
  /\ UNCHANGED <<agenda, tick, ready, looks, mishaps>>

Fail(c) ==
  /\ c \in calls /\ Mishap
  /\ Settle(c, calls)
  /\ UNCHANGED <<agenda, tick, ready, looks>>

Suppress(type) ==
  /\ type \in pending /\ Mishap
  /\ \A c \in calls : c.type # type
  /\ pending' = pending \ {type}
  /\ UNCHANGED <<agenda, calls, tick, ready, looks>>

Crash ==
  /\ tick # Idle \/ calls # {}
  /\ Mishap
  /\ tick' = Idle /\ calls' = {}
  /\ UNCHANGED <<agenda, pending, ready, looks>>

-----------------------------------------------------------------------------
(* A human, and what the rest of the lab does to a direction.               *)

\* set_gate asks neither for the status nor for a verdict.
SetGate(d) ==
  /\ status[d] # "none"
  /\ \E decision \in Decisions :
       /\ decision = "approved" => Cardinality(Committed \ {d}) < Budget
       /\ gate' = [gate EXCEPT ![d] = decision]
  /\ UNCHANGED <<status, worked, verdict, missions, pending, calls,
                 tick, ready, looks, mishaps>>

\* An experiment completes, or a finding is written.
Work(d) ==
  /\ d \in Committed /\ worked' = worked \cup {d}
  /\ UNCHANGED <<status, gate, verdict, missions, pending, calls,
                 tick, ready, looks, mishaps>>

\* A finding concludes it, or the ladder gaps it.
End(d) ==
  /\ d \in Committed
  /\ status' = [status EXCEPT ![d] = "none"]
  /\ Vacate({d})
  /\ calls' = Forgotten(calls, {d})
  /\ UNCHANGED <<missions, pending, ready, looks, mishaps>>

CooldownEnds ==
  /\ ~ready /\ ready' = TRUE
  /\ UNCHANGED <<agenda, pending, calls, tick, looks, mishaps>>

-----------------------------------------------------------------------------
Tick == StartTick \/ ApproveRow \/ Decide \/ EmitDecided

Proceed(c) == \/ BeginPersist(c) \/ Persist(c) \/ Steer(c) \/ Judge(c) \/ JudgeNone(c)

Next ==
  \/ Tick \/ TickFails
  \/ \E type \in Types : Take(type) \/ Suppress(type)
  \/ \E c \in calls : Proceed(c) \/ Fail(c)
  \/ Crash
  \/ \E d \in Dirs : SetGate(d) \/ Work(d) \/ End(d)
  \/ CooldownEnds

(* Fairness: the pacemaker ticks, the cooldown runs out, every call goes on *)
(* (to each event at most mishaps repeated ones), and a pending event gets  *)
(* its slot however many others want one: the semaphore is a queue.         *)
(* Nothing is assumed of the human, of the model's answers, of the corpus   *)
(* or of the research.                                                      *)
Fairness ==
  /\ WF_vars(Tick)
  /\ WF_vars(CooldownEnds)
  /\ \A type \in Types :
       /\ SF_vars(Take(type))
       /\ \A take \in 0..MaxMishaps :
            WF_vars(\E c \in calls : c.type = type /\ c.take = take /\ Proceed(c))

Spec     == Init /\ [][Next]_vars
FairSpec == Spec /\ Fairness

-----------------------------------------------------------------------------
TypeOK ==
  /\ status \in [Dirs -> {"none", "active"}]
  /\ gate \in [Dirs -> {"none", "approved", "held"}]
  /\ verdict \in [Dirs -> {"none", "pass", "hold"}]
  /\ \A d \in Dirs : status[d] = "none" =>
       gate[d] = "none" /\ verdict[d] = "none" /\ d \notin worked
  /\ worked \subseteq Dirs
  /\ missions \subseteq Nat
  /\ pending \subseteq Types
  /\ Cardinality(calls) =< MaxCalls
  /\ \A c \in calls :
       /\ c.type \in Types /\ c.at \in {"answer", "persist", "judge"}
       /\ c.dirs \subseteq Dirs /\ c.seen \subseteq Nat
       /\ c.open => c.type \in pending
  /\ tick \in [at : {"idle", "approve", "emit"},
               rows : SUBSET {d \in Dirs : status[d] # "none"},
               what : {"none", "deliberate", "reflect"}]
  /\ ready \in BOOLEAN /\ looks \in 0..MaxLooks
  /\ mishaps \in 0..MaxMishaps

(* One agenda stands at a time: without a repeated call there is one active *)
(* mission, and each mishap adds one at most (the UPDATE of a repeated      *)
(* deliberation does not see the mission its twin has just inserted).       *)
MissionsBounded == Cardinality(missions) =< 1 + mishaps

(* The independent verdict "pass" is not taken back while its direction     *)
(* lives, by a re-look at held directions or by a call that had read the    *)
(* direction as unjudged, unless some call was repeated or failed.          *)
PassStands ==
  [][\A d \in Dirs :
       (verdict[d] = "pass" /\ verdict'[d] = "hold") => mishaps > 0]_vars

(* An agenda all of whose directions are held, or have ended, is re-framed: *)
(* a deliberation is asked for, unless something becomes workable first.    *)
AllHeld == missions # {} /\ \A d \in Live : verdict[d] = "hold" /\ gate[d] # "approved"
Reframing == "deliberate" \in pending
ExhaustedReframed == AllHeld ~> (~AllHeld \/ Reframing)

(* Every direction gets an independent verdict, unless it ends or another   *)
(* mission takes the place of the one it stands under.                      *)
DirectionsJudged ==
  \A d \in Dirs, m \in 1..(MaxMishaps + 2) :
    (d \in Unjudged /\ m \in missions) ~> (d \notin Unjudged \/ m \notin missions)

(* A direction that passed and clears the floors is approved, unless the    *)
(* budget is full or someone decides otherwise first.                       *)
Approvable(d) == d \in Live \cap Strong /\ gate[d] = "none" /\ verdict[d] = "pass"
PassedApproved ==
  \A d \in Dirs :
    Approvable(d) ~> (~Approvable(d) \/ Cardinality(Committed) >= Budget)

(* "Approved directions in flight = committed work; never re-frame over it" *)
(* (ariadne_pace._decide): no deliberation ends an approved direction.      *)
ReframeSparesCommitted ==
  [][missions' # missions => Committed \subseteq Committed']_vars

(* "adjudicated 'pass' (auto-approvable)", and "without this escape hatch   *)
(* the lab parks silently" (ariadne_pace._decide): when nothing is          *)
(* approved, to be judged or to be approved, the agenda is re-framed.       *)
Parked == missions # {} /\ Committed = {} /\ Unjudged = {}
          /\ \A d \in Dirs : ~Approvable(d)
ParkedReframed == Parked ~> (~Parked \/ Reframing)
=============================================================================
