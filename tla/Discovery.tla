----------------------------- MODULE Discovery -----------------------------
(****************************************************************************)
(* Mimir's discovery: who asks for a sweep, which page of the catalogue a   *)
(* sweep reads, and which of the sources it sees are told to the Library.   *)
(*                                                                          *)
(* Three ask: the pump, whenever the intake runs low; the agenda tick, when *)
(* Ariadne is at work; the closure ladder, for a direction.  All share one  *)
(* cursor per scout: the newest page when it has not been read for two      *)
(* hours, else the next deeper one, and around.  A sweep reads one page of  *)
(* every topic, through the one gate to arXiv (a lock, and a cooldown that  *)
(* is checked before the lock is waited for), drops what the corpus holds   *)
(* and what was attempted lately, and emits the rest one by one.            *)
(*                                                                          *)
(* Abstractions: one scout, scout_arxiv, the default; offsets count pages;  *)
(* a topic's catalogue is its newest[t] submissions, newest first; timers   *)
(* are flags; what the intake holds besides sweeps only slows the pump.     *)
(* Requests numbers the sweeps asked for at one time, Depth bounds the      *)
(* submissions, MaxMishaps the faults.                                      *)
(****************************************************************************)
EXTENDS Naturals, Sequences, FiniteSets

CONSTANTS
  Frontier,     \* discovery_topics, a sequence
  SliceSize,    \* _AGGRESSIVE_TOPICS
  Claims,       \* what the active claims and the thin directions are about
  Requests,     \* events library.sweep_requested
  Sweepers,     \* handlers that may run at once
  MaxOffset,    \* LIBRARY_MAX_OFFSET, in pages
  LowWater,     \* LIBRARY_PUMP_LOW_WATER
  TripAt,       \* failures in a row that start the cooldown
  Depth,        \* submissions of a topic
  MaxMishaps,
  NoEvent, NoTopic, NoOne

Topics == {Frontier[i] : i \in 1..Len(Frontier)} \cup Claims
Sources == Topics \X (1..Depth)
Offsets == 0..MaxOffset

ASSUME DiscoveryAssumption ==
  /\ Frontier \in Seq(Topics) /\ Frontier # <<>> /\ SliceSize \in Nat \ {0}
  /\ MaxOffset \in Nat /\ LowWater \in Nat \ {0} /\ TripAt \in Nat \ {0}
  /\ Depth \in Nat \ {0} /\ MaxMishaps \in Nat
  /\ NoEvent \notin Requests /\ NoTopic \notin Topics /\ NoOne \notin Sweepers
  /\ Claims \cap {"none", "pump", "agenda"} = {}

VARIABLES
  dark,       \* KNOWLEDGE_CORE_ONLY
  rotation,   \* _rotation_index
  agendaDue,  \* six hours have passed since the last agenda sweep
  asker,      \* pending request -> "pump", "agenda" or the topic it aims at
  offset, refreshed,   \* the cursor; its newest page was read in the last 2 h
  newest,     \* topic -> submissions so far
  holder, streak, cooling,   \* the gate to arXiv
  ledger,     \* source -> last attempt: "never", "recent" or "past"
  told,       \* sources with a source.discovered event
  pc, on, start, todo, at, hits,   \* per sweeper
  mishaps

asking == <<dark, rotation, agendaDue, asker>>
cursor == <<offset, refreshed>>
gate == <<holder, streak, cooling>>
corpus == <<ledger, told>>
work == <<pc, on, start, todo, at, hits>>
vars == <<asking, cursor, newest, gate, corpus, work, mishaps>>

Min2(a, b) == IF a < b THEN a ELSE b

(* _rotate: the window of the frontier this moment's index falls on.        *)
Slice ==
  LET k == Min2(SliceSize, Len(Frontier))
  IN {Frontier[((rotation * k + i) % Len(Frontier)) + 1] : i \in 0..(k - 1)}

(* plan_sweep: the agenda's topics come on top when Ariadne is at work.     *)
Planned == IF dark THEN Slice ELSE Slice \cup Claims

(* The page of a topic: nothing beyond the end of its catalogue.            *)
Page(t, o) == {s \in {t} \X (1..newest[t]) : newest[t] - s[2] = o}

Init ==
  /\ dark \in BOOLEAN /\ rotation = 0 /\ agendaDue = ~dark
  /\ asker = [r \in Requests |-> "none"]
  /\ offset = 0 /\ refreshed = FALSE
  /\ newest \in [Topics -> 1..Depth]
  /\ holder = NoOne /\ streak = 0 /\ cooling = FALSE
  /\ ledger = [s \in Sources |-> "never"] /\ told = {}
  /\ pc = [w \in Sweepers |-> "idle"] /\ on = [w \in Sweepers |-> NoEvent]
  /\ start = [w \in Sweepers |-> 0] /\ todo = [w \in Sweepers |-> {}]
  /\ at = [w \in Sweepers |-> NoTopic] /\ hits = [w \in Sweepers |-> {}]
  /\ mishaps = 0

Goto(w, there) == pc' = [pc EXCEPT ![w] = there]
Mishap == mishaps < MaxMishaps /\ mishaps' = mishaps + 1
Pending == {r \in Requests : asker[r] # "none"}
Emit(r, who) ==
  /\ r \notin Pending /\ \A w \in Sweepers : on[w] # r
  /\ asker' = [asker EXCEPT ![r] = who]

----------------------------------------------------------------------------
(* Asking for sweeps                                                        *)

\* A bug: the backlog counts discovered and parsed sources only.
BacklogOfSources == 0
(* _intake_backlog, as far as it is sweeps: an event is pending until its   *)
(* handler is through.                                                      *)
Backlog == Cardinality(Pending)

(* _discovery_pump_loop.  A probe that fails reads as an empty intake.  An  *)
(* active lab pumps while its research front is idle, which may be ever.    *)
Pump(r) ==
  /\ \/ Backlog < LowWater /\ UNCHANGED mishaps
     \/ Mishap
  /\ Emit(r, "pump")
  /\ UNCHANGED <<dark, rotation, agendaDue, cursor, newest, gate, corpus, work>>

(* _sweep_library_if_due.                                                   *)
AgendaSweep(r) ==
  /\ ~dark /\ agendaDue /\ agendaDue' = FALSE
  /\ Emit(r, "agenda")
  /\ UNCHANGED <<dark, rotation, cursor, newest, gate, corpus, work, mishaps>>

(* _emit_targeted_sweep.                                                    *)
Target(r, t) ==
  /\ Emit(r, t)
  /\ UNCHANGED <<dark, rotation, agendaDue, cursor, newest, gate, corpus, work, mishaps>>

----------------------------------------------------------------------------
(* A sweep                                                                  *)

\* A bug: the walk stops at the last offset.
AdvanceOnly == Min2(offset + 1, MaxOffset)
Advance == IF offset + 1 > MaxOffset THEN 0 ELSE offset + 1

(* discovery_offset: the newest page or the next deeper one; a sweep whose  *)
(* cursor fails reads the newest.                                           *)
Refresh(w) ==
  /\ ~refreshed /\ refreshed' = TRUE
  /\ start' = [start EXCEPT ![w] = 0]
  /\ UNCHANGED <<offset, mishaps>>

Deepen(w) ==
  /\ refreshed /\ offset' = Advance
  /\ start' = [start EXCEPT ![w] = offset]
  /\ UNCHANGED <<refreshed, mishaps>>

NoCursor(w) ==
  /\ Mishap
  /\ start' = [start EXCEPT ![w] = 0]
  /\ UNCHANGED cursor

(* Notified, or found pending by the watchdog: two handlers may have one    *)
(* event.                                                                   *)
Take(w, r) ==
  /\ pc[w] = "idle" /\ r \in Pending /\ Goto(w, "search")
  /\ on' = [on EXCEPT ![w] = r]
  /\ todo' = [todo EXCEPT ![w] = IF asker[r] \in Claims THEN {asker[r]} ELSE Planned]
  /\ Refresh(w) \/ Deepen(w) \/ NoCursor(w)
  /\ UNCHANGED <<asking, newest, gate, corpus, at, hits>>

\* A bug: the cooldown is not asked for.
SearchOn(w, t) ==
  /\ pc[w] = "search" /\ t \in todo[w]
  /\ todo' = [todo EXCEPT ![w] = @ \ {t}]
  /\ Goto(w, "queued") /\ at' = [at EXCEPT ![w] = t]
  /\ UNCHANGED <<asking, cursor, newest, gate, corpus, on, start, hits, mishaps>>

(* search_arxiv: while it cools down a search is empty at once.             *)
Search(w, t) ==
  /\ pc[w] = "search" /\ t \in todo[w]
  /\ todo' = [todo EXCEPT ![w] = @ \ {t}]
  /\ IF cooling THEN UNCHANGED <<pc, at>>
     ELSE Goto(w, "queued") /\ at' = [at EXCEPT ![w] = t]
  /\ UNCHANGED <<asking, cursor, newest, gate, corpus, on, start, hits, mishaps>>

(* The lock is had, and the cooldown is not looked at again.                *)
Send(w) ==
  /\ pc[w] = "queued" /\ holder = NoOne
  /\ holder' = w /\ Goto(w, "calling")
  /\ UNCHANGED <<asking, cursor, newest, streak, cooling, corpus, on, start, todo, at, hits, mishaps>>

Answered(w) ==
  /\ pc[w] = "calling" /\ Goto(w, "search")
  /\ holder' = NoOne
  /\ at' = [at EXCEPT ![w] = NoTopic]
  /\ UNCHANGED <<asking, cursor, newest, corpus, on, start, todo>>

Answer(w) ==
  /\ Answered(w)
  /\ hits' = [hits EXCEPT ![w] = @ \cup Page(at[w], start[w])]
  /\ streak' = 0
  /\ UNCHANGED <<cooling, mishaps>>

(* One more failure in a row.                                               *)
NoAnswer(w) ==
  /\ Mishap /\ Answered(w)
  /\ streak' = Min2(streak + 1, TripAt)
  /\ cooling' = (cooling \/ streak + 1 >= TripAt)
  /\ UNCHANGED hits

\* A bug: what has been seen once is never surfaced again.
SurfaceUnseen(S) == {s \in S : ledger[s] = "never"}
(* discovery_filter_new: never seen, or not for twelve hours.               *)
Surface(S) == {s \in S : ledger[s] # "recent"}

(* The novelty gate.  The attempt is recorded before anything is emitted; a *)
(* source that has been told is in the corpus, or its event's key keeps it  *)
(* from being told again.                                                   *)
Filter(w) ==
  /\ pc[w] = "search" /\ todo[w] = {} /\ Goto(w, "emit")
  /\ LET due == Surface(hits[w] \ told)
     IN /\ ledger' = [s \in Sources |-> IF s \in due THEN "recent" ELSE ledger[s]]
        /\ hits' = [hits EXCEPT ![w] = due]
  /\ start' = [start EXCEPT ![w] = 0]
  /\ UNCHANGED <<asking, cursor, newest, gate, told, on, todo, at, mishaps>>

Leave(w) ==
  /\ Goto(w, "idle")
  /\ asker' = [asker EXCEPT ![on[w]] = "none"]
  /\ on' = [on EXCEPT ![w] = NoEvent] /\ start' = [start EXCEPT ![w] = 0]
  /\ todo' = [todo EXCEPT ![w] = {}] /\ at' = [at EXCEPT ![w] = NoTopic]
  /\ hits' = [hits EXCEPT ![w] = {}]
  /\ UNCHANGED <<dark, rotation, agendaDue>>

(* source.discovered for each, library.sweep_settled, the event consumed.   *)
Settle(w) ==
  /\ pc[w] = "emit"
  /\ told' = told \cup hits[w]
  /\ Leave(w)
  /\ UNCHANGED <<cursor, newest, gate, ledger, mishaps>>

(* What a sweep that ends early has emitted by then.                        *)
Emitted(w) == IF pc[w] = "emit" THEN SUBSET hits[w] ELSE {{}}

(* The handler raises or times out: the event is failed, what it had read   *)
(* is lost.  The lock is left on the way out.                               *)
Fail(w) ==
  /\ pc[w] # "idle" /\ Mishap
  /\ \E S \in Emitted(w) : told' = told \cup S
  /\ Leave(w)
  /\ holder' = IF holder = w THEN NoOne ELSE holder
  /\ UNCHANGED <<cursor, newest, streak, cooling, ledger>>

(* The process dies: its events stay pending, its gate and timers start     *)
(* anew.                                                                    *)
Crash ==
  /\ Mishap
  /\ pc' = [w \in Sweepers |-> "idle"] /\ on' = [w \in Sweepers |-> NoEvent]
  /\ start' = [w \in Sweepers |-> 0] /\ todo' = [w \in Sweepers |-> {}]
  /\ at' = [w \in Sweepers |-> NoTopic] /\ hits' = [w \in Sweepers |-> {}]
  /\ holder' = NoOne /\ streak' = 0 /\ cooling' = FALSE
  /\ agendaDue' = ~dark
  /\ \E S \in [Sweepers -> SUBSET Sources] :
       /\ \A w \in Sweepers : S[w] \in Emitted(w)
       /\ told' = told \cup UNION {S[w] : w \in Sweepers}
  /\ UNCHANGED <<dark, rotation, asker, cursor, newest, ledger>>

----------------------------------------------------------------------------
(* Time and the world                                                       *)

Turn ==
  /\ rotation' = (rotation + 1) % Len(Frontier)
  /\ UNCHANGED <<dark, agendaDue, asker, cursor, newest, gate, corpus, work, mishaps>>

AgendaTick ==
  /\ ~dark /\ agendaDue' = TRUE
  /\ UNCHANGED <<dark, rotation, asker, cursor, newest, gate, corpus, work, mishaps>>

WindowEnds ==
  /\ refreshed' = FALSE
  /\ UNCHANGED <<asking, offset, newest, gate, corpus, work, mishaps>>

RetryDue(s) ==
  /\ ledger[s] = "recent" /\ s \notin told
  /\ ledger' = [ledger EXCEPT ![s] = "past"]
  /\ UNCHANGED <<asking, cursor, newest, gate, told, work, mishaps>>

CooldownEnds ==
  /\ cooling /\ cooling' = FALSE
  /\ UNCHANGED <<asking, cursor, newest, holder, streak, corpus, work, mishaps>>

Submit(t) ==
  /\ newest[t] < Depth
  /\ newest' = [newest EXCEPT ![t] = @ + 1]
  /\ UNCHANGED <<asking, cursor, gate, corpus, work, mishaps>>

Ask(r) ==
  \/ Pump(r) \/ AgendaSweep(r)
  \/ \E t \in Claims : Target(r, t)

Sweep(w) ==
  \/ \E r \in Requests : Take(w, r)
  \/ Send(w) \/ Answer(w) \/ Filter(w) \/ Settle(w)
  \/ \E t \in Topics : Search(w, t)

Next ==
  \/ \E r \in Requests : Ask(r)
  \/ \E w \in Sweepers : Sweep(w) \/ NoAnswer(w) \/ Fail(w)
  \/ Crash
  \/ Turn \/ AgendaTick \/ WindowEnds \/ CooldownEnds
  \/ \E s \in Sources : RetryDue(s)
  \/ \E t \in Topics : Submit(t)

(* The pump looks every ten seconds, a pending event is taken up again by   *)
(* the watchdog, handlers run on, and timers run out.                       *)
Fairness ==
  /\ WF_vars(\E r \in Requests : Pump(r))
  /\ \A w \in Sweepers : WF_vars(Sweep(w)) /\ SF_vars(Send(w))
  /\ \A s \in Sources : WF_vars(RetryDue(s))
  /\ WF_vars(CooldownEnds) /\ WF_vars(Turn)

Spec == Init /\ [][Next]_vars
FairSpec == Spec /\ Fairness

----------------------------------------------------------------------------
(* Properties                                                               *)

(* Types; who has the lock is calling, and a sweeper at work has an event.  *)
TypeOK ==
  /\ dark \in BOOLEAN /\ rotation \in Nat /\ agendaDue \in BOOLEAN
  /\ asker \in [Requests -> {"none", "pump", "agenda"} \cup Claims]
  /\ offset \in Offsets /\ refreshed \in BOOLEAN
  /\ newest \in [Topics -> 1..Depth]
  /\ holder \in Sweepers \cup {NoOne} /\ streak \in 0..TripAt /\ cooling \in BOOLEAN
  /\ ledger \in [Sources -> {"never", "recent", "past"}] /\ told \subseteq Sources
  /\ pc \in [Sweepers -> {"idle", "search", "queued", "calling", "emit"}]
  /\ on \in [Sweepers -> Requests \cup {NoEvent}]
  /\ start \in [Sweepers -> Offsets] /\ todo \in [Sweepers -> SUBSET Topics]
  /\ at \in [Sweepers -> Topics \cup {NoTopic}] /\ hits \in [Sweepers -> SUBSET Sources]
  /\ mishaps \in 0..MaxMishaps
  /\ \A w \in Sweepers : (pc[w] = "calling") <=> (holder = w)
  /\ \A w \in Sweepers : (pc[w] = "idle") <=> (on[w] = NoEvent)

(* The pump's sweeps never stack up beyond its low water, whatever the      *)
(* agenda and the ladder ask for besides, but for probes that failed.       *)
PumpBounded == Cardinality({r \in Requests : asker[r] = "pump"}) <= LowWater + mishaps

(* "Hammering a tarpit only extends the block": while arXiv is left alone   *)
(* no further call joins those that had already found the gate open.        *)
AtGate == {w \in Sweepers : pc[w] \in {"queued", "calling"}}
LeftAlone == [][cooling /\ cooling' => AtGate' \subseteq AtGate]_vars

(* Assumed below: sweeps keep coming inside the window of two hours.        *)
Deepens == \E w \in Sweepers, r \in Requests : Take(w, r) /\ Deepen(w)
Busy == dark /\ []<><<Deepens>>_vars
Reading(w, o) == pc[w] = "calling" /\ start[w] = o

(* The walk goes on: a lab that builds its base reads every page again and  *)
(* again, whatever crashed or was cooling when it came by the last time.    *)
WalkGoesOn == Busy => \A o \in Offsets : []<>(\E w \in Sweepers : Reading(w, o))

(* What the catalogue shows within reach is told in the end: a sweep that   *)
(* died between the ledger and the event only delays it.                    *)
InReach(s) == s[2] <= newest[s[1]] /\ newest[s[1]] - s[2] <= MaxOffset
Announced == Busy => \A s \in Sources : <>[](InReach(s) => s \in told)

(* "coverage walks the whole taxonomy over time".  Violated where the        *)
(* frontier has more than one slice: the slice turns with the clock and the *)
(* offset with the sweeps, and a topic may always meet the same offsets.    *)
EveryTopicWalked ==
  Busy => \A t \in Topics, o \in Offsets :
            []<>(\E w \in Sweepers : Reading(w, o) /\ at[w] = t)

(* collectors.py: "scanned == 0 => the sweep was BLIND".  Violated: a sweep *)
(* for a narrow topic reads the page that the shared cursor has come to.    *)
SeesWhatIsThere ==
  \A w \in Sweepers :
    pc[w] = "search" /\ todo[w] = {} /\ streak = 0 /\ ~cooling
      => hits[w] # {}
=============================================================================
