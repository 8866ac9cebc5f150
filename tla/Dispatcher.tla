----------------------------- MODULE Dispatcher -----------------------------
(***************************************************************************)
(* The event dispatcher of harness/dispatch.py: one asyncio process that   *)
(* turns rows of the Postgres `events` table into handler coroutines.      *)
(*                                                                         *)
(* An event row is inserted 'pending' by anybody.  A coroutine of          *)
(* `_process_event` is created for it by a NOTIFY, by the startup drain    *)
(* or by the watchdog's sweep; nothing claims the row, so several          *)
(* coroutines may work on one event.  Each re-reads the row, passes the    *)
(* gates, waits for a slot of its lane and then for one of the pool, runs  *)
(* the handler and writes the outcome without looking at the row again.    *)
(*                                                                         *)
(* Simplifications:                                                        *)
(*  - the mode dial, cooldown, cost and slop gates are separate queries in *)
(*    the code and one step here;                                          *)
(*  - the batches of 200 of the startup drain are one read;                *)
(*  - time is the age order of the rows: the first `aged` rows of `bus`    *)
(*    are more than two minutes old;                                       *)
(*  - a handler's own work is out of sight, except the cooldown it         *)
(*    installs as its first write;                                         *)
(*  - MaxQueued, Wakes and MaxMishaps are bounds.                          *)
(***************************************************************************)
EXTENDS Naturals, Sequences, FiniteSets

CONSTANTS
  Events,        \* event rows
  Row,           \* [Events -> record]: the columns the dispatcher looks at
  Wakes,         \* coroutines of _process_event past their first read
  Agents,        \* agents that have a mode dial
  HandlerAgent,  \* [registered event types -> Agents \cup {NoAgent}]: agent_of
  NoAgent,       \* a system handler: no dial
  NoTarget,      \* target_id IS NULL
  NoEvent,       \* the event of a coroutine that is not there
  Lanes,         \* lanes named in AGENT_CONCURRENCY
  LaneCap,       \* [Lanes -> Nat \ {0}]
  MaxHandlers,   \* max_concurrent_handlers
  DrainMax,      \* _DRAIN_MAX
  SweepLimit,    \* LIMIT of _sweep_pending_events
  MaxQueued,     \* bound on coroutines of one event that have not run yet
  Mishaps,       \* the kinds of mishap that can happen
  MaxMishaps     \* and how many of them

ASSUME DispatcherAssumption ==
  /\ IsFiniteSet(Wakes)
  /\ MaxHandlers \in Nat
  /\ LaneCap \in [Lanes -> Nat]
  /\ NoAgent \notin Agents
  /\ NoEvent \notin Events
  /\ \A t \in DOMAIN HandlerAgent : HandlerAgent[t] \in Agents \cup {NoAgent}
  /\ DrainMax \in Nat
  /\ SweepLimit \in Nat
  /\ MaxQueued \in Nat \ {0}
  /\ Mishaps \subseteq {"deaf", "die", "database", "dial", "cost", "slop"}
  /\ MaxMishaps \in Nat

VARIABLES
  phase,      \* where Dispatcher.run() is
  bus,        \* rows in emitted_at order
  aged,       \* how many of them are older than the sweep's two minutes
  status,     \* events.status, "unborn" before the insert
  queued,     \* coroutines created for an event that have not run yet
  pc, on,     \* per coroutine: where it is, and its event
  laneFree,   \* _agent_sems: free permits
  poolFree,   \* _handler_sem: free permits
  dial,       \* agent_modes: does the row say advisory or active
  stale,      \* agents whose cached mode is not what the row says
  cool,       \* live rows of the cooldowns table
  capped,     \* cost_tracking.cap_reached
  slop,       \* events aimed at a claim whose slop rate is above 0.40
  ran,        \* history: a handler call for this event returned
  missed,     \* history: unsettled rows whose wake-up was lost
  mishaps     \* crashes, database errors and operator interventions so far

busVars  == <<bus, aged, status>>
semVars  == <<laneFree, poolFree>>
gateVars == <<dial, stale, cool, capped, slop>>
vars == <<phase, bus, aged, status, queued, pc, on, laneFree, poolFree,
          dial, stale, cool, capped, slop, ran, missed, mishaps>>

Phases   == {"down", "boot", "listening", "ready", "deaf"}
Statuses == {"unborn", "pending", "consumed", "suppressed", "failed"}
Settled  == {"consumed", "suppressed", "failed"}
Holding  == {"run", "done", "fault"}
Steps    == {"idle", "gate", "lane", "slot"} \cup Holding

-----------------------------------------------------------------------------
(* The immutable columns of a row, and the tables keyed by them.           *)

UrgentTypes == {"claim.invalidated", "audit.slop_detected",
                "phase.budget_exceeded", "phase.transition_proposed",
                "company.bootstrapped"}

HasHandler(e) == Row[e].type \in DOMAIN HandlerAgent
AgentOf(e)    == HandlerAgent[Row[e].type]

\* COOLDOWNS: the invocation type whose cooldown gates an event.
GatingCooldown(e) ==
  CASE Row[e].type = "finding.high_signal"      -> "critic.attack"
    [] Row[e].type = "claim.confidence_changed" -> "phase_adjudicator.check"
    [] Row[e].type = "queue.empty"              -> "planner.generate_tasks"
    [] OTHER                                    -> "none"

\* The cooldown row a handler upserts as its first write, if it sets one;
\* never a row that gates its own event.
InstalledCooldown(e) ==
  CASE Row[e].type = "finding.high_signal" -> {<<"critic.kill_verdict", Row[e].target>>}
    [] Row[e].type = "queue.empty"         -> {<<"planner.generate_tasks", 0>>}
    [] OTHER                               -> {}

\* _lane_for: bulk intake is split from the lab's own sources.
LaneFor(e) ==
  CASE Row[e].type \in {"acquire.requested", "library.sweep_requested"} -> "bulk"
    [] Row[e].type = "source.discovered" -> IF Row[e].lab THEN "mimir" ELSE "bulk"
    [] OTHER -> AgentOf(e)

-----------------------------------------------------------------------------
(* The gates of _process_event.                                            *)

\* get_agent_mode + should_run: a live cache entry wins over the row.
KnownRunnable(a) == dial[a] # (a \in stale)

DialOpen(e) == AgentOf(e) # NoAgent => KnownRunnable(AgentOf(e))

CooledDown(e) == /\ Row[e].target # NoTarget
                 /\ <<GatingCooldown(e), Row[e].target>> \in cool

FrictionOpen(e) == Row[e].type \notin UrgentTypes =>
                     ~CooledDown(e) /\ ~capped /\ e \notin slop

Admitted(e) == HasHandler(e) /\ DialOpen(e) /\ FrictionOpen(e)

-----------------------------------------------------------------------------
HasTask(e) == queued[e] > 0 \/ \E w \in Wakes : pc[w] # "idle" /\ on[w] = e

Pending == {e \in Events : status[e] = "pending"}

\* A bug: the limit counts the settled rows as well.
OldestOfAll(n, upto) ==
  {bus[i] : i \in {j \in 1..upto : j <= n /\ status[bus[j]] = "pending"}}

\* The oldest n pending rows among the first `upto` of the bus.
Oldest(n, upto) ==
  LET place == {i \in 1..upto : status[bus[i]] = "pending"}
  IN  {bus[i] : i \in {j \in place : Cardinality({k \in place : k < j}) < n}}

\* asyncio.create_task(self._process_event(id)) for each event of a set.
Spawn(S) == queued' = [e \in Events |->
                         IF e \in S /\ queued[e] < MaxQueued THEN queued[e] + 1
                                                             ELSE queued[e]]

\* A bug: an `if` around the pool's `async with` forgets the lane's semaphore.
ReleasePoolOnly(w) ==
  /\ poolFree' = poolFree + 1
  /\ UNCHANGED laneFree

\* Leaving _slot: the pool permit, then the lane permit.
Release(w) ==
  /\ poolFree' = poolFree + 1
  /\ laneFree' = [l \in Lanes |->
                    IF l = LaneFor(on[w]) THEN laneFree[l] + 1 ELSE laneFree[l]]

\* A bug: the registry of handlers in flight keeps the event.
FinishKeepsEvent(w) == /\ pc' = [pc EXCEPT ![w] = "idle"]
                       /\ UNCHANGED on

\* The coroutine ends.
Finish(w) == /\ pc' = [pc EXCEPT ![w] = "idle"]
             /\ on' = [on EXCEPT ![w] = NoEvent]

\* One more crash, database error or intervention, within the bound.
Mishap(kind) == kind \in Mishaps /\ mishaps < MaxMishaps /\ mishaps' = mishaps + 1

Init ==
  /\ phase = "down"
  /\ bus = <<>> /\ aged = 0
  /\ status = [e \in Events |-> "unborn"]
  /\ queued = [e \in Events |-> 0]
  /\ pc = [w \in Wakes |-> "idle"]
  /\ on = [w \in Wakes |-> NoEvent]
  /\ laneFree = LaneCap /\ poolFree = MaxHandlers
  /\ dial \in [Agents -> BOOLEAN]
  /\ stale = {}
  /\ cool = {} /\ capped = FALSE /\ slop = {}
  /\ ran = [e \in Events |-> FALSE] /\ missed = {}
  /\ mishaps = 0

-----------------------------------------------------------------------------
(* The process: run(), stop(), and what ends it.                           *)

\* systemd starts the harness; run() starts the watchdog first.
Boot ==
  /\ phase = "down"
  /\ phase' = "boot"
  /\ UNCHANGED <<busVars, queued, pc, on, semVars, gateVars, ran, missed, mishaps>>

\* A bug: run() does not drain.
ListenWithoutDrain ==
  /\ phase = "boot"
  /\ phase' = "ready"
  /\ UNCHANGED <<busVars, queued, pc, on, semVars, gateVars, ran, missed, mishaps>>

\* add_listener: from here every insert is notified.
Listen ==
  /\ phase = "boot"
  /\ phase' = "listening"
  /\ UNCHANGED <<busVars, queued, pc, on, semVars, gateVars, ran, missed, mishaps>>

\* _drain_pending: a coroutine for every pending row, up to the cap.
Drain ==
  /\ phase = "listening"
  /\ phase' = "ready"
  /\ LET kicked == Oldest(DrainMax, Len(bus))
     IN  /\ Spawn(kicked)
         /\ missed' = Pending \ kicked
  /\ UNCHANGED <<busVars, pc, on, semVars, gateVars, ran, mishaps>>

\* run() dies on a database error, or the listener connection drops: nobody
\* notices, the watchdog goes on.
GoDeaf ==
  /\ phase \in {"boot", "listening", "ready"}
  /\ Mishap("deaf")
  /\ phase' = "deaf"
  /\ missed' = missed \cup {e \in Pending : ~HasTask(e)}
  /\ UNCHANGED <<busVars, queued, pc, on, semVars, gateVars, ran>>

\* The process ends, by a crash or by stop() and main's exit, which cancels the
\* handlers still in flight: every coroutine dies without writing its row, and
\* the next process starts with fresh semaphores and an empty cache.
Die ==
  /\ phase # "down"
  /\ Mishap("die")
  /\ phase' = "down"
  /\ queued' = [e \in Events |-> 0]
  /\ pc' = [w \in Wakes |-> "idle"] /\ on' = [w \in Wakes |-> NoEvent]
  /\ laneFree' = LaneCap /\ poolFree' = MaxHandlers
  /\ stale' = {}
  /\ missed' = {}
  /\ UNCHANGED <<busVars, dial, cool, capped, slop, ran>>

-----------------------------------------------------------------------------
(* The bus.                                                                *)

\* Any process inserts a row; the trigger notifies whoever listens.
Emit(e) ==
  /\ status[e] = "unborn"
  /\ status' = [status EXCEPT ![e] = "pending"]
  /\ bus' = Append(bus, e)
  /\ IF phase \in {"listening", "ready"}
     THEN Spawn({e}) /\ UNCHANGED missed
     ELSE missed' = missed \cup {e} /\ UNCHANGED queued
  /\ UNCHANGED <<phase, aged, pc, on, semVars, gateVars, ran, mishaps>>

\* Two minutes pass for the next row.
Age ==
  /\ aged < Len(bus)
  /\ aged' = aged + 1
  /\ UNCHANGED <<phase, bus, status, queued, pc, on, semVars, gateVars, ran,
                 missed, mishaps>>

\* The watchdog tick's _sweep_pending_events.
Sweep ==
  /\ phase \in {"boot", "listening", "ready", "deaf"}
  /\ Spawn(Oldest(SweepLimit, aged))
  /\ UNCHANGED <<phase, busVars, pc, on, semVars, gateVars, ran, missed, mishaps>>

-----------------------------------------------------------------------------
(* The gates' environment: the operators, the clock, the router's ledger.  *)

\* The row changes; a cached answer, if there is one, does not.
TurnDial(a) ==
  /\ Mishap("dial")
  /\ dial' = [dial EXCEPT ![a] = ~dial[a]]
  /\ stale' \in IF a \in stale THEN {stale \ {a}} ELSE {stale, stale \cup {a}}
  /\ UNCHANGED <<cool, capped, slop>>

\* _TTL seconds after the read.
CacheExpires(a) ==
  /\ a \in stale
  /\ stale' = stale \ {a}
  /\ UNCHANGED <<dial, cool, capped, slop, mishaps>>

\* The read of the mode fails: the default, 'active', is cached instead.
DialUnread(a) ==
  /\ Mishap("database")
  /\ ~dial[a] /\ a \notin stale
  /\ stale' = stale \cup {a}
  /\ UNCHANGED <<dial, cool, capped, slop>>

CooldownExpires(c) ==
  /\ cool' = cool \ {c}
  /\ UNCHANGED <<dial, stale, capped, slop, mishaps>>

CostCapFlips ==
  /\ Mishap("cost")
  /\ capped' = ~capped
  /\ UNCHANGED <<dial, stale, cool, slop>>

SlopRefreshed(e) ==
  /\ Mishap("slop")
  /\ Row[e].onClaim
  /\ slop' = IF e \in slop THEN slop \ {e} ELSE slop \cup {e}
  /\ UNCHANGED <<dial, stale, cool, capped>>

Environment ==
  /\ \/ \E a \in Agents : TurnDial(a) \/ DialUnread(a) \/ CacheExpires(a)
     \/ \E c \in cool : CooldownExpires(c)
     \/ CostCapFlips
     \/ \E e \in Events : SlopRefreshed(e)
  /\ UNCHANGED <<phase, busVars, queued, pc, on, semVars, ran, missed>>

-----------------------------------------------------------------------------
(* One coroutine of _process_event.                                        *)

\* The first read: only a row that is still pending goes on.
Wake(w, e) ==
  /\ queued[e] > 0 /\ pc[w] = "idle"
  /\ queued' = [queued EXCEPT ![e] = queued[e] - 1]
  /\ IF status[e] = "pending"
     THEN pc' = [pc EXCEPT ![w] = "gate"] /\ on' = [on EXCEPT ![w] = e]
     ELSE UNCHANGED <<pc, on>>
  /\ UNCHANGED <<phase, busVars, semVars, gateVars, ran, missed, mishaps>>

\* No handler, a paused agent or a friction gate: _mark_suppressed.
Suppress(w) ==
  /\ pc[w] = "gate"
  /\ ~Admitted(on[w])
  /\ status' = [status EXCEPT ![on[w]] = "suppressed"]
  /\ Finish(w)
  /\ missed' = missed \ {on[w]}
  /\ UNCHANGED <<phase, bus, aged, queued, semVars, gateVars, ran, mishaps>>

Admit(w) ==
  /\ pc[w] = "gate"
  /\ Admitted(on[w])
  /\ pc' = [pc EXCEPT ![w] = IF LaneFor(on[w]) \in Lanes THEN "lane" ELSE "slot"]
  /\ UNCHANGED <<phase, busVars, queued, on, semVars, gateVars, ran, missed, mishaps>>

\* _slot: first a permit of the lane's own semaphore ...
TakeLane(w) ==
  /\ pc[w] = "lane"
  /\ laneFree[LaneFor(on[w])] > 0
  /\ laneFree' = [laneFree EXCEPT ![LaneFor(on[w])] = @ - 1]
  /\ pc' = [pc EXCEPT ![w] = "slot"]
  /\ UNCHANGED <<phase, busVars, queued, on, poolFree, gateVars, ran, missed, mishaps>>

\* ... then one of the pool; the handler starts.
StartHandler(w) ==
  /\ pc[w] = "slot"
  /\ poolFree > 0
  /\ poolFree' = poolFree - 1
  /\ pc' = [pc EXCEPT ![w] = "run"]
  /\ cool' = cool \cup InstalledCooldown(on[w])
  /\ UNCHANGED <<phase, busVars, queued, on, laneFree, dial, stale, capped, slop,
                 ran, missed, mishaps>>

HandlerReturns(w) ==
  /\ pc[w] = "run"
  /\ pc' = [pc EXCEPT ![w] = "done"]
  /\ ran' = [ran EXCEPT ![on[w]] = TRUE]
  /\ UNCHANGED <<phase, busVars, queued, on, semVars, gateVars, missed, mishaps>>

\* The handler raises, or wait_for cancels it after HANDLER_TIMEOUT_S.
HandlerRaises(w) ==
  /\ pc[w] = "run"
  /\ pc' = [pc EXCEPT ![w] = "fault"]
  /\ UNCHANGED <<phase, busVars, queued, on, semVars, gateVars, ran, missed, mishaps>>

\* _mark_consumed and session.finish.
Consume(w) ==
  /\ pc[w] = "done"
  /\ status' = [status EXCEPT ![on[w]] = "consumed"]
  /\ Finish(w)
  /\ missed' = missed \ {on[w]}
  /\ Release(w)
  /\ UNCHANGED <<phase, bus, aged, queued, gateVars, ran, mishaps>>

\* _mark_failed.
Fail(w) ==
  /\ pc[w] = "fault"
  /\ status' = [status EXCEPT ![on[w]] = "failed"]
  /\ Finish(w)
  /\ missed' = missed \ {on[w]}
  /\ Release(w)
  /\ UNCHANGED <<phase, bus, aged, queued, gateVars, ran, mishaps>>

\* A gate's query fails: the coroutine dies, the row stays pending.
GateError(w) ==
  /\ pc[w] = "gate"
  /\ Mishap("database")
  /\ Finish(w)
  /\ missed' = missed \cup {on[w]}
  /\ UNCHANGED <<phase, busVars, queued, semVars, gateVars, ran>>

\* _mark_consumed fails, or session.finish does after it: the `except
\* Exception` branch takes over.
ConsumeError(w) ==
  /\ pc[w] = "done"
  /\ Mishap("database")
  /\ status' \in {status, [status EXCEPT ![on[w]] = "consumed"]}
  /\ pc' = [pc EXCEPT ![w] = "fault"]
  /\ UNCHANGED <<phase, bus, aged, queued, on, semVars, gateVars, ran, missed>>

\* _mark_failed fails too: the permits are returned, the row is left as it is.
FailError(w) ==
  /\ pc[w] = "fault"
  /\ Mishap("database")
  /\ Finish(w)
  /\ missed' = missed \cup {on[w]}
  /\ Release(w)
  /\ UNCHANGED <<phase, busVars, queued, gateVars, ran>>

Process(w) ==
  \/ \E e \in Events : Wake(w, e)
  \/ Suppress(w) \/ Admit(w) \/ TakeLane(w) \/ StartHandler(w)
  \/ HandlerReturns(w) \/ HandlerRaises(w) \/ Consume(w) \/ Fail(w)
  \/ GateError(w) \/ ConsumeError(w) \/ FailError(w)

Next ==
  \/ Boot \/ Listen \/ Drain \/ GoDeaf \/ Die
  \/ \E e \in Events : Emit(e)
  \/ Age \/ Sweep \/ Environment
  \/ \E w \in Wakes : Process(w)

-----------------------------------------------------------------------------
(* Fairness.  The event loop runs what is ready; asyncio.Semaphore wakes   *)
(* its waiters in FIFO order, so a waiter is not passed over forever;      *)
(* wait_for bounds every handler; the watchdog ticks every five minutes;   *)
(* systemd restarts the process.  Nothing is assumed of the environment.   *)

Advance(w) == HandlerReturns(w) \/ HandlerRaises(w)

Fairness ==
  /\ WF_vars(Boot) /\ WF_vars(Listen) /\ WF_vars(Drain)
  /\ WF_vars(Age) /\ WF_vars(Sweep)
  /\ \A e \in Events : SF_vars(\E w \in Wakes : Wake(w, e))
  /\ \A w \in Wakes :
       /\ WF_vars(Suppress(w) \/ Admit(w))
       /\ SF_vars(TakeLane(w) \/ StartHandler(w))
       /\ WF_vars(Advance(w)) /\ WF_vars(Consume(w)) /\ WF_vars(Fail(w))

Spec     == Init /\ [][Next]_vars
FairSpec == Spec /\ Fairness

-----------------------------------------------------------------------------
TypeOK ==
  /\ phase \in Phases
  /\ bus \in Seq(Events) /\ aged \in 0..Len(bus)
  /\ status \in [Events -> Statuses]
  /\ queued \in [Events -> 0..MaxQueued]
  /\ pc \in [Wakes -> Steps]
  /\ on \in [Wakes -> Events \cup {NoEvent}]
  /\ \A w \in Wakes : pc[w] = "idle" <=> on[w] = NoEvent
  /\ laneFree \in [Lanes -> Nat] /\ poolFree \in Nat
  /\ dial \in [Agents -> BOOLEAN]
  /\ stale \subseteq Agents
  /\ capped \in BOOLEAN /\ slop \subseteq Events
  /\ ran \in [Events -> BOOLEAN] /\ missed \subseteq Events
  /\ mishaps \in 0..MaxMishaps

\* The coroutines that hold a pool permit, and a permit of lane l.
InPool    == {w \in Wakes : pc[w] \in Holding}
InLane(l) == {w \in Wakes : /\ pc[w] \in {"slot"} \cup Holding
                            /\ LaneFor(on[w]) = l}

(* No permit is lost or minted on any path out of _slot (a handler that     *)
(* returns, raises or is cancelled, an outcome write that fails twice), so  *)
(* at most MaxHandlers handlers run and at most LaneCap[l] coroutines of a  *)
(* lane stand at or past the pool's door.                                   *)
PermitsConserved ==
  /\ poolFree + Cardinality(InPool) = MaxHandlers
  /\ \A l \in Lanes : laneFree[l] + Cardinality(InLane(l)) = LaneCap[l]

(* Once run() has drained, every pending row has a coroutine that will look *)
(* at it, unless its wake-up is one of the known losses (beyond the drain   *)
(* cap, inserted while nobody listened, coroutine killed by a database      *)
(* error).  The window between add_listener and the drain loses nothing.    *)
NoLostWakeup ==
  phase \in {"ready", "deaf"} =>
    \A e \in Events : status[e] = "pending" => HasTask(e) \/ e \in missed

\* What the bus promises to whoever emits an event.
Contract == INSTANCE EventContract WITH
  fate <- [e \in Events |->
             CASE status[e] = "unborn"   -> "absent"
               [] status[e] = "pending"  -> "open"
               [] status[e] = "consumed" -> "done"
               [] OTHER                  -> "dropped"],
  worked <- ran

(* "A mode change takes effect within this window" (harness/agent_modes.py,  *)
(* the cache's TTL): once the cached answer has expired no handler of a      *)
(* paused agent starts.  The dial is read before the wait for a slot, which  *)
(* has no bound of its own, and not after it.                                *)
PauseTakesEffect ==
  [][\A w \in Wakes :
       pc[w] = "slot" /\ pc'[w] = "run" /\ AgentOf(on[w]) # NoAgent
         => KnownRunnable(AgentOf(on[w]))]_vars

(* An inserted row never returns to 'pending' once settled, is 'consumed'   *)
(* only if a handler call for it returned, and is settled eventually:       *)
(* across restarts, a deaf listener, a drain that hit its cap, failed       *)
(* writes and coroutines that pile up on one event.                         *)
ImplementsContract == Contract!Spec

\* Its safety part alone.
ImplementsContractSafely == Contract!Safety
=============================================================================
