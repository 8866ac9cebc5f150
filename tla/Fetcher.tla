------------------------------- MODULE Fetcher -------------------------------
(***************************************************************************)
(* web_fetch and web_fetch_many (library/ingest/fetcher.py): how the       *)
(* process reads a page.  The cache is asked first; a miss waits for the   *)
(* gate of the host, which one request holds at a time with a courtesy gap *)
(* between two; a page that comes back as a shell or a challenge is        *)
(* rendered in a browser; what was read, or that it was blocked, goes into *)
(* the cache.  The gates live in the process and are shared by every       *)
(* handler that reads the web.                                             *)
(*                                                                         *)
(* A fetch is one call of web_fetch; Caller says on whose behalf, so that  *)
(* the fetches of one caller are its batch.  The text of a page is kept as *)
(* what _looks_blocked makes of it.  The courtesy sleep is part of holding *)
(* the gate.                                                               *)
(***************************************************************************)
EXTENDS Naturals, FiniteSets

CONSTANTS
  Fetches,      \* calls of web_fetch
  Urls, Hosts, Callers,
  Url,          \* the address each fetch is for
  Host,         \* the host of each address
  Caller,       \* who asks for each fetch
  Batch,        \* concurrency of web_fetch_many
  Browsers,     \* _PLAYWRIGHT_MAX_CONCURRENCY
  Rendering,    \* WEB_FETCH_PLAYWRIGHT
  Nobody,
  MaxMishaps    \* bound on requests that raise and on callers cancelled

ASSUME FetcherAssumption ==
  /\ IsFiniteSet(Fetches)
  /\ Url \in [Fetches -> Urls] /\ Host \in [Urls -> Hosts] /\ Caller \in [Fetches -> Callers]
  /\ Batch \in Nat \ {0} /\ Browsers \in Nat \ {0} /\ Rendering \in BOOLEAN
  /\ Nobody \notin Fetches /\ MaxMishaps \in Nat

VARIABLES
  cache,    \* fetch_cache, by address; "challenge" is a row from before the check
  gate,     \* the fetch that took the lock of each host
  fetch,    \* where each fetch is, or how it ended
  closed,   \* callers whose batch raised: their client is closed
  mishaps

fetcherVars == <<cache, gate, fetch, closed, mishaps>>

Ends    == {"nothing", "empty", "page", "raised"}
Pending == {"asked", "queued", "holding", "shell", "rendering", "read", "blocked"}
HostOf(f) == Host[Url[f]]

InBatch(c) == {f \in Fetches : Caller[f] = c}
Running(c) == {f \in InBatch(c) : fetch[f] \in Pending \ {"asked"}}

FetcherInit ==
  /\ cache \in [Urls -> {"absent", "challenge"}]
  /\ gate = [h \in Hosts |-> Nobody]
  /\ fetch = [f \in Fetches |-> "idle"]
  /\ closed = {} /\ mishaps = 0

Mishap == mishaps < MaxMishaps /\ mishaps' = mishaps + 1

Goes(f, at) == fetch' = [fetch EXCEPT ![f] = at]

\* fetch_cache_get; what an old row holds is looked at again
Lookup(f) ==
  /\ fetch[f] = "asked" /\ Cardinality(Running(Caller[f])) < Batch
  /\ Goes(f, CASE cache[Url[f]] = "absent" -> "queued"
               [] cache[Url[f]] = "page"   -> "page"
               [] OTHER                    -> "empty")
  /\ UNCHANGED <<cache, gate, closed, mishaps>>

\* _acquire_domain
TakeGate(f) ==
  /\ fetch[f] = "queued" /\ gate[HostOf(f)] = Nobody
  /\ gate' = [gate EXCEPT ![HostOf(f)] = f]
  /\ Goes(f, "holding")
  /\ UNCHANGED <<cache, closed, mishaps>>

\* _release_domain
ReleaseGate(f) == gate' = [gate EXCEPT ![HostOf(f)] = Nobody]

\* A bug: only the path of an answer releases.
TransportFailsHolding(f) ==
  /\ fetch[f] = "holding"
  /\ Goes(f, "nothing")
  /\ UNCHANGED <<cache, gate, closed, mishaps>>

TransportFails(f) ==
  /\ fetch[f] = "holding"
  /\ ReleaseGate(f) /\ Goes(f, "nothing")
  /\ UNCHANGED <<cache, closed, mishaps>>

\* A blocked HTML page is worth a browser, another blocked body is not.
Answered(f) ==
  /\ fetch[f] = "holding" /\ Caller[f] \notin closed
  /\ ReleaseGate(f)
  /\ \E body \in {"read", "blocked"} \cup (IF Rendering THEN {"shell"} ELSE {}) : Goes(f, body)
  /\ UNCHANGED <<cache, closed, mishaps>>

\* Anything else than an httpx error: a client closed under the request, an
\* address httpx cannot encode.  Neither branch releases the gate.  The
\* gather of the batch raises and closes the client; its other fetches run on.
Raises(f) ==
  /\ fetch[f] = "holding"
  /\ IF Caller[f] \in closed THEN UNCHANGED mishaps ELSE Mishap
  /\ Goes(f, "raised")
  /\ closed' = closed \cup {Caller[f]}
  /\ UNCHANGED <<cache, gate>>

\* _render_with_playwright
Render(f) ==
  /\ \/ /\ fetch[f] = "shell"
        /\ Cardinality({g \in Fetches : fetch[g] = "rendering"}) < Browsers
        /\ Goes(f, "rendering")
     \/ /\ fetch[f] = "rendering"
        /\ \E body \in {"read", "blocked"} : Goes(f, body)
  /\ UNCHANGED <<cache, gate, closed, mishaps>>

\* fetch_cache_put
Store(f) ==
  /\ fetch[f] \in {"read", "blocked"}
  /\ cache' = [cache EXCEPT ![Url[f]] = IF fetch[f] = "read" THEN "page" ELSE "blocked"]
  /\ Goes(f, IF fetch[f] = "read" THEN "page" ELSE "empty")
  /\ UNCHANGED <<gate, closed, mishaps>>

\* The timeout of a handler cancels what it awaits, the gather its fetches.
\* A fetch that holds a gate is gone from both branches that release it.
CancelBatch(c) ==
  /\ fetch' = [f \in Fetches |-> IF Caller[f] = c /\ fetch[f] \in Pending
                                 THEN "raised" ELSE fetch[f]]
  /\ UNCHANGED <<cache, gate, closed>>

\* ttl_for: an hour for news, a month for reference pages
Expire(u) ==
  /\ cache[u] # "absent"
  /\ cache' = [cache EXCEPT ![u] = "absent"]
  /\ UNCHANGED <<gate, fetch, closed, mishaps>>

Fetch(f) == \/ Lookup(f)   \/ TakeGate(f) \/ TransportFails(f) \/ Answered(f)
            \/ Raises(f)   \/ Render(f)   \/ Store(f)

-----------------------------------------------------------------------------
FetcherTypeOK ==
  /\ cache \in [Urls -> {"absent", "page", "blocked", "challenge"}]
  /\ gate \in [Hosts -> Fetches \cup {Nobody}]
  /\ fetch \in [Fetches -> {"idle"} \cup Pending \cup Ends]
  /\ closed \subseteq Callers
  /\ mishaps \in 0..MaxMishaps

(* "caps in-flight requests at 1 per domain", and the gate of a host is     *)
(* held by a request under way -- or by one that was cancelled or raised    *)
(* under it, and then it is held until the process dies.                    *)
GateAccounted ==
  /\ \A f \in Fetches : fetch[f] = "holding" => gate[HostOf(f)] = f
  /\ \A h \in Hosts : gate[h] # Nobody => fetch[gate[h]] \in {"holding", "raised"}

(* The gate of a host comes free again: a cancelled request breaks it.      *)
GatesComeFree == \A h \in Hosts : []<>(gate[h] = Nobody)
=============================================================================
