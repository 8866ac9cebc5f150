------------------------------ MODULE Library ------------------------------
(***************************************************************************)
(* How a source enters the Library: sweeps discover sources, agents ask    *)
(* for them, the lab's own notes are handed over, and Mimir stages, judges *)
(* and certifies each and makes it searchable.                             *)
(*                                                                         *)
(* Simplifications: a text is good, a stub or nothing; the tier does not   *)
(* matter; the embedder answers for all chunks of a document or for none;  *)
(* the daily cap of a requester and the retry window of the seen-ledger    *)
(* may end at any time and are not kept.                                   *)
(***************************************************************************)
EXTENDS Naturals, Sequences, FiniteSets

CONSTANTS
  Keys,        \* (source_kind, canonical_key) of external sources
  PaperOf,     \* the arXiv id or DOI found in each of them
  Notes,       \* final research documents of the lab
  Requests,    \* agents' requests for a source on some matter
  Exempt,      \* the requests of curated requesters, never held
  Backlog,     \* ACQUIRE_BACKLOG_LIMIT
  MaxCalls,    \* max_concurrent_handlers
  MaxMishaps   \* bound on crashes, failed calls, repeated calls, lost events

ASSUME LibraryAssumption ==
  /\ DOMAIN PaperOf = Keys /\ \A k \in Keys : PaperOf[k] \in Keys /\ Keys \cap Notes = {}
  /\ Exempt \subseteq Requests
  /\ Backlog \in Nat
  /\ MaxCalls \in Nat \ {0} /\ MaxMishaps \in Nat

VARIABLES
  row,        \* documents: none, or its status and trust
  queryable,  \* documents.queryable
  certs,      \* the certifications ledger of each document
  graph,      \* documents with a Paper node
  surfaced,   \* sources whose discovery was emitted, ever
  written,    \* notes that are final research documents
  asked,      \* requests emitted, ever
  replies,    \* <<request, status, document>>
  failed,     \* requests whose event failed or was suppressed
  pending,    \* pending events
  calls,      \* handler calls
  mishaps

intake == <<surfaced, written, asked>>
vars == <<row, queryable, certs, graph, intake,
          replies, failed, pending, calls, mishaps>>

Docs == Keys \cup Notes
None == "none"

Event(type, of, copy) == [type |-> type, of |-> of, copy |-> copy]
Events == {Event("discovered", k, 0) : k \in Keys}
          \cup {Event("note", n, i) : n \in Notes, i \in {0, 1}}
          \cup {Event("acquire", r, 0) : r \in Requests}

Mishap == mishaps < MaxMishaps /\ mishaps' = mishaps + 1

Init ==
  /\ row = [d \in Docs |-> None] /\ certs = [d \in Docs |-> << >>]
  /\ queryable = {} /\ graph = {}
  /\ surfaced = {} /\ written = {} /\ asked = {}
  /\ replies = {} /\ failed = {} /\ pending = {} /\ calls = {}
  /\ mishaps = 0

-----------------------------------------------------------------------------
(* What agents may retrieve.                                                *)

\* The gate of the dense search: certified, queryable, not decayed.
Admissible(d) == row[d] = "certified" /\ d \in queryable

\* Both arms of the hybrid search pass the same gate.
Searchable(d) == Admissible(d)

-----------------------------------------------------------------------------
(* Intake: sweeps, requests, notes.                                         *)

\* What the scouts bring back; a blind sweep brings nothing.
Scouted == SUBSET Keys

Fresh(found) == {k \in found : row[k] = None}

\* A discovery's key does not change: it is emitted once.
Discoveries(found) == {Event("discovered", k, 0) : k \in found \ surfaced}

\* A sweep emits what is neither in the corpus nor attempted of late.
Sweep ==
  \E found \in Scouted :
    /\ Fresh(found) \ surfaced # {}
    /\ surfaced' = surfaced \cup Fresh(found)
    /\ pending' = pending \cup Discoveries(Fresh(found))
    /\ UNCHANGED <<row, queryable, certs, graph, written, asked,
                   replies, failed, calls, mishaps>>

Waiting == {e \in pending : e.type = "acquire"}

\* Held while Mimir's queue is long; its key lets a request be made once.
Ask(r) ==
  /\ r \in Exempt \/ Backlog = 0 \/ Cardinality(Waiting) < Backlog
  /\ r \notin asked
  /\ asked' = asked \cup {r}
  /\ pending' = pending \cup {Event("acquire", r, 0)}
  /\ UNCHANGED <<row, queryable, certs, graph, surfaced, written, replies, failed, calls, mishaps>>

\* A document becomes final and is handed over, unless the emission is lost.
WriteNote(n) ==
  /\ n \notin written /\ written' = written \cup {n}
  /\ \/ pending' = pending \cup {Event("note", n, 0)} /\ UNCHANGED mishaps
     \/ Mishap /\ UNCHANGED pending
  /\ UNCHANGED <<row, queryable, certs, graph, surfaced, asked, replies, failed, calls>>

\* A bug: the rows are joined, so that a note without one is not seen.
MissingJoined == {n \in written : row[n] = "discovered"}

\* The LEFT JOIN asks for a row, not for a searchable document.
Missing == {n \in written : row[n] = None}

\* A note past the grace without a row is handed over again, every day.
Reconcile ==
  /\ {Event("note", n, 1) : n \in Missing} \ pending # {}
  /\ pending' = pending \cup {Event("note", n, 1) : n \in Missing}
  /\ UNCHANGED <<row, queryable, certs, graph, intake,
                 replies, failed, calls, mishaps>>

-----------------------------------------------------------------------------
(* The handlers.  A call knows its event, the document it works on, where   *)
(* it is, and what it decided.                                              *)

Call(e, twin, doc, at, says) ==
  [event |-> e, twin |-> twin, doc |-> doc, at |-> at, says |-> says]

\* Requests are adjudicated first; the others name their source.
Start(e, twin) ==
  IF e.type = "acquire" THEN Call(e, twin, None, "adjudicate", None)
  ELSE Call(e, twin, e.of, "stage", None)

\* A bug: the number of calls is not bounded.
TakeAtOnce(e) ==
  /\ e \in pending
  /\ LET twin == \E c \in calls : c.event = e
     IN  /\ IF twin THEN Mishap ELSE UNCHANGED mishaps
         /\ calls' = calls \cup {Start(e, twin)}
  /\ UNCHANGED <<row, queryable, certs, graph, intake, replies, failed, pending>>

\* The sweep of pending events also takes one that a handler works on.
Take(e) ==
  /\ e \in pending /\ Cardinality(calls) < MaxCalls
  /\ LET twin == \E c \in calls : c.event = e
     IN  /\ IF twin THEN Mishap ELSE UNCHANGED mishaps
         /\ calls' = calls \cup {Start(e, twin)}
  /\ UNCHANGED <<row, queryable, certs, graph, intake,
                 replies, failed, pending>>

\* Leave the handler, with a reply to a request.
Settle(c) == calls' = calls \ {c} /\ pending' = pending \ {c.event}
Reply(c, status, d) ==
  replies' = IF c.event.type = "acquire"
             THEN replies \cup {<<c.event.of, status, d>>} ELSE replies

Go(c, at) == calls' = (calls \ {c}) \cup {[c EXCEPT !.at = at]} /\ UNCHANGED pending

\* A bug: what the corpus has needs no answer.
AdjudicateQuiet(c) ==
  /\ c.at = "adjudicate"
  /\ \/ Settle(c) /\ Reply(c, "rejected", None)
     \/ (\E found \in Scouted : found # {} /\ Fresh(found) = {}) /\ Settle(c) /\ UNCHANGED replies
     \/ /\ \E found \in Scouted : \E k \in Fresh(found) :
             calls' = (calls \ {c}) \cup {[c EXCEPT !.doc = k, !.at = "stage"]}
        /\ UNCHANGED <<pending, replies>>
  /\ UNCHANGED <<row, queryable, certs, graph, intake, failed, mishaps>>

\* Over the cap, not resolved, nothing new among the matches, or the first of
\* them the corpus has no row for under its key (1 to 3 of the handler).
Adjudicate(c) ==
  /\ c.at = "adjudicate"
  /\ \/ Settle(c) /\ Reply(c, "rejected", None)
     \/ /\ \E found \in Scouted : found # {} /\ Fresh(found) = {}
        /\ Settle(c) /\ Reply(c, "already_have", None)
     \/ /\ \E found \in Scouted : \E k \in Fresh(found) :
             calls' = (calls \ {c}) \cup {[c EXCEPT !.doc = k, !.at = "stage"]}
        /\ UNCHANGED <<pending, replies>>
  /\ UNCHANGED <<row, queryable, certs, graph, intake, failed, mishaps>>

\* What a page yields, cached, fetched or rendered: a blocked page nothing.
Pages == {"none", "stub", "body"}

\* What the arXiv API yields, nothing while it backs off.
Abstracts == {"none", "stub"}

\* The text of a source; a note's is in hand.
Texts(d) == IF d \in Notes THEN {"body"} ELSE Pages \cup Abstracts

\* The quality gate, and whether any chunk comes of the text.
Substantial(text) == text # "none"
Chunkable(text)   == text = "body"

\* The identity that is found in the text.
Paper(d) == IF d \in Notes THEN d ELSE PaperOf[d]

\* A bug: the upsert looks for the key only.
SameDocumentByKey(d) == {d}

\* upsert_document: the source or another copy of its paper.
SameDocument(d) == {x \in Docs : Paper(x) = Paper(d)}
Existing(d) == {x \in SameDocument(d) : row[x] # None}

\* A bug: a call that finds the document staged already goes on with it.
StageAgain(c) ==
  /\ c.at = "stage"
  /\ \E text \in Texts(c.doc) :
       IF ~Substantial(text) \/ ~Chunkable(text)
       THEN Settle(c) /\ Reply(c, "rejected", None) /\ UNCHANGED row
       ELSE /\ row' = [row EXCEPT ![c.doc] = "discovered"]
            /\ Go(c, "judge") /\ UNCHANGED replies
  /\ UNCHANGED <<queryable, certs, graph, surfaced, written,
                 asked, failed, mishaps>>

\* Fetch, quality gate, parse, chunk, upsert, stage the chunks.  Of two copies
\* inserted at once one violates the unique index: it ends as a duplicate.
Stage(c) ==
  /\ c.at = "stage"
  /\ \E text \in Texts(c.doc) :
       IF ~Substantial(text) \/ ~Chunkable(text) \/ Existing(c.doc) # {}
       THEN Settle(c) /\ Reply(c, "rejected", None) /\ UNCHANGED row
       ELSE /\ row' = [row EXCEPT ![c.doc] = "discovered"]
            /\ Go(c, "judge") /\ UNCHANGED replies
  /\ UNCHANGED <<queryable, certs, graph, surfaced, written,
                 asked, failed, mishaps>>

\* Retraction and withdrawal, where they could be checked.
Probes(d) == IF d \in Notes THEN {"clean"} ELSE {"clean", "retracted", "unverified"}

\* Licence, tier, and the model's opinion of an unknown source.  A note that
\* names its direction and its row is reproducible.
Opinions(d) == IF d \in Notes THEN {"approve"} ELSE {"approve", "block"}

\* Fail closed: what could not be checked is held like what is retracted.
Decision(probe, opinion) == IF probe = "clean" THEN opinion ELSE "block"
Verdicts(d) == {Decision(p, o) : p \in Probes(d), o \in Opinions(d)}

Trusted(says) == IF says = "approve" THEN "certified" ELSE "blocked"

\* A bug: a verdict to block goes to the ledger only.
JudgeApproved(c) ==
  /\ c.at = "judge"
  /\ \E says \in Verdicts(c.doc) :
       /\ row' = IF says = "block" THEN row ELSE [row EXCEPT ![c.doc] = Trusted(says)]
       /\ calls' = (calls \ {c}) \cup {[c EXCEPT !.at = "certify", !.says = says]}
  /\ UNCHANGED <<queryable, certs, graph, intake, replies, failed, pending, mishaps>>

\* Probe and judge; the verdict is written on the row, then in the ledger.
Judge(c) ==
  /\ c.at = "judge"
  /\ \E says \in Verdicts(c.doc) :
       /\ row' = [row EXCEPT ![c.doc] = Trusted(says)]
       /\ calls' = (calls \ {c}) \cup {[c EXCEPT !.at = "certify", !.says = says]}
  /\ UNCHANGED <<queryable, certs, graph, intake, replies,
                 failed, pending, mishaps>>

\* A bug: a blocked document is embedded with the others.
CertifyOn(c) ==
  /\ c.at = "certify"
  /\ certs' = [certs EXCEPT ![c.doc] = Append(@, c.says)]
  /\ Go(c, "finalize") /\ UNCHANGED replies
  /\ UNCHANGED <<row, queryable, graph, intake, failed, mishaps>>

Certify(c) ==
  /\ c.at = "certify"
  /\ certs' = [certs EXCEPT ![c.doc] = Append(@, c.says)]
  /\ IF c.says = "approve" THEN Go(c, "finalize") /\ UNCHANGED replies
     ELSE Settle(c) /\ Reply(c, "rejected", c.doc)
  /\ UNCHANGED <<row, queryable, graph, intake, failed, mishaps>>

\* The Paper node is best effort.
Project(d) == \/ graph' = graph \cup {d} /\ UNCHANGED mishaps
              \/ Mishap /\ UNCHANGED graph

\* Not a vector came of any chunk, or the document is not certified any more.
NotEmbedded(d) == Mishap \/ (row[d] # "certified" /\ UNCHANGED mishaps)

\* Embed, graph node (best effort), flag, document.ingested.  A call without
\* vectors skips all that, and its request is fulfilled still.
Finalize(c) ==
  /\ c.at = "finalize"
  /\ \/ /\ row[c.doc] = "certified" /\ Project(c.doc)
        /\ queryable' = queryable \cup {c.doc}
     \/ NotEmbedded(c.doc) /\ UNCHANGED <<queryable, graph>>
  /\ Settle(c) /\ Reply(c, "fulfilled", c.doc)
  /\ UNCHANGED <<row, certs, intake, failed>>

-----------------------------------------------------------------------------
(* Failures, and the decay of what is not used.                             *)

Asked(e) == IF e.type = "acquire" THEN {e.of} ELSE {}

\* An exception or the timeout: the event is failed and not taken again.
\* While it stages, an exception is swallowed and the request rejected.
Fail(c) ==
  /\ Mishap /\ Settle(c)
  /\ \/ failed' = failed \cup Asked(c.event) /\ UNCHANGED replies
     \/ c.at = "stage" /\ Reply(c, "rejected", None) /\ UNCHANGED failed
  /\ UNCHANGED <<row, queryable, certs, graph, intake>>

Suppress(e) ==
  /\ e \in pending /\ \A c \in calls : c.event # e
  /\ Mishap /\ pending' = pending \ {e} /\ failed' = failed \cup Asked(e)
  /\ UNCHANGED <<row, queryable, certs, graph, intake, replies, calls>>

\* The events of the calls are still pending.
Crash ==
  /\ calls # {} /\ Mishap /\ calls' = {}
  /\ UNCHANGED <<row, queryable, certs, graph, intake,
                 replies, failed, pending>>

\* ops.decay_corpus: an external document long unused is demoted.
Decay(d) ==
  /\ d \in Keys /\ row[d] = "certified" /\ \A c \in calls : c.doc # d
  /\ row' = [row EXCEPT ![d] = "decayed"]
  /\ UNCHANGED <<queryable, certs, graph, intake, replies,
                 failed, pending, calls, mishaps>>

-----------------------------------------------------------------------------
Proceed(c) == \/ Adjudicate(c) \/ Stage(c) \/ Judge(c)
              \/ Certify(c) \/ Finalize(c)

Next ==
  \/ Sweep \/ Reconcile \/ Crash
  \/ \E k \in Keys : Decay(k)
  \/ \E r \in Requests : Ask(r)
  \/ \E n \in Notes : WriteNote(n)
  \/ \E e \in pending : Take(e) \/ Suppress(e)
  \/ \E c \in calls : Proceed(c) \/ Fail(c)

(* Fairness: the watchdog reconciles, a pending event gets its slot, and a  *)
(* call goes on.                                                            *)
Fairness ==
  /\ WF_vars(Reconcile)
  /\ \A e \in Events : /\ SF_vars(Take(e))
                       /\ WF_vars(\E c \in calls : c.event = e /\ Proceed(c))

Spec     == Init /\ [][Next]_vars
FairSpec == Spec /\ Fairness

-----------------------------------------------------------------------------
TypeOK ==
  /\ row \in [Docs -> {None, "discovered", "certified", "blocked", "decayed"}]
  /\ queryable \subseteq Docs /\ \A d \in queryable : row[d] # None
  /\ \A d \in Docs : certs[d] \in Seq({"approve", "block"})
  /\ graph \subseteq Docs /\ written \subseteq Notes
  /\ surfaced \subseteq Keys
  /\ asked \subseteq Requests
  /\ \A a \in replies : a[1] \in asked /\ a[3] \in Docs \cup {None}
  /\ failed \subseteq asked /\ pending \subseteq Events
  /\ Cardinality(calls) =< MaxCalls
  /\ \A c \in calls : c.event \in Events /\ c.doc \in Docs \cup {None}
  /\ mishaps \in 0..MaxMishaps

(* "no unverified source enters": what agents retrieve was approved, once,  *)
(* and never blocked, whoever discovered or asked for it at the same time.  *)
SearchableApproved ==
  \A d \in Docs : Searchable(d) \/ d \in graph => certs[d] \in {<<"approve">>}

(* The columns are "the denormalized hot path" of the ledger: once a call   *)
(* has written its verdict there, row and ledger say the same for good.     *)
LedgerAgrees ==
  \A d \in Docs :
    /\ Len(certs[d]) =< 1
    /\ certs[d] = <<"block">> => row[d] = "blocked"
    /\ certs[d] = <<"approve">> => row[d] \in {"certified", "decayed"}

(* One document per paper, under whichever keys it is found and asked for.  *)
OneDocument ==
  \A k, l \in Keys : PaperOf[k] = PaperOf[l] /\ k # l => None \in {row[k], row[l]}

(* A request that is answered with a document was answered by its verdict:  *)
(* fulfilled with an approved one, rejected with a blocked one.             *)
RepliesTruthful ==
  \A a \in replies :
    /\ a[2] = "fulfilled" => certs[a[3]] = <<"approve">>
    /\ a[2] = "rejected" /\ a[3] # None => certs[a[3]] = <<"block">>

(* A request is answered, also across restarts, unless its event failed.    *)
Answered(r) == \E a \in replies : a[1] = r
RequestsAnswered ==
  \A r \in Requests :
    r \in asked ~> Answered(r) \/ r \in failed

(* No request is lost: until it is answered or failed its event is there,   *)
(* whatever crashes and whichever of two calls on it ends first.            *)
RequestsKept ==
  \A r \in asked : \/ Event("acquire", r, 0) \in pending
                   \/ Answered(r) \/ r \in failed

(* A research document reaches the Library also when its hand-over was lost *)
(* or failed (_reconcile_scholarship_ingest).                               *)
NotesRegistered == \A n \in Notes : n \in written ~> row[n] # None

(* "Make SURE Mimir carries every research artifact": "a crash [..] would   *)
(* leave the document row with no queryable corpus doc [..] This rung       *)
(* closes that gap [..] so a failed ingest self-heals".                     *)
NotesCarried == \A n \in Notes : n \in written ~> Searchable(n)
=============================================================================
