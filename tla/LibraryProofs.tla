---------------------------- MODULE LibraryProofs ----------------------------
(***************************************************************************)
(* Proofs about Library: what agents can retrieve has been approved, and   *)
(* what a requester is told is what became of its document; and, at the    *)
(* end, about Discovery, whose sweeps bring the documents in.              *)
(***************************************************************************)
EXTENDS Library, FiniteSetTheorems, TLAPS

USE LibraryAssumption

Worked == {"judge", "certify", "finalize"}
CallSet ==
  [event : Events, twin : BOOLEAN, doc : Docs \cup {None},
   at : {"adjudicate", "stage"} \cup Worked, says : {None, "approve", "block"}]

\* The calls are records of a finite set, each of an event that was emitted.
CallsTyped ==
  /\ calls \subseteq CallSet /\ IsFiniteSet(calls) /\ Cardinality(calls) <= MaxCalls
  /\ \A c \in calls : c.at # "adjudicate" => c.doc \in Docs
  /\ \A c \in calls : c.event.type = "acquire" => c.event.of \in asked
  /\ \A e \in pending : e.type = "acquire" => e.of \in asked

\* The verdict of a call is written first on the row, then in the ledger.
Progress(c) ==
  CASE c.at = "judge"    -> row[c.doc] = "discovered" /\ certs[c.doc] = << >>
    [] c.at = "certify"  -> /\ c.says # None /\ row[c.doc] = Trusted(c.says)
                            /\ certs[c.doc] = << >>
    [] c.at = "finalize" -> row[c.doc] = "certified" /\ certs[c.doc] = <<"approve">>
    [] OTHER             -> TRUE

\* A document past its staging has one call that works on it.
OneWorker == \A b, c \in calls : b.at \in Worked /\ c.at \in Worked /\ b.doc = c.doc => b = c

\* The ledger holds at most one verdict, and the row agrees.
OneVerdict ==
  /\ row \in [Docs -> {None, "discovered", "certified", "blocked", "decayed"}]
  /\ certs \in [Docs -> {<< >>, <<"approve">>, <<"block">>}]
  /\ \A d \in Docs : /\ certs[d] = <<"block">> => row[d] = "blocked"
                     /\ certs[d] = <<"approve">> => row[d] \in {"certified", "decayed"}

\* What was made searchable or drawn into the graph was approved.
ShownApproved ==
  /\ queryable \subseteq Docs /\ graph \subseteq Docs
  /\ \A d \in queryable \cup graph : certs[d] = <<"approve">>

Replied ==
  /\ \A a \in replies : /\ a[1] \in asked /\ a[3] \in Docs \cup {None}
                        /\ a[2] = "fulfilled" => a[3] \in Docs
  /\ RepliesTruthful

Emitted == /\ surfaced \subseteq Keys /\ written \subseteq Notes /\ asked \subseteq Requests
           /\ failed \subseteq asked /\ pending \subseteq Events /\ mishaps \in 0..MaxMishaps

WorkInv == /\ CallsTyped /\ (\A c \in calls : Progress(c)) /\ OneWorker
           /\ OneVerdict /\ ShownApproved /\ OneDocument
LibInv  == WorkInv /\ Replied /\ Emitted
-----------------------------------------------------------------------------
LEMMA EventKinds ==
  ASSUME NEW e \in Events
  PROVE  \/ e.type = "acquire" /\ e.of \in Requests
         \/ e.type = "discovered" /\ e.of \in Docs
         \/ e.type = "note" /\ e.of \in Docs
BY DEF Events, Event, Docs

\* A call that leaves, goes on or comes leaves a bounded number of them.
LEMMA CallsDropped ==
  ASSUME CallsTyped, NEW S \in SUBSET calls
  PROVE  IsFiniteSet(S) /\ Cardinality(S) <= MaxCalls
<1>1. IsFiniteSet(S) /\ Cardinality(S) <= Cardinality(calls)
  BY FS_Subset DEF CallsTyped
<1>2. Cardinality(S) \in Nat /\ Cardinality(calls) \in Nat
  BY <1>1, FS_CardinalityType DEF CallsTyped
<1> QED BY <1>1, <1>2 DEF CallsTyped, LibraryAssumption

LEMMA CallAdded ==
  ASSUME CallsTyped, NEW S \in SUBSET calls, Cardinality(S) < MaxCalls, NEW b
  PROVE  IsFiniteSet(S \cup {b}) /\ Cardinality(S \cup {b}) <= MaxCalls
<1>1. IsFiniteSet(S) /\ Cardinality(S) \in Nat
  BY FS_Subset, FS_CardinalityType DEF CallsTyped
<1>2. /\ IsFiniteSet(S \cup {b})
      /\ Cardinality(S \cup {b}) = Cardinality(S) \/ Cardinality(S \cup {b}) = Cardinality(S) + 1
  BY <1>1, FS_AddElement
<1> QED BY <1>1, <1>2 DEF LibraryAssumption

LEMMA CallSwapped ==
  ASSUME CallsTyped, NEW c \in calls, NEW b
  PROVE  IsFiniteSet((calls \ {c}) \cup {b}) /\ Cardinality((calls \ {c}) \cup {b}) <= MaxCalls
<1>1. Cardinality(calls \ {c}) = Cardinality(calls) - 1
  BY FS_RemoveElement DEF CallsTyped
<1>2. Cardinality(calls) \in Nat
  BY FS_CardinalityType DEF CallsTyped
<1>3. Cardinality(calls \ {c}) < MaxCalls
  BY <1>1, <1>2 DEF CallsTyped, LibraryAssumption
<1> QED BY <1>3, CallAdded

\* Nobody's work is touched by a step that writes no document and brings
\* no call past its staging.
LEMMA WorkKept ==
  ASSUME WorkInv, CallsTyped', UNCHANGED <<row, certs, queryable, graph>>,
         \A c \in calls' : c \in calls \/ c.at \in {"adjudicate", "stage"}
  PROVE  WorkInv'
<1>1. \A c \in calls' : Progress(c)'
  BY DEF WorkInv, Progress, Worked
<1>2. OneWorker'
  BY DEF WorkInv, OneWorker, Worked
<1>3. OneVerdict' /\ ShownApproved' /\ OneDocument'
  BY DEF WorkInv, OneVerdict, ShownApproved, OneDocument
<1> QED BY <1>1, <1>2, <1>3 DEF WorkInv

LEMMA VerdictsWritten == <<"approve">> # << >> /\ <<"block">> # << >>
<1>1. Len(<<"approve">>) = 1 /\ Len(<<"block">>) = 1 /\ Len(<< >>) = 0
  OBVIOUS
<1> QED BY <1>1

\* The ledger only grows by verdicts on documents that had none.
LedgerGrows == \A d \in Docs : certs[d] # << >> => certs'[d] = certs[d]

\* Such a ledger keeps replies truthful, and so does a truthful reply.
LEMMA RepliesKept ==
  ASSUME Replied, LedgerGrows, UNCHANGED replies, asked \subseteq asked'
  PROVE  Replied'
<1> SUFFICES ASSUME NEW a \in replies
             PROVE  /\ a[1] \in asked' /\ a[3] \in Docs \cup {None} /\ (a[2] = "fulfilled" => a[3] \in Docs)
                    /\ a[2] = "fulfilled" => certs'[a[3]] = <<"approve">>
                    /\ a[2] = "rejected" /\ a[3] # None => certs'[a[3]] = <<"block">>
  BY DEF Replied, RepliesTruthful
<1>1. a[1] \in asked' /\ a[3] \in Docs \cup {None} /\ (a[2] = "fulfilled" => a[3] \in Docs)
  BY DEF Replied
<1>2. /\ a[2] = "fulfilled" => certs[a[3]] = <<"approve">>
      /\ a[2] = "rejected" /\ a[3] # None => certs[a[3]] = <<"block">>
  BY DEF Replied, RepliesTruthful
<1> QED BY <1>1, <1>2, VerdictsWritten DEF LedgerGrows

LEMMA ReplyKeeps ==
  ASSUME Replied, CallsTyped, LedgerGrows, UNCHANGED asked,
         NEW c \in calls, NEW status, NEW d \in Docs \cup {None}, Reply(c, status, d),
         status = "fulfilled" => d \in Docs /\ certs'[d] = <<"approve">>,
         status = "rejected" /\ d # None => certs'[d] = <<"block">>
  PROVE  Replied'
<1> DEFINE new == <<c.event.of, status, d>>
<1>1. CASE c.event.type # "acquire"
  BY <1>1, RepliesKept DEF Reply
<1>2. CASE c.event.type = "acquire"
  <2>1. replies' = replies \cup {new} /\ new[1] \in asked /\ new[2] = status /\ new[3] = d
    BY <1>2 DEF Reply, CallsTyped
  <2> HIDE DEF new
  <2> SUFFICES ASSUME NEW a \in replies'
               PROVE  /\ a[1] \in asked' /\ a[3] \in Docs \cup {None}
                      /\ a[2] = "fulfilled" => a[3] \in Docs
                      /\ a[2] = "fulfilled" => certs'[a[3]] = <<"approve">>
                      /\ a[2] = "rejected" /\ a[3] # None => certs'[a[3]] = <<"block">>
    BY DEF Replied, RepliesTruthful
  <2>2. CASE a = new
    BY <2>1, <2>2
  <2>3. CASE a \in replies
    <3>1. a[1] \in asked' /\ a[3] \in Docs \cup {None} /\ (a[2] = "fulfilled" => a[3] \in Docs)
      BY <2>3 DEF Replied
    <3>2. /\ a[2] = "fulfilled" => certs[a[3]] = <<"approve">>
          /\ a[2] = "rejected" /\ a[3] # None => certs[a[3]] = <<"block">>
      BY <2>3 DEF Replied, RepliesTruthful
    <3> QED BY <3>1, <3>2, VerdictsWritten DEF LedgerGrows
  <2> QED BY <2>1, <2>2, <2>3
<1> QED BY <1>1, <1>2

\* A reply without a document keeps them whatever it says but fulfilled.
LEMMA ReplyWithout ==
  ASSUME Replied, CallsTyped, NEW c \in calls, NEW status \in {"rejected", "already_have"},
         Reply(c, status, None), UNCHANGED <<certs, asked>>
  PROVE  Replied'
BY ReplyKeeps DEF LedgerGrows
-----------------------------------------------------------------------------
(* The steps that write no document.                                       *)

\* What comes in is an event of an emitted request, or of no request.
LEMMA IntakeKeeps ==
  ASSUME LibInv, Sweep \/ Reconcile \/ (\E r \in Requests : Ask(r)) \/ (\E n \in Notes : WriteNote(n))
  PROVE  LibInv'
<1> USE DEF LibInv, WorkInv
<1>1. UNCHANGED <<row, queryable, certs, graph, replies, failed, calls>>
  BY DEF Sweep, Reconcile, Ask, WriteNote
<1>2. /\ asked \subseteq asked' /\ asked' \subseteq Requests
      /\ \E new \in SUBSET Events :
           /\ pending' = pending \cup new
           /\ \A e \in new : e.type = "acquire" => e.of \in asked'
  <2>1. CASE Sweep
    <3>1. PICK found \in Scouted : /\ surfaced' = surfaced \cup Fresh(found)
                                   /\ pending' = pending \cup Discoveries(Fresh(found))
                                   /\ asked' = asked
      BY <2>1 DEF Sweep
    <3>2. Discoveries(Fresh(found)) \in SUBSET Events
      BY <3>1 DEF Discoveries, Fresh, Scouted, Events
    <3>3. \A e \in Discoveries(Fresh(found)) : e.type = "discovered"
      BY DEF Discoveries, Event
    <3> QED BY <3>1, <3>2, <3>3 DEF Emitted
  <2>2. CASE Reconcile
    <3> DEFINE new == {Event("note", n, 1) : n \in Missing}
    <3>1. new \in SUBSET Events /\ \A e \in new : e.type = "note"
      BY DEF Emitted, Missing, Events, Event
    <3>2. pending' = pending \cup new /\ asked' = asked
      BY <2>2 DEF Reconcile, intake
    <3> HIDE DEF new
    <3> QED BY <3>1, <3>2 DEF Emitted
  <2>3. ASSUME NEW r \in Requests, Ask(r)
        PROVE  /\ asked \subseteq asked' /\ asked' \subseteq Requests
               /\ \E new \in SUBSET Events :
                    /\ pending' = pending \cup new
                    /\ \A e \in new : e.type = "acquire" => e.of \in asked'
    <3> DEFINE new == {Event("acquire", r, 0)}
    <3>1. new \in SUBSET Events /\ \A e \in new : e.of = r
      BY DEF Events, Event
    <3>2. asked' = asked \cup {r} /\ pending' = pending \cup new
      BY <2>3 DEF Ask
    <3> HIDE DEF new
    <3> QED BY <3>1, <3>2 DEF Emitted
  <2>4. ASSUME NEW n \in Notes, WriteNote(n)
        PROVE  /\ asked \subseteq asked' /\ asked' \subseteq Requests
               /\ \E new \in SUBSET Events :
                    /\ pending' = pending \cup new
                    /\ \A e \in new : e.type = "acquire" => e.of \in asked'
    <3> DEFINE new == IF pending' = pending THEN {} ELSE {Event("note", n, 0)}
    <3>1. new \in SUBSET Events /\ \A e \in new : e.type = "note"
      BY DEF Events, Event
    <3>2. asked' = asked /\ pending' = pending \cup new
      BY <2>4 DEF WriteNote
    <3> HIDE DEF new
    <3> QED BY <3>1, <3>2 DEF Emitted
  <2> QED BY <2>1, <2>2, <2>3, <2>4
<1>3. CallsTyped'
  BY <1>1, <1>2 DEF CallsTyped
<1>4. Emitted'
  <2>1. surfaced' \subseteq Keys
    BY DEF Sweep, Reconcile, Ask, WriteNote, intake, Emitted, Fresh, Scouted
  <2>2. written' \subseteq Notes /\ mishaps' \in 0..MaxMishaps
    BY DEF Sweep, Reconcile, Ask, WriteNote, intake, Emitted, Mishap, LibraryAssumption
  <2> QED BY <1>1, <1>2, <2>1, <2>2 DEF Emitted
<1> QED BY <1>1, <1>2, <1>3, <1>4, WorkKept, RepliesKept DEF LedgerGrows

LEMMA TakeKeeps ==
  ASSUME LibInv, NEW e \in pending, Take(e)
  PROVE  LibInv'
<1> USE DEF LibInv, WorkInv
<1>1. UNCHANGED <<row, queryable, certs, graph, surfaced, written, asked, replies, failed, pending>>
  BY DEF Take, intake
<1>2. mishaps' \in 0..MaxMishaps
  BY DEF Take, Emitted, Mishap, LibraryAssumption
<1> DEFINE twin == \E c \in calls : c.event = e
           new == Start(e, twin)
<1>3. calls' = calls \cup {new} /\ Cardinality(calls) < MaxCalls
  BY DEF Take
<1>4. /\ new \in CallSet /\ new.at \in {"adjudicate", "stage"} /\ new.event = e
      /\ new.at # "adjudicate" => new.doc \in Docs
  <2>1. e \in Events /\ (e.type # "acquire" => e.of \in Docs)
    BY EventKinds DEF Emitted
  <2>2. twin \in BOOLEAN
    OBVIOUS
  <2> HIDE DEF twin
  <2> QED BY <2>1, <2>2 DEF Start, Call, CallSet
<1> HIDE DEF new
<1>5. CallsTyped'
  <2>1. IsFiniteSet(calls') /\ Cardinality(calls') <= MaxCalls
    BY <1>3, CallAdded
  <2> QED BY <1>1, <1>3, <1>4, <2>1 DEF CallsTyped
<1>6. WorkInv'
  BY <1>1, <1>3, <1>4, <1>5, WorkKept
<1> QED BY <1>1, <1>2, <1>6, RepliesKept DEF LedgerGrows, Emitted

\* Calls that leave without having written anything.
LEMMA LeaveKeeps ==
  ASSUME LibInv, calls' \subseteq calls, pending' \subseteq pending, failed' \subseteq asked,
         UNCHANGED <<row, queryable, certs, graph, intake>>, mishaps' \in 0..MaxMishaps, Replied'
  PROVE  LibInv'
<1> USE DEF LibInv, WorkInv
<1>1. IsFiniteSet(calls') /\ Cardinality(calls') <= MaxCalls
  BY CallsDropped
<1>2. CallsTyped'
  BY <1>1 DEF CallsTyped, intake
<1> QED BY <1>2, WorkKept DEF Emitted, intake

LEMMA FailureKeeps ==
  ASSUME LibInv, \/ Crash
                 \/ \E e \in pending : Suppress(e)
                 \/ \E c \in calls : Fail(c)
  PROVE  LibInv'
<1> USE DEF LibInv, WorkInv
<1>1. CASE Crash
  BY <1>1, LeaveKeeps, RepliesKept DEF LedgerGrows, Crash, Mishap, Emitted, intake, LibraryAssumption
<1>2. ASSUME NEW e \in pending, Suppress(e) PROVE LibInv'
  <2>1. Asked(e) \subseteq asked
    BY DEF Asked, CallsTyped
  <2> QED BY <1>2, <2>1, LeaveKeeps, RepliesKept DEF LedgerGrows, Suppress, Mishap, Emitted, intake, LibraryAssumption
<1>3. ASSUME NEW c \in calls, Fail(c) PROVE LibInv'
  <2>1. Asked(c.event) \subseteq asked
    BY DEF Asked, CallsTyped
  <2>2. /\ calls' \subseteq calls /\ pending' \subseteq pending /\ mishaps' \in 0..MaxMishaps
        /\ UNCHANGED <<row, queryable, certs, graph, intake>>
    BY <1>3 DEF Fail, Settle, Mishap, Emitted, LibraryAssumption
  <2>3. failed' \subseteq asked /\ (UNCHANGED replies \/ Reply(c, "rejected", None))
    BY <1>3, <2>1 DEF Fail, Emitted
  <2>4. Replied'
    BY <2>2, <2>3, RepliesKept, ReplyWithout DEF LedgerGrows, intake
  <2> QED BY <2>2, <2>3, <2>4, LeaveKeeps
<1> QED BY <1>1, <1>2, <1>3

LEMMA AdjudicateKeeps ==
  ASSUME LibInv, NEW c \in calls, Adjudicate(c)
  PROVE  LibInv'
<1> USE DEF LibInv, WorkInv
<1>1. UNCHANGED <<row, queryable, certs, graph, intake, failed, mishaps>>
  BY DEF Adjudicate
<1>2. ASSUME Settle(c), Reply(c, "rejected", None) \/ Reply(c, "already_have", None)
      PROVE  LibInv'
  <2>1. Replied'
    BY <1>1, <1>2, ReplyWithout DEF intake
  <2> QED BY <1>1, <1>2, <2>1, LeaveKeeps DEF Settle, Emitted
<1>3. ASSUME NEW found \in Scouted, NEW k \in Fresh(found),
             calls' = (calls \ {c}) \cup {[c EXCEPT !.doc = k, !.at = "stage"]},
             UNCHANGED <<pending, replies>>
      PROVE  LibInv'
  <2> DEFINE new == [c EXCEPT !.doc = k, !.at = "stage"]
  <2>1. k \in Docs
    BY DEF Fresh, Scouted, Docs
  <2>2. c \in CallSet
    BY DEF CallsTyped
  <2>3. new \in CallSet /\ new.at = "stage" /\ new.doc = k /\ new.event = c.event
    BY <2>1, <2>2 DEF CallSet
  <2>4. calls' = (calls \ {c}) \cup {new}
    BY <1>3
  <2> HIDE DEF new
  <2>5. IsFiniteSet(calls') /\ Cardinality(calls') <= MaxCalls
    BY <2>4, CallSwapped
  <2>6. CallsTyped'
    BY <1>1, <1>3, <2>1, <2>3, <2>4, <2>5 DEF CallsTyped, intake
  <2>7. WorkInv'
    BY <1>1, <2>3, <2>4, <2>6, WorkKept
  <2> QED BY <1>1, <1>3, <2>7, RepliesKept DEF LedgerGrows, Emitted, intake
<1> QED BY <1>2, <1>3 DEF Adjudicate

-----------------------------------------------------------------------------
(* The steps that write a document.                                        *)

\* A call that goes on, from or past its staging.
LEMMA GoesOn ==
  ASSUME CallsTyped, NEW c \in calls, c.at # "adjudicate", NEW new \in CallSet,
         new.at \in Worked, new.doc = c.doc, new.event = c.event,
         calls' = (calls \ {c}) \cup {new}, UNCHANGED <<pending, asked>>
  PROVE  CallsTyped'
<1>1. IsFiniteSet(calls') /\ Cardinality(calls') <= MaxCalls
  BY CallSwapped
<1> QED BY <1>1 DEF CallsTyped, Worked

LEMMA StageKeeps ==
  ASSUME LibInv, NEW c \in calls, Stage(c)
  PROVE  LibInv'
<1> USE DEF LibInv, WorkInv
<1>1. c.at = "stage" /\ UNCHANGED <<queryable, certs, graph, surfaced, written, asked, failed, mishaps>>
  BY DEF Stage
<1>2. c \in CallSet /\ c.doc \in Docs
  BY <1>1 DEF CallsTyped
<1>3. CASE Settle(c) /\ Reply(c, "rejected", None) /\ UNCHANGED row
  <2>1. Replied'
    BY <1>1, <1>3, ReplyWithout
  <2> QED BY <1>1, <1>3, <2>1, LeaveKeeps DEF Settle, Emitted, intake
<1>4. CASE /\ Existing(c.doc) = {} /\ row' = [row EXCEPT ![c.doc] = "discovered"]
           /\ Go(c, "judge") /\ UNCHANGED replies
  <2>1. /\ row \in [Docs -> {None, "discovered", "certified", "blocked", "decayed"}]
        /\ \A d \in Docs : row'[d] = IF d = c.doc THEN "discovered" ELSE row[d]
    BY <1>4 DEF OneVerdict
  <2>2. row[c.doc] = None
    BY <1>2, <1>4 DEF Existing, SameDocument
  <2>3. certs[c.doc] = << >>
    BY <1>2, <2>2 DEF OneVerdict, None
  <2>4. \A b \in calls : b.at \in Worked => b.doc # c.doc
    BY <2>2, <2>3 DEF Worked, Progress, Trusted, None
  <2> DEFINE new == [c EXCEPT !.at = "judge"]
  <2>5. /\ new \in CallSet /\ new.at = "judge" /\ new.doc = c.doc /\ new.event = c.event
        /\ calls' = (calls \ {c}) \cup {new}
    BY <1>2, <1>4 DEF CallSet, Go, Worked
  <2> HIDE DEF new
  <2>6. CallsTyped'
    BY <1>1, <1>4, <2>5, GoesOn DEF Go, Worked
  <2>7. \A b \in calls' : Progress(b)'
    <3> SUFFICES ASSUME NEW b \in calls' PROVE Progress(b)'
      OBVIOUS
    <3>1. CASE b = new
      BY <1>1, <1>2, <2>1, <2>3, <2>5, <3>1 DEF Progress
    <3>2. CASE b # new /\ b.at \in Worked
      <4>1. b \in calls /\ b.doc \in Docs /\ b.doc # c.doc
        BY <2>4, <2>5, <3>2 DEF CallsTyped, Worked
      <4> QED BY <1>1, <2>1, <4>1 DEF Progress
    <3>3. CASE b.at \notin Worked
      BY <3>3 DEF Progress, Worked
    <3> QED BY <3>1, <3>2, <3>3
  <2>8. OneWorker'
    BY <2>4, <2>5 DEF OneWorker
  <2>9. OneVerdict'
    BY <1>1, <1>2, <1>4, <2>1, <2>3 DEF OneVerdict
  <2>10. ShownApproved'
    BY <1>1 DEF ShownApproved
  <2>11. OneDocument'
    <3>1. \A x \in Docs : Paper(x) = Paper(c.doc) => row[x] = None
      BY <1>4 DEF Existing, SameDocument
    <3>2. ASSUME NEW k \in Keys, NEW l \in Keys, PaperOf[k] = PaperOf[l], k # l
          PROVE  row'[k] = None \/ row'[l] = None
      <4>1. row[k] = None \/ row[l] = None
        BY <3>2 DEF OneDocument
      <4>2. Paper(k) = Paper(l) /\ k \in Docs /\ l \in Docs
        BY <3>2 DEF Paper, Docs, LibraryAssumption
      <4> QED BY <2>1, <3>1, <3>2, <4>1, <4>2
    <3> QED BY <3>2 DEF OneDocument
  <2>12. Replied'
    BY <1>1, <1>4, RepliesKept DEF LedgerGrows
  <2>13. pending' = pending
    BY <1>4 DEF Go
  <2> QED BY <1>1, <2>6, <2>7, <2>8, <2>9, <2>10, <2>11, <2>12, <2>13 DEF Emitted
<1> QED BY <1>3, <1>4 DEF Stage

LEMMA JudgeKeeps ==
  ASSUME LibInv, NEW c \in calls, Judge(c)
  PROVE  LibInv'
<1> USE DEF LibInv, WorkInv
<1>1. PICK says \in Verdicts(c.doc) :
        /\ row' = [row EXCEPT ![c.doc] = Trusted(says)]
        /\ calls' = (calls \ {c}) \cup {[c EXCEPT !.at = "certify", !.says = says]}
  BY DEF Judge
<1>2. c.at = "judge" /\ UNCHANGED <<queryable, certs, graph, intake, replies, failed, pending, mishaps>>
  BY DEF Judge
<1>3. /\ c \in CallSet /\ c.doc \in Docs /\ certs[c.doc] = << >> /\ row[c.doc] = "discovered"
  BY <1>2 DEF CallsTyped, Progress
<1>4. says \in {"approve", "block"} /\ Trusted(says) \in {"certified", "blocked"}
  BY DEF Verdicts, Decision, Opinions, Trusted
<1>5. \A d \in Docs : row'[d] = IF d = c.doc THEN Trusted(says) ELSE row[d]
  BY <1>1 DEF OneVerdict
<1> DEFINE new == [c EXCEPT !.at = "certify", !.says = says]
<1>6. /\ new \in CallSet /\ new.at = "certify" /\ new.says = says
      /\ new.doc = c.doc /\ new.event = c.event
  BY <1>3, <1>4 DEF CallSet, Worked
<1>13. calls' = (calls \ {c}) \cup {new}
  BY <1>1
<1> HIDE DEF new
<1>14. CallsTyped'
  BY <1>2, <1>6, <1>13, GoesOn DEF Worked, intake
<1>7. \A b \in calls : b # c /\ b.at \in Worked => b.doc # c.doc
  BY <1>2 DEF OneWorker, Worked
<1>8. \A b \in calls' : Progress(b)'
  BY <1>2, <1>3, <1>4, <1>5, <1>6, <1>7, <1>13 DEF Progress, Worked, CallsTyped, None
<1>9. OneWorker'
  BY <1>6, <1>7, <1>13 DEF OneWorker
<1>10. OneVerdict'
  BY <1>1, <1>2, <1>3, <1>4, <1>5 DEF OneVerdict
<1>11. ShownApproved'
  BY <1>2 DEF ShownApproved
<1>12. OneDocument'
  BY <1>3, <1>4, <1>5 DEF OneDocument, Docs, None
<1>15. Replied'
  BY <1>2, RepliesKept DEF LedgerGrows, intake
<1> QED BY <1>2, <1>8, <1>9, <1>10, <1>11, <1>12, <1>14, <1>15 DEF Emitted, intake

LEMMA CertifyKeeps ==
  ASSUME LibInv, NEW c \in calls, Certify(c)
  PROVE  LibInv'
<1> USE DEF LibInv, WorkInv
<1>1. /\ c.at = "certify" /\ certs' = [certs EXCEPT ![c.doc] = Append(certs[c.doc], c.says)]
      /\ UNCHANGED <<row, queryable, graph, intake, failed, mishaps>>
  BY DEF Certify
<1>2. /\ c \in CallSet /\ c.doc \in Docs /\ certs[c.doc] = << >>
      /\ c.says \in {"approve", "block"} /\ row[c.doc] = Trusted(c.says)
  BY <1>1 DEF CallsTyped, Progress, CallSet
<1>3. \A d \in Docs : certs'[d] = IF d = c.doc THEN <<c.says>> ELSE certs[d]
  BY <1>1, <1>2 DEF OneVerdict
<1>4. OneVerdict'
  BY <1>1, <1>2, <1>3 DEF OneVerdict, Trusted
<1>5. ShownApproved'
  BY <1>1, <1>2, <1>3 DEF ShownApproved
<1>6. OneDocument'
  BY <1>1 DEF OneDocument
<1>7. \A b \in calls : b # c /\ b.at \in Worked => b.doc # c.doc
  BY <1>1 DEF OneWorker, Worked
<1>8. LedgerGrows
  BY <1>2, <1>3 DEF LedgerGrows
<1>9. CASE c.says = "approve"
  <2> DEFINE new == [c EXCEPT !.at = "finalize"]
  <2>1. /\ new \in CallSet /\ new.at = "finalize" /\ new.doc = c.doc /\ new.event = c.event
        /\ calls' = (calls \ {c}) \cup {new} /\ UNCHANGED <<pending, replies>>
    BY <1>2, <1>9 DEF CallSet, Certify, Go, Worked
  <2> HIDE DEF new
  <2>2. CallsTyped'
    BY <1>1, <2>1, GoesOn DEF Worked, intake
  <2>3. \A b \in calls' : Progress(b)'
    <3> SUFFICES ASSUME NEW b \in calls' PROVE Progress(b)'
      OBVIOUS
    <3>1. CASE b = new
      BY <1>1, <1>2, <1>3, <1>9, <2>1, <3>1 DEF Progress, Trusted
    <3>2. CASE b # new /\ b.at \in Worked
      <4>1. b \in calls /\ b.doc \in Docs /\ b.doc # c.doc
        BY <1>7, <2>1, <3>2 DEF CallsTyped, Worked
      <4> QED BY <1>1, <1>3, <4>1 DEF Progress
    <3>3. CASE b.at \notin Worked
      BY <3>3 DEF Progress, Worked
    <3> QED BY <3>1, <3>2, <3>3
  <2>4. OneWorker'
    BY <1>7, <2>1 DEF OneWorker
  <2>5. Replied' /\ pending' = pending
    BY <1>1, <1>8, <2>1, RepliesKept DEF intake
  <2> QED BY <1>1, <1>4, <1>5, <1>6, <2>2, <2>3, <2>4, <2>5 DEF Emitted, intake
<1>10. CASE c.says = "block"
  <2>1. Settle(c) /\ Reply(c, "rejected", c.doc)
    BY <1>10 DEF Certify
  <2>2. CallsTyped'
    BY <1>1, <2>1, CallsDropped DEF Settle, CallsTyped, intake
  <2>3. \A b \in calls' : Progress(b)'
    <3> SUFFICES ASSUME NEW b \in calls, b # c PROVE Progress(b)'
      BY <2>1 DEF Settle
    <3>1. CASE b.at \notin Worked
      BY <3>1 DEF Progress, Worked
    <3>2. CASE b.at \in Worked
      <4>1. b.doc \in Docs /\ b.doc # c.doc /\ Progress(b)
        BY <1>7, <3>2 DEF CallsTyped, Worked
      <4>2. row' = row /\ certs'[b.doc] = certs[b.doc]
        BY <1>1, <1>3, <4>1
      <4> QED BY <4>1, <4>2 DEF Progress
    <3> QED BY <3>1, <3>2
  <2>4. OneWorker'
    BY <2>1 DEF Settle, OneWorker
  <2>5. Replied'
    BY <1>1, <1>2, <1>3, <1>8, <1>10, <2>1, ReplyKeeps DEF intake
  <2> QED BY <1>1, <1>4, <1>5, <1>6, <2>1, <2>2, <2>3, <2>4, <2>5 DEF Settle, Emitted, intake
<1> QED BY <1>2, <1>9, <1>10

LEMMA FinalizeKeeps ==
  ASSUME LibInv, NEW c \in calls, Finalize(c)
  PROVE  LibInv'
<1> USE DEF LibInv, WorkInv
<1>1. c.at = "finalize" /\ Settle(c) /\ Reply(c, "fulfilled", c.doc) /\ UNCHANGED <<row, certs, intake, failed>>
  BY DEF Finalize
<1>2. c \in CallSet /\ c.doc \in Docs /\ certs[c.doc] = <<"approve">>
  BY <1>1 DEF CallsTyped, Progress
<1>3. /\ queryable' \subseteq queryable \cup {c.doc} /\ graph' \subseteq graph \cup {c.doc}
      /\ mishaps' \in 0..MaxMishaps
  BY DEF Finalize, Project, NotEmbedded, Mishap, Emitted, LibraryAssumption
<1>4. CallsTyped'
  BY <1>1, CallsDropped DEF Settle, CallsTyped, intake
<1>5. (\A b \in calls' : Progress(b)') /\ OneWorker'
  BY <1>1 DEF Settle, Progress, OneWorker
<1>6. OneVerdict' /\ OneDocument'
  BY <1>1 DEF OneVerdict, OneDocument
<1>7. ShownApproved'
  BY <1>1, <1>2, <1>3 DEF ShownApproved
<1>8. Replied'
  BY <1>1, <1>2, ReplyKeeps DEF LedgerGrows, intake
<1> QED BY <1>1, <1>3, <1>4, <1>5, <1>6, <1>7, <1>8 DEF Settle, Emitted, intake

LEMMA DecayKeeps ==
  ASSUME LibInv, NEW d \in Keys, Decay(d)
  PROVE  LibInv'
<1> USE DEF LibInv, WorkInv
<1>1. /\ row[d] = "certified" /\ row' = [row EXCEPT ![d] = "decayed"] /\ \A c \in calls : c.doc # d
      /\ UNCHANGED <<queryable, certs, graph, intake, replies, failed, pending, calls, mishaps>>
  BY DEF Decay
<1>2. \A x \in Docs : row'[x] = IF x = d THEN "decayed" ELSE row[x]
  BY <1>1 DEF OneVerdict
<1>3. CallsTyped' /\ OneWorker'
  BY <1>1 DEF CallsTyped, OneWorker, intake
<1>4. \A c \in calls' : Progress(c)'
  BY <1>1, <1>2 DEF Progress, CallsTyped
<1>5. OneVerdict' /\ ShownApproved'
  BY <1>1, <1>2 DEF OneVerdict, ShownApproved, Docs
<1>6. OneDocument'
  BY <1>1, <1>2 DEF OneDocument, Docs, None
<1> QED BY <1>1, <1>3, <1>4, <1>5, <1>6, RepliesKept DEF LedgerGrows, Emitted, intake

LEMMA LibInvariant == Spec => []LibInv
<1>1. Init => LibInv
  <2> SUFFICES ASSUME Init PROVE LibInv
    OBVIOUS
  <2>1. CallsTyped
    BY FS_EmptySet DEF Init, CallsTyped, LibraryAssumption
  <2>2. (\A c \in calls : Progress(c)) /\ OneWorker /\ OneVerdict /\ ShownApproved
    BY DEF Init, OneWorker, OneVerdict, ShownApproved
  <2>3. OneDocument /\ Replied /\ Emitted
    BY DEF Init, OneDocument, Docs, Replied, RepliesTruthful, Emitted, LibraryAssumption
  <2> QED BY <2>1, <2>2, <2>3 DEF LibInv, WorkInv
<1>2. ASSUME LibInv, [Next]_vars PROVE LibInv'
  <2>1. CASE UNCHANGED vars
    BY <1>2, <2>1 DEF vars, intake, LibInv, WorkInv, CallsTyped, Progress, OneWorker, OneVerdict,
       ShownApproved, OneDocument, Replied, RepliesTruthful, Emitted
  <2>2. CASE Sweep \/ Reconcile \/ (\E r \in Requests : Ask(r)) \/ (\E n \in Notes : WriteNote(n))
    BY <1>2, <2>2, IntakeKeeps
  <2>3. CASE \E e \in pending : Take(e)
    BY <1>2, <2>3, TakeKeeps
  <2>4. CASE Crash \/ (\E e \in pending : Suppress(e)) \/ (\E c \in calls : Fail(c))
    BY <1>2, <2>4, FailureKeeps
  <2>5. ASSUME NEW c \in calls, Proceed(c) PROVE LibInv'
    BY <1>2, <2>5, AdjudicateKeeps, StageKeeps, JudgeKeeps, CertifyKeeps, FinalizeKeeps DEF Proceed
  <2>6. CASE \E k \in Keys : Decay(k)
    BY <1>2, <2>6, DecayKeeps
  <2> QED BY <1>2, <2>1, <2>2, <2>3, <2>4, <2>5, <2>6 DEF Next
<1> QED BY <1>1, <1>2, PTL DEF Spec

(* The state keeps its type, and never more calls run than there are slots. *)
THEOREM TypeCorrect == Spec => []TypeOK
<1>1. ASSUME LibInv PROVE TypeOK
  <2>1. /\ row \in [Docs -> {None, "discovered", "certified", "blocked", "decayed"}]
        /\ queryable \subseteq Docs /\ graph \subseteq Docs
        /\ \A d \in queryable : row[d] # None
    BY <1>1 DEF LibInv, WorkInv, OneVerdict, ShownApproved, None
  <2>2. \A d \in Docs : certs[d] \in Seq({"approve", "block"})
    <3>1. \A d \in Docs : certs[d] \in {<< >>, <<"approve">>, <<"block">>}
      BY <1>1 DEF LibInv, WorkInv, OneVerdict
    <3>2. << >> \in Seq({"approve", "block"})
      OBVIOUS
    <3>3. <<"approve">> \in Seq({"approve", "block"})
      OBVIOUS
    <3>4. <<"block">> \in Seq({"approve", "block"})
      OBVIOUS
    <3> QED BY <3>1, <3>2, <3>3, <3>4
  <2>3. /\ Cardinality(calls) <= MaxCalls
        /\ \A c \in calls : c.event \in Events /\ c.doc \in Docs \cup {None}
    BY <1>1 DEF LibInv, WorkInv, CallsTyped, CallSet
  <2> QED BY <1>1, <2>1, <2>2, <2>3 DEF LibInv, Replied, Emitted, TypeOK
<1> QED BY <1>1, LibInvariant, PTL

(* "No unverified source enters": what agents can retrieve, or find in the  *)
(* graph, was approved once and never blocked, whoever discovered it, asked *)
(* for it, repeated a call or restarted in the middle of one.               *)
THEOREM SearchableIsApproved == Spec => []SearchableApproved
<1>1. LibInv => SearchableApproved
  BY DEF LibInv, WorkInv, ShownApproved, SearchableApproved, Searchable, Admissible
<1> QED BY <1>1, LibInvariant, PTL

(* A requester that is told of a document is told what its verdict was.     *)
THEOREM RepliesAreTruthful == Spec => []RepliesTruthful
<1>1. LibInv => RepliesTruthful
  BY DEF LibInv, Replied
<1> QED BY <1>1, LibInvariant, PTL

(* Row and ledger agree for good, and a document is judged once.            *)
THEOREM LedgerAgreesAlways == Spec => []LedgerAgrees
<1>1. ASSUME LibInv PROVE LedgerAgrees
  <2> SUFFICES ASSUME NEW d \in Docs
               PROVE  /\ Len(certs[d]) <= 1
                      /\ certs[d] = <<"block">> => row[d] = "blocked"
                      /\ certs[d] = <<"approve">> => row[d] \in {"certified", "decayed"}
    BY DEF LedgerAgrees
  <2>1. certs[d] \in {<< >>, <<"approve">>, <<"block">>}
    BY <1>1 DEF LibInv, WorkInv, OneVerdict
  <2>2. Len(<< >>) = 0 /\ Len(<<"approve">>) = 1 /\ Len(<<"block">>) = 1
    OBVIOUS
  <2>3. Len(certs[d]) \in {0, 1}
    BY <2>1, <2>2
  <2>4. Len(certs[d]) <= 1
    <3> DEFINE length == Len(certs[d])
    <3>1. length \in {0, 1}
      BY <2>3
    <3> HIDE DEF length
    <3>2. length <= 1
      BY <3>1
    <3> QED BY <3>2 DEF length
  <2>5. /\ certs[d] = <<"block">> => row[d] = "blocked"
        /\ certs[d] = <<"approve">> => row[d] \in {"certified", "decayed"}
    BY <1>1 DEF LibInv, WorkInv, OneVerdict
  <2> QED BY <2>4, <2>5
<1> QED BY <1>1, LibInvariant, PTL

(* One document per paper, under whichever keys it is found and asked for.  *)
THEOREM OneDocumentPerPaper == Spec => []OneDocument
<1>1. LibInv => OneDocument
  BY DEF LibInv, WorkInv
<1> QED BY <1>1, LibInvariant, PTL

(* RequestsKept, for any number of requests and calls: what takes an event   *)
(* out of pending answers its request, or writes it off as failed.           *)
THEOREM RequestsAreKept == Spec => []RequestsKept
<1>1. Init => RequestsKept
  BY DEF Init, RequestsKept
<1>2. ASSUME RequestsKept, [Next]_vars PROVE RequestsKept'
  <2> DEFINE E(r) == Event("acquire", r, 0)
  <2>1. ASSUME NEW c, Settle(c), \E s, d : Reply(c, s, d), UNCHANGED <<asked, failed>>
        PROVE  RequestsKept'
    <3>1. ASSUME NEW r \in asked, E(r) \in pending, c.event = E(r) PROVE Answered(r)'
      <4>1. c.event.type = "acquire" /\ c.event.of = r
        BY <3>1 DEF Event
      <4>2. \E s, d : <<r, s, d>> \in replies'
        BY <2>1, <4>1 DEF Reply
      <4> QED BY <4>2 DEF Answered
    <3>2. replies \subseteq replies' /\ pending' = pending \ {c.event}
      BY <2>1 DEF Reply, Settle
    <3> QED BY <1>2, <2>1, <3>1, <3>2 DEF RequestsKept, Answered
  <2>2. ASSUME asked \subseteq asked', \A r \in asked' \ asked : E(r) \in pending',
               pending \subseteq pending', replies \subseteq replies', failed \subseteq failed'
        PROVE  RequestsKept'
    BY <1>2, <2>2 DEF RequestsKept, Answered
  <2>3. ASSUME NEW e, pending' = pending \ {e}, failed' = failed \cup Asked(e),
               UNCHANGED <<asked, replies>>
        PROVE  RequestsKept'
    <3>1. ASSUME NEW r \in asked, e = E(r) PROVE r \in failed'
      BY <2>3, <3>1 DEF Asked, Event
    <3> QED BY <1>2, <2>3, <3>1 DEF RequestsKept, Answered
  <2>4. CASE Sweep \/ Reconcile \/ Crash \/ UNCHANGED vars
    BY <2>2, <2>4 DEF Sweep, Reconcile, Crash, intake, vars
  <2>5. ASSUME NEW k \in Keys, Decay(k) PROVE RequestsKept'
    BY <2>2, <2>5 DEF Decay, intake
  <2>6. ASSUME NEW r \in Requests, Ask(r) PROVE RequestsKept'
    BY <2>2, <2>6 DEF Ask
  <2>7. ASSUME NEW n \in Notes, WriteNote(n) PROVE RequestsKept'
    BY <2>2, <2>7 DEF WriteNote
  <2>8. ASSUME NEW e \in pending, Take(e) PROVE RequestsKept'
    BY <2>2, <2>8 DEF Take, intake
  <2>9. ASSUME NEW e \in pending, Suppress(e) PROVE RequestsKept'
    BY <2>3, <2>9 DEF Suppress, intake
  <2>10. ASSUME NEW c \in calls, Proceed(c) PROVE RequestsKept'
    <3>1. CASE Adjudicate(c)
      <4>1. UNCHANGED <<asked, failed>>
        BY <3>1 DEF Adjudicate, intake
      <4>2. \/ Settle(c) /\ \E s, d : Reply(c, s, d)
            \/ UNCHANGED <<pending, replies>>
        BY <3>1 DEF Adjudicate
      <4> QED BY <2>1, <2>2, <4>1, <4>2
    <3>2. CASE Stage(c)
      <4>1. CASE Settle(c) /\ Reply(c, "rejected", None)
        BY <2>1, <3>2, <4>1 DEF Stage
      <4>2. CASE ~(Settle(c) /\ Reply(c, "rejected", None))
        BY <2>2, <3>2, <4>2 DEF Stage, Go
      <4> QED BY <4>1, <4>2
    <3>3. CASE Judge(c)
      BY <2>2, <3>3 DEF Judge, intake
    <3>4. CASE Certify(c)
      <4>1. CASE c.says = "approve"
        BY <2>2, <3>4, <4>1 DEF Certify, Go, intake
      <4>2. CASE c.says # "approve"
        BY <2>1, <3>4, <4>2 DEF Certify, intake
      <4> QED BY <4>1, <4>2
    <3>5. CASE Finalize(c)
      BY <2>1, <3>5 DEF Finalize, intake
    <3> QED BY <2>10, <3>1, <3>2, <3>3, <3>4, <3>5 DEF Proceed
  <2>11. ASSUME NEW c \in calls, Fail(c) PROVE RequestsKept'
    <3>1. CASE failed' = failed \cup Asked(c.event) /\ UNCHANGED replies
      BY <2>3, <2>11, <3>1 DEF Fail, Settle, intake
    <3>2. CASE Reply(c, "rejected", None) /\ UNCHANGED failed
      BY <2>1, <2>11, <3>2 DEF Fail, intake
    <3> QED BY <2>11, <3>1, <3>2 DEF Fail
  <2> QED BY <1>2, <2>4, <2>5, <2>6, <2>7, <2>8, <2>9, <2>10, <2>11 DEF Next
<1> QED BY <1>1, <1>2, PTL DEF Spec

-----------------------------------------------------------------------------
(* The sweeps that fill the Library: D is Discovery, for any values of its  *)
(* constants that fit DiscoveryAssumption, with names of its own for its    *)
(* events and mishaps.                                                      *)
CONSTANTS Frontier, SliceSize, Claims, Sweeps, Sweepers, MaxOffset, LowWater, TripAt, Depth,
          NoEvent, NoTopic, NoOne
VARIABLES dark, rotation, agendaDue, asker, offset, refreshed, newest, holder, streak, cooling,
          ledger, told, pc, on, start, todo, at, hits, faults
D == INSTANCE Discovery WITH Requests <- Sweeps, mishaps <- faults


LEMMA MinIn == ASSUME NEW a \in Nat, NEW b \in Nat
               PROVE  D!Min2(a, b) \in {a, b} /\ D!Min2(a, b) =< a /\ D!Min2(a, b) =< b
BY DEF D!Min2

\* A slice is of the frontier, a plan of topics.
LEMMA PlanTopics ==
  ASSUME D!DiscoveryAssumption, rotation \in Nat
  PROVE  D!Planned \subseteq D!Topics
<1>1. D!Slice \subseteq D!Topics
  <2> SUFFICES ASSUME NEW t \in D!Slice PROVE t \in D!Topics
    OBVIOUS
  <2> DEFINE k == D!Min2(SliceSize, Len(Frontier))
  <2>1. Len(Frontier) \in Nat \ {0}
    BY DEF D!DiscoveryAssumption
  <2>2. k \in Nat
    BY <2>1, MinIn DEF D!DiscoveryAssumption
  <2>3. PICK i \in 0..(k - 1) : t = Frontier[((rotation * k + i) % Len(Frontier)) + 1]
    BY DEF D!Slice
  <2> HIDE DEF k
  <2>4. rotation * k \in Nat
    BY <2>2
  <2>5. rotation * k + i \in Nat
    BY <2>2, <2>4
  <2>6. (rotation * k + i) % Len(Frontier) \in 0..(Len(Frontier) - 1)
    BY <2>1, <2>5
  <2>7. ((rotation * k + i) % Len(Frontier)) + 1 \in 1..Len(Frontier)
    BY <2>1, <2>6
  <2> QED BY <2>3, <2>7 DEF D!Topics
<1> QED BY <1>1 DEF D!Planned, D!Topics

\* Who is at the gate has a topic to ask for, so that the page it gets is one.
AtTopic == \A w \in Sweepers : pc[w] \in {"queued", "calling"} => at[w] \in D!Topics

LEMMA DiscoveryTypeKept ==
  ASSUME D!DiscoveryAssumption, D!TypeOK, AtTopic, [D!Next]_D!vars
  PROVE  D!TypeOK'
<1> USE DEF D!TypeOK, D!Offsets, D!asking, D!cursor, D!gate, D!corpus, D!work, D!Mishap, D!Goto, D!Emit, D!Pending
<1>1. ASSUME NEW r \in Sweeps, D!Ask(r) PROVE D!TypeOK'
  <2>1. CASE D!Pump(r)
    BY <2>1 DEF D!Pump
  <2>2. CASE D!AgendaSweep(r)
    BY <2>2 DEF D!AgendaSweep
  <2>3. CASE \E t \in Claims : D!Target(r, t)
    BY <2>3 DEF D!Target
  <2> QED BY <1>1, <2>1, <2>2, <2>3 DEF D!Ask
<1>2. ASSUME NEW w \in Sweepers, NEW r \in Sweeps, D!Take(w, r) PROVE D!TypeOK'
  <2>0. MaxOffset \in Nat /\ D!Advance \in D!Offsets /\ 0 \in D!Offsets /\ offset \in D!Offsets
    BY DEF D!Advance, D!DiscoveryAssumption
  <2>1. /\ offset' \in D!Offsets /\ refreshed' \in BOOLEAN /\ start' \in [Sweepers -> D!Offsets]
        /\ faults' \in 0..MaxMishaps
    <3> USE <2>0
    <3> HIDE DEF D!Offsets
    <3>1. CASE D!Refresh(w)
      BY <3>1 DEF D!Refresh
    <3>2. CASE D!Deepen(w)
      BY <3>2 DEF D!Deepen
    <3>3. CASE D!NoCursor(w)
      BY <3>3 DEF D!NoCursor, D!DiscoveryAssumption
    <3> QED BY <1>2, <3>1, <3>2, <3>3 DEF D!Take
  <2>2. todo' \in [Sweepers -> SUBSET D!Topics]
    BY <1>2, PlanTopics DEF D!Take, D!Topics
  <2> QED BY <1>2, <2>1, <2>2 DEF D!Take
<1>3. ASSUME NEW w \in Sweepers, NEW t \in D!Topics, D!Search(w, t) PROVE D!TypeOK'
  <2>1. todo' \in [Sweepers -> SUBSET D!Topics]
    BY <1>3 DEF D!Search
  <2>2. CASE cooling
    BY <1>3, <2>1, <2>2 DEF D!Search
  <2>3. CASE ~cooling
    <3>1. pc[w] = "search" /\ w \in Sweepers
      BY <1>3 DEF D!Search
    <3>2. /\ pc' = [pc EXCEPT ![w] = "queued"] /\ at' = [at EXCEPT ![w] = t]
          /\ UNCHANGED <<D!asking, D!cursor, newest, D!gate, D!corpus, on, start, hits, faults>>
      BY <1>3, <2>3 DEF D!Search
    <3>3. pc' \in [Sweepers -> {"idle", "search", "queued", "calling", "emit"}]
      BY <3>2
    <3>4. at' \in [Sweepers -> D!Topics \cup {NoTopic}]
      BY <3>2
    <3>5. \A v \in Sweepers : (pc'[v] = "calling") <=> (holder' = v)
      BY <3>1, <3>2
    <3>8. \A v \in Sweepers : (pc'[v] = "idle") <=> (on'[v] = NoEvent)
      BY <3>1, <3>2
    <3>6. /\ dark' \in BOOLEAN /\ rotation' \in Nat /\ agendaDue' \in BOOLEAN
          /\ asker' \in [Sweeps -> {"none", "pump", "agenda"} \cup Claims]
          /\ offset' \in D!Offsets /\ refreshed' \in BOOLEAN
          /\ newest' \in [D!Topics -> 1..Depth]
          /\ holder' \in Sweepers \cup {NoOne} /\ streak' \in 0..TripAt /\ cooling' \in BOOLEAN
          /\ ledger' \in [D!Sources -> {"never", "recent", "past"}] /\ told' \subseteq D!Sources
      BY <3>2
    <3>7. /\ on' \in [Sweepers -> Sweeps \cup {NoEvent}]
          /\ start' \in [Sweepers -> D!Offsets] /\ hits' \in [Sweepers -> SUBSET D!Sources]
          /\ faults' \in 0..MaxMishaps
      BY <3>2
    <3> QED BY <2>1, <3>3, <3>4, <3>5, <3>6, <3>7, <3>8
  <2> QED BY <2>2, <2>3
<1>4. ASSUME NEW w \in Sweepers, D!Send(w) PROVE D!TypeOK'
  BY <1>4 DEF D!Send
<1>5. ASSUME NEW w \in Sweepers, D!Answer(w) PROVE D!TypeOK'
  <2>1. D!Page(at[w], start[w]) \subseteq D!Sources
    <3>1. at[w] \in D!Topics
      BY <1>5 DEF D!Answer, D!Answered, AtTopic
    <3>2. newest[at[w]] \in 1..Depth /\ Depth \in Nat
      BY <3>1 DEF D!DiscoveryAssumption
    <3>3. 1..newest[at[w]] \subseteq 1..Depth
      BY <3>2
    <3> QED BY <3>1, <3>3 DEF D!Page, D!Sources
  <2>2. hits' \in [Sweepers -> SUBSET D!Sources]
    BY <1>5, <2>1 DEF D!Answer
  <2>3. streak' = 0 /\ 0 \in 0..TripAt
    BY <1>5 DEF D!Answer, D!DiscoveryAssumption
  <2> QED BY <1>5, <2>2, <2>3 DEF D!Answer, D!Answered
<1>6. ASSUME NEW w \in Sweepers, D!Filter(w) PROVE D!TypeOK'
  BY <1>6 DEF D!Filter, D!Surface
<1>7. ASSUME NEW w \in Sweepers, D!Settle(w) PROVE D!TypeOK'
  BY <1>7 DEF D!Settle, D!Leave
<1>8. ASSUME NEW w \in Sweepers, D!NoAnswer(w) PROVE D!TypeOK'
  BY <1>8, MinIn DEF D!NoAnswer, D!Answered
<1>9. ASSUME NEW w \in Sweepers, D!Fail(w) PROVE D!TypeOK'
  BY <1>9 DEF D!Fail, D!Leave, D!Emitted
<1>10. CASE D!Crash
  <2>1. told' \subseteq D!Sources
    <3>1. PICK S \in [Sweepers -> SUBSET D!Sources] : told' = told \cup UNION {S[w] : w \in Sweepers}
      BY <1>10 DEF D!Crash
    <3> QED BY <3>1
  <2>2. \A w \in Sweepers : pc'[w] = "idle" /\ on'[w] = NoEvent /\ holder' # w
    BY <1>10 DEF D!Crash, D!DiscoveryAssumption
  <2>3. 0 \in D!Offsets /\ 0 \in 0..TripAt
    BY DEF D!DiscoveryAssumption
  <2> HIDE DEF D!Offsets
  <2>4. /\ pc' \in [Sweepers -> {"idle", "search", "queued", "calling", "emit"}]
        /\ on' \in [Sweepers -> Sweeps \cup {NoEvent}]
        /\ start' \in [Sweepers -> D!Offsets] /\ todo' \in [Sweepers -> SUBSET D!Topics]
        /\ at' \in [Sweepers -> D!Topics \cup {NoTopic}] /\ hits' \in [Sweepers -> SUBSET D!Sources]
    BY <1>10, <2>3 DEF D!Crash
  <2>5. /\ agendaDue' \in BOOLEAN /\ holder' \in Sweepers \cup {NoOne}
        /\ streak' \in 0..TripAt /\ cooling' \in BOOLEAN /\ faults' \in 0..MaxMishaps
    <3>1. (~dark) \in BOOLEAN /\ agendaDue' = ~dark
      BY <1>10 DEF D!Crash
    <3>2. faults' \in 0..MaxMishaps
      BY <1>10 DEF D!Crash, D!DiscoveryAssumption
    <3>3. holder' = NoOne /\ streak' = 0 /\ cooling' = FALSE
      BY <1>10 DEF D!Crash
    <3> QED BY <2>3, <3>1, <3>2, <3>3
  <2>6. UNCHANGED <<dark, rotation, asker, D!cursor, newest, ledger>>
    BY <1>10 DEF D!Crash
  <2>7. \A w \in Sweepers : (pc'[w] = "calling") <=> (holder' = w)
    BY <2>2
  <2>9. \A w \in Sweepers : (pc'[w] = "idle") <=> (on'[w] = NoEvent)
    BY <2>2
  <2>8. /\ dark' \in BOOLEAN /\ rotation' \in Nat
        /\ asker' \in [Sweeps -> {"none", "pump", "agenda"} \cup Claims]
        /\ offset' \in D!Offsets /\ refreshed' \in BOOLEAN
        /\ newest' \in [D!Topics -> 1..Depth]
        /\ ledger' \in [D!Sources -> {"never", "recent", "past"}]
    BY <2>6
  <2> QED BY <2>1, <2>4, <2>5, <2>7, <2>8, <2>9
<1>11. CASE D!Turn \/ D!AgendaTick \/ D!WindowEnds \/ D!CooldownEnds
  <2>1. Len(Frontier) \in Nat \ {0}
    BY DEF D!DiscoveryAssumption
  <2>2. (rotation + 1) % Len(Frontier) \in Nat
    BY <2>1
  <2> QED BY <1>11, <2>2 DEF D!Turn, D!AgendaTick, D!WindowEnds, D!CooldownEnds
<1>12. CASE \E s \in D!Sources : D!RetryDue(s)
  BY <1>12 DEF D!RetryDue
<1>13. CASE \E t \in D!Topics : D!Submit(t)
  BY <1>13 DEF D!Submit
<1>14. CASE UNCHANGED D!vars
  BY <1>14 DEF D!vars
<1> QED BY <1>1, <1>2, <1>3, <1>4, <1>5, <1>6, <1>7, <1>8, <1>9, <1>10, <1>11, <1>12, <1>13, <1>14 DEF D!Next, D!Sweep

LEMMA DiscoveryInitTyped == ASSUME D!DiscoveryAssumption, D!Init PROVE D!TypeOK
<1>1. 0 \in D!Offsets /\ 0 \in 0..TripAt /\ 0 \in 0..MaxMishaps
  BY DEF D!Offsets, D!DiscoveryAssumption
<1>2. \A w \in Sweepers : pc[w] = "idle" /\ on[w] = NoEvent /\ holder # w
  BY DEF D!Init, D!DiscoveryAssumption
<1> QED BY <1>1, <1>2 DEF D!Init, D!TypeOK

LEMMA AtTopicKept == ASSUME D!TypeOK, AtTopic, [D!Next]_D!vars PROVE AtTopic'
<1> SUFFICES ASSUME NEW v \in Sweepers, pc'[v] \in {"queued", "calling"}
             PROVE  at'[v] \in D!Topics
  BY DEF AtTopic
<1>0. /\ pc \in [Sweepers -> {"idle", "search", "queued", "calling", "emit"}]
      /\ at \in [Sweepers -> D!Topics \cup {NoTopic}]
  BY DEF D!TypeOK
<1>1. CASE UNCHANGED <<pc, at>>
  BY <1>1 DEF AtTopic
<1>2. ASSUME NEW w \in Sweepers, NEW k \in {"idle", "search", "emit"}, D!Goto(w, k),
             UNCHANGED at \/ at' = [at EXCEPT ![w] = NoTopic]
      PROVE  at'[v] \in D!Topics
  BY <1>0, <1>2 DEF D!Goto, AtTopic
<1>3. ASSUME NEW r \in Sweeps, D!Ask(r) PROVE UNCHANGED <<pc, at>>
  BY <1>3 DEF D!Ask, D!Pump, D!AgendaSweep, D!Target, D!work
<1>4. ASSUME NEW w \in Sweepers, D!Sweep(w) \/ D!NoAnswer(w) \/ D!Fail(w)
      PROVE  at'[v] \in D!Topics
  <2>1. CASE \E r \in Sweeps : D!Take(w, r)
    <3>1. D!Goto(w, "search") /\ UNCHANGED at
      BY <2>1 DEF D!Take
    <3> QED BY <1>2, <3>1
  <2>2. CASE D!Send(w)
    <3>1. D!Goto(w, "calling") /\ pc[w] = "queued" /\ UNCHANGED at
      BY <2>2 DEF D!Send
    <3> QED BY <1>0, <3>1 DEF D!Goto, AtTopic
  <2>3. CASE D!Answer(w) \/ D!NoAnswer(w)
    <3>1. D!Goto(w, "search") /\ at' = [at EXCEPT ![w] = NoTopic]
      BY <2>3 DEF D!Answer, D!NoAnswer, D!Answered
    <3> QED BY <1>2, <3>1
  <2>4. CASE D!Filter(w)
    <3>1. D!Goto(w, "emit") /\ UNCHANGED at
      BY <2>4 DEF D!Filter
    <3> QED BY <1>2, <3>1
  <2>5. CASE D!Settle(w) \/ D!Fail(w)
    <3>1. D!Goto(w, "idle") /\ at' = [at EXCEPT ![w] = NoTopic]
      BY <2>5 DEF D!Settle, D!Fail, D!Leave
    <3> QED BY <1>2, <3>1
  <2>6. ASSUME NEW t \in D!Topics, D!Search(w, t) PROVE at'[v] \in D!Topics
    <3>1. CASE cooling
      BY <1>1, <2>6, <3>1 DEF D!Search
    <3>2. CASE ~cooling
      <4>1. D!Goto(w, "queued") /\ at' = [at EXCEPT ![w] = t]
        BY <2>6, <3>2 DEF D!Search
      <4> QED BY <1>0, <4>1 DEF D!Goto, AtTopic
    <3> QED BY <3>1, <3>2
  <2> QED BY <1>4, <2>1, <2>2, <2>3, <2>4, <2>5, <2>6 DEF D!Sweep
<1>5. CASE D!Crash
  BY <1>5 DEF D!Crash
<1>6. CASE \/ D!Turn \/ D!AgendaTick \/ D!WindowEnds \/ D!CooldownEnds
           \/ \E s \in D!Sources : D!RetryDue(s)
           \/ \E t \in D!Topics : D!Submit(t)
           \/ UNCHANGED D!vars
  <2>1. UNCHANGED <<pc, at>>
    BY <1>6 DEF D!Turn, D!AgendaTick, D!WindowEnds, D!CooldownEnds, D!RetryDue, D!Submit, D!work, D!vars
  <2> QED BY <1>1, <2>1
<1> QED BY <1>1, <1>3, <1>4, <1>5, <1>6 DEF D!Next

\* While the gate is closed nobody joins those who found it open.
LEMMA StepLeavesAlone ==
  D!TypeOK /\ [D!Next]_D!vars => (cooling /\ cooling' => D!AtGate' \subseteq D!AtGate)
<1> SUFFICES ASSUME D!TypeOK, [D!Next]_D!vars, cooling, cooling', NEW v \in Sweepers,
                    pc'[v] \in {"queued", "calling"}
             PROVE  pc[v] \in {"queued", "calling"}
  BY DEF D!AtGate
<1>0. pc \in [Sweepers -> {"idle", "search", "queued", "calling", "emit"}]
  BY DEF D!TypeOK
<1>1. CASE UNCHANGED pc
  BY <1>1
<1>2. ASSUME NEW w \in Sweepers, NEW k, D!Goto(w, k), k \in {"queued", "calling"} => pc[w] = "queued"
      PROVE  pc[v] \in {"queued", "calling"}
  BY <1>0, <1>2 DEF D!Goto
<1>3. ASSUME NEW r \in Sweeps, D!Ask(r) PROVE UNCHANGED pc
  BY <1>3 DEF D!Ask, D!Pump, D!AgendaSweep, D!Target, D!work
<1>4. ASSUME NEW w \in Sweepers, D!Sweep(w) \/ D!NoAnswer(w) \/ D!Fail(w)
      PROVE  pc[v] \in {"queued", "calling"}
  <2>1. CASE \E r \in Sweeps : D!Take(w, r)
    <3>1. D!Goto(w, "search")
      BY <2>1 DEF D!Take
    <3> QED BY <1>2, <3>1
  <2>2. CASE D!Send(w)
    <3>1. D!Goto(w, "calling") /\ pc[w] = "queued"
      BY <2>2 DEF D!Send
    <3> QED BY <1>2, <3>1
  <2>3. CASE D!Answer(w) \/ D!NoAnswer(w)
    <3>1. D!Goto(w, "search")
      BY <2>3 DEF D!Answer, D!NoAnswer, D!Answered
    <3> QED BY <1>2, <3>1
  <2>4. CASE D!Filter(w)
    <3>1. D!Goto(w, "emit")
      BY <2>4 DEF D!Filter
    <3> QED BY <1>2, <3>1
  <2>5. CASE D!Settle(w) \/ D!Fail(w)
    <3>1. D!Goto(w, "idle")
      BY <2>5 DEF D!Settle, D!Fail, D!Leave
    <3> QED BY <1>2, <3>1
  <2>6. CASE \E t \in D!Topics : D!Search(w, t)
    <3>1. UNCHANGED pc
      BY <2>6 DEF D!Search
    <3> QED BY <1>1, <3>1
  <2> QED BY <1>4, <2>1, <2>2, <2>3, <2>4, <2>5, <2>6 DEF D!Sweep
<1>5. CASE D!Crash
  BY <1>5 DEF D!Crash
<1>6. CASE \/ D!Turn \/ D!AgendaTick \/ D!WindowEnds \/ D!CooldownEnds
           \/ \E s \in D!Sources : D!RetryDue(s)
           \/ \E t \in D!Topics : D!Submit(t)
           \/ UNCHANGED D!vars
  <2>1. UNCHANGED pc
    BY <1>6 DEF D!Turn, D!AgendaTick, D!WindowEnds, D!CooldownEnds, D!RetryDue, D!Submit, D!work, D!vars
  <2> QED BY <1>1, <2>1
<1> QED BY <1>1, <1>3, <1>4, <1>5, <1>6 DEF D!Next

(* Type correctness: a cursor stays within the depth of the walk, a plan    *)
(* within the frontier, and a sweep has the gate exactly while it calls.    *)
THEOREM DiscoveryTypeCorrect == ASSUME D!DiscoveryAssumption PROVE D!Spec => []D!TypeOK
<1>1. D!Init => D!TypeOK /\ AtTopic
  BY DiscoveryInitTyped DEF D!Init, AtTopic
<1>2. D!TypeOK /\ AtTopic /\ [D!Next]_D!vars => D!TypeOK' /\ AtTopic'
  BY DiscoveryTypeKept, AtTopicKept
<1> QED BY <1>1, <1>2, PTL DEF D!Spec

(* While arXiv is left alone no sweep begins a call to it: those that are   *)
(* at the gate had found it open, whatever other sweeps do meanwhile.       *)
THEOREM LeavesAlone == ASSUME D!DiscoveryAssumption PROVE D!Spec => D!LeftAlone
<1>1. D!Init => D!TypeOK /\ AtTopic
  BY DiscoveryInitTyped DEF D!Init, AtTopic
<1>2. D!TypeOK /\ AtTopic /\ [D!Next]_D!vars => D!TypeOK' /\ AtTopic'
  BY DiscoveryTypeKept, AtTopicKept
<1>3. D!TypeOK /\ [D!Next]_D!vars => [cooling /\ cooling' => D!AtGate' \subseteq D!AtGate]_D!vars
  BY StepLeavesAlone
<1> QED BY <1>1, <1>2, <1>3, PTL DEF D!Spec, D!LeftAlone

-----------------------------------------------------------------------------
(* The pump's backlog.  What is pending is finite, for it starts empty and  *)
(* one sweep is asked for at a time.                                        *)
Pumped == {r \in Sweeps : asker[r] = "pump"}
PumpInv == IsFiniteSet(D!Pending) /\ Cardinality(Pumped) =< LowWater + faults

\* The instance counts as FiniteSets does.
LEMMA SameCounting == ASSUME NEW S PROVE D!Cardinality(S) = Cardinality(S)
BY DEF Cardinality, D!Cardinality

\* What the pump has asked for is among what is pending.
LEMMA PumpedCounted ==
  ASSUME IsFiniteSet(D!Pending)
  PROVE  /\ IsFiniteSet(Pumped) /\ Cardinality(Pumped) \in Nat /\ Cardinality(D!Pending) \in Nat
         /\ Cardinality(Pumped) =< Cardinality(D!Pending)
<1>1. Pumped \subseteq D!Pending
  BY DEF Pumped, D!Pending
<1> QED BY <1>1, FS_Subset, FS_CardinalityType

\* A step that asks for nothing new.
LEMMA PumpRests ==
  ASSUME D!DiscoveryAssumption, D!TypeOK, D!TypeOK', PumpInv, faults =< faults',
         \A r \in Sweeps : asker'[r] \in {asker[r], "none"}
  PROVE  PumpInv'
<1>1. D!Pending' \subseteq D!Pending /\ Pumped' \subseteq Pumped
  BY DEF D!Pending, Pumped
<1>2. IsFiniteSet(D!Pending')
  BY <1>1, FS_Subset DEF PumpInv
<1>3. Cardinality(Pumped') =< Cardinality(Pumped) /\ Cardinality(Pumped') \in Nat /\ Cardinality(Pumped) \in Nat
  BY <1>1, PumpedCounted, FS_Subset, FS_CardinalityType DEF PumpInv
<1>4. LowWater \in Nat /\ faults \in Nat /\ faults' \in Nat
  BY DEF D!DiscoveryAssumption, D!TypeOK
<1> QED BY <1>2, <1>3, <1>4 DEF PumpInv

\* One sweep more is pending; it is the pump's only if the intake was low, or
\* its probe failed.
LEMMA PumpAsks ==
  ASSUME D!DiscoveryAssumption, D!TypeOK, D!TypeOK', PumpInv, NEW r \in Sweeps, D!Ask(r)
  PROVE  PumpInv'
<1>0. /\ LowWater \in Nat /\ faults \in Nat /\ faults' \in Nat /\ faults =< faults'
      /\ asker \in [Sweeps -> {"none", "pump", "agenda"} \cup Claims]
      /\ Claims \cap {"none", "pump", "agenda"} = {}
  BY DEF D!DiscoveryAssumption, D!TypeOK, D!Ask, D!Pump, D!AgendaSweep, D!Target, D!Mishap
<1>1. PICK who \in {"pump", "agenda"} \cup Claims : D!Emit(r, who)
  BY DEF D!Ask, D!Pump, D!AgendaSweep, D!Target
<1>2. asker' = [asker EXCEPT ![r] = who] /\ r \notin D!Pending
  BY <1>1 DEF D!Emit
<1>3. D!Pending' = D!Pending \cup {r} /\ Pumped' = IF who = "pump" THEN Pumped \cup {r} ELSE Pumped
  BY <1>0, <1>2 DEF D!Pending, Pumped
<1>4. /\ IsFiniteSet(Pumped) /\ Cardinality(Pumped) \in Nat /\ Cardinality(D!Pending) \in Nat
      /\ Cardinality(Pumped) =< Cardinality(D!Pending)
  BY PumpedCounted DEF PumpInv
<1>5. IsFiniteSet(D!Pending')
  BY <1>3, FS_AddElement DEF PumpInv
<1>6. Cardinality(Pumped)' =< LowWater + faults'
  <2>1. CASE who # "pump"
    BY <1>0, <1>3, <1>4, <2>1 DEF PumpInv
  <2>2. CASE who = "pump"
    <3>1. Cardinality(Pumped)' = Cardinality(Pumped) + 1
      <4>1. r \notin Pumped
        BY <1>2 DEF Pumped, D!Pending
      <4> QED BY <1>3, <1>4, <2>2, <4>1, FS_AddElement
    <3>2. D!Pump(r)
      <4>1. asker'[r] = "pump"
        BY <1>0, <1>2, <2>2
      <4>2. ~D!AgendaSweep(r) /\ \A t \in Claims : ~D!Target(r, t)
        BY <1>0, <4>1 DEF D!AgendaSweep, D!Target, D!Emit
      <4> QED BY <4>2 DEF D!Ask
    <3>3. CASE D!Backlog < LowWater
      <4>1. Cardinality(D!Pending) < LowWater
        BY <3>3, SameCounting DEF D!Backlog
      <4> QED BY <1>0, <1>4, <3>1, <4>1
    <3>4. CASE D!Mishap
      <4>1. faults' = faults + 1
        BY <3>4 DEF D!Mishap
      <4> QED BY <1>0, <1>4, <3>1, <4>1 DEF PumpInv
    <3> QED BY <3>2, <3>3, <3>4 DEF D!Pump
  <2> QED BY <2>1, <2>2
<1> QED BY <1>5, <1>6 DEF PumpInv

\* Everything else asks for nothing.
LEMMA PumpStep ==
  ASSUME D!DiscoveryAssumption, D!TypeOK, D!TypeOK', PumpInv, [D!Next]_D!vars
  PROVE  PumpInv'
<1>1. ASSUME NEW r \in Sweeps, D!Ask(r) PROVE PumpInv'
  BY <1>1, PumpAsks
<1>0. /\ asker \in [Sweeps -> {"none", "pump", "agenda"} \cup Claims] /\ faults \in Nat
  BY DEF D!TypeOK
<1>2. ASSUME UNCHANGED asker, faults =< faults' PROVE PumpInv'
  BY <1>2, PumpRests
<1>3. ASSUME NEW w \in Sweepers, D!Leave(w), faults =< faults' PROVE PumpInv'
  <2>1. \A r \in Sweeps : asker'[r] \in {asker[r], "none"}
    BY <1>0, <1>3 DEF D!Leave
  <2> QED BY <1>3, <2>1, PumpRests
<1>4. ASSUME NEW w \in Sweepers, D!Sweep(w) \/ D!NoAnswer(w) \/ D!Fail(w) PROVE PumpInv'
  <2>1. CASE D!Settle(w) \/ D!Fail(w)
    <3>1. D!Leave(w) /\ faults =< faults'
      BY <1>0, <2>1 DEF D!Settle, D!Fail, D!Mishap
    <3> QED BY <1>3, <3>1
  <2>2. CASE \E r \in Sweeps : D!Take(w, r)
    <3>1. UNCHANGED asker /\ faults =< faults'
      BY <1>0, <2>2 DEF D!Take, D!Refresh, D!Deepen, D!NoCursor, D!Mishap, D!asking
    <3> QED BY <1>2, <3>1
  <2>3. CASE \/ D!Send(w) \/ D!Answer(w) \/ D!Filter(w) \/ D!NoAnswer(w)
             \/ \E t \in D!Topics : D!Search(w, t)
    <3>1. UNCHANGED asker /\ faults =< faults'
      BY <1>0, <2>3 DEF D!Send, D!Answer, D!Answered, D!Filter, D!NoAnswer, D!Search, D!Mishap, D!asking
    <3> QED BY <1>2, <3>1
  <2> QED BY <1>4, <2>1, <2>2, <2>3 DEF D!Sweep
<1>5. CASE D!Crash
  <2>1. UNCHANGED asker /\ faults =< faults'
    BY <1>0, <1>5 DEF D!Crash, D!Mishap
  <2> QED BY <1>2, <2>1
<1>6. CASE \/ D!Turn \/ D!AgendaTick \/ D!WindowEnds \/ D!CooldownEnds
           \/ \E s \in D!Sources : D!RetryDue(s)
           \/ \E t \in D!Topics : D!Submit(t)
           \/ UNCHANGED D!vars
  <2>1. UNCHANGED asker /\ faults =< faults'
    BY <1>0, <1>6 DEF D!Turn, D!AgendaTick, D!WindowEnds, D!CooldownEnds, D!RetryDue, D!Submit,
                      D!asking, D!vars
  <2> QED BY <1>2, <2>1
<1> QED BY <1>1, <1>4, <1>5, <1>6 DEF D!Next

(* The sweeps that the pump asked for never stack up beyond its low water,  *)
(* however long the sweeps take, whatever the agenda and the ladder ask for *)
(* meanwhile and however many sweepers there are.                           *)
THEOREM PumpStaysLow == ASSUME D!DiscoveryAssumption PROVE D!Spec => []D!PumpBounded
<1>1. D!Init => D!TypeOK /\ AtTopic /\ PumpInv
  <2> SUFFICES ASSUME D!Init PROVE D!TypeOK /\ AtTopic /\ PumpInv
    OBVIOUS
  <2>1. D!Pending = {} /\ Pumped = {} /\ faults = 0 /\ LowWater \in Nat
    BY DEF D!Init, D!Pending, Pumped, D!DiscoveryAssumption
  <2>2. IsFiniteSet(D!Pending) /\ Cardinality(Pumped) = 0
    BY <2>1, FS_EmptySet
  <2>3. PumpInv
    BY <2>1, <2>2 DEF PumpInv
  <2>4. AtTopic
    BY DEF D!Init, AtTopic
  <2> QED BY <2>3, <2>4, DiscoveryInitTyped
<1>2. D!TypeOK /\ AtTopic /\ PumpInv /\ [D!Next]_D!vars => (D!TypeOK /\ AtTopic /\ PumpInv)'
  <2>1. D!TypeOK /\ AtTopic /\ [D!Next]_D!vars => D!TypeOK' /\ AtTopic'
    BY DiscoveryTypeKept, AtTopicKept
  <2> QED BY <2>1, PumpStep
<1>3. PumpInv => D!PumpBounded
  BY SameCounting DEF PumpInv, Pumped, D!PumpBounded
<1> QED BY <1>1, <1>2, <1>3, PTL DEF D!Spec
=============================================================================
