------------------------------ MODULE Lessons ------------------------------
(****************************************************************************)
(* The lab's notebook: lessons that reflection derives, prompts that carry  *)
(* them, the rows that say which run applied which lesson, and the hourly   *)
(* reconciliation that promotes, retires and decays them.                   *)
(*                                                                          *)
(* Two ways in, two ways out.  The loops' prompts are built by the Curator, *)
(* and the Router writes the application rows with the run's completion.    *)
(* Ariadne's deliberation and reflection bypass both: they recall into one  *)
(* list of the module, and write the rows of whatever it holds when they    *)
(* end; the planner's decomposition recalls into the same list.  Reflection *)
(* looks for a near-duplicate of what it derived, and then credits it or    *)
(* inserts: two statements with a connection each.                          *)
(*                                                                          *)
(* Abstractions: an idea stands for all near-duplicates of a text; a        *)
(* predicate may match or not; lessons of the loops and of Ariadne have     *)
(* their own ideas, for no recipe registers ariadne.deliberate and the      *)
(* loops' reflection drops what is scoped to an unregistered invocation.    *)
(* Generations bounds how often an idea is inserted.                        *)
(****************************************************************************)
EXTENDS Naturals, FiniteSets

CONSTANTS
  LoopIdeas, AriadneIdeas,
  Generations,
  Steps,         \* runs of a loop's step
  Deliberations, \* runs of handle_ariadne_deliberate
  Reflects,      \* runs of handle_ariadne_reflect
  Plans,         \* runs of handle_planner_decompose
  Batches,       \* runs of handle_reflection_requested
  PromoteAt, Tolerated, RetireAt,   \* 5, 1 and 3 in reconcile_lessons
  NoLesson, NoRun

Ideas == LoopIdeas \cup AriadneIdeas
Lessons == Ideas \X (1..Generations)
Ariadne == Deliberations \cup Reflects
Runs == Steps \cup Ariadne \cup Plans \cup Batches

ASSUME LessonsAssumption ==
  /\ LoopIdeas \cap AriadneIdeas = {}
  /\ Generations \in Nat
  /\ PromoteAt \in Nat \ {0} /\ Tolerated \in Nat /\ RetireAt \in Nat
  /\ Tolerated < RetireAt
  /\ NoLesson \notin Lessons /\ NoRun \notin Runs
  /\ IsFiniteSet(Runs)

VARIABLES
  status,    \* lesson -> its status, or "none"
  aged,      \* lessons created more than 14 days ago
  applied,   \* lesson -> run -> outcome of its row: "none", "open" or the verdict
  credited,  \* lesson -> runs whose synthetic supportive row it has
  pc,        \* run -> where it stands
  prompt,    \* run -> the lessons its prompt was built from
  recalled,  \* LAST_RECALLED_LESSON_IDS
  idea,      \* reflecting run -> what it derived
  onto,      \* reflecting run -> the run it credits
  twin       \* reflecting run -> the near-duplicate it found

vars == <<status, aged, applied, credited, pc, prompt, recalled, idea, onto, twin>>
book == <<status, aged, applied, credited>>
finding == <<idea, onto, twin>>

Outcomes == {"supportive", "contradicting", "inconclusive"}
Live(I) == {l \in I \X (1..Generations) : status[l] \in {"probationary", "active"}}

Init ==
  /\ status = [l \in Lessons |-> "none"] /\ aged = {}
  /\ applied = [l \in Lessons |-> [r \in Runs |-> "none"]]
  /\ credited = [l \in Lessons |-> {}]
  /\ pc = [r \in Runs |-> "idle"]
  /\ prompt = [r \in Runs |-> {}]
  /\ recalled = {}
  /\ idea = [r \in Runs |-> NoLesson] /\ onto = [r \in Runs |-> NoRun]
  /\ twin = [r \in Runs |-> NoLesson]

Goto(r, there) == pc' = [pc EXCEPT ![r] = there]
HasRow(l, r) == applied[l][r] # "none" \/ r \in credited[l]
Open(S, r) == applied' = [l \in Lessons |-> IF l \in S THEN [applied[l] EXCEPT ![r] = "open"]
                                           ELSE applied[l]]

----------------------------------------------------------------------------
(* A step of a loop                                                         *)

\* A bug: the rows are written when the prompt is built.
BuildRecording(s) ==
  /\ pc[s] = "idle" /\ Goto(s, "asked")
  /\ \E S \in SUBSET Live(LoopIdeas) : prompt' = [prompt EXCEPT ![s] = S] /\ Open(S, s)
  /\ UNCHANGED <<status, aged, credited, recalled, finding>>

(* The lessons layer; the budget may drop its text afterwards, the ids stay *)
(* on the prompt.                                                           *)
Build(s) ==
  /\ pc[s] = "idle" /\ Goto(s, "asked")
  /\ \E S \in SUBSET Live(LoopIdeas) : prompt' = [prompt EXCEPT ![s] = S]
  /\ UNCHANGED <<book, recalled, finding>>

(* The rows go with the completion; the event after it may fail, and then   *)
(* the completed run is written failed and its rows stay.                   *)
Complete(s) ==
  /\ pc[s] = "asked"
  /\ \/ Goto(s, "completed") \/ Goto(s, "failed")
  /\ Open(prompt[s], s)
  /\ prompt' = [prompt EXCEPT ![s] = {}]
  /\ UNCHANGED <<status, aged, credited, recalled, finding>>

----------------------------------------------------------------------------
(* Ariadne and the planner                                                  *)

(* recall_lessons: clear, query, extend.                                    *)
Recall(a) ==
  /\ pc[a] = "idle" /\ Goto(a, IF a \in Plans THEN "completed" ELSE "asked")
  /\ recalled' = Live(AriadneIdeas)
  /\ prompt' = [prompt EXCEPT ![a] = Live(AriadneIdeas)]
  /\ UNCHANGED <<book, finding>>

(* The model has answered and its run is completed: a deliberation is       *)
(* persisted, a reflection has derived an idea or none.                     *)
Answer(a) ==
  /\ pc[a] = "asked"
  /\ \/ Goto(a, "answered") /\ UNCHANGED finding
     \/ /\ a \in Reflects /\ Goto(a, "derived")
        /\ \E i \in AriadneIdeas : idea' = [idea EXCEPT ![a] = i]
        /\ onto' = [onto EXCEPT ![a] = a]
        /\ UNCHANGED twin
  /\ UNCHANGED <<book, prompt, recalled>>

\* A bug: the row is inserted without the NOT EXISTS.
UnrecordedAny(a) == recalled
Unrecorded(a) == {l \in recalled : ~HasRow(l, a)}

(* record_applications, of what was recalled last, by whomever.             *)
Record(a) ==
  /\ pc[a] = "answered" /\ Goto(a, "completed")
  /\ Open(Unrecorded(a), a)
  /\ UNCHANGED <<status, aged, credited, prompt, recalled, finding>>

----------------------------------------------------------------------------
(* Reflection                                                               *)

(* A batch credits its own run, the legacy handler the run it reflects on.  *)
Derive(b) ==
  /\ pc[b] = "idle" /\ Goto(b, "derived")
  /\ \E i \in LoopIdeas : idea' = [idea EXCEPT ![b] = i]
  /\ \E r \in {b} \cup {s \in Steps : pc[s] \in {"completed", "failed"}} :
       onto' = [onto EXCEPT ![b] = r]
  /\ UNCHANGED <<book, prompt, recalled, twin>>

(* find_near_duplicate: among the live lessons.                             *)
Find(r) ==
  /\ pc[r] = "derived" /\ Goto(r, "found")
  /\ \E l \in IF Live({idea[r]}) = {} THEN {NoLesson} ELSE Live({idea[r]}) :
       twin' = [twin EXCEPT ![r] = l]
  /\ UNCHANGED <<book, prompt, recalled, idea, onto>>

Fresh(i) == {l \in {i} \X (1..Generations) :
               status[l] = "none" /\ \A g \in 1..(l[2] - 1) : status[<<i, g>>] # "none"}

(* credit_recurrence, where the run has no row of the lesson yet, or        *)
(* insert_lesson_candidate.                                                 *)
Persist(r) ==
  /\ pc[r] = "found"
  /\ Goto(r, IF r \in Reflects THEN "answered" ELSE "completed")
  /\ IF twin[r] # NoLesson
     THEN /\ credited' = IF HasRow(twin[r], onto[r]) THEN credited
                         ELSE [credited EXCEPT ![twin[r]] = @ \cup {onto[r]}]
          /\ UNCHANGED status
     ELSE /\ \E l \in Fresh(idea[r]) : status' = [status EXCEPT ![l] = "probationary"]
          /\ UNCHANGED credited
  /\ idea' = [idea EXCEPT ![r] = NoLesson] /\ onto' = [onto EXCEPT ![r] = NoRun]
  /\ twin' = [twin EXCEPT ![r] = NoLesson]
  /\ UNCHANGED <<aged, applied, prompt, recalled>>

(* The handler dies where it stands: what the model answered is lost.       *)
Die(r) ==
  /\ pc[r] \in {"asked", "answered", "derived", "found"}
  /\ Goto(r, "gone")
  /\ prompt' = [prompt EXCEPT ![r] = {}]
  /\ idea' = [idea EXCEPT ![r] = NoLesson] /\ onto' = [onto EXCEPT ![r] = NoRun]
  /\ twin' = [twin EXCEPT ![r] = NoLesson]
  /\ UNCHANGED <<book, recalled>>

----------------------------------------------------------------------------
(* The watchdog's hour                                                      *)

\* A bug: the verdict is written as the model gives it.
VerdictsAsGiven(r) == Outcomes
(* Only a run that succeeded supports.                                      *)
Verdicts(r) == IF r \in Steps /\ pc[r] = "failed" THEN Outcomes \ {"supportive"} ELSE Outcomes

\* A bug: the update does not ask for a NULL outcome.
JudgeableAgain(l, r) == applied[l][r] # "none"
Judgeable(l, r) == applied[l][r] = "open"

(* Hinge A, with LESSON_JUDGE=on: a model judges the rows of ended runs.    *)
Judge(l, r) ==
  /\ Judgeable(l, r)
  /\ \E v \in Verdicts(r) : applied' = [applied EXCEPT ![l][r] = v]
  /\ UNCHANGED <<status, aged, credited, pc, prompt, recalled, finding>>

With(l, v) == {r \in Runs : applied[l][r] = v}
Supportive(l) == Cardinality(With(l, "supportive")) + Cardinality(credited[l])
Contradicting(l) == Cardinality(With(l, "contradicting"))

\* A bug: every judged row counts.
PromotableJudged(l) ==
  /\ status[l] = "probationary"
  /\ Cardinality({r \in Runs : HasRow(l, r)}) >= PromoteAt /\ Contradicting(l) <= Tolerated

\* A bug: the statistics take in the retired lessons too.
PromotableRetired(l) ==
  /\ status[l] \in {"probationary", "retired"}
  /\ Supportive(l) >= PromoteAt /\ Contradicting(l) <= Tolerated
Promotable(l) ==
  /\ status[l] = "probationary"
  /\ Supportive(l) >= PromoteAt /\ Contradicting(l) <= Tolerated

Retirable(l) ==
  /\ l \in Live(Ideas)
  /\ Contradicting(l) >= RetireAt /\ Contradicting(l) > Supportive(l)

(* reconcile_lessons: one statement.                                        *)
Reconcile ==
  /\ status' = [l \in Lessons |-> IF Promotable(l) THEN "active"
                                  ELSE IF Retirable(l) THEN "retired" ELSE status[l]]
  /\ UNCHANGED <<aged, applied, credited, pc, prompt, recalled, finding>>

\* A bug: the join takes in every application.
StaleUnapplied(l) ==
  /\ status[l] = "probationary" /\ l \in aged
  /\ \A r \in Runs : ~HasRow(l, r)
(* decay_lessons: fourteen days without one supportive application.         *)
Stale(l) == status[l] = "probationary" /\ l \in aged /\ Supportive(l) = 0

Decay ==
  /\ status' = [l \in Lessons |-> IF Stale(l) THEN "retired" ELSE status[l]]
  /\ UNCHANGED <<aged, applied, credited, pc, prompt, recalled, finding>>

Age(l) ==
  /\ status[l] # "none" /\ l \notin aged
  /\ aged' = aged \cup {l}
  /\ UNCHANGED <<status, applied, credited, pc, prompt, recalled, finding>>

Hour == Reconcile \/ Decay

Next ==
  \/ \E s \in Steps : Build(s) \/ Complete(s)
  \/ \E a \in Ariadne \cup Plans : Recall(a)
  \/ \E a \in Ariadne : Answer(a) \/ Record(a)
  \/ \E b \in Batches : Derive(b)
  \/ \E r \in Reflects \cup Batches : Find(r) \/ Persist(r)
  \/ \E r \in Runs : Die(r)
  \/ \E l \in Lessons, r \in Runs : Judge(l, r)
  \/ \E l \in Lessons : Age(l)
  \/ Hour

(* The watchdog comes back every five minutes and reconciles every hour.    *)
Fairness == WF_vars(Reconcile) /\ WF_vars(Decay)

Spec == Init /\ [][Next]_vars
FairSpec == Spec /\ Fairness

----------------------------------------------------------------------------
(* Properties                                                               *)

TypeOK ==
  /\ status \in [Lessons -> {"none", "probationary", "active", "retired"}]
  /\ aged \subseteq Lessons
  /\ applied \in [Lessons -> [Runs -> Outcomes \cup {"none", "open"}]]
  /\ credited \in [Lessons -> SUBSET Runs]
  /\ pc \in [Runs -> {"idle", "asked", "answered", "derived", "found", "completed", "failed", "gone"}]
  /\ prompt \in [Runs -> SUBSET Lessons] /\ recalled \subseteq Lessons
  /\ idea \in [Runs -> Ideas \cup {NoLesson}] /\ onto \in [Runs -> Runs \cup {NoRun}]
  /\ twin \in [Runs -> Lessons \cup {NoLesson}]

(* A row is of a lesson that exists and of a run whose model has answered.  *)
RowsAfterAnswer == \A l \in Lessons, r \in Runs :
  HasRow(l, r) => status[l] # "none" /\ pc[r] \notin {"idle", "asked"}

(* A run counts for a lesson once: its prompt's row and the credit of the   *)
(* reflection it led to are never both there.                               *)
CountedOnce == \A l \in Lessons, r \in Runs : ~(applied[l][r] # "none" /\ r \in credited[l])

(* A lesson that is marked verified in prompts has the supportive runs that *)
(* promotion asks for, whatever came later.                                 *)
ActiveEarned == \A l \in Lessons : status[l] = "active" => Supportive(l) >= PromoteAt

(* A run that was written failed after its rows were inserted supports no   *)
(* lesson by judgement.                                                     *)
SupportFromSuccess ==
  \A l \in Lessons, s \in Steps : applied[l][s] = "supportive" => pc[s] # "failed"

(* What has been judged stays judged, and no row goes away.                 *)
OutcomeStands ==
  [][\A l \in Lessons, r \in Runs :
       /\ applied[l][r] \in Outcomes => applied'[l][r] = applied[l][r]
       /\ HasRow(l, r) => HasRow(l, r)']_vars

(* A retired lesson stays retired: the idea comes back as a new row.        *)
RetiredStands == [][\A l \in Lessons : status[l] = "retired" => status'[l] = "retired"]_vars

(* Probation ends: again and again no lesson older than fourteen days is on *)
(* probation but one that has support, and too little of it or too much     *)
(* against it.                                                              *)
Limbo(l) ==
  /\ Supportive(l) > 0
  /\ Supportive(l) < PromoteAt \/ Contradicting(l) > Tolerated
  /\ Contradicting(l) < RetireAt \/ Contradicting(l) <= Supportive(l)

ProbationEnds == []<>(\A l \in aged : status[l] = "probationary" => Limbo(l))

(* reflection/handler.py: "The router records every lesson it injected into *)
(* a prompt", loop.py: "the lesson ids the LAST recall injected".  Violated:*)
(* the planner's recall, or another run's, overwrites the list.             *)
AppliedWasRecalled ==
  \A l \in Lessons, a \in Ariadne : applied[l][a] # "none" => l \in prompt[a]

(* persist_reflection: "DEDUP ON RE-DERIVATION".  Violated by two           *)
(* reflections between their lookup and their insert.                       *)
NoTwins == \A i \in Ideas : Cardinality(Live({i})) <= 1
=============================================================================
