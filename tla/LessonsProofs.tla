---------------------------- MODULE LessonsProofs ----------------------------
(****************************************************************************)
(* Proofs about Lessons: what a run counts for in the notebook, and what is *)
(* marked verified there.                                                   *)
(****************************************************************************)
EXTENDS Lessons, FiniteSetTheorems, TLAPS

USE LessonsAssumption

\* What prompts, the list of the module and a lookup hold is in the notebook.
InTheBook ==
  /\ \A r \in Runs : \A l \in prompt[r] : status[l] # "none"
  /\ \A l \in recalled : status[l] # "none"
  /\ \A r \in Runs : twin[r] # NoLesson => status[twin[r]] # "none"

\* A reflection that has derived an idea credits a run that has been answered.
CreditsAnswered == \A r \in Runs :
  /\ pc[r] \in {"derived", "found"} => idea[r] \in Ideas /\ onto[r] \in Runs
  /\ onto[r] # NoRun => pc[onto[r]] \notin {"idle", "asked"}

BookInv == TypeOK /\ RowsAfterAnswer /\ InTheBook /\ CreditsAnswered /\ CountedOnce /\ SupportFromSuccess
----------------------------------------------------------------------------
LEMMA LiveLessons ==
  ASSUME NEW I \in SUBSET Ideas
  PROVE  /\ Live(I) \subseteq Lessons
         /\ \A l \in Live(I) : status[l] # "none"
BY DEF Live, Lessons

LEMMA FreshLessons ==
  ASSUME NEW i \in Ideas, NEW l \in Fresh(i)
  PROVE  l \in Lessons /\ status[l] = "none"
BY DEF Fresh, Lessons

\* Open writes one row for each lesson it is given, and no other.
LEMMA OpenRows ==
  ASSUME TypeOK, NEW S, NEW r \in Runs, Open(S, r)
  PROVE  /\ applied' \in [Lessons -> [Runs -> Outcomes \cup {"none", "open"}]]
         /\ \A l \in Lessons, q \in Runs :
              applied'[l][q] = IF l \in S /\ q = r THEN "open" ELSE applied[l][q]
BY DEF Open, TypeOK

LEMMA RunsOfAKind ==
  /\ Steps \subseteq Runs /\ Ariadne \subseteq Runs /\ Plans \subseteq Runs /\ Batches \subseteq Runs
  /\ Reflects \subseteq Runs
BY DEF Runs, Ariadne

\* A step that writes no row, moves no run back before its answer and fails
\* none keeps what the rows say.
LEMMA RowsKept ==
  ASSUME BookInv, UNCHANGED <<applied, credited>>,
         \A l \in Lessons : status[l] # "none" => status'[l] # "none",
         \A r \in Runs : pc[r] \notin {"idle", "asked"} => pc'[r] \notin {"idle", "asked"},
         \A r \in Runs : pc'[r] = "failed" => pc[r] = "failed"
  PROVE  RowsAfterAnswer' /\ CountedOnce' /\ SupportFromSuccess'
BY RunsOfAKind DEF BookInv, RowsAfterAnswer, CountedOnce, SupportFromSuccess, HasRow

LEMMA BuildKeeps ==
  ASSUME BookInv, NEW s \in Steps, Build(s)
  PROVE  BookInv'
<1> USE RunsOfAKind
<1>1. PICK S \in SUBSET Live(LoopIdeas) : prompt' = [prompt EXCEPT ![s] = S]
  BY DEF Build
<1>2. S \subseteq Lessons /\ \A l \in S : status[l] # "none"
  BY <1>1, LiveLessons DEF Ideas
<1>3. TypeOK'
  BY <1>1, <1>2 DEF Build, Goto, book, finding, BookInv, TypeOK
<1>4. InTheBook'
  BY <1>1, <1>2 DEF Build, book, finding, BookInv, TypeOK, InTheBook
<1>5. CreditsAnswered'
  BY DEF Build, Goto, book, finding, BookInv, TypeOK, CreditsAnswered
<1>6. RowsAfterAnswer' /\ CountedOnce' /\ SupportFromSuccess'
  BY RowsKept DEF Build, Goto, book, BookInv, TypeOK
<1> QED BY <1>3, <1>4, <1>5, <1>6 DEF BookInv

LEMMA CompleteKeeps ==
  ASSUME BookInv, NEW s \in Steps, Complete(s)
  PROVE  BookInv'
<1> USE RunsOfAKind
<1>1. Open(prompt[s], s) /\ pc[s] = "asked" /\ UNCHANGED <<status, aged, credited, recalled, finding>>
  BY DEF Complete
<1>2. TypeOK
  BY DEF BookInv
<1>3. /\ applied' \in [Lessons -> [Runs -> Outcomes \cup {"none", "open"}]]
      /\ \A l \in Lessons, q \in Runs :
           applied'[l][q] = IF l \in prompt[s] /\ q = s THEN "open" ELSE applied[l][q]
  BY <1>1, <1>2, OpenRows
<1>4. pc' = [pc EXCEPT ![s] = "completed"] \/ pc' = [pc EXCEPT ![s] = "failed"]
  BY DEF Complete, Goto
<1>5. prompt' = [prompt EXCEPT ![s] = {}]
  BY DEF Complete
<1>6. TypeOK'
  BY <1>1, <1>2, <1>3, <1>4, <1>5 DEF TypeOK, finding
<1>7. \A l \in Lessons : applied[l][s] = "none" /\ s \notin credited[l]
  BY <1>1 DEF BookInv, RowsAfterAnswer, HasRow
<1>8. pc'[s] \in {"completed", "failed"} /\ \A q \in Runs : q # s => pc'[q] = pc[q]
  BY <1>2, <1>4 DEF TypeOK
<1>9. RowsAfterAnswer'
  BY <1>1, <1>3, <1>8 DEF BookInv, RowsAfterAnswer, HasRow, InTheBook
<1>10. CountedOnce'
  BY <1>1, <1>3, <1>7 DEF BookInv, CountedOnce
<1>11. SupportFromSuccess'
  BY <1>3, <1>7, <1>8 DEF BookInv, SupportFromSuccess
<1>12. InTheBook'
  BY <1>1, <1>2, <1>5 DEF BookInv, TypeOK, InTheBook, finding
<1>13. CreditsAnswered'
  BY <1>1, <1>2, <1>8 DEF BookInv, TypeOK, CreditsAnswered, finding
<1> QED BY <1>6, <1>9, <1>10, <1>11, <1>12, <1>13 DEF BookInv

LEMMA RecallKeeps ==
  ASSUME BookInv, NEW a \in Ariadne \cup Plans, Recall(a)
  PROVE  BookInv'
<1> USE RunsOfAKind
<1>1. Live(AriadneIdeas) \subseteq Lessons /\ \A l \in Live(AriadneIdeas) : status[l] # "none"
  BY LiveLessons DEF Ideas
<1>2. /\ pc[a] = "idle" /\ UNCHANGED <<book, finding>>
      /\ pc' = [pc EXCEPT ![a] = IF a \in Plans THEN "completed" ELSE "asked"]
      /\ recalled' = Live(AriadneIdeas) /\ prompt' = [prompt EXCEPT ![a] = Live(AriadneIdeas)]
  BY DEF Recall, Goto
<1>3. TypeOK'
  BY <1>1, <1>2 DEF book, finding, BookInv, TypeOK
<1>4. InTheBook'
  BY <1>1, <1>2 DEF book, finding, BookInv, TypeOK, InTheBook
<1>5. CreditsAnswered'
  BY <1>2 DEF finding, BookInv, TypeOK, CreditsAnswered
<1>6. RowsAfterAnswer' /\ CountedOnce' /\ SupportFromSuccess'
  BY <1>2, RowsKept DEF book, BookInv, TypeOK
<1> QED BY <1>3, <1>4, <1>5, <1>6 DEF BookInv

LEMMA AnswerKeeps ==
  ASSUME BookInv, NEW a \in Ariadne, Answer(a)
  PROVE  BookInv'
<1> USE RunsOfAKind
<1>1. pc[a] = "asked" /\ UNCHANGED <<book, prompt, recalled, twin>>
  BY DEF Answer, finding
<1>2. \/ pc' = [pc EXCEPT ![a] = "answered"] /\ idea' = idea /\ onto' = onto
      \/ /\ pc' = [pc EXCEPT ![a] = "derived"] /\ onto' = [onto EXCEPT ![a] = a]
         /\ \E i \in Ideas : idea' = [idea EXCEPT ![a] = i]
  BY DEF Answer, Goto, finding, Ideas
<1>3. TypeOK'
  <2>1. pc' \in [Runs -> {"idle", "asked", "answered", "derived", "found", "completed", "failed", "gone"}]
    BY <1>2 DEF BookInv, TypeOK
  <2>2. onto' \in [Runs -> Runs \cup {NoRun}]
    BY <1>2 DEF BookInv, TypeOK
  <2>3. idea' \in [Runs -> Ideas \cup {NoLesson}]
    <3>1. idea \in [Runs -> Ideas \cup {NoLesson}]
      BY DEF BookInv, TypeOK
    <3>2. CASE idea' = idea
      BY <3>1, <3>2
    <3>3. CASE \E i \in Ideas : idea' = [idea EXCEPT ![a] = i]
      BY <3>1, <3>3
    <3> QED BY <1>2, <3>2, <3>3
  <2> QED BY <1>1, <2>1, <2>2, <2>3 DEF book, BookInv, TypeOK
<1>4. InTheBook'
  BY <1>1 DEF book, BookInv, InTheBook
<1>5. CreditsAnswered'
  BY <1>1, <1>2 DEF BookInv, TypeOK, CreditsAnswered
<1>6. RowsAfterAnswer' /\ CountedOnce' /\ SupportFromSuccess'
  BY <1>1, <1>2, RowsKept DEF book, BookInv, TypeOK
<1> QED BY <1>3, <1>4, <1>5, <1>6 DEF BookInv

LEMMA RecordKeeps ==
  ASSUME BookInv, NEW a \in Ariadne, Record(a)
  PROVE  BookInv'
<1> USE RunsOfAKind
<1>1. /\ Open(Unrecorded(a), a) /\ pc[a] = "answered" /\ pc' = [pc EXCEPT ![a] = "completed"]
      /\ UNCHANGED <<status, aged, credited, prompt, recalled, finding>>
  BY DEF Record, Goto
<1>2. TypeOK
  BY DEF BookInv
<1>3. /\ applied' \in [Lessons -> [Runs -> Outcomes \cup {"none", "open"}]]
      /\ \A l \in Lessons, q \in Runs :
           applied'[l][q] = IF l \in Unrecorded(a) /\ q = a THEN "open" ELSE applied[l][q]
  BY <1>1, <1>2, OpenRows
<1>4. TypeOK'
  BY <1>1, <1>2, <1>3 DEF TypeOK, finding
<1>5. \A l \in Unrecorded(a) : l \in recalled /\ ~HasRow(l, a)
  BY DEF Unrecorded
<1>6. RowsAfterAnswer'
  BY <1>1, <1>2, <1>3, <1>5 DEF BookInv, TypeOK, RowsAfterAnswer, HasRow, InTheBook
<1>7. CountedOnce'
  BY <1>1, <1>3, <1>5 DEF BookInv, CountedOnce, HasRow
<1>8. SupportFromSuccess'
  BY <1>1, <1>2, <1>3 DEF BookInv, TypeOK, SupportFromSuccess
<1>9. InTheBook' /\ CreditsAnswered'
  BY <1>1, <1>2 DEF BookInv, TypeOK, InTheBook, CreditsAnswered, finding
<1> QED BY <1>4, <1>6, <1>7, <1>8, <1>9 DEF BookInv

LEMMA DeriveKeeps ==
  ASSUME BookInv, NEW b \in Batches, Derive(b)
  PROVE  BookInv'
<1> USE RunsOfAKind
<1>1. /\ pc[b] = "idle" /\ pc' = [pc EXCEPT ![b] = "derived"]
      /\ UNCHANGED <<book, prompt, recalled, twin>>
  BY DEF Derive, Goto
<1>2. PICK i \in Ideas : idea' = [idea EXCEPT ![b] = i]
  BY DEF Derive, Ideas
<1>3. PICK r \in {b} \cup {s \in Steps : pc[s] \in {"completed", "failed"}} :
        onto' = [onto EXCEPT ![b] = r]
  BY DEF Derive
<1>4. TypeOK'
  BY <1>1, <1>2, <1>3 DEF book, BookInv, TypeOK
<1>5. InTheBook'
  BY <1>1 DEF book, BookInv, InTheBook
<1>6. CreditsAnswered'
  BY <1>1, <1>2, <1>3 DEF BookInv, TypeOK, CreditsAnswered
<1>7. RowsAfterAnswer' /\ CountedOnce' /\ SupportFromSuccess'
  BY <1>1, RowsKept DEF book, BookInv, TypeOK
<1> QED BY <1>4, <1>5, <1>6, <1>7 DEF BookInv

LEMMA FindKeeps ==
  ASSUME BookInv, NEW r \in Reflects \cup Batches, Find(r)
  PROVE  BookInv'
<1> USE RunsOfAKind
<1>1. /\ pc[r] = "derived" /\ pc' = [pc EXCEPT ![r] = "found"]
      /\ UNCHANGED <<book, prompt, recalled, idea, onto>>
  BY DEF Find, Goto
<1>2. PICK l \in (IF Live({idea[r]}) = {} THEN {NoLesson} ELSE Live({idea[r]})) :
        twin' = [twin EXCEPT ![r] = l]
  BY DEF Find
<1>3. idea[r] \in Ideas
  BY <1>1 DEF BookInv, CreditsAnswered
<1>4. l # NoLesson => l \in Lessons /\ status[l] # "none"
  <2>1. Live({idea[r]}) \subseteq Lessons /\ \A k \in Live({idea[r]}) : status[k] # "none"
    BY <1>3, LiveLessons
  <2>2. CASE Live({idea[r]}) = {}
    BY <1>2, <2>2
  <2>3. CASE Live({idea[r]}) # {}
    BY <1>2, <2>1, <2>3
  <2> QED BY <2>2, <2>3
<1>5. TypeOK'
  BY <1>1, <1>2, <1>4 DEF book, BookInv, TypeOK
<1>6. InTheBook'
  BY <1>1, <1>2, <1>4 DEF book, BookInv, TypeOK, InTheBook
<1>7. CreditsAnswered'
  BY <1>1 DEF BookInv, TypeOK, CreditsAnswered
<1>8. RowsAfterAnswer' /\ CountedOnce' /\ SupportFromSuccess'
  BY <1>1, RowsKept DEF book, BookInv, TypeOK
<1> QED BY <1>5, <1>6, <1>7, <1>8 DEF BookInv

LEMMA PersistKeeps ==
  ASSUME BookInv, NEW r \in Reflects \cup Batches, Persist(r)
  PROVE  BookInv'
<1> USE RunsOfAKind
<1>1. /\ pc[r] = "found" /\ pc'[r] \in {"answered", "completed"}
      /\ pc' = [pc EXCEPT ![r] = IF r \in Reflects THEN "answered" ELSE "completed"]
      /\ idea' = [idea EXCEPT ![r] = NoLesson] /\ onto' = [onto EXCEPT ![r] = NoRun]
      /\ twin' = [twin EXCEPT ![r] = NoLesson]
      /\ UNCHANGED <<aged, applied, prompt, recalled>>
  BY DEF Persist, Goto, BookInv, TypeOK
<1>2. idea[r] \in Ideas /\ onto[r] \in Runs /\ pc[onto[r]] \notin {"idle", "asked"}
  BY <1>1 DEF BookInv, CreditsAnswered
<1>3. CreditsAnswered'
  BY <1>1 DEF BookInv, TypeOK, CreditsAnswered
<1>4. \A q \in Runs : pc[q] \notin {"idle", "asked"} => pc'[q] \notin {"idle", "asked"}
  BY <1>1 DEF BookInv, TypeOK
<1>5. \A q \in Runs : pc'[q] = "failed" => pc[q] = "failed"
  BY <1>1 DEF BookInv, TypeOK
<1>6. /\ pc' \in [Runs -> {"idle", "asked", "answered", "derived", "found", "completed", "failed", "gone"}]
      /\ idea' \in [Runs -> Ideas \cup {NoLesson}] /\ onto' \in [Runs -> Runs \cup {NoRun}]
      /\ twin' \in [Runs -> Lessons \cup {NoLesson}]
  BY <1>1 DEF BookInv, TypeOK
<1>7. CASE twin[r] # NoLesson
  <2>1. twin[r] \in Lessons /\ status[twin[r]] # "none"
    BY <1>7 DEF BookInv, TypeOK, InTheBook
  <2>2. /\ status' = status
        /\ \/ credited' = credited
           \/ /\ ~HasRow(twin[r], onto[r])
              /\ credited' = [credited EXCEPT ![twin[r]] = credited[twin[r]] \cup {onto[r]}]
    BY <1>7 DEF Persist
  <2>3. TypeOK'
    BY <1>1, <1>2, <1>6, <2>1, <2>2 DEF BookInv, TypeOK
  <2>4. InTheBook'
    BY <1>1, <2>2 DEF BookInv, TypeOK, InTheBook
  <2>5. RowsAfterAnswer'
    BY <1>1, <1>2, <1>4, <2>1, <2>2 DEF BookInv, TypeOK, RowsAfterAnswer, HasRow
  <2>6. CountedOnce'
    BY <1>1, <2>1, <2>2 DEF BookInv, TypeOK, CountedOnce, HasRow
  <2>7. SupportFromSuccess'
    BY <1>1, <1>5 DEF BookInv, SupportFromSuccess
  <2> QED BY <1>3, <2>3, <2>4, <2>5, <2>6, <2>7 DEF BookInv
<1>8. CASE twin[r] = NoLesson
  <2>1. PICK l \in Fresh(idea[r]) : status' = [status EXCEPT ![l] = "probationary"]
    BY <1>8 DEF Persist
  <2>2. l \in Lessons /\ credited' = credited
    BY <1>2, <1>8, FreshLessons DEF Persist
  <2>3. \A k \in Lessons : status[k] # "none" => status'[k] # "none"
    BY <2>1, <2>2 DEF BookInv, TypeOK
  <2>4. TypeOK'
    BY <1>1, <1>6, <2>1, <2>2 DEF BookInv, TypeOK
  <2>5. InTheBook'
    BY <1>1, <2>3 DEF BookInv, TypeOK, InTheBook
  <2>6. RowsAfterAnswer' /\ CountedOnce' /\ SupportFromSuccess'
    BY <1>1, <1>4, <1>5, <2>2, <2>3, RowsKept
  <2> QED BY <1>3, <2>4, <2>5, <2>6 DEF BookInv
<1> QED BY <1>7, <1>8

LEMMA DieKeeps ==
  ASSUME BookInv, NEW r \in Runs, Die(r)
  PROVE  BookInv'
<1>1. /\ pc[r] \in {"asked", "answered", "derived", "found"} /\ pc' = [pc EXCEPT ![r] = "gone"]
      /\ prompt' = [prompt EXCEPT ![r] = {}] /\ idea' = [idea EXCEPT ![r] = NoLesson]
      /\ onto' = [onto EXCEPT ![r] = NoRun] /\ twin' = [twin EXCEPT ![r] = NoLesson]
      /\ UNCHANGED <<book, recalled>>
  BY DEF Die, Goto
<1>2. TypeOK'
  BY <1>1 DEF book, BookInv, TypeOK
<1>3. InTheBook'
  BY <1>1 DEF book, BookInv, TypeOK, InTheBook
<1>4. CreditsAnswered'
  BY <1>1 DEF BookInv, TypeOK, CreditsAnswered
<1>5. RowsAfterAnswer' /\ CountedOnce' /\ SupportFromSuccess'
  BY <1>1, RowsKept DEF book, BookInv, TypeOK
<1> QED BY <1>2, <1>3, <1>4, <1>5 DEF BookInv

LEMMA JudgeKeeps ==
  ASSUME BookInv, NEW l \in Lessons, NEW r \in Runs, Judge(l, r)
  PROVE  BookInv'
<1>1. PICK v \in Verdicts(r) : applied' = [applied EXCEPT ![l][r] = v]
  BY DEF Judge
<1>2. /\ applied[l][r] = "open" /\ v \in Outcomes
      /\ UNCHANGED <<status, aged, credited, pc, prompt, recalled, finding>>
  BY DEF Judge, Judgeable, Verdicts
<1>3. \A k \in Lessons, q \in Runs : applied'[k][q] = IF k = l /\ q = r THEN v ELSE applied[k][q]
  BY <1>1 DEF BookInv, TypeOK
<1>4. TypeOK'
  BY <1>1, <1>2 DEF finding, BookInv, TypeOK
<1>5. InTheBook' /\ CreditsAnswered'
  BY <1>2 DEF finding, BookInv, InTheBook, CreditsAnswered
<1>6. v # "none"
  BY <1>2 DEF Outcomes
<1>7. RowsAfterAnswer'
  BY <1>2, <1>3, <1>6 DEF BookInv, RowsAfterAnswer, HasRow
<1>8. CountedOnce'
  BY <1>2, <1>3 DEF BookInv, CountedOnce
<1>9. SupportFromSuccess'
  BY <1>1, <1>2, <1>3, RunsOfAKind DEF BookInv, SupportFromSuccess, Verdicts
<1> QED BY <1>4, <1>5, <1>7, <1>8, <1>9 DEF BookInv

\* An hour of the watchdog changes the status of lessons that are there.
LEMMA StatusKeeps ==
  ASSUME BookInv, UNCHANGED <<applied, credited, pc, prompt, recalled, finding>>, aged' \subseteq Lessons,
         status' \in [Lessons -> {"none", "probationary", "active", "retired"}],
         \A l \in Lessons : status[l] # "none" => status'[l] # "none"
  PROVE  BookInv'
<1>1. TypeOK'
  BY DEF finding, BookInv, TypeOK
<1>2. InTheBook' /\ CreditsAnswered'
  BY DEF finding, BookInv, TypeOK, InTheBook, CreditsAnswered
<1>3. RowsAfterAnswer' /\ CountedOnce' /\ SupportFromSuccess'
  BY RowsKept
<1> QED BY <1>1, <1>2, <1>3 DEF BookInv

LEMMA NextKeeps == BookInv /\ [Next]_vars => BookInv'
<1> SUFFICES ASSUME BookInv, [Next]_vars PROVE BookInv'
  OBVIOUS
<1>1. CASE UNCHANGED vars
  BY <1>1 DEF vars, book, finding, BookInv, TypeOK, RowsAfterAnswer, HasRow, InTheBook, CreditsAnswered,
              CountedOnce, SupportFromSuccess
<1>2. ASSUME NEW s \in Steps, Build(s) \/ Complete(s) PROVE BookInv'
  BY <1>2, BuildKeeps, CompleteKeeps
<1>3. ASSUME NEW a \in Ariadne \cup Plans, Recall(a) PROVE BookInv'
  BY <1>3, RecallKeeps
<1>4. ASSUME NEW a \in Ariadne, Answer(a) \/ Record(a) PROVE BookInv'
  BY <1>4, AnswerKeeps, RecordKeeps
<1>5. ASSUME NEW b \in Batches, Derive(b) PROVE BookInv'
  BY <1>5, DeriveKeeps
<1>6. ASSUME NEW r \in Reflects \cup Batches, Find(r) \/ Persist(r) PROVE BookInv'
  BY <1>6, FindKeeps, PersistKeeps
<1>7. ASSUME NEW r \in Runs, Die(r) PROVE BookInv'
  BY <1>7, DieKeeps
<1>8. ASSUME NEW l \in Lessons, NEW r \in Runs, Judge(l, r) PROVE BookInv'
  BY <1>8, JudgeKeeps
<1>9. ASSUME NEW l \in Lessons, Age(l) PROVE BookInv'
  BY <1>9, StatusKeeps DEF Age, BookInv, TypeOK
<1>10. CASE Reconcile
  BY <1>10, StatusKeeps DEF Reconcile, BookInv, TypeOK
<1>11. CASE Decay
  BY <1>11, StatusKeeps DEF Decay, BookInv, TypeOK
<1> QED BY <1>1, <1>2, <1>3, <1>4, <1>5, <1>6, <1>7, <1>8, <1>9, <1>10, <1>11 DEF Next, Hour

LEMMA BookInvariant == Spec => []BookInv
<1>1. Init => BookInv
  <2> SUFFICES ASSUME Init PROVE BookInv
    OBVIOUS
  <2>1. TypeOK
    BY DEF Init, TypeOK
  <2>2. RowsAfterAnswer /\ CountedOnce
    BY DEF Init, RowsAfterAnswer, HasRow, CountedOnce
  <2>3. InTheBook /\ CreditsAnswered
    BY DEF Init, InTheBook, CreditsAnswered
  <2>4. SupportFromSuccess
    BY RunsOfAKind DEF Init, SupportFromSuccess
  <2> QED BY <2>1, <2>2, <2>3, <2>4 DEF BookInv
<1> QED BY <1>1, NextKeeps, PTL DEF Spec

(* The notebook keeps its types, and a row in it is of a lesson that exists *)
(* and of a run whose model has answered.                                   *)
THEOREM TypeCorrect == Spec => [](TypeOK /\ RowsAfterAnswer)
<1>1. BookInv => TypeOK /\ RowsAfterAnswer
  BY DEF BookInv
<1> QED BY <1>1, BookInvariant, PTL

(* One run is one vote: the row of its prompt and the credit of the         *)
(* reflection it led to are never both there, whoever recalls, credits and  *)
(* records in between.                                                      *)
THEOREM VotesOnce == Spec => []CountedOnce
<1>1. BookInv => CountedOnce
  BY DEF BookInv
<1> QED BY <1>1, BookInvariant, PTL

(* A run whose completed event failed, and which is written failed after    *)
(* its rows were inserted, never supports a lesson by judgement.            *)
THEOREM FailureNeverSupports == Spec => []SupportFromSuccess
<1>1. BookInv => SupportFromSuccess
  BY DEF BookInv
<1> QED BY <1>1, BookInvariant, PTL

----------------------------------------------------------------------------
(* Nothing that was found out is lost.                                      *)

\* A row that is there stays, and what was judged of it with it.
RowsStand == \A l \in Lessons, r \in Runs :
  /\ applied[l][r] # "none" => applied'[l][r] # "none"
  /\ applied[l][r] \in Outcomes => applied'[l][r] = applied[l][r]
  /\ r \in credited[l] => r \in credited'[l]

LEMMA NextStands ==
  ASSUME BookInv, [Next]_vars
  PROVE  RowsStand
<1> USE RunsOfAKind
<1>1. TypeOK
  BY DEF BookInv
<1>2. ASSUME UNCHANGED <<applied, credited>> PROVE RowsStand
  BY <1>2 DEF RowsStand
<1>3. ASSUME NEW s \in Steps, Complete(s) PROVE RowsStand
  <2>1. /\ pc[s] = "asked" /\ credited' = credited
        /\ \A l \in Lessons, q \in Runs :
             applied'[l][q] = IF l \in prompt[s] /\ q = s THEN "open" ELSE applied[l][q]
    BY <1>1, <1>3, OpenRows DEF Complete
  <2>2. \A l \in Lessons : applied[l][s] = "none"
    BY <2>1 DEF BookInv, RowsAfterAnswer, HasRow
  <2> QED BY <2>1, <2>2 DEF RowsStand, Outcomes
<1>4. ASSUME NEW a \in Ariadne, Record(a) PROVE RowsStand
  <2>1. /\ credited' = credited
        /\ \A l \in Lessons, q \in Runs :
             applied'[l][q] = IF l \in Unrecorded(a) /\ q = a THEN "open" ELSE applied[l][q]
    BY <1>1, <1>4, OpenRows DEF Record
  <2>2. \A l \in Unrecorded(a) : applied[l][a] = "none"
    BY DEF Unrecorded, HasRow
  <2> QED BY <2>1, <2>2 DEF RowsStand, Outcomes
<1>5. ASSUME NEW r \in Reflects \cup Batches, Persist(r) PROVE RowsStand
  BY <1>1, <1>5 DEF Persist, RowsStand, TypeOK
<1>6. ASSUME NEW l \in Lessons, NEW r \in Runs, Judge(l, r) PROVE RowsStand
  <2>1. PICK v \in Verdicts(r) : applied' = [applied EXCEPT ![l][r] = v]
    BY <1>6 DEF Judge
  <2>2. applied[l][r] = "open" /\ v # "none" /\ credited' = credited
    BY <1>6 DEF Judge, Judgeable, Verdicts, Outcomes
  <2>3. \A k \in Lessons, q \in Runs : applied'[k][q] = IF k = l /\ q = r THEN v ELSE applied[k][q]
    BY <1>1, <2>1 DEF TypeOK
  <2> QED BY <2>2, <2>3 DEF RowsStand, Outcomes
<1>7. ASSUME UNCHANGED book PROVE RowsStand
  BY <1>2, <1>7 DEF book
<1> QED BY <1>2, <1>3, <1>4, <1>5, <1>6, <1>7
        DEF Next, Hour, Build, Recall, Answer, Derive, Find, Die, Age, Reconcile, Decay, vars

(* What a judge has written of a run stays written, and no row or credit    *)
(* goes away: the watchdog judges while runs complete and reflections       *)
(* credit.                                                                  *)
THEOREM OutcomesStand == Spec => OutcomeStands
<1>1. ASSUME BookInv, [Next]_vars
      PROVE  \A l \in Lessons, r \in Runs :
               /\ applied[l][r] \in Outcomes => applied'[l][r] = applied[l][r]
               /\ HasRow(l, r) => HasRow(l, r)'
  <2>1. RowsStand
    BY <1>1, NextStands
  <2> QED BY <2>1 DEF RowsStand, HasRow
<1> QED BY <1>1, BookInvariant, PTL DEF Spec, OutcomeStands

\* Support never shrinks.
LEMMA SupportGrows ==
  ASSUME BookInv, BookInv', RowsStand, NEW l \in Lessons
  PROVE  Supportive(l)' >= Supportive(l)
<1>1. With(l, "supportive") \subseteq With(l, "supportive")'
  BY DEF With, RowsStand, Outcomes
<1>2. credited[l] \subseteq credited'[l]
  BY DEF RowsStand, BookInv, TypeOK
<1>3. With(l, "supportive")' \subseteq Runs /\ credited'[l] \subseteq Runs
  BY DEF With, BookInv, TypeOK
<1>4. /\ IsFiniteSet(Runs) /\ IsFiniteSet(With(l, "supportive")') /\ IsFiniteSet(credited'[l])
  BY <1>3, FS_Subset DEF LessonsAssumption
<1>5. /\ IsFiniteSet(With(l, "supportive")) /\ IsFiniteSet(credited[l])
      /\ Cardinality(With(l, "supportive")) =< Cardinality(With(l, "supportive")')
      /\ Cardinality(credited[l]) =< Cardinality(credited'[l])
  BY <1>1, <1>2, <1>4, FS_Subset
<1>6. /\ Cardinality(With(l, "supportive")) \in Nat /\ Cardinality(With(l, "supportive")') \in Nat
      /\ Cardinality(credited[l]) \in Nat /\ Cardinality(credited'[l]) \in Nat
  BY <1>4, <1>5, FS_CardinalityType
<1> QED BY <1>5, <1>6 DEF Supportive

(* What prompts mark as verified has, and keeps, the supportive runs that   *)
(* promotion asks for.                                                      *)
THEOREM ActiveIsEarned == Spec => []ActiveEarned
<1>1. Init => ActiveEarned
  BY DEF Init, ActiveEarned
<1>2. ASSUME BookInv, BookInv', ActiveEarned, [Next]_vars PROVE ActiveEarned'
  <2> SUFFICES ASSUME NEW l \in Lessons, status'[l] = "active" PROVE Supportive(l)' >= PromoteAt
    BY DEF ActiveEarned
  <2>1. Supportive(l)' >= Supportive(l)
    BY <1>2, NextStands, SupportGrows
  <2>2. Supportive(l) \in Int /\ Supportive(l)' \in Int
    <3>1. /\ With(l, "supportive") \subseteq Runs /\ credited[l] \subseteq Runs
          /\ With(l, "supportive")' \subseteq Runs /\ credited'[l] \subseteq Runs
      BY <1>2 DEF With, BookInv, TypeOK
    <3>2. /\ Cardinality(With(l, "supportive")) \in Nat /\ Cardinality(credited[l]) \in Nat
          /\ Cardinality(With(l, "supportive")') \in Nat /\ Cardinality(credited'[l]) \in Nat
      BY <3>1, FS_Subset, FS_CardinalityType DEF LessonsAssumption
    <3> QED BY <3>2 DEF Supportive
  <2>3. status[l] = "active" \/ Supportive(l) >= PromoteAt
    <3>1. CASE Reconcile
      BY <3>1 DEF Reconcile, Promotable
    <3>2. CASE Decay
      BY <3>2 DEF Decay
    <3>3. ASSUME NEW r \in Reflects \cup Batches, Persist(r) PROVE status[l] = "active"
      BY <1>2, <3>3 DEF Persist, BookInv, TypeOK
    <3>4. CASE UNCHANGED status
      BY <3>4
    <3> QED BY <1>2, <3>1, <3>2, <3>3, <3>4
            DEF Next, Hour, Build, Complete, Recall, Answer, Record, Derive, Find, Die, Judge, Age,
                book, vars
  <2>4. PromoteAt \in Int
    OBVIOUS
  <2> QED BY <1>2, <2>1, <2>2, <2>3, <2>4 DEF ActiveEarned
<1> QED BY <1>1, <1>2, BookInvariant, PTL DEF Spec

(* A retired lesson is never taken up again, by promotion, by a credit that *)
(* recurs or by a second insert: the idea comes back as a new row only.     *)
THEOREM RetirementIsFinal == Spec => RetiredStands
<1>1. ASSUME BookInv, [Next]_vars
      PROVE  \A l \in Lessons : status[l] = "retired" => status'[l] = "retired"
  <2> SUFFICES ASSUME NEW l \in Lessons, status[l] = "retired" PROVE status'[l] = "retired"
    OBVIOUS
  <2>1. CASE Reconcile
    BY <1>1, <2>1 DEF Reconcile, Promotable, Retirable, Live
  <2>2. CASE Decay
    BY <1>1, <2>2 DEF Decay, Stale
  <2>3. ASSUME NEW r \in Reflects \cup Batches, Persist(r) PROVE status'[l] = "retired"
    <3>1. CASE UNCHANGED status
      BY <1>1, <3>1
    <3>2. CASE \E k \in Fresh(idea[r]) : status' = [status EXCEPT ![k] = "probationary"]
      <4>1. PICK k \in Fresh(idea[r]) : status' = [status EXCEPT ![k] = "probationary"]
        BY <3>2
      <4>2. k # l
        BY <1>1 DEF Fresh
      <4>3. l \in DOMAIN status
        BY <1>1 DEF BookInv, TypeOK
      <4> QED BY <1>1, <4>1, <4>2, <4>3
    <3> QED BY <2>3, <3>1, <3>2 DEF Persist
  <2>4. CASE UNCHANGED status
    BY <1>1, <2>4
  <2> QED BY <1>1, <2>1, <2>2, <2>3, <2>4
          DEF Next, Hour, Build, Complete, Recall, Answer, Record, Derive, Find, Die, Judge, Age,
              book, vars
<1> QED BY <1>1, BookInvariant, PTL DEF Spec, RetiredStands
=============================================================================
