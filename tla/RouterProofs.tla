---------------------------- MODULE RouterProofs ----------------------------
(****************************************************************************)
(* Proofs about Router: the permits of the GPU lock are accounted for and a *)
(* model serves one call at a time, under timeouts and restarts; the day's  *)
(* spend is bounded by the caps and what is in the cloud at once; a failed  *)
(* row stays failed.                                                        *)
(****************************************************************************)
EXTENDS Router, FiniteSetTheorems, WellFoundedInduction, TLAPS

USE RouterAssumption, UsersAssumption

Fields ==
  /\ pc \in [Handlers -> Nat] /\ \A h \in Handlers : pc[h] \in 0..Over(h)
  /\ sess \in [Handlers -> {"none", "running", "completed", "failed"}]
  /\ at \in [Users -> Live \cup {"none", "returned", "raised", "gone"}]
  /\ run \in [Calls -> {"none", "running", "completed", "failed"}]
  /\ tier \in [Calls -> Tiers]
  /\ used \in [Tiers -> Nat] /\ told \subseteq Tiers /\ lent \in Nat
  /\ permits \in Nat /\ lost \in Nat
  /\ holder \in [Models -> Users \cup {NoUser}]
  /\ mishaps \in 0..MaxMishaps

\* A call that is under way belongs to the stage its handler is in.
InStage == \A h \in Handlers : \A c \in CallsOf[h] :
  at[c] \in Live => h \in Running /\ c[2] \in Script[h][pc[h]].steps

\* A lock is held by a call that is in, on the model it locks.
HoldersIn == \A m \in Models :
  holder[m] # NoUser => at[holder[m]] = "local" /\ ModelOf(holder[m]) = m

Locks == HoldersIn /\ OneCallPerModel /\ IsFiniteSet(Holding) /\ PermitsAccounted

LockInv == Fields /\ InStage /\ Locks
----------------------------------------------------------------------------
(* The scripts.                                                             *)

\* More than any stage has steps.
Room == Cardinality(Pages) + Cardinality(Findings) + 1

LEMMA StagesFit ==
  /\ Room \in Nat
  /\ \A x : IsFiniteSet({x}) /\ Cardinality({x}) =< Room
  /\ IsFiniteSet(Pages) /\ Cardinality(Pages) =< Room
  /\ IsFiniteSet(Findings) /\ Cardinality(Findings) =< Room
<1>1. Cardinality(Pages) \in Nat /\ Cardinality(Findings) \in Nat
  BY FS_CardinalityType DEF RouterAssumption
<1>2. /\ Room \in Nat /\ 1 =< Room
      /\ Cardinality(Pages) =< Room /\ Cardinality(Findings) =< Room
  BY <1>1 DEF Room
<1>3. ASSUME NEW x PROVE IsFiniteSet({x}) /\ Cardinality({x}) =< Room
  <2>1. IsFiniteSet({x}) /\ Cardinality({x}) = 1
    BY FS_Singleton
  <2> QED BY <1>2, <2>1
<1>4. IsFiniteSet(Pages) /\ IsFiniteSet(Findings)
  BY RouterAssumption
<1> QED BY <1>2, <1>3, <1>4

\* What a script is made of: steps that are calls of its handler, on tiers;
\* a step that were in two stages would ask for the same tier in both.
GoodScript(h, s) ==
  /\ Len(s) \in Nat \ {0}
  /\ \A i \in 1..Len(s) : /\ {h} \X s[i].steps \subseteq Calls
                          /\ s[i].tier \in Tiers
                          /\ IsFiniteSet(s[i].steps) /\ Cardinality(s[i].steps) =< Room
  /\ \A i, j \in 1..Len(s) : s[i].steps \cap s[j].steps # {} => s[i].tier = s[j].tier

LEMMA CriticGood == ASSUME NEW h \in Critics PROVE GoodScript(h, CriticScript)
<1>1. Len(CriticScript) = 4
  BY DEF CriticScript
<1>2. /\ CriticScript[1].steps = {"plan_attack"} /\ CriticScript[1].tier = "workhorse"
      /\ CriticScript[2].steps = Pages /\ CriticScript[2].tier = "code"
      /\ CriticScript[3].steps = {"stress_test"} /\ CriticScript[3].tier = "workhorse"
      /\ CriticScript[4].steps = {"judge_verdict"} /\ CriticScript[4].tier = "reasoning"
  BY DEF CriticScript, Stage
<1>3. \A i \in 1..4 : i = 1 \/ i = 2 \/ i = 3 \/ i = 4
  OBVIOUS
<1> HIDE DEF CriticScript
<1>4. \A i \in 1..Len(CriticScript) : {h} \X CriticScript[i].steps \subseteq Calls /\ CriticScript[i].tier \in Tiers
  BY <1>1, <1>2, <1>3 DEF Calls, Tiers
<1>5. \A i \in 1..Len(CriticScript) : IsFiniteSet(CriticScript[i].steps) /\ Cardinality(CriticScript[i].steps) =< Room
  <2>1. IsFiniteSet(CriticScript[1].steps) /\ Cardinality(CriticScript[1].steps) =< Room
    BY <1>2, StagesFit
  <2>2. IsFiniteSet(CriticScript[2].steps) /\ Cardinality(CriticScript[2].steps) =< Room
    BY <1>2, StagesFit
  <2>3. IsFiniteSet(CriticScript[3].steps) /\ Cardinality(CriticScript[3].steps) =< Room
    BY <1>2, StagesFit
  <2>4. IsFiniteSet(CriticScript[4].steps) /\ Cardinality(CriticScript[4].steps) =< Room
    BY <1>2, StagesFit
  <2> QED BY <1>1, <1>3, <2>1, <2>2, <2>3, <2>4
<1>6. \A i, j \in 1..Len(CriticScript) : CriticScript[i].steps \cap CriticScript[j].steps # {} => CriticScript[i].tier = CriticScript[j].tier
  BY <1>1, <1>2, <1>3
<1> QED BY <1>1, <1>4, <1>5, <1>6 DEF GoodScript

LEMMA PlannerGood == ASSUME NEW h \in Planners PROVE GoodScript(h, PlannerScript)
<1>1. Len(PlannerScript) = 3
  BY DEF PlannerScript
<1>2. /\ PlannerScript[1].steps = {"assess_state"} /\ PlannerScript[1].tier = "workhorse"
      /\ PlannerScript[2].steps = {"propose_tasks"} /\ PlannerScript[2].tier = "workhorse"
      /\ PlannerScript[3].steps = {"critique"} /\ PlannerScript[3].tier = "workhorse"
  BY DEF PlannerScript, Stage
<1>3. \A i \in 1..3 : i = 1 \/ i = 2 \/ i = 3
  OBVIOUS
<1> HIDE DEF PlannerScript
<1>4. \A i \in 1..Len(PlannerScript) : {h} \X PlannerScript[i].steps \subseteq Calls /\ PlannerScript[i].tier \in Tiers
  BY <1>1, <1>2, <1>3 DEF Calls, Tiers
<1>5. \A i \in 1..Len(PlannerScript) : IsFiniteSet(PlannerScript[i].steps) /\ Cardinality(PlannerScript[i].steps) =< Room
  <2>1. IsFiniteSet(PlannerScript[1].steps) /\ Cardinality(PlannerScript[1].steps) =< Room
    BY <1>2, StagesFit
  <2>2. IsFiniteSet(PlannerScript[2].steps) /\ Cardinality(PlannerScript[2].steps) =< Room
    BY <1>2, StagesFit
  <2>3. IsFiniteSet(PlannerScript[3].steps) /\ Cardinality(PlannerScript[3].steps) =< Room
    BY <1>2, StagesFit
  <2> QED BY <1>1, <1>3, <2>1, <2>2, <2>3
<1>6. \A i, j \in 1..Len(PlannerScript) : PlannerScript[i].steps \cap PlannerScript[j].steps # {} => PlannerScript[i].tier = PlannerScript[j].tier
  BY <1>1, <1>2, <1>3
<1> QED BY <1>1, <1>4, <1>5, <1>6 DEF GoodScript

LEMMA AuditorGood == ASSUME NEW h \in Auditors PROVE GoodScript(h, AuditScript)
<1>1. Len(AuditScript) = 2
  BY DEF AuditScript
<1>2. /\ AuditScript[1].steps = Findings /\ AuditScript[1].tier = "workhorse"
      /\ AuditScript[2].steps = {"batch_score"} /\ AuditScript[2].tier = "fast"
  BY DEF AuditScript, Stage
<1>3. \A i \in 1..2 : i = 1 \/ i = 2
  OBVIOUS
<1> HIDE DEF AuditScript
<1>4. \A i \in 1..Len(AuditScript) : {h} \X AuditScript[i].steps \subseteq Calls /\ AuditScript[i].tier \in Tiers
  BY <1>1, <1>2, <1>3 DEF Calls, Tiers
<1>5. \A i \in 1..Len(AuditScript) : IsFiniteSet(AuditScript[i].steps) /\ Cardinality(AuditScript[i].steps) =< Room
  BY <1>1, <1>2, <1>3, StagesFit
<1>6. \A i, j \in 1..Len(AuditScript) : AuditScript[i].steps \cap AuditScript[j].steps # {} => AuditScript[i].tier = AuditScript[j].tier
  BY <1>1, <1>2, <1>3
<1> QED BY <1>1, <1>4, <1>5, <1>6 DEF GoodScript

LEMMA VerifierGood == ASSUME NEW h \in Verifiers PROVE GoodScript(h, FindingAuditScript)
<1>1. Len(FindingAuditScript) = 1
  BY DEF FindingAuditScript
<1>2. FindingAuditScript[1].steps = {"audit_finding"} /\ FindingAuditScript[1].tier = "workhorse"
  BY DEF FindingAuditScript, Stage
<1>3. \A i \in 1..1 : i = 1
  OBVIOUS
<1> HIDE DEF FindingAuditScript
<1>4. \A i \in 1..Len(FindingAuditScript) : {h} \X FindingAuditScript[i].steps \subseteq Calls /\ FindingAuditScript[i].tier \in Tiers
  BY <1>1, <1>2, <1>3 DEF Calls, Tiers
<1>5. \A i \in 1..Len(FindingAuditScript) : IsFiniteSet(FindingAuditScript[i].steps) /\ Cardinality(FindingAuditScript[i].steps) =< Room
  BY <1>1, <1>2, <1>3, StagesFit
<1>6. \A i, j \in 1..Len(FindingAuditScript) : FindingAuditScript[i].steps \cap FindingAuditScript[j].steps # {} => FindingAuditScript[i].tier = FindingAuditScript[j].tier
  BY <1>1, <1>2, <1>3
<1> QED BY <1>1, <1>4, <1>5, <1>6 DEF GoodScript

LEMMA DebuggerGood == ASSUME NEW h \in Debuggers PROVE GoodScript(h, DebugScript)
<1>1. Len(DebugScript) = 2
  BY DEF DebugScript
<1>2. /\ DebugScript[1].steps = {"debug"} /\ DebugScript[1].tier = "experiment"
      /\ DebugScript[2].steps = {"redebug"} /\ DebugScript[2].tier = "experiment"
  BY DEF DebugScript, Stage
<1>3. \A i \in 1..2 : i = 1 \/ i = 2
  OBVIOUS
<1> HIDE DEF DebugScript
<1>4. \A i \in 1..Len(DebugScript) : {h} \X DebugScript[i].steps \subseteq Calls /\ DebugScript[i].tier \in Tiers
  BY <1>1, <1>2, <1>3 DEF Calls, Tiers
<1>5. \A i \in 1..Len(DebugScript) : IsFiniteSet(DebugScript[i].steps) /\ Cardinality(DebugScript[i].steps) =< Room
  BY <1>1, <1>2, <1>3, StagesFit
<1>6. \A i, j \in 1..Len(DebugScript) : DebugScript[i].steps \cap DebugScript[j].steps # {} => DebugScript[i].tier = DebugScript[j].tier
  BY <1>1, <1>2, <1>3
<1> QED BY <1>1, <1>4, <1>5, <1>6 DEF GoodScript

LEMMA ScriptsGood == ASSUME NEW h \in Handlers PROVE GoodScript(h, Script[h])
<1>1. /\ h \in Critics => Script[h] = CriticScript
      /\ h \in Planners => Script[h] = PlannerScript
      /\ h \in Auditors => Script[h] = AuditScript
      /\ h \in Verifiers => Script[h] = FindingAuditScript
      /\ h \in Debuggers => Script[h] = DebugScript
  BY DEF Script, RouterAssumption
<1> QED BY <1>1, CriticGood, PlannerGood, AuditorGood, VerifierGood, DebuggerGood DEF Handlers, Timed

LEMMA CallsKnown ==
  ASSUME NEW c \in Calls
  PROVE  c[1] \in Handlers /\ \E i \in 1..Len(Script[c[1]]) : c[2] \in Script[c[1]][i].steps
<1> DEFINE Found(s) == \E i \in 1..Len(s) : c[2] \in s[i].steps
<1>1. CASE c \in Critics \X ({"plan_attack", "stress_test", "judge_verdict"} \cup Pages)
  <2>1. c[1] \in Critics /\ c[2] \in {"plan_attack", "stress_test", "judge_verdict"} \cup Pages
    BY <1>1
  <2>2. Script[c[1]] = CriticScript
    BY <2>1 DEF Script, Handlers, Timed
  <2>3. Len(CriticScript) = 4
    BY DEF CriticScript
  <2>4. /\ CriticScript[1].steps = {"plan_attack"} /\ CriticScript[2].steps = Pages
        /\ CriticScript[3].steps = {"stress_test"} /\ CriticScript[4].steps = {"judge_verdict"}
    BY DEF CriticScript, Stage
  <2>5. Found(CriticScript)
    BY <2>1, <2>3, <2>4
  <2> QED BY <2>1, <2>2, <2>5 DEF Handlers, Timed
<1>2. CASE c \in Planners \X {"assess_state", "propose_tasks", "critique"}
  <2>1. c[1] \in Planners /\ c[2] \in {"assess_state", "propose_tasks", "critique"}
    BY <1>2
  <2>2. Script[c[1]] = PlannerScript
    BY <2>1 DEF Script, Handlers, Timed, RouterAssumption
  <2>3. Len(PlannerScript) = 3
    BY DEF PlannerScript
  <2>4. /\ PlannerScript[1].steps = {"assess_state"} /\ PlannerScript[2].steps = {"propose_tasks"}
        /\ PlannerScript[3].steps = {"critique"}
    BY DEF PlannerScript, Stage
  <2>5. Found(PlannerScript)
    BY <2>1, <2>3, <2>4
  <2> QED BY <2>1, <2>2, <2>5 DEF Handlers, Timed
<1>3. CASE c \in Auditors \X (Findings \cup {"batch_score"})
  <2>1. c[1] \in Auditors /\ c[2] \in Findings \cup {"batch_score"}
    BY <1>3
  <2>2. Script[c[1]] = AuditScript
    BY <2>1 DEF Script, Handlers, Timed, RouterAssumption
  <2>3. Len(AuditScript) = 2
    BY DEF AuditScript
  <2>4. AuditScript[1].steps = Findings /\ AuditScript[2].steps = {"batch_score"}
    BY DEF AuditScript, Stage
  <2>5. Found(AuditScript)
    BY <2>1, <2>3, <2>4
  <2> QED BY <2>1, <2>2, <2>5 DEF Handlers, Timed
<1>4. CASE c \in Verifiers \X {"audit_finding"}
  <2>1. c[1] \in Verifiers /\ c[2] = "audit_finding"
    BY <1>4
  <2>2. Script[c[1]] = FindingAuditScript
    BY <2>1 DEF Script, Handlers, Timed, RouterAssumption
  <2>3. Len(FindingAuditScript) = 1 /\ FindingAuditScript[1].steps = {"audit_finding"}
    BY DEF FindingAuditScript, Stage
  <2>4. Found(FindingAuditScript)
    BY <2>1, <2>3
  <2> QED BY <2>1, <2>2, <2>4 DEF Handlers, Timed
<1>5. CASE c \in Debuggers \X {"debug", "redebug"}
  <2>1. c[1] \in Debuggers /\ c[2] \in {"debug", "redebug"}
    BY <1>5
  <2>2. Script[c[1]] = DebugScript
    BY <2>1 DEF Script, Handlers, Timed, RouterAssumption
  <2>3. Len(DebugScript) = 2
    BY DEF DebugScript
  <2>4. DebugScript[1].steps = {"debug"} /\ DebugScript[2].steps = {"redebug"}
    BY DEF DebugScript, Stage
  <2>5. Found(DebugScript)
    BY <2>1, <2>3, <2>4
  <2> QED BY <2>1, <2>2, <2>5 DEF Handlers, Timed
<1> QED BY <1>1, <1>2, <1>3, <1>4, <1>5 DEF Calls

\* Every step asks for a tier, and a tier has a local model.
LEMMA TiersKnown == Route \in [Calls -> Tiers] /\ LocalModel \in [Tiers -> Models]
<1>1. ASSUME NEW c \in Calls PROVE Route[c] \in Tiers
  <2> DEFINE s == Script[c[1]]
             at1 == CHOOSE i \in 1..Len(s) : c[2] \in s[i].steps
  <2>1. Route[c] = s[at1].tier
    BY DEF Route
  <2>2. at1 \in 1..Len(s)
    BY CallsKnown
  <2>3. \A i \in 1..Len(s) : s[i].tier \in Tiers
    BY CallsKnown, ScriptsGood DEF GoodScript
  <2> HIDE DEF s, at1
  <2> QED BY <2>1, <2>2, <2>3
<1>2. Route = [c \in Calls |-> Route[c]]
  BY DEF Route
<1>3. LocalModel \in [Tiers -> Models]
  BY DEF LocalModel, Tiers, Models
<1> QED BY <1>1, <1>2, <1>3

LEMMA ModelsKnown ==
  ASSUME Fields, NEW u \in Users
  PROVE  ModelOf(u) \in Models
BY TiersKnown DEF Fields, ModelOf, Users, RouterAssumption

LEMMA CallOfOne ==
  ASSUME NEW c \in Calls
  PROVE  c[1] \in Handlers /\ c \in CallsOf[c[1]] /\ c \in Users /\ c \notin Guests
BY CallsKnown DEF CallsOf, Users, UsersAssumption

----------------------------------------------------------------------------
(* The steps that leave the lock alone.                                     *)

LEMMA LocksKept ==
  ASSUME Fields, Locks, UNCHANGED gpu,
         \A u \in Users : \/ at[u] \in {"model", "local"} /\ at'[u] = at[u] /\ ModelOf(u)' = ModelOf(u)
                          \/ at[u] \notin {"model", "local"} /\ at'[u] \notin {"model", "local"}
  PROVE  Locks'
<1>1. Holding' = Holding
  BY DEF Holding
<1>2. HoldersIn' /\ OneCallPerModel'
  BY DEF Locks, HoldersIn, OneCallPerModel, gpu, Fields
<1> QED BY <1>1, <1>2 DEF Locks, PermitsAccounted, gpu

LEMMA EnterKeeps ==
  ASSUME LockInv, NEW h \in Handlers, NEW i \in 1..Over(h), Enter(h, i),
         \A c \in CallsOf[h] : at[c] \notin Live,
         sess' \in [Handlers -> {"none", "running", "completed", "failed"}],
         UNCHANGED <<books, gpu, mishaps>>
  PROVE  LockInv'
<1> USE DEF LockInv
<1>1. PICK S \in (IF i = Over(h) THEN {{}} ELSE Chosen(h, i)) :
        at' = [u \in Users |-> IF u \in {h} \X S THEN "ready"
                              ELSE IF u \in CallsOf[h] THEN "none" ELSE at[u]]
  BY DEF Enter
<1>2. Len(Script[h]) \in Nat \ {0} /\ \A j \in 1..Len(Script[h]) : {h} \X Script[h][j].steps \subseteq Calls
  BY ScriptsGood DEF GoodScript
<1>3. i # Over(h) => i \in 1..Len(Script[h]) /\ S \subseteq Script[h][i].steps
  BY <1>1, <1>2 DEF Over, Chosen
<1>4. {h} \X S \subseteq CallsOf[h]
  <2>1. CASE i = Over(h)
    BY <1>1, <2>1
  <2>2. CASE i # Over(h)
    BY <1>2, <1>3, <2>2 DEF CallsOf
  <2> QED BY <2>1, <2>2
<1>5. /\ pc' = [pc EXCEPT ![h] = i] /\ UNCHANGED <<used, told, lent, permits, lost, holder, mishaps>>
      /\ run' = [c \in Calls |-> IF c[1] = h /\ run[c] # "running" THEN "none" ELSE run[c]]
      /\ tier' = [c \in Calls |-> IF c[1] = h THEN Route[c] ELSE tier[c]]
  BY DEF Enter, books, gpu
<1>6. Fields'
  <2>1. pc' \in [Handlers -> Nat] /\ \A k \in Handlers : pc'[k] \in 0..Over(k)
    BY <1>2, <1>5 DEF Fields, Over
  <2>2. at' \in [Users -> Live \cup {"none", "returned", "raised", "gone"}]
    BY <1>1 DEF Fields, Live
  <2>3. /\ run' \in [Calls -> {"none", "running", "completed", "failed"}]
        /\ tier' \in [Calls -> Tiers]
    BY <1>5, TiersKnown DEF Fields
  <2> QED BY <1>5, <2>1, <2>2, <2>3 DEF Fields
<1>7. InStage'
  <2> SUFFICES ASSUME NEW k \in Handlers, NEW c \in CallsOf[k], at'[c] \in Live
               PROVE  k \in Running' /\ c[2] \in Script[k][pc'[k]].steps
    BY DEF InStage
  <2>1. c \in Users /\ c[1] = k
    BY CallOfOne DEF CallsOf
  <2>2. CASE k = h
    <3>1. c \in {h} \X S
      BY <1>1, <2>1, <2>2 DEF Live
    <3>2. i # Over(h) /\ c[2] \in Script[h][i].steps
      BY <1>1, <1>3, <3>1
    <3>3. pc'[h] = i
      BY <1>5 DEF Fields
    <3> QED BY <2>2, <3>2, <3>3 DEF Running
  <2>3. CASE k # h
    <3>1. at'[c] = at[c]
      BY <1>1, <2>1, <2>3 DEF CallsOf
    <3>2. pc'[k] = pc[k]
      BY <1>5, <2>3 DEF Fields
    <3> QED BY <3>1, <3>2 DEF InStage, Running
  <2> QED BY <2>2, <2>3
<1>8. Locks'
  <2> SUFFICES ASSUME NEW u \in Users
               PROVE  \/ /\ at[u] \in {"model", "local"} /\ at'[u] = at[u]
                         /\ ModelOf(u)' = ModelOf(u)
                      \/ at[u] \notin {"model", "local"} /\ at'[u] \notin {"model", "local"}
    BY LocksKept, <1>5 DEF gpu
  <2>1. CASE u \in CallsOf[h]
    <3>1. at[u] \notin Live /\ at'[u] \in {"ready", "none"}
      BY <1>1, <2>1
    <3> QED BY <3>1 DEF Live
  <2>2. CASE u \notin CallsOf[h]
    <3>1. at'[u] = at[u]
      BY <1>1, <1>4, <2>2
    <3>2. ModelOf(u)' = ModelOf(u)
      <4>1. CASE u \in Guests
        BY <4>1 DEF ModelOf
      <4>2. CASE u \notin Guests
        <5>1. u \in Calls /\ u[1] # h
          BY <2>2, <4>2 DEF Users, CallsOf
        <5> QED BY <1>5, <4>2, <5>1 DEF ModelOf
      <4> QED BY <4>1, <4>2
    <3> QED BY <3>1, <3>2
  <2> QED BY <2>1, <2>2
<1> QED BY <1>6, <1>7, <1>8

LEMMA StartKeeps ==
  ASSUME LockInv, NEW h \in Handlers, Start(h)
  PROVE  LockInv'
<1>1. \A c \in CallsOf[h] : at[c] \notin Live
  BY DEF Start, LockInv, InStage, Running
<1>2. 1 \in 1..Over(h)
  BY ScriptsGood DEF GoodScript, Over
<1>3. sess' \in [Handlers -> {"none", "running", "completed", "failed"}]
  BY DEF Start, Close, LockInv, Fields
<1> QED BY <1>1, <1>2, <1>3, EnterKeeps DEF Start

LEMMA AdvanceKeeps ==
  ASSUME LockInv, NEW h \in Handlers, Advance(h)
  PROVE  LockInv'
<1>1. Len(Script[h]) \in Nat \ {0} /\ pc[h] \in 0..Over(h) /\ h \in Running
  BY ScriptsGood DEF GoodScript, Advance, LockInv, Fields
<1>2. \A c \in CallsOf[h] : at[c] \notin Live
  <2> SUFFICES ASSUME NEW c \in CallsOf[h], at[c] \in Live PROVE FALSE
    OBVIOUS
  <2>1. c[2] \in Script[h][pc[h]].steps /\ c[1] = h /\ c = <<c[1], c[2]>>
    BY DEF LockInv, InStage, CallsOf, Calls
  <2>2. c \in StageCalls(h)
    BY <2>1 DEF StageCalls, Live
  <2> QED BY <2>2 DEF Advance, Live
<1>3. CASE \E status \in {"completed", "failed"} : End(h, status)
  <2>1. PICK status \in {"completed", "failed"} : End(h, status)
    BY <1>3
  <2>2. Over(h) \in 1..Over(h)
    BY <1>1 DEF Over
  <2>3. sess' \in [Handlers -> {"none", "running", "completed", "failed"}]
    BY <2>1 DEF End, Close, LockInv, Fields
  <2> QED BY <1>2, <2>1, <2>2, <2>3, EnterKeeps DEF Advance, End
<1>4. CASE pc[h] < Len(Script[h]) /\ Enter(h, pc[h] + 1) /\ UNCHANGED sess
  <2>1. pc[h] + 1 \in 1..Over(h)
    BY <1>1, <1>4 DEF Over
  <2> QED BY <1>2, <1>4, <2>1, EnterKeeps DEF Advance, LockInv, Fields
<1> QED BY <1>3, <1>4 DEF Advance

----------------------------------------------------------------------------
(* The calls.                                                               *)

LEMMA InStageKept ==
  ASSUME InStage, UNCHANGED pc, \A c \in Calls : at'[c] \in Live => at[c] \in Live
  PROVE  InStage'
BY DEF InStage, CallsOf, Running

\* What a step of a call may do to the books.
BooksTyped ==
  /\ run \in [Calls -> {"none", "running", "completed", "failed"}]
  /\ used \in [Tiers -> Nat] /\ told \subseteq Tiers /\ lent \in Nat
  /\ mishaps \in 0..MaxMishaps

LEMMA MoveKeeps ==
  ASSUME LockInv, NEW u \in Users,
         NEW w \in {"cloud", "permit", "returned", "raised"},
         at' = [at EXCEPT ![u] = w],
         at[u] \notin {"model", "local"},
         u \in Calls => at[u] \in Live,
         UNCHANGED <<pc, sess, gpu>>, BooksTyped',
         tier' \in [Calls -> Tiers], \A c \in Calls : c # u => tier'[c] = tier[c]
  PROVE  LockInv'
<1> USE DEF LockInv
<1>1. Fields'
  <2>1. at' \in [Users -> Live \cup {"none", "returned", "raised", "gone"}]
    BY DEF Fields, Live
  <2> QED BY <2>1 DEF Fields, BooksTyped, gpu
<1>2. InStage'
  <2>1. \A c \in Calls : at'[c] \in Live => at[c] \in Live
    BY DEF Fields, Users
  <2> QED BY <2>1, InStageKept
<1>3. Locks'
  <2> SUFFICES ASSUME NEW v \in Users
               PROVE  \/ /\ at[v] \in {"model", "local"} /\ at'[v] = at[v]
                         /\ ModelOf(v)' = ModelOf(v)
                      \/ at[v] \notin {"model", "local"} /\ at'[v] \notin {"model", "local"}
    BY LocksKept
  <2>1. CASE v = u
    BY <2>1 DEF Fields
  <2>2. CASE v # u
    <3>1. at'[v] = at[v]
      BY <2>2 DEF Fields
    <3>2. ModelOf(v)' = ModelOf(v)
      BY <2>2 DEF ModelOf, Users
    <3> QED BY <3>1, <3>2
  <2> QED BY <2>1, <2>2
<1> QED BY <1>1, <1>2, <1>3

LEMMA InvokeKeeps ==
  ASSUME LockInv, NEW c \in Calls, Invoke(c)
  PROVE  LockInv'
<1> DEFINE asked == Route[c]
           t == IF Capped(asked) THEN Downgrade(asked) ELSE asked
           w == at'[c]
<1>1. t \in Tiers
  BY TiersKnown DEF Downgrade, Tiers
<1>2. /\ tier' = [tier EXCEPT ![c] = t] /\ told' \in {told, told \cup {t}}
      /\ run' = [run EXCEPT ![c] = "running"]
      /\ UNCHANGED <<pc, sess, used, lent, gpu, mishaps>>
  BY DEF Invoke
<1>3. PICK x \in {"cloud", "permit"} : at' = [at EXCEPT ![c] = x]
  BY DEF Invoke
<1>4. at[c] = "ready"
  BY DEF Invoke
<1> HIDE DEF t, asked
<1>5. BooksTyped'
  BY <1>1, <1>2 DEF BooksTyped, LockInv, Fields
<1>6. tier' \in [Calls -> Tiers] /\ \A d \in Calls : d # c => tier'[d] = tier[d]
  BY <1>1, <1>2 DEF LockInv, Fields
<1>7. c \in Users
  BY DEF Users
<1> QED BY <1>2, <1>3, <1>4, <1>5, <1>6, <1>7, MoveKeeps DEF Live

LEMMA RecordTyped ==
  ASSUME LockInv, NEW c \in Calls, RecordCost(c)
  PROVE  used' \in [Tiers -> Nat] /\ lent' \in Nat
BY DEF LockInv, Fields, RecordCost

LEMMA CompleteTyped ==
  ASSUME LockInv, NEW c \in Calls, Complete(c)
  PROVE  /\ run' \in [Calls -> {"none", "running", "completed", "failed"}]
         /\ mishaps' \in 0..MaxMishaps
         /\ \E w \in {"returned", "raised"} : at' = [at EXCEPT ![c] = w]
<1>1. mishaps' \in 0..MaxMishaps
  BY DEF LockInv, Fields, Complete, Mishap, RouterAssumption
<1>2. run' \in [Calls -> {"none", "running", "completed", "failed"}]
  BY DEF LockInv, Fields, Complete
<1>3. \E w \in {"returned", "raised"} : at' = [at EXCEPT ![c] = w]
  BY DEF Complete
<1> QED BY <1>1, <1>2, <1>3

LEMMA CloudAnswersKeeps ==
  ASSUME LockInv, NEW c \in Calls, CloudAnswers(c)
  PROVE  LockInv'
<1>1. BooksTyped'
  BY RecordTyped, CompleteTyped DEF CloudAnswers, BooksTyped, LockInv, Fields
<1>2. PICK w \in {"returned", "raised"} : at' = [at EXCEPT ![c] = w]
  BY CompleteTyped DEF CloudAnswers
<1>3. c \in Users /\ at[c] = "cloud" /\ UNCHANGED <<pc, sess, tier, gpu>>
  BY DEF Users, CloudAnswers
<1>4. tier' \in [Calls -> Tiers] /\ \A d \in Calls : d # c => tier'[d] = tier[d]
  BY <1>3 DEF LockInv, Fields
<1> QED BY <1>1, <1>2, <1>3, <1>4, MoveKeeps DEF Live

LEMMA CloudFailsKeeps ==
  ASSUME LockInv, NEW c \in Calls, CloudFails(c)
  PROVE  LockInv'
<1>1. BooksTyped'
  BY DEF CloudFails, BooksTyped, LockInv, Fields, books
<1>2. /\ c \in Users /\ at[c] = "cloud" /\ UNCHANGED <<pc, sess, tier, gpu>>
      /\ at' = [at EXCEPT ![c] = "permit"]
  BY DEF Users, CloudFails
<1>3. tier' \in [Calls -> Tiers] /\ \A d \in Calls : d # c => tier'[d] = tier[d]
  BY <1>2 DEF LockInv, Fields
<1> QED BY <1>1, <1>2, <1>3, MoveKeeps DEF Live

LEMMA AskKeeps ==
  ASSUME LockInv, NEW g \in Guests, Ask(g)
  PROVE  LockInv'
<1>1. BooksTyped'
  BY DEF Ask, BooksTyped, LockInv, Fields, books
<1>2. /\ g \in Users /\ g \notin Calls /\ at[g] = "none" /\ UNCHANGED <<pc, sess, tier, gpu>>
      /\ at' = [at EXCEPT ![g] = "permit"]
  BY DEF Users, Ask, UsersAssumption
<1>3. tier' \in [Calls -> Tiers] /\ \A d \in Calls : d # g => tier'[d] = tier[d]
  BY <1>2 DEF LockInv, Fields
<1> QED BY <1>1, <1>2, <1>3, MoveKeeps

\* The sweep and the new day touch the books only.
LEMMA BooksKeep ==
  ASSUME LockInv, UNCHANGED <<pc, sess, at, tier, gpu>>, BooksTyped'
  PROVE  LockInv'
<1>1. Fields'
  BY DEF LockInv, Fields, BooksTyped, gpu
<1>2. InStage'
  BY InStageKept DEF LockInv
<1>3. Locks'
  <2>1. \A u \in Users : ModelOf(u)' = ModelOf(u)
    BY DEF ModelOf
  <2> QED BY <2>1, LocksKept DEF LockInv
<1> QED BY <1>1, <1>2, <1>3 DEF LockInv

LEMMA SweepKeeps ==
  ASSUME LockInv, NEW c \in Calls, Sweep(c)
  PROVE  LockInv'
<1>1. BooksTyped'
  BY DEF Sweep, BooksTyped, LockInv, Fields, books
<1> QED BY <1>1, BooksKeep DEF Sweep

LEMMA NewDayKeeps ==
  ASSUME LockInv, NewDay
  PROVE  LockInv'
<1>1. BooksTyped'
  BY DEF NewDay, BooksTyped, LockInv, Fields, Mishap, RouterAssumption
<1> QED BY <1>1, BooksKeep DEF NewDay

----------------------------------------------------------------------------
(* The lock.                                                                *)

\* What the actions of the lock leave alone.
Elsewhere == UNCHANGED <<pc, sess, tier, books, mishaps>>

LEMMA LockTyped ==
  ASSUME LockInv, UNCHANGED <<tier, books>>,
         pc' \in [Handlers -> Nat], \A h \in Handlers : pc'[h] \in 0..Over(h),
         sess' \in [Handlers -> {"none", "running", "completed", "failed"}],
         at' \in [Users -> Live \cup {"none", "returned", "raised", "gone"}],
         run' \in [Calls -> {"none", "running", "completed", "failed"}],
         permits' \in Nat, lost' \in Nat, holder' \in [Models -> Users \cup {NoUser}],
         mishaps' \in 0..MaxMishaps
  PROVE  Fields'
BY DEF LockInv, Fields, books

LEMMA ModelsStay ==
  ASSUME UNCHANGED tier, NEW u
  PROVE  ModelOf(u)' = ModelOf(u)
BY DEF ModelOf

LEMMA TakePermitKeeps ==
  ASSUME LockInv, NEW u \in Users, TakePermit(u)
  PROVE  LockInv'
<1> USE DEF LockInv
<1> DEFINE m == ModelOf(u)
<1>1. m \in Models
  BY ModelsKnown
<1>2. /\ at[u] = "permit" /\ permits > 0 /\ permits' = permits - 1
      /\ UNCHANGED <<pc, sess, run, tier, books, lost, mishaps>>
  BY DEF TakePermit
<1>3. \/ /\ holder[m] = NoUser
         /\ at' = [at EXCEPT ![u] = "local"] /\ holder' = [holder EXCEPT ![m] = u]
      \/ at' = [at EXCEPT ![u] = "model"] /\ UNCHANGED holder
  BY DEF TakePermit
<1>4. \A v \in Users : ModelOf(v)' = ModelOf(v)
  BY <1>2, ModelsStay
<1> HIDE DEF m
<1>5. at' \in [Users -> Live \cup {"none", "returned", "raised", "gone"}]
  BY <1>3 DEF Fields, Live
<1>6. holder' \in [Models -> Users \cup {NoUser}]
  BY <1>1, <1>3 DEF Fields
<1>7. Fields'
  BY <1>2, <1>5, <1>6, LockTyped DEF Fields
<1>8. InStage'
  <2>1. \A c \in Calls : at'[c] \in Live => at[c] \in Live
    BY <1>2, <1>3 DEF Fields, Live, Users
  <2> QED BY <1>2, <2>1, InStageKept
<1>9. IsFiniteSet(Holding)' /\ PermitsAccounted'
  <2>1. u \notin Holding /\ Holding' = Holding \cup {u}
    BY <1>2, <1>3 DEF Holding, Fields
  <2>2. IsFiniteSet(Holding) /\ permits + Cardinality(Holding) + lost = MaxInFlight
    BY DEF Locks, PermitsAccounted
  <2>3. IsFiniteSet(Holding \cup {u}) /\ Cardinality(Holding \cup {u}) = Cardinality(Holding) + 1
    BY <2>1, <2>2, FS_AddElement
  <2>4. Cardinality(Holding) \in Nat
    BY <2>2, FS_CardinalityType
  <2> QED BY <1>2, <2>1, <2>2, <2>3, <2>4 DEF PermitsAccounted, Fields
<1>10. HoldersIn' /\ OneCallPerModel'
  <2>1. HoldersIn /\ OneCallPerModel
    BY DEF Locks
  <2>2. CASE holder[m] = NoUser /\ at' = [at EXCEPT ![u] = "local"] /\ holder' = [holder EXCEPT ![m] = u]
    <3>1. HoldersIn'
      BY <1>1, <1>2, <1>4, <2>1, <2>2 DEF HoldersIn, Fields, m
    <3>2. OneCallPerModel'
      BY <1>1, <1>2, <1>4, <2>1, <2>2, ModelsKnown DEF OneCallPerModel, Fields, m, UsersAssumption
    <3> QED BY <3>1, <3>2
  <2>3. CASE at' = [at EXCEPT ![u] = "model"] /\ UNCHANGED holder
    BY <1>2, <1>4, <2>1, <2>3 DEF HoldersIn, OneCallPerModel, Fields
  <2> QED BY <1>3, <2>2, <2>3
<1> QED BY <1>7, <1>8, <1>9, <1>10 DEF Locks

LEMMA TakeModelKeeps ==
  ASSUME LockInv, NEW u \in Users, TakeModel(u)
  PROVE  LockInv'
<1> USE DEF LockInv
<1> DEFINE m == ModelOf(u)
<1>1. m \in Models
  BY ModelsKnown
<1>2. /\ at[u] = "model" /\ holder[m] = NoUser
      /\ at' = [at EXCEPT ![u] = "local"] /\ holder' = [holder EXCEPT ![m] = u]
      /\ UNCHANGED <<pc, sess, run, tier, books, permits, lost, mishaps>>
  BY DEF TakeModel
<1>3. \A v \in Users : ModelOf(v)' = ModelOf(v)
  BY <1>2, ModelsStay
<1> HIDE DEF m
<1>4. at' \in [Users -> Live \cup {"none", "returned", "raised", "gone"}]
  BY <1>2 DEF Fields, Live
<1>5. holder' \in [Models -> Users \cup {NoUser}]
  BY <1>1, <1>2 DEF Fields
<1>6. Fields'
  BY <1>2, <1>4, <1>5, LockTyped DEF Fields
<1>7. InStage'
  <2>1. \A c \in Calls : at'[c] \in Live => at[c] \in Live
    BY <1>2 DEF Fields, Live, Users
  <2> QED BY <1>2, <2>1, InStageKept
<1>8. Holding' = Holding
  BY <1>2 DEF Holding, Fields
<1>9. HoldersIn'
  BY <1>1, <1>2, <1>3 DEF HoldersIn, Fields, m, Locks
<1>10. OneCallPerModel'
  BY <1>1, <1>2, <1>3, ModelsKnown DEF OneCallPerModel, Fields, m, UsersAssumption, Locks
<1> QED BY <1>2, <1>6, <1>7, <1>8, <1>9, <1>10 DEF Locks, PermitsAccounted

\* Those who leave give back what they hold, whatever becomes of them.
LEMMA LeavingKeeps ==
  ASSUME LockInv, NEW S \in SUBSET Users, NEW W \in SUBSET Users, Leave(S), UNCHANGED tier,
         \A u \in W : at[u] = "model",
         lost' = lost + Cardinality(W),
         at' \in [Users -> Live \cup {"none", "returned", "raised", "gone"}],
         \A u \in Inside(S) \cup W : at'[u] \notin {"model", "local"},
         \A u \in Users \ (Inside(S) \cup W) :
           at'[u] = at[u] \/ {at[u], at'[u]} \cap {"model", "local"} = {}
  PROVE  Locks' /\ permits' \in Nat /\ lost' \in Nat /\ holder' \in [Models -> Users \cup {NoUser}]
<1> USE DEF LockInv
<1>1. /\ permits' = permits + Cardinality(Inside(S))
      /\ holder' = [m \in Models |-> IF holder[m] \in Inside(S) THEN NoUser ELSE holder[m]]
  BY DEF Leave
<1>2. Inside(S) \subseteq Holding /\ W \subseteq Holding /\ Inside(S) \cap W = {}
  BY DEF Inside, Holding
<1>3. Holding' = (Holding \ Inside(S)) \ W
  BY <1>2 DEF Holding, Fields
<1>4. IsFiniteSet(Holding) /\ Cardinality(Holding) \in Nat
  BY FS_CardinalityType DEF Locks
<1>5. IsFiniteSet(Inside(S)) /\ IsFiniteSet(W)
  BY <1>2, <1>4, FS_Subset
<1>6. Cardinality(Inside(S)) \in Nat /\ Cardinality(W) \in Nat
  BY <1>5, FS_CardinalityType
<1>7. /\ IsFiniteSet(Holding \ Inside(S))
      /\ Cardinality(Holding \ Inside(S)) = Cardinality(Holding) - Cardinality(Inside(S))
  <2>1. Holding \cap Inside(S) = Inside(S)
    BY <1>2
  <2> QED BY <1>4, <2>1, FS_Difference
<1>8. /\ IsFiniteSet(Holding')
      /\ Cardinality(Holding') = Cardinality(Holding) - Cardinality(Inside(S)) - Cardinality(W)
  <2>1. (Holding \ Inside(S)) \cap W = W
    BY <1>2
  <2> QED BY <1>3, <1>7, <2>1, FS_Difference
<1>9. PermitsAccounted'
  <2>1. permits + Cardinality(Holding) + lost = MaxInFlight
    BY DEF Locks, PermitsAccounted
  <2> HIDE DEF LockInv
  <2>2. permits \in Nat /\ lost \in Nat
    BY DEF LockInv, Fields
  <2> QED BY <1>1, <1>4, <1>6, <1>8, <2>1, <2>2 DEF PermitsAccounted
<1>10. holder' \in [Models -> Users \cup {NoUser}]
  BY <1>1 DEF Fields
<1>11. HoldersIn'
  <2> SUFFICES ASSUME NEW m \in Models, holder'[m] # NoUser
               PROVE  at'[holder'[m]] = "local" /\ ModelOf(holder[m])' = m
    BY DEF HoldersIn
  <2>1. holder'[m] = holder[m] /\ holder[m] \notin Inside(S) /\ holder[m] \in Users
    BY <1>1 DEF Fields
  <2>2. at[holder[m]] = "local" /\ ModelOf(holder[m]) = m
    BY <2>1 DEF Locks, HoldersIn
  <2>3. holder[m] \notin W
    BY <2>2
  <2>4. at'[holder[m]] = "local"
    BY <2>1, <2>2, <2>3
  <2> QED BY <2>1, <2>2, <2>4 DEF ModelOf
<1>12. OneCallPerModel'
  <2> SUFFICES ASSUME NEW u \in Users, at'[u] = "local"
               PROVE  holder'[ModelOf(u)'] = u
    BY DEF OneCallPerModel
  <2>1. u \notin Inside(S) /\ at[u] = "local"
    OBVIOUS
  <2>2. holder[ModelOf(u)] = u /\ ModelOf(u) \in Models
    BY <2>1, ModelsKnown DEF Locks, OneCallPerModel
  <2>3. ModelOf(u)' = ModelOf(u)
    BY ModelsStay
  <2> QED BY <1>1, <2>1, <2>2, <2>3
<1> QED BY <1>1, <1>6, <1>8, <1>9, <1>10, <1>11, <1>12 DEF Locks, Fields

LEMMA LocalEndsKeeps ==
  ASSUME LockInv, NEW u \in Users, LocalEnds(u)
  PROVE  LockInv'
<1> USE DEF LockInv
<1>1. /\ at[u] = "local" /\ Leave({u})
      /\ UNCHANGED <<pc, sess, tier, books, lost>>
  BY DEF LocalEnds, Ends
<1>2. /\ run' \in [Calls -> {"none", "running", "completed", "failed"}]
      /\ mishaps' \in 0..MaxMishaps
      /\ \E w \in {"returned", "raised"} : at' = [at EXCEPT ![u] = w]
  <2>1. CASE u \in Guests
    BY <2>1 DEF LocalEnds, Fields
  <2>2. CASE u \notin Guests /\ Complete(u)
    BY <2>2, CompleteTyped DEF Users
  <2>3. CASE u \notin Guests /\ run' = [run EXCEPT ![u] = "failed"]
             /\ at' = [at EXCEPT ![u] = "raised"] /\ UNCHANGED mishaps
    BY <2>3 DEF Fields
  <2> QED BY <2>1, <2>2, <2>3 DEF LocalEnds
<1>3. PICK w \in {"returned", "raised"} : at' = [at EXCEPT ![u] = w]
  BY <1>2
<1>4. at' \in [Users -> Live \cup {"none", "returned", "raised", "gone"}]
  BY <1>3 DEF Fields, Live
<1>5. Inside({u}) = {u} /\ Cardinality({}) = 0
  BY <1>1, FS_EmptySet DEF Inside
<1>6. lost' = lost + Cardinality({})
  BY <1>1, <1>5 DEF Fields
<1>7. /\ \A v \in Inside({u}) \cup {} : at'[v] \notin {"model", "local"}
      /\ \A v \in Users \ (Inside({u}) \cup {}) : at'[v] = at[v]
  <2>1. at'[u] = w /\ \A v \in Users : v # u => at'[v] = at[v]
    BY <1>3 DEF Fields
  <2>2. Inside({u}) \cup {} = {u}
    BY <1>5
  <2> QED BY <2>1, <2>2
<1>8. Locks' /\ permits' \in Nat /\ lost' \in Nat /\ holder' \in [Models -> Users \cup {NoUser}]
  <2>1. {u} \in SUBSET Users /\ {} \in SUBSET Users
    OBVIOUS
  <2> QED BY <1>1, <1>4, <1>6, <1>7, <2>1, LeavingKeeps
<1>9. Fields'
  BY <1>1, <1>2, <1>4, <1>8, LockTyped DEF Fields
<1>10. InStage'
  <2>1. \A c \in Calls : at'[c] \in Live => at[c] \in Live
    BY <1>3 DEF Fields, Live, Users
  <2> QED BY <1>1, <2>1, InStageKept
<1> QED BY <1>8, <1>9, <1>10

LEMMA TimeoutKeeps ==
  ASSUME LockInv, NEW h \in Handlers, Timeout(h)
  PROVE  LockInv'
<1> USE DEF LockInv
<1> DEFINE W == {c \in CallsOf[h] : at[c] = "model"}
<1>1. /\ pc' = [pc EXCEPT ![h] = Over(h)] /\ sess' = [sess EXCEPT ![h] = "failed"]
      /\ Leave(CallsOf[h]) /\ lost' = lost + Cardinality(W)
      /\ at' = [u \in Users |-> IF u \in CallsOf[h] /\ at[u] \in Live THEN "gone" ELSE at[u]]
      /\ UNCHANGED <<run, tier, books>>
  BY DEF Timeout
<1>2. mishaps' \in 0..MaxMishaps
  BY DEF Timeout, Mishap, Fields, RouterAssumption
<1>3. CallsOf[h] \in SUBSET Users /\ W \in SUBSET Users
  BY DEF CallsOf, Users
<1>4. at' \in [Users -> Live \cup {"none", "returned", "raised", "gone"}]
  BY <1>1 DEF Fields
<1>5. Inside(CallsOf[h]) \cup W \subseteq {u \in CallsOf[h] : at[u] \in Live}
  BY DEF Inside, Live
<1>6. \A u \in Inside(CallsOf[h]) \cup W : at'[u] \notin {"model", "local"}
  BY <1>1, <1>3, <1>5
<1>7. \A u \in Users \ (Inside(CallsOf[h]) \cup W) :
        at'[u] = at[u] \/ {at[u], at'[u]} \cap {"model", "local"} = {}
  <2> SUFFICES ASSUME NEW u \in Users, u \notin Inside(CallsOf[h]) \cup W, at'[u] # at[u]
               PROVE  {at[u], at'[u]} \cap {"model", "local"} = {}
    OBVIOUS
  <2>1. u \in CallsOf[h] /\ at'[u] = "gone"
    BY <1>1
  <2> QED BY <2>1 DEF Inside
<1>8. \A u \in W : at[u] = "model"
  OBVIOUS
<1>9. Locks' /\ permits' \in Nat /\ lost' \in Nat /\ holder' \in [Models -> Users \cup {NoUser}]
  <2> HIDE DEF W, LockInv
  <2> QED BY <1>1, <1>3, <1>4, <1>6, <1>7, <1>8, LeavingKeeps
<1>10. pc' \in [Handlers -> Nat] /\ \A k \in Handlers : pc'[k] \in 0..Over(k)
  <2>1. Over(h) \in Nat
    BY ScriptsGood DEF GoodScript, Over
  <2> QED BY <1>1, <2>1 DEF Fields
<1>11. Fields'
  BY <1>1, <1>2, <1>4, <1>9, <1>10, LockTyped DEF Fields
<1>12. InStage'
  <2> SUFFICES ASSUME NEW k \in Handlers, NEW c \in CallsOf[k], at'[c] \in Live
               PROVE  k \in Running' /\ c[2] \in Script[k][pc'[k]].steps
    BY DEF InStage
  <2>1. c \in Users /\ c[1] = k
    BY CallOfOne DEF CallsOf
  <2>2. c \notin CallsOf[h] /\ at'[c] = at[c]
    BY <1>1, <2>1 DEF Live
  <2>3. k # h
    BY <2>2
  <2>4. pc'[k] = pc[k]
    BY <1>1, <2>3 DEF Fields
  <2> QED BY <2>2, <2>4 DEF InStage, Running
<1> QED BY <1>9, <1>11, <1>12

LEMMA RestartKeeps ==
  ASSUME LockInv, Restart
  PROVE  LockInv'
<1> USE DEF LockInv
<1>1. /\ pc' = [h \in Handlers |-> IF h \in Running THEN 0 ELSE pc[h]]
      /\ at' = [u \in Users |->
                  IF \/ u \in Guests /\ at[u] \in Live
                     \/ u \in Calls /\ u[1] \in Running
                  THEN "none" ELSE at[u]]
      /\ run' = [c \in Calls |-> IF run[c] = "running" THEN "failed" ELSE run[c]]
      /\ permits' = MaxInFlight /\ lost' = 0
      /\ holder' = [m \in Models |-> NoUser]
      /\ UNCHANGED <<sess, tier, books>>
  BY DEF Restart
<1>2. mishaps' \in 0..MaxMishaps
  BY DEF Restart, Mishap, Fields, RouterAssumption
<1>3. \A u \in Users : at'[u] \notin Live
  <2> SUFFICES ASSUME NEW u \in Users, at'[u] \in Live PROVE FALSE
    OBVIOUS
  <2>1. at[u] \in Live /\ u \in Calls /\ u[1] \notin Running
    BY <1>1 DEF Live, Users
  <2> QED BY <2>1, CallOfOne DEF InStage
<1>4. at' \in [Users -> Live \cup {"none", "returned", "raised", "gone"}]
  BY <1>1 DEF Fields
<1>5. pc' \in [Handlers -> Nat] /\ \A k \in Handlers : pc'[k] \in 0..Over(k)
  <2>1. \A k \in Handlers : Over(k) \in Nat
    BY ScriptsGood DEF GoodScript, Over
  <2> QED BY <1>1, <2>1 DEF Fields
<1>6. Fields'
  BY <1>1, <1>2, <1>4, <1>5, LockTyped DEF Fields, RouterAssumption
<1>7. InStage'
  BY <1>3, CallOfOne DEF InStage, CallsOf
<1>8. Holding' = {}
  BY <1>3 DEF Holding, Live
<1>9. Cardinality({}) = 0 /\ IsFiniteSet({})
  BY FS_EmptySet
<1>10. HoldersIn' /\ OneCallPerModel'
  BY <1>1, <1>3 DEF HoldersIn, OneCallPerModel, Live
<1>11. PermitsAccounted'
  BY <1>1, <1>8, <1>9 DEF PermitsAccounted, RouterAssumption
<1> QED BY <1>6, <1>7, <1>8, <1>9, <1>10, <1>11 DEF Locks

----------------------------------------------------------------------------
(* The specification.                                                       *)

LEMMA InitHolds == Init => LockInv
<1> SUFFICES ASSUME Init PROVE LockInv
  OBVIOUS
<1>1. Fields
  <2>1. \A k \in Handlers : Over(k) \in Nat
    BY ScriptsGood DEF GoodScript, Over
  <2> QED BY <2>1, TiersKnown DEF Init, Fields, RouterAssumption
<1>2. \A u \in Users : at[u] = "none"
  BY DEF Init
<1>3. InStage
  BY <1>2, CallOfOne DEF InStage, CallsOf, Live
<1>4. Holding = {} /\ Cardinality({}) = 0 /\ IsFiniteSet({})
  BY <1>2, FS_EmptySet DEF Holding
<1>5. HoldersIn /\ OneCallPerModel
  BY <1>2 DEF Init, HoldersIn, OneCallPerModel
<1>6. PermitsAccounted
  BY <1>4 DEF Init, PermitsAccounted, RouterAssumption
<1> QED BY <1>1, <1>3, <1>4, <1>5, <1>6 DEF LockInv, Locks

LEMMA NextKeeps == LockInv /\ [Next]_vars => LockInv'
<1> SUFFICES ASSUME LockInv, [Next]_vars PROVE LockInv'
  OBVIOUS
<1>1. CASE \E h \in Handlers : Start(h) \/ Advance(h)
  BY <1>1, StartKeeps, AdvanceKeeps
<1>2. ASSUME NEW u \in Users, Progress(u) PROVE LockInv'
  BY <1>2, InvokeKeeps, CloudAnswersKeeps, CloudFailsKeeps, AskKeeps, TakePermitKeeps,
     TakeModelKeeps, LocalEndsKeeps DEF Progress
<1>3. CASE \E c \in Calls : Sweep(c)
  BY <1>3, SweepKeeps
<1>4. CASE \E h \in Handlers : Timeout(h)
  BY <1>4, TimeoutKeeps
<1>5. CASE Restart
  BY <1>5, RestartKeeps
<1>6. CASE NewDay
  BY <1>6, NewDayKeeps
<1>7. CASE UNCHANGED vars
  <2>1. UNCHANGED <<pc, sess, at, tier, gpu, run, used, told, lent, mishaps>>
    BY <1>7 DEF vars, gpu
  <2>2. BooksTyped'
    BY <2>1 DEF BooksTyped, LockInv, Fields
  <2> QED BY <2>1, <2>2, BooksKeep
<1> QED BY <1>1, <1>2, <1>3, <1>4, <1>5, <1>6, <1>7 DEF Next, Work

LEMMA LockInvariant == Spec => []LockInv
BY InitHolds, NextKeeps, PTL DEF Spec

\* Every field keeps its type under cancellations, restarts and new days, the
\* permits stay within 0..MaxInFlight, a lock is held by a call that is in on
\* the model it locks, and only calls of a running handler are under way.
THEOREM TypeCorrect == Spec => []TypeOK
<1>1. LockInv => TypeOK
  <2> SUFFICES ASSUME LockInv PROVE TypeOK
    OBVIOUS
  <2>1. permits \in 0..MaxInFlight /\ lost \in 0..MaxInFlight
    <3>1. Cardinality(Holding) \in Nat
      BY FS_CardinalityType DEF LockInv, Locks
    <3> QED BY <3>1 DEF LockInv, Fields, Locks, PermitsAccounted, RouterAssumption
  <2>2. \A c \in Calls : at[c] \in {"cloud", "permit", "model", "local"} => c[1] \in Running
    BY CallOfOne DEF LockInv, InStage, Live
  <2> QED BY <2>1, <2>2 DEF TypeOK, LockInv, Fields, Locks, HoldersIn
<1> QED BY <1>1, LockInvariant, PTL

\* Permits: whatever is cancelled between the two awaits of acquire, fails,
\* times out or restarts, each of the MaxInFlight permits is free, held by a
\* call past the first await, or lost with a cancelled one.
THEOREM PermitsAlwaysAccounted == Spec => []PermitsAccounted
<1>1. LockInv => PermitsAccounted
  BY DEF LockInv, Locks
<1> QED BY <1>1, LockInvariant, PTL

\* "Calls to the SAME model serialize": a call that is in holds the lock of
\* its own model, so two are never in on one model, for any number of loops,
\* guests and permits.
THEOREM ModelsServeOne == Spec => []OneCallPerModel
<1>1. LockInv => OneCallPerModel
  BY DEF LockInv, Locks
<1> QED BY <1>1, LockInvariant, PTL

----------------------------------------------------------------------------
(* The spend.  Calls of a tier that are in the cloud at once sit in the     *)
(* stage their handlers are in, and Abreast counts the places of a stage.   *)

\* The calls in the cloud that their own tier will be charged for.
InCloud(t) == {c \in Calls : at[c] = "cloud" /\ tier[c] = t /\ Route[c] = t}

\* A tier's charges and the calls that are still to be charged to it: a call
\* that goes to the cloud below the cap finds no more than Abreast with it,
\* and one that was downgraded is counted in lent when it is charged.
Lent(t) == IF t = "workhorse" THEN lent ELSE 0
WithinReach(t) == used[t] + Cardinality(InCloud(t)) < Cap[t] + Abreast[t] + Lent(t)

SpendInv ==
  /\ \A c \in Calls : tier[c] # Route[c] => tier[c] = "workhorse"
  /\ \A t \in Tiers : WithinReach(t)

\* The largest of a bounded set of naturals is one of them and an upper bound.
LEMMA MaxOf ==
  ASSUME NEW S, S \subseteq Nat, S # {}, NEW B \in Nat, \A x \in S : x =< B
  PROVE  Max(S) \in S /\ \A y \in S : y =< Max(S)
<1> DEFINE T == {n \in 0..B : B - n \in S}
<1>1. T \subseteq Nat /\ T # {}
  <2>1. PICK x \in S : x =< B
    OBVIOUS
  <2>2. B - x \in 0..B /\ B - (B - x) = x
    BY <2>1
  <2>3. B - x \in T
    BY <2>1, <2>2
  <2>4. T \subseteq Nat
    OBVIOUS
  <2> HIDE DEF T
  <2> QED BY <2>3, <2>4
<1>2. PICK m \in T : \A k \in T : ~(<<k, m>> \in OpToRel(<, Nat))
  <2> HIDE DEF T
  <2> QED BY <1>1, WFMin, NatLessThanWellFounded
<1>3. \A k \in T : ~(k < m)
  BY <1>1, <1>2 DEF OpToRel
<1>4. ASSUME NEW y \in S PROVE y =< B - m
  <2>1. CASE y > B - m
    <3>1. B - y \in 0..B /\ B - (B - y) = y /\ B - y < m
      BY <2>1
    <3> QED BY <1>3, <3>1
  <2> QED BY <2>1
<1>5. B - m \in S
  OBVIOUS
<1> HIDE DEF T
<1>6. \E x \in S : \A y \in S : x >= y
  BY <1>4, <1>5
<1> QED BY <1>6 DEF Max

\* A stage is no wider than its handler's widest of the tier.
LEMMA WidthFits ==
  ASSUME NEW h \in Handlers, NEW t
  PROVE  /\ Width(h, t) \in 0..Room
         /\ \A i \in 1..Len(Script[h]) :
              Script[h][i].tier = t => Cardinality(Script[h][i].steps) =< Width(h, t)
<1> DEFINE W == {0} \cup {Cardinality(Script[h][i].steps) :
                            i \in {j \in 1..Len(Script[h]) : Script[h][j].tier = t}}
<1>1. \A i \in 1..Len(Script[h]) :
         Cardinality(Script[h][i].steps) \in Nat /\ Cardinality(Script[h][i].steps) =< Room
  BY ScriptsGood, FS_CardinalityType DEF GoodScript
<1>2. Room \in Nat
  BY StagesFit
<1>3. W \subseteq Nat /\ W # {} /\ \A x \in W : x =< Room
  BY <1>1, <1>2
<1>4. \A i \in 1..Len(Script[h]) : Script[h][i].tier = t => Cardinality(Script[h][i].steps) \in W
  OBVIOUS
<1>5. Width(h, t) = Max(W)
  BY DEF Width
<1> HIDE DEF W
<1>6. Max(W) \in W /\ \A y \in W : y =< Max(W)
  BY <1>2, <1>3, MaxOf
<1>7. Width(h, t) \in 0..Room
  <2>1. Max(W) \in Nat /\ Max(W) =< Room
    BY <1>3, <1>6
  <2> QED BY <1>2, <1>5, <2>1
<1>8. \A i \in 1..Len(Script[h]) :
         Script[h][i].tier = t => Cardinality(Script[h][i].steps) =< Width(h, t)
  BY <1>4, <1>5, <1>6
<1> QED BY <1>7, <1>8

LEMMA PlacesCounted ==
  ASSUME NEW t \in Tiers
  PROVE  IsFiniteSet(Places(t)) /\ Abreast[t] = Cardinality(Places(t)) /\ Abreast[t] \in Nat
<1>1. Room \in Nat
  BY StagesFit
<1>2. IsFiniteSet(Handlers \X (0..Room))
  <2>1. IsFiniteSet(0..Room)
    BY <1>1, FS_Interval
  <2>2. IsFiniteSet(Handlers)
    BY RouterAssumption
  <2> QED BY <2>1, <2>2, FS_Product
<1>3. Places(t) \subseteq Handlers \X (0..Room)
  BY <1>1, WidthFits DEF Places
<1>4. IsFiniteSet(Places(t))
  BY <1>2, <1>3, FS_Subset
<1>5. Abreast[t] = Cardinality(Places(t))
  BY DEF Abreast
<1> QED BY <1>4, <1>5, FS_CardinalityType

\* A call asks for the tier of every stage that it is a step of.
LEMMA RouteOfStage ==
  ASSUME NEW c \in Calls, NEW i \in 1..Len(Script[c[1]]), c[2] \in Script[c[1]][i].steps
  PROVE  Route[c] = Script[c[1]][i].tier
<1> DEFINE s == Script[c[1]]
           first == CHOOSE j \in 1..Len(s) : c[2] \in s[j].steps
<1>1. Route[c] = s[first].tier
  BY DEF Route
<1>2. first \in 1..Len(s) /\ c[2] \in s[first].steps
  OBVIOUS
<1>3. \A j, k \in 1..Len(s) : s[j].steps \cap s[k].steps # {} => s[j].tier = s[k].tier
  BY CallsKnown, ScriptsGood DEF GoodScript
<1>4. s[i].steps \cap s[first].steps # {}
  BY <1>2
<1> HIDE DEF first
<1> QED BY <1>1, <1>2, <1>3, <1>4

\* The steps of a stage can be numbered.
LEMMA Numbered ==
  ASSUME NEW S, IsFiniteSet(S)
  PROVE  /\ Cardinality(S) \in Nat
         /\ \E b \in [S -> 1..Cardinality(S)] : \A x, y \in S : b[x] = b[y] => x = y
<1>1. Cardinality(S) \in Nat
  BY FS_CardinalityType
<1>2. IsFiniteSet(1..Cardinality(S)) /\ Cardinality(1..Cardinality(S)) = Cardinality(S)
  BY <1>1, FS_Interval
<1>3. ExistsBijection(S, 1..Cardinality(S))
  BY <1>2, FS_SameCardinalityBij
<1> QED BY <1>1, <1>3 DEF ExistsBijection, Bijection, Injection, IsInjective

\* As many calls of a tier are in the cloud as have a place there.
LEMMA CloudFits ==
  ASSUME LockInv, NEW t \in Tiers
  PROVE  IsFiniteSet(InCloud(t)) /\ Cardinality(InCloud(t)) =< Abreast[t]
<1> DEFINE steps(h) == Script[h][pc[h]].steps
           Numbering(h, b) == /\ b \in [steps(h) -> 1..Cardinality(steps(h))]
                              /\ \A x, y \in steps(h) : b[x] = b[y] => x = y
           seat == [h \in Handlers |-> CHOOSE b : Numbering(h, b)]
           f == [c \in InCloud(t) |-> <<c[1], seat[c[1]][c[2]]>>]
<1>1. ASSUME NEW h \in Running
      PROVE  h \in Handlers /\ pc[h] \in 1..Len(Script[h])
  <2>1. h \in Handlers /\ pc[h] # 0 /\ pc[h] # Over(h)
    BY DEF Running
  <2>2. pc[h] \in 0..Over(h) /\ Len(Script[h]) \in Nat
    BY <2>1, ScriptsGood DEF GoodScript, LockInv, Fields
  <2> QED BY <2>1, <2>2 DEF Over
<1>2. ASSUME NEW h \in Running
      PROVE  /\ Cardinality(steps(h)) \in Nat
             /\ seat[h] \in [steps(h) -> 1..Cardinality(steps(h))]
             /\ \A x, y \in steps(h) : seat[h][x] = seat[h][y] => x = y
  <2>1. IsFiniteSet(steps(h))
    BY <1>1, ScriptsGood DEF GoodScript
  <2>2. Cardinality(steps(h)) \in Nat /\ \E b : Numbering(h, b)
    BY <2>1, Numbered
  <2>3. seat[h] = CHOOSE b : Numbering(h, b)
    BY <1>1
  <2>4. Numbering(h, seat[h])
    <3> HIDE DEF Numbering, seat
    <3> QED BY <2>2, <2>3
  <2> QED BY <2>2, <2>4
<1> HIDE DEF seat
<1>3. ASSUME NEW c \in InCloud(t)
      PROVE  /\ c \in Calls /\ c = <<c[1], c[2]>> /\ c[1] \in Running
             /\ c[2] \in steps(c[1]) /\ Script[c[1]][pc[c[1]]].tier = t
  <2>1. c \in Calls /\ at[c] \in Live /\ Route[c] = t
    BY DEF InCloud, Live
  <2>2. c[1] \in Running /\ c[2] \in steps(c[1])
    BY <2>1, CallOfOne DEF LockInv, InStage
  <2>3. c = <<c[1], c[2]>>
    BY <2>1 DEF Calls
  <2> QED BY <1>1, <2>1, <2>2, <2>3, RouteOfStage
<1>4. ASSUME NEW c \in InCloud(t) PROVE f[c] \in Places(t)
  <2>1. c[1] \in Running /\ c[2] \in steps(c[1])
    BY <1>3
  <2>2. seat[c[1]][c[2]] \in 1..Cardinality(steps(c[1])) /\ Cardinality(steps(c[1])) \in Nat
    BY <1>2, <2>1
  <2>3. Cardinality(steps(c[1])) =< Width(c[1], t) /\ Width(c[1], t) \in Nat
    BY <1>1, <1>3, <2>1, WidthFits, StagesFit
  <2>4. seat[c[1]][c[2]] \in 1..Width(c[1], t)
    BY <2>2, <2>3
  <2> QED BY <1>1, <2>1, <2>4 DEF Places
<1>5. ASSUME NEW c \in InCloud(t), NEW d \in InCloud(t), f[c] = f[d] PROVE c = d
  <2>1. c[1] = d[1] /\ seat[c[1]][c[2]] = seat[d[1]][d[2]]
    BY <1>5
  <2>2. c[1] \in Running /\ c[2] \in steps(c[1]) /\ d[2] \in steps(c[1])
    BY <1>3, <2>1
  <2>3. c[2] = d[2]
    BY <1>2, <2>1, <2>2
  <2> QED BY <1>3, <2>1, <2>3
<1>6. f \in [InCloud(t) -> Places(t)]
  BY <1>4
<1>7. f \in Injection(InCloud(t), Places(t))
  BY <1>5, <1>6 DEF Injection, IsInjective
<1> HIDE DEF f
<1>8. IsFiniteSet(InCloud(t)) /\ Cardinality(InCloud(t)) =< Cardinality(Places(t))
  BY <1>7, PlacesCounted, FS_Injection
<1> QED BY <1>8, PlacesCounted

CloudAbreast ==
  \A t \in Tiers : IsFiniteSet(InCloud(t)) /\ Cardinality(InCloud(t)) =< Abreast[t]

LEMMA CloudNow == LockInv => CloudAbreast
BY CloudFits DEF CloudAbreast

LEMMA CloudNext == LockInv' => CloudAbreast'
BY CloudNow, PTL

LEMMA SpendTyped ==
  ASSUME LockInv, NEW t \in Tiers
  PROVE  /\ used[t] \in Nat /\ Lent(t) \in Nat /\ Cap[t] \in Nat /\ Abreast[t] \in Nat
         /\ IsFiniteSet(InCloud(t)) /\ Cardinality(InCloud(t)) \in Nat
<1>1. used[t] \in Nat /\ Lent(t) \in Nat /\ Cap[t] \in Nat
  BY RouterAssumption DEF LockInv, Fields, Lent
<1> QED BY <1>1, PlacesCounted, CloudFits, FS_CardinalityType

\* Fewer calls of a tier in the cloud, and no charge.
LEMMA TierKept ==
  ASSUME LockInv, SpendInv, UNCHANGED <<used, lent>>, NEW t \in Tiers,
         InCloud(t)' \subseteq InCloud(t)
  PROVE  WithinReach(t)'
<1>1. /\ Cardinality(InCloud(t)') \in Nat
      /\ Cardinality(InCloud(t)') =< Cardinality(InCloud(t))
  BY SpendTyped, FS_Subset, FS_CardinalityType
<1>2. WithinReach(t)
  BY DEF SpendInv
<1>3. used'[t] = used[t] /\ Lent(t)' = Lent(t)
  BY DEF Lent
<1> HIDE DEF InCloud, Lent
<1> QED BY <1>1, <1>2, <1>3, SpendTyped DEF WithinReach

\* A step after which no more calls are in the cloud, and that charges
\* nothing, keeps the bound.
LEMMA SpendKept ==
  ASSUME LockInv, SpendInv, UNCHANGED <<used, lent>>,
         \A c \in Calls : tier'[c] = tier[c] \/ tier'[c] = Route[c],
         \A c \in Calls : at'[c] = "cloud" => at[c] = "cloud" /\ tier'[c] = tier[c]
  PROVE  SpendInv'
<1>1. ASSUME NEW t \in Tiers PROVE WithinReach(t)'
  <2>1. InCloud(t)' \subseteq InCloud(t)
    BY DEF InCloud
  <2> QED BY <2>1, TierKept
<1>2. \A c \in Calls : tier'[c] # Route[c] => tier'[c] = "workhorse"
  BY DEF SpendInv
<1> QED BY <1>1, <1>2 DEF SpendInv

\* The stages' steps come and go without a charge.
LEMMA EnterSpends ==
  ASSUME LockInv, SpendInv, NEW h \in Handlers, NEW i, Enter(h, i), UNCHANGED books,
         \A c \in CallsOf[h] : at[c] \notin Live
  PROVE  SpendInv'
<1>1. PICK S : at' = [u \in Users |-> IF u \in {h} \X S THEN "ready"
                                     ELSE IF u \in CallsOf[h] THEN "none" ELSE at[u]]
  BY DEF Enter
<1>2. tier' = [c \in Calls |-> IF c[1] = h THEN Route[c] ELSE tier[c]]
  BY DEF Enter
<1>3. ASSUME NEW c \in Calls, at'[c] = "cloud"
      PROVE  at[c] = "cloud" /\ tier'[c] = tier[c]
  <2>1. c \in Users /\ (c[1] = h => c \in CallsOf[h])
    BY CallOfOne
  <2>2. c \notin {h} \X S /\ c \notin CallsOf[h] /\ at'[c] = at[c]
    BY <1>1, <1>3, <2>1
  <2> QED BY <1>2, <1>3, <2>1, <2>2
<1>4. \A c \in Calls : tier'[c] = tier[c] \/ tier'[c] = Route[c]
  BY <1>2
<1>5. UNCHANGED <<used, lent>>
  BY DEF books
<1> QED BY <1>3, <1>4, <1>5, SpendKept

LEMMA LoopSpends ==
  ASSUME LockInv, SpendInv, NEW h \in Handlers, Start(h) \/ Advance(h)
  PROVE  SpendInv'
<1>1. CASE Start(h)
  <2>1. \A c \in CallsOf[h] : at[c] \notin Live
    BY <1>1 DEF Start, LockInv, InStage, Running
  <2>2. Enter(h, 1) /\ UNCHANGED books
    BY <1>1 DEF Start
  <2> QED BY <2>1, <2>2, EnterSpends
<1>2. CASE Advance(h)
  <2>1. \A c \in CallsOf[h] : at[c] \notin Live
    <3> SUFFICES ASSUME NEW c \in CallsOf[h], at[c] \in Live PROVE FALSE
      OBVIOUS
    <3>1. c[2] \in Script[h][pc[h]].steps /\ c[1] = h /\ c = <<c[1], c[2]>>
      BY DEF LockInv, InStage, CallsOf, Calls
    <3>2. c \in StageCalls(h)
      BY <3>1 DEF StageCalls, Live
    <3> QED BY <1>2, <3>2 DEF Advance, Live
  <2>2. UNCHANGED books /\ \E i : Enter(h, i)
    BY <1>2 DEF Advance, End
  <2> QED BY <2>1, <2>2, EnterSpends
<1> QED BY <1>1, <1>2

\* The cap is looked up when the call goes to the cloud: below it there is
\* room for all that can be there at once; a capped reasoning call is not one
\* of those of the tier it goes to.
LEMMA InvokeSpends ==
  ASSUME LockInv, SpendInv, LockInv', NEW c \in Calls, Invoke(c)
  PROVE  SpendInv'
<1>1. c \in Users /\ \A d \in Calls : d \in Users
  BY DEF Users
<1>2. /\ tier'[c] = IF Capped(Route[c]) THEN Downgrade(Route[c]) ELSE Route[c]
      /\ at'[c] = "cloud" => ~Capped(Route[c]) \/ Downgrade(Route[c]) # Route[c]
      /\ \A d \in Calls : d # c => at'[d] = at[d] /\ tier'[d] = tier[d]
      /\ UNCHANGED <<used, lent>>
  BY <1>1 DEF Invoke, LockInv, Fields
<1>3. \A d \in Calls : tier'[d] # Route[d] => tier'[d] = "workhorse"
  BY <1>2 DEF SpendInv, Downgrade
<1>4. ASSUME NEW t \in Tiers PROVE WithinReach(t)'
  <2>1. CASE c \in InCloud(t)'
    <3>1. t = Route[c] /\ tier'[c] = t /\ at'[c] = "cloud"
      BY <2>1 DEF InCloud
    <3>2. used[t] < Cap[t]
      BY <1>2, <3>1, SpendTyped DEF Capped
    <3>3. Cardinality(InCloud(t)') =< Abreast[t] /\ Cardinality(InCloud(t)') \in Nat
      BY CloudNext, FS_CardinalityType DEF CloudAbreast
    <3>4. used'[t] = used[t] /\ Lent(t)' = Lent(t)
      BY <1>2 DEF Lent
    <3> HIDE DEF InCloud, Lent
    <3> QED BY <3>2, <3>3, <3>4, SpendTyped DEF WithinReach
  <2>2. CASE c \notin InCloud(t)'
    <3>1. InCloud(t)' \subseteq InCloud(t)
      BY <1>2, <2>2 DEF InCloud
    <3> QED BY <1>2, <3>1, TierKept
  <2> QED BY <2>1, <2>2
<1> QED BY <1>3, <1>4 DEF SpendInv

\* A charge moves a call from the cloud to the counter of the tier it ran on;
\* one that ran on another tier than it asked for is lent to that one.
LEMMA CloudAnswersSpends ==
  ASSUME LockInv, SpendInv, LockInv', NEW c \in Calls, CloudAnswers(c)
  PROVE  SpendInv'
<1>1. /\ at[c] = "cloud" /\ tier' = tier /\ RecordCost(c)
      /\ at'[c] \in {"returned", "raised"} /\ \A d \in Calls : d # c => at'[d] = at[d]
  BY DEF CloudAnswers, Complete, LockInv, Fields, Users
<1>2. tier[c] \in Tiers /\ \A t \in Tiers : used[t] \in Nat
  BY DEF LockInv, Fields
<1>3. \A t \in Tiers : used'[t] = IF t = tier[c] THEN used[t] + 1 ELSE used[t]
  BY <1>1 DEF RecordCost, LockInv, Fields
<1>4. ASSUME NEW t \in Tiers PROVE WithinReach(t)'
  <2>1. InCloud(t)' = InCloud(t) \ {c}
    BY <1>1 DEF InCloud
  <2>2. /\ IsFiniteSet(InCloud(t)') /\ Cardinality(InCloud(t)') \in Nat
        /\ Cardinality(InCloud(t)') = IF c \in InCloud(t) THEN Cardinality(InCloud(t)) - 1
                                      ELSE Cardinality(InCloud(t))
    BY <2>1, SpendTyped, FS_RemoveElement, FS_CardinalityType
  <2>3. WithinReach(t)
    BY DEF SpendInv
  <2>4. CASE t # tier[c]
    <3>1. c \notin InCloud(t)
      BY <2>4 DEF InCloud
    <3>2. used'[t] = used[t]
      BY <1>3, <2>4
    <3>3. Lent(t)' >= Lent(t) /\ Lent(t)' \in Nat
      BY <1>1 DEF RecordCost, Lent, LockInv, Fields
    <3> HIDE DEF InCloud, Lent
    <3> QED BY <2>2, <2>3, <3>1, <3>2, <3>3, SpendTyped DEF WithinReach
  <2>5. CASE t = tier[c] /\ Route[c] = t
    <3>1. c \in InCloud(t)
      BY <1>1, <2>5 DEF InCloud
    <3>2. used'[t] = used[t] + 1
      BY <1>3, <2>5
    <3>3. Lent(t)' = Lent(t)
      BY <1>1, <2>5 DEF RecordCost, Lent
    <3> HIDE DEF InCloud, Lent
    <3> QED BY <2>2, <2>3, <3>1, <3>2, <3>3, SpendTyped DEF WithinReach
  <2>6. CASE t = tier[c] /\ Route[c] # t
    <3>1. c \notin InCloud(t) /\ t = "workhorse"
      BY <2>6 DEF InCloud, SpendInv
    <3>2. used'[t] = used[t] + 1
      BY <1>3, <2>6
    <3>3. Lent(t)' = Lent(t) + 1
      BY <1>1, <2>6, <3>1 DEF RecordCost, Lent
    <3> HIDE DEF InCloud, Lent
    <3> QED BY <2>2, <2>3, <3>1, <3>2, <3>3, SpendTyped DEF WithinReach
  <2> QED BY <2>4, <2>5, <2>6
<1> QED BY <1>1, <1>4 DEF SpendInv

LEMMA NewDaySpends ==
  ASSUME LockInv, SpendInv, LockInv', NewDay
  PROVE  SpendInv'
<1>1. ASSUME NEW t \in Tiers PROVE WithinReach(t)'
  <2>1. used'[t] = 0 /\ Lent(t)' = 0
    BY DEF NewDay, Lent
  <2>2. Cardinality(InCloud(t)') =< Abreast[t] /\ Cardinality(InCloud(t)') \in Nat
    BY CloudNext, FS_CardinalityType DEF CloudAbreast
  <2>3. Cap[t] \in Nat /\ Cap[t] # 0
    BY RouterAssumption
  <2> HIDE DEF InCloud, Lent
  <2> QED BY <2>1, <2>2, <2>3, SpendTyped DEF WithinReach
<1> QED BY <1>1 DEF SpendInv, NewDay

\* The steps of the lock, of the watchdog and of the process send no call to
\* the cloud and charge nothing.
LEMMA OtherSpends ==
  ASSUME LockInv, SpendInv,
         \/ \E u \in Users : \/ u \in Calls /\ CloudFails(u)
                             \/ u \in Guests /\ Ask(u)
                             \/ TakePermit(u)
                             \/ TakeModel(u)
                             \/ LocalEnds(u)
         \/ \E c \in Calls : Sweep(c)
         \/ \E h \in Handlers : Timeout(h)
         \/ Restart
         \/ UNCHANGED vars
  PROVE  SpendInv'
<1>1. UNCHANGED <<used, lent, tier>>
  BY DEF CloudFails, Ask, TakePermit, TakeModel, LocalEnds, Sweep, Timeout, Restart, vars, books
<1>2. \A c \in Calls : c \in Users /\ c \notin Guests
  BY CallOfOne
<1>3. ASSUME NEW c \in Calls, at'[c] = "cloud" PROVE at[c] = "cloud"
  <2>1. at \in [Users -> Live \cup {"none", "returned", "raised", "gone"}]
    BY DEF LockInv, Fields
  <2>2. ASSUME NEW u \in Users, CloudFails(u) \/ Ask(u) \/ TakePermit(u) \/ TakeModel(u)
        PROVE  at[c] = "cloud"
    BY <1>2, <1>3, <2>1, <2>2 DEF CloudFails, Ask, TakePermit, TakeModel
  <2>3. ASSUME NEW u \in Users, LocalEnds(u) PROVE at[c] = "cloud"
    BY <1>2, <1>3, <2>1, <2>3 DEF LocalEnds, Complete
  <2>4. ASSUME NEW d \in Calls, Sweep(d) PROVE at[c] = "cloud"
    BY <1>3, <2>4 DEF Sweep
  <2>5. ASSUME NEW h \in Handlers, Timeout(h) PROVE at[c] = "cloud"
    BY <1>2, <1>3, <2>5 DEF Timeout
  <2>6. CASE Restart
    BY <1>2, <1>3, <2>6 DEF Restart
  <2>7. CASE UNCHANGED vars
    BY <1>3, <2>7 DEF vars
  <2> QED BY <2>2, <2>3, <2>4, <2>5, <2>6, <2>7
<1> QED BY <1>1, <1>3, SpendKept

LEMMA SpendInit == Init => SpendInv
<1> SUFFICES ASSUME Init PROVE SpendInv
  OBVIOUS
<1>1. ASSUME NEW t \in Tiers PROVE WithinReach(t)
  <2>1. InCloud(t) = {}
    BY DEF Init, InCloud, Users
  <2>2. Cardinality(InCloud(t)) = 0 /\ used[t] = 0 /\ Lent(t) = 0
    BY <2>1, FS_EmptySet DEF Init, Lent
  <2>3. Cap[t] \in Nat /\ Cap[t] # 0 /\ Abreast[t] \in Nat
    BY PlacesCounted, RouterAssumption
  <2> HIDE DEF InCloud, Lent
  <2> QED BY <2>2, <2>3 DEF WithinReach
<1> QED BY <1>1 DEF SpendInv, Init

LEMMA SpendNext == LockInv /\ SpendInv /\ [Next]_vars => SpendInv'
<1> SUFFICES ASSUME LockInv, SpendInv, [Next]_vars PROVE SpendInv'
  OBVIOUS
<1>1. LockInv'
  BY NextKeeps
<1>2. CASE \E h \in Handlers : Start(h) \/ Advance(h)
  BY <1>2, LoopSpends
<1>3. ASSUME NEW u \in Users, Progress(u) PROVE SpendInv'
  BY <1>1, <1>3, InvokeSpends, CloudAnswersSpends, OtherSpends DEF Progress
<1>4. CASE NewDay
  BY <1>1, <1>4, NewDaySpends
<1>5. CASE \/ \E c \in Calls : Sweep(c)
           \/ \E h \in Handlers : Timeout(h)
           \/ Restart
           \/ UNCHANGED vars
  BY <1>5, OtherSpends
<1> QED BY <1>2, <1>3, <1>4, <1>5 DEF Next, Work

\* Cloud spend: on any day, for every tier, cap, number of loops and width of
\* their stages, the charges pass the cap by less than the calls of the tier
\* that can be in the cloud at once and, on the workhorse tier, the capped
\* reasoning calls that were moved to it unseen.
THEOREM SpendStaysBounded == Spec => []SpendBounded
<1>1. LockInv /\ SpendInv => SpendBounded
  <2> SUFFICES ASSUME LockInv, SpendInv, NEW t \in Tiers
               PROVE  used[t] < Cap[t] + Abreast[t] + (IF t = "workhorse" THEN lent ELSE 0)
    BY DEF SpendBounded
  <2>1. used[t] < Cap[t] + Abreast[t] + Lent(t)
    <3>1. WithinReach(t)
      BY DEF SpendInv
    <3> QED BY <3>1, SpendTyped DEF WithinReach
  <2> QED BY <2>1 DEF Lent
<1>2. Spec => []SpendInv
  BY SpendInit, SpendNext, LockInvariant, PTL DEF Spec
<1> QED BY <1>1, <1>2, LockInvariant, PTL

----------------------------------------------------------------------------
(* Rows that were failed.                                                   *)

\* A dispatcher's call whose row is failed is not under way.
FailedDead == \A c \in Calls : c[1] \in Timed /\ run[c] = "failed" => at[c] \notin Live

\* A step that fails no row and sets nothing going that is failed.
LEMMA DeadKept ==
  ASSUME FailedDead,
         \A c \in Calls : run'[c] = "failed" /\ c[1] \in Timed =>
                            at'[c] \notin Live \/ (run[c] = "failed" /\ (at'[c] \in Live => at[c] \in Live))
  PROVE  FailedDead'
BY DEF FailedDead

LEMMA DeadEntering ==
  ASSUME LockInv, FailedDead, NEW h \in Handlers, NEW i, Enter(h, i)
  PROVE  FailedDead'
<1>1. PICK S : at' = [u \in Users |-> IF u \in {h} \X S THEN "ready"
                                     ELSE IF u \in CallsOf[h] THEN "none" ELSE at[u]]
  BY DEF Enter
<1>2. run' = [c \in Calls |-> IF c[1] = h /\ run[c] # "running" THEN "none" ELSE run[c]]
  BY DEF Enter
<1>3. ASSUME NEW c \in Calls, run'[c] = "failed"
      PROVE  run[c] = "failed" /\ at'[c] = at[c]
  <2>1. c[1] # h /\ run[c] = "failed"
    BY <1>2, <1>3
  <2>2. c \in Users /\ c \notin {h} \X S /\ c \notin CallsOf[h]
    BY <2>1, CallOfOne DEF CallsOf
  <2> QED BY <1>1, <2>1, <2>2
<1> QED BY <1>3, DeadKept

LEMMA DeadInit == Init => FailedDead
BY DEF Init, FailedDead

LEMMA DeadNext ==
  ASSUME LockInv, FailedDead, [Next]_vars
  PROVE  /\ FailedDead'
         /\ \A c \in Calls : run[c] = "failed" /\ run'[c] = "completed" => c[1] \notin Timed
<1> DEFINE Stands == \A c \in Calls : run[c] = "failed" /\ run'[c] = "completed" => c[1] \notin Timed
<1>1. \A c \in Calls : c \in Users /\ c \notin Guests
  BY CallOfOne
<1>2. /\ at \in [Users -> Live \cup {"none", "returned", "raised", "gone"}]
      /\ run \in [Calls -> {"none", "running", "completed", "failed"}]
  BY DEF LockInv, Fields
<1>3. ASSUME NEW h \in Handlers, NEW i, Enter(h, i) PROVE FailedDead' /\ Stands
  <2>1. \A c \in Calls : run'[c] \in {run[c], "none"}
    BY <1>3 DEF Enter
  <2> QED BY <1>3, <2>1, DeadEntering
<1>4. ASSUME NEW h \in Handlers, Start(h) \/ Advance(h) PROVE FailedDead' /\ Stands
  BY <1>3, <1>4 DEF Start, Advance, End
<1>5. ASSUME NEW c \in Calls, Invoke(c) PROVE FailedDead' /\ Stands
  <2>1. run' = [run EXCEPT ![c] = "running"] /\ \A d \in Calls : d # c => at'[d] = at[d]
    BY <1>1, <1>2, <1>5 DEF Invoke
  <2> QED BY <1>2, <2>1, DeadKept
<1>6. ASSUME NEW c \in Calls, CloudAnswers(c) \/ LocalEnds(c) PROVE FailedDead' /\ Stands
  <2>1. /\ at[c] \in Live
        /\ at'[c] \notin Live /\ \A d \in Calls : d # c => at'[d] = at[d] /\ run'[d] = run[d]
    BY <1>1, <1>2, <1>6 DEF CloudAnswers, LocalEnds, Ends, Complete, Live
  <2>2. c[1] \in Timed => run[c] # "failed"
    BY <2>1 DEF FailedDead
  <2>3. Stands
    BY <1>2, <2>1, <2>2
  <2> QED BY <2>1, <2>3, DeadKept
<1>7. ASSUME NEW u \in Users, \/ u \in Calls /\ CloudFails(u)
                              \/ u \in Guests /\ (Ask(u) \/ LocalEnds(u))
                              \/ TakePermit(u) \/ TakeModel(u)
      PROVE  FailedDead' /\ Stands
  <2>1. UNCHANGED run
    BY <1>7 DEF CloudFails, Ask, LocalEnds, TakePermit, TakeModel
  <2>2. \A c \in Calls : at'[c] \in Live => at[c] \in Live
    BY <1>1, <1>2, <1>7 DEF CloudFails, Ask, LocalEnds, TakePermit, TakeModel, Live
  <2> QED BY <2>1, <2>2, DeadKept
<1>8. ASSUME NEW c \in Calls, Sweep(c) PROVE FailedDead' /\ Stands
  <2>1. run' = [run EXCEPT ![c] = "failed"] /\ UNCHANGED at
    BY <1>8 DEF Sweep
  <2>2. c[1] \in Timed => at[c] \notin Live
    BY <1>8 DEF Sweep, SweepDue
  <2> QED BY <1>2, <2>1, <2>2, DeadKept
<1>9. ASSUME NEW h \in Handlers, Timeout(h) PROVE FailedDead' /\ Stands
  <2>1. UNCHANGED run /\ \A c \in Calls : at'[c] \in Live => at[c] \in Live
    BY <1>1, <1>2, <1>9 DEF Timeout, Live
  <2> QED BY <2>1, DeadKept
<1>10. ASSUME Restart PROVE FailedDead' /\ Stands
  <2>1. \A c \in Calls : run'[c] = "completed" => run[c] = "completed"
    BY <1>10 DEF Restart
  <2>2. \A c \in Calls : at'[c] \notin Live
    <3> SUFFICES ASSUME NEW c \in Calls, at'[c] \in Live PROVE FALSE
      OBVIOUS
    <3>1. c[1] \notin Running /\ at'[c] = at[c]
      BY <1>1, <1>10 DEF Restart, Live
    <3> QED BY <3>1, CallOfOne DEF LockInv, InStage
  <2> QED BY <2>1, <2>2, DeadKept
<1>11. ASSUME NewDay PROVE FailedDead' /\ Stands
  <2>1. UNCHANGED <<run, at>>
    BY <1>11 DEF NewDay
  <2> QED BY <2>1, DeadKept
<1>12. ASSUME UNCHANGED vars PROVE FailedDead' /\ Stands
  <2>1. UNCHANGED <<run, at>>
    BY <1>12 DEF vars
  <2> QED BY <2>1, DeadKept
<1> HIDE DEF Stands
<1>13. ASSUME NEW u \in Users, Progress(u) PROVE FailedDead' /\ Stands
  <2>1. u \in Calls \/ u \in Guests
    BY DEF Users
  <2> QED BY <1>5, <1>6, <1>7, <1>13, <2>1 DEF Progress
<1>14. FailedDead' /\ Stands
  <2>1. CASE Work
    BY <1>4, <1>8, <1>13, <2>1 DEF Work
  <2>2. CASE \E h \in Handlers : Timeout(h)
    BY <1>9, <2>2
  <2> QED BY <1>10, <1>11, <1>12, <2>1, <2>2 DEF Next
<1> QED BY <1>14 DEF Stands

\* "failed" is final for a dispatcher's call: neither the reap of a restart
\* nor the sweep fails the row of a call that may still complete it, for any
\* interleaving of timeouts, sweeps and restarts.
THEOREM FailuresStand == Spec => FailedStands
<1>1. LockInv /\ FailedDead /\ [Next]_vars =>
        [\A c \in Calls : run[c] = "failed" /\ run'[c] = "completed" => c[1] \notin Timed]_vars
  BY DeadNext
<1>2. Spec => []FailedDead
  <2>1. LockInv /\ FailedDead /\ [Next]_vars => FailedDead'
    BY DeadNext
  <2> QED BY <2>1, DeadInit, LockInvariant, PTL DEF Spec
<1> QED BY <1>1, <1>2, LockInvariant, PTL DEF Spec, FailedStands
=============================================================================
