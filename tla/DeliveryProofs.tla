--------------------------- MODULE DeliveryProofs ---------------------------
(***************************************************************************)
(* Proofs about DeliveryLog: the command log implements Once, plans hold   *)
(* no circles, what is delivered can be read, and the verdicts a task is   *)
(* accepted on stand.                                                      *)
(***************************************************************************)
EXTENDS DeliveryLog, FiniteSetTheorems, TLAPS

-----------------------------------------------------------------------------
(* The command log                                                         *)

Payloads == {payload_hash(m) : m \in Messages} \cup {<<>>}

LogTypes ==
    /\ planNo \in 0..MaxPlans
    /\ inbox \in [MessageIds -> [payload : Payloads,
                                 answer : AnswerRecords \cup {NoAnswer, Failure}]]
    /\ idem \in [Namespaces -> [payload : Payloads, answer : AnswerRecords \cup {NoAnswer}]]
    /\ ran \in [Namespaces -> Nat]
    /\ heard \in [Namespaces -> SUBSET AnswerRecords]

\* A row without an answer is no row.
RowsAnswer == \A k \in Namespaces : idem[k].answer = NoAnswer => idem[k] = NoRow

\* What the inbox remembers of a message is a failure, or what its key remembers.
InboxAgrees ==
    \A m \in Messages :
        InboxHit(m) => \/ inbox[m.id].answer = Failure
                       \/ /\ inbox[m.id].answer \in AnswerRecords
                          /\ inbox[m.id].answer = idem[Namespace(m)].answer

LogInv == LogTypes /\ RowsAnswer /\ InboxAgrees

\* Messages with one id and one payload are under one key.
LEMMA OneKey ==
    ASSUME NEW m \in Messages, NEW n \in Messages, m.id = n.id, payload_hash(m) = payload_hash(n)
    PROVE  Namespace(m) = Namespace(n)
BY MessageAssumption DEF Namespace, payload_hash

LEMMA MessageTypes ==
    ASSUME NEW m \in Messages
    PROVE  /\ m.id \in MessageIds /\ Namespace(m) \in Namespaces
           /\ payload_hash(m) \in Payloads
BY DEF MessageIds, Namespaces, Payloads

LEMMA LogInitial == Fresh => LogInv
<1> SUFFICES ASSUME Fresh PROVE LogInv
  OBVIOUS
<1>1. LogTypes
  BY DeliveryAssumption DEF Fresh, Init, LogInit, LogTypes, NoRow, Payloads
<1>2. RowsAnswer
  BY DEF Fresh, LogInit, RowsAnswer
<1>3. InboxAgrees
  BY MessageTypes DEF Fresh, LogInit, InboxAgrees, InboxHit
<1> QED
  BY <1>1, <1>2, <1>3 DEF LogInv

\* Only the activation of a plan numbers plans, within max_plan_revisions.
LEMMA PlanNumbers ==
    ASSUME planNo \in 0..MaxPlans, HumanCommand \/ Environment
    PROVE  planNo' \in 0..MaxPlans
<1>1. ASSUME NEW p, _activate_plan(p) PROVE planNo' \in 0..MaxPlans
  <2>1. planNo < MaxPlans /\ planNo' = planNo + 1
    BY <1>1, Zenon DEF _activate_plan, RevisionAllowed
  <2> QED
    BY <2>1, DeliveryAssumption
<1>2. CASE Environment
  BY <1>2 DEF Environment, AgentStep, PublishArtifact, ContextAppend, SubmitResult,
       SubmitSupersededResult, SubmitLateResult, StartRun, StopRun, Crash, Reconcile, planVars
<1>3. CASE HumanCommand
  BY <1>1, <1>3 DEF HumanCommand, ActivatePlan, RequestRepairPlan, DispatchReadyRuns,
       PrepareAcceptance, AcceptResult, RejectResult, planVars
<1> QED
  BY <1>2, <1>3

\* What a handled message reports is a record of what was done.
LEMMA AnswersAreRecords ==
    ASSUME NEW m \in Messages, planNo \in 0..MaxPlans, Handle(m)
    PROVE  AnswerTo(m) \in AnswerRecords /\ planNo' \in 0..MaxPlans
<1>1. Dispatched \subseteq Runs
  BY DEF Dispatched, NextRun, FreshRuns
<1>2. CASE m.op = "activate_plan" /\ ActivatePlan(m.body)
  <2>1. planNo < MaxPlans /\ planNo' = planNo + 1
    BY <1>2, Zenon DEF ActivatePlan, _activate_plan, RevisionAllowed
  <2> QED
    BY <1>2, <2>1, DeliveryAssumption DEF AnswerTo, AnswerRecords
<1>3. CASE m.op = "dispatch_ready_runs" /\ DispatchReadyRuns
  <2>1. UNCHANGED planNo
    BY <1>3 DEF DispatchReadyRuns, planVars
  <2> QED
    BY <1>1, <1>3, <2>1, DeliveryAssumption DEF AnswerTo, AnswerRecords
<1> QED
  BY <1>2, <1>3 DEF Handle

LEMMA LogInductive ==
    ASSUME LogInv, [LogNext]_vars
    PROVE  LogInv'
<1> USE DEF LogInv
<1>1. CASE UNCHANGED vars
  BY <1>1 DEF vars, deliveryVars, planVars, logVars, LogTypes, RowsAnswer, InboxAgrees, InboxHit
<1>2. CASE (HumanCommand \/ Environment) /\ UNCHANGED logVars
  <2>1. planNo' \in 0..MaxPlans
    BY <1>2, PlanNumbers DEF LogTypes
  <2> QED
    BY <1>2, <2>1 DEF logVars, LogTypes, RowsAnswer, InboxAgrees, InboxHit
<1>3. ASSUME NEW m \in Messages, Execute(m)
      PROVE  LogInv'
  <2> DEFINE k == Namespace(m)
  <2>0. m.id \in MessageIds /\ k \in Namespaces /\ payload_hash(m) \in Payloads
    BY MessageTypes
  <2>1. CASE AnswerFromInbox(m) /\ UNCHANGED deliveryVars
    <3>1. inbox[m.id].answer \in AnswerRecords \cup {Failure}
      BY <2>1 DEF AnswerFromInbox, InboxAgrees
    <3>2. LogTypes'
      BY <2>0, <2>1, <3>1 DEF AnswerFromInbox, Hear, LogTypes, deliveryVars, planVars
    <3> QED
      BY <2>1, <3>2 DEF AnswerFromInbox, RowsAnswer, InboxAgrees, InboxHit
  <2>2. CASE AnswerFromKey(m) /\ UNCHANGED deliveryVars
    <3>1. idem[k].answer \in AnswerRecords
      BY <2>0, <2>2 DEF AnswerFromKey, RowsAnswer, LogTypes
    <3>2. LogTypes'
      BY <2>0, <2>2, <3>1, AnswerAssumption
      DEF AnswerFromKey, InboxRow, Hear, LogTypes, deliveryVars, planVars
    <3>3. InboxAgrees'
      <4> SUFFICES ASSUME NEW n \in Messages, InboxHit(n)'
                   PROVE  \/ inbox'[n.id].answer = Failure
                          \/ /\ inbox'[n.id].answer \in AnswerRecords
                             /\ inbox'[n.id].answer = idem'[Namespace(n)].answer
        BY DEF InboxAgrees
      <4>1. CASE n.id = m.id
        <5>1. inbox'[n.id] = [payload |-> payload_hash(m), answer |-> idem[k].answer]
          BY <2>0, <2>2, <4>1 DEF AnswerFromKey, InboxRow, LogTypes
        <5>2. Namespace(n) = k
          BY <4>1, <5>1, OneKey DEF InboxHit
        <5> QED
          BY <2>2, <3>1, <5>1, <5>2 DEF AnswerFromKey
      <4>2. CASE n.id # m.id
        BY <2>0, <2>2, <4>2, MessageTypes
        DEF AnswerFromKey, InboxRow, InboxAgrees, InboxHit, LogTypes
      <4> QED
        BY <4>1, <4>2
    <3> QED
      BY <2>2, <3>2, <3>3 DEF AnswerFromKey, RowsAnswer
  <2>3. CASE FirstSeen(m) /\ Handle(m) /\ Store(m, AnswerTo(m))
    <3> DEFINE a == AnswerTo(m)
    <3>1. a \in AnswerRecords /\ planNo' \in 0..MaxPlans
      BY <2>3, AnswersAreRecords DEF LogTypes
    <3> HIDE DEF a
    <3>2. /\ idem' = [idem EXCEPT ![k] = [payload |-> payload_hash(m), answer |-> a]]
          /\ inbox' = [inbox EXCEPT ![m.id] = [payload |-> payload_hash(m), answer |-> a]]
          /\ ran' = [ran EXCEPT ![k] = @ + 1]
          /\ \/ heard' = [heard EXCEPT ![k] = @ \cup ({a} \ {Failure})]
             \/ UNCHANGED heard
      BY <2>3 DEF Store, _store_idempotency, InboxRow, Hear, a
    <3>3. LogTypes'
      BY <2>0, <3>1, <3>2 DEF LogTypes
    <3>4. RowsAnswer'
      BY <2>0, <3>1, <3>2, AnswerAssumption DEF RowsAnswer, LogTypes
    <3>5. InboxAgrees'
      <4> SUFFICES ASSUME NEW n \in Messages, InboxHit(n)'
                   PROVE  \/ inbox'[n.id].answer = Failure
                          \/ /\ inbox'[n.id].answer \in AnswerRecords
                             /\ inbox'[n.id].answer = idem'[Namespace(n)].answer
        BY DEF InboxAgrees
      <4>1. CASE n.id = m.id
        <5>1. inbox'[n.id] = [payload |-> payload_hash(m), answer |-> a]
          BY <2>0, <3>2, <4>1 DEF LogTypes
        <5>2. Namespace(n) = k
          BY <4>1, <5>1, OneKey DEF InboxHit
        <5>3. idem'[k].answer = a
          BY <2>0, <3>2 DEF LogTypes
        <5> QED
          BY <3>1, <5>1, <5>2, <5>3
      <4>2. CASE n.id # m.id
        <5>1. inbox'[n.id] = inbox[n.id] /\ InboxHit(n)
          BY <2>0, <3>2, <4>2, MessageTypes DEF InboxHit, LogTypes
        <5>2. CASE inbox[n.id].answer = Failure
          BY <5>1, <5>2
        <5>3. CASE /\ inbox[n.id].answer \in AnswerRecords
                   /\ inbox[n.id].answer = idem[Namespace(n)].answer
          <6>1. Namespace(n) # k
            BY <2>3, <5>3, AnswerAssumption DEF FirstSeen, NoRow
          <6> QED
            BY <2>0, <3>2, <5>1, <5>3, <6>1, MessageTypes DEF LogTypes
        <5> QED
          BY <5>1, <5>2, <5>3 DEF InboxAgrees
      <4> QED
        BY <4>1, <4>2
    <3> QED
      BY <3>3, <3>4, <3>5
  <2>4. CASE FirstSeen(m) /\ StoreFailure(m) /\ UNCHANGED deliveryVars
    <3>1. LogTypes'
      BY <2>0, <2>4 DEF StoreFailure, InboxRow, LogTypes, deliveryVars, planVars
    <3>2. InboxAgrees'
      BY <2>0, <2>4, MessageTypes DEF StoreFailure, InboxRow, InboxAgrees, InboxHit, LogTypes
    <3> QED
      BY <2>4, <3>1, <3>2 DEF StoreFailure, RowsAnswer
  <2> QED
    BY <1>3, <2>1, <2>2, <2>3, <2>4 DEF Execute
<1> QED
  BY <1>1, <1>2, <1>3 DEF LogNext

LEMMA LogInvariance == LogSpec => []LogInv
<1>1. LogInv /\ [LogNext]_vars => LogInv'
  BY LogInductive
<1> QED
  BY LogInitial, <1>1, PTL DEF LogSpec

\* Every step of the log is a step of Once or leaves what Once sees alone.
LEMMA LogStepRefines ==
    ASSUME LogInv, [LogNext]_vars
    PROVE  [OnceLog!OnceNext]_(OnceLog!onceVars)
<1> USE DEF LogInv
<1>1. CASE UNCHANGED <<idem, ran, heard>>
  BY <1>1 DEF OnceLog!onceVars
<1>2. ASSUME NEW m \in Messages, Execute(m)
      PROVE  [OnceLog!OnceNext]_(OnceLog!onceVars)
  <2> DEFINE k == Namespace(m)
             eff == [j \in Namespaces |-> idem[j].answer]
             Told(a) == \/ heard' = [heard EXCEPT ![k] = @ \cup ({a} \ {Failure})]
                        \/ UNCHANGED heard
  <2>0. m.id \in MessageIds /\ k \in Namespaces /\ payload_hash(m) \in Payloads
    BY MessageTypes
  \* An answer that Once knows of is told.
  <2>1. ASSUME UNCHANGED <<idem, ran>>,
               NEW a, Told(a), a = Failure \/ (a \in AnswerRecords /\ a = idem[k].answer)
        PROVE  [OnceLog!OnceNext]_(OnceLog!onceVars)
    <3>1. CASE UNCHANGED heard
      BY <1>1, <2>1, <3>1
    <3>2. CASE a = Failure /\ heard' = [heard EXCEPT ![k] = @ \cup ({a} \ {Failure})]
      <4>1. UNCHANGED heard
        BY <3>2, <2>0 DEF LogTypes
      <4> QED
        BY <1>1, <2>1, <4>1
    <3>3. CASE /\ a \in AnswerRecords /\ a = idem[k].answer
               /\ heard' = [heard EXCEPT ![k] = @ \cup ({a} \ {Failure})]
      <4>1. eff[k] = a /\ a # NoAnswer /\ a # Failure
        BY <2>0, <3>3, AnswerAssumption
      <4>2. heard' = [heard EXCEPT ![k] = @ \cup {eff[k]}]
        BY <3>3, <4>1
      <4>3. eff' = eff
        BY <2>1
      <4>4. OnceLog!Tell(k)
        BY <2>1, <4>1, <4>2, <4>3 DEF OnceLog!Tell
      <4> QED
        BY <2>0, <4>4 DEF OnceLog!OnceNext
    <3> QED
      BY <2>1, <3>1, <3>2, <3>3
  <2>2. CASE AnswerFromInbox(m)
    BY <2>1, <2>2 DEF AnswerFromInbox, Hear, InboxAgrees
  <2>3. CASE AnswerFromKey(m)
    <3>1. idem[k].answer \in AnswerRecords
      BY <2>0, <2>3 DEF AnswerFromKey, RowsAnswer, LogTypes
    <3> QED
      BY <2>1, <2>3, <3>1 DEF AnswerFromKey, Hear
  \* A handler that succeeds does what Once allows once.
  <2>4. CASE FirstSeen(m) /\ Handle(m) /\ Store(m, AnswerTo(m))
    <3> DEFINE a == AnswerTo(m)
    <3>1. a \in AnswerRecords /\ a # Failure
      BY <2>4, AnswersAreRecords, AnswerAssumption DEF LogTypes
    <3> HIDE DEF a
    <3>2. /\ idem' = [idem EXCEPT ![k] = [payload |-> payload_hash(m), answer |-> a]]
          /\ ran' = [ran EXCEPT ![k] = @ + 1]
          /\ Told(a)
      BY <2>4 DEF Store, _store_idempotency, Hear, a
    <3>3. eff[k] = NoAnswer
      BY <2>0, <2>4 DEF FirstSeen, NoRow
    <3>4. eff' = [eff EXCEPT ![k] = a]
      BY <2>0, <3>2 DEF LogTypes
    <3>5. \/ heard' = [heard EXCEPT ![k] = @ \cup {a}]
          \/ UNCHANGED heard
      BY <3>1, <3>2
    <3>6. OnceLog!Do(k)
      BY <3>1, <3>2, <3>3, <3>4, <3>5 DEF OnceLog!Do
    <3> QED
      BY <2>0, <3>6 DEF OnceLog!OnceNext
  <2>5. CASE StoreFailure(m)
    BY <1>1, <2>5 DEF StoreFailure
  <2> QED
    BY <1>2, <2>2, <2>3, <2>4, <2>5 DEF Execute
<1> QED
  BY <1>1, <1>2 DEF LogNext, vars, logVars

\* The command log implements Once: a command takes effect at most once under its
\* idempotency key, however often and in whatever order its messages are delivered,
\* and every success a caller is told of is that one (service.py, _execute_in_tx).
THEOREM LogImplementsOnce == LogSpec => CommandsTakeEffectOnce
<1>1. Fresh => OnceLog!OnceInit
  BY DEF Fresh, LogInit, NoRow, OnceLog!OnceInit
<1>2. LogInv /\ [LogNext]_vars => [OnceLog!OnceNext]_(OnceLog!onceVars)
  BY LogStepRefines
<1> QED
  BY LogInvariance, <1>1, <1>2, PTL DEF LogSpec, CommandsTakeEffectOnce, OnceLog!OnceSpec

-----------------------------------------------------------------------------
(* Numbers                                                                 *)

LEMMA NatMin ==
    ASSUME NEW T \in SUBSET Nat, T # {}
    PROVE  \E x \in T : \A y \in T : x <= y
<1> DEFINE R == {s \in Nat \X Nat : s[1] < s[2]}
<1>1. IsWellFoundedOn(R, Nat)
  <2>1. R = OpToRel(<, Nat)
    BY DEF OpToRel
  <2> QED
    BY <2>1, NatLessThanWellFounded
<1>2. PICK x \in T : \A y \in T : ~(<<y, x>> \in R)
  <2> HIDE DEF R
  <2> QED
    BY <1>1, WFMin
<1>3. ASSUME NEW y \in T PROVE x <= y
  <2>1. CASE y < x
    <3>1. <<y, x>> \in R
      BY <2>1
    <3> QED
      BY <1>2, <3>1
  <2> QED
    BY <2>1
<1> QED
  BY <1>3

LEMMA NatMax ==
    ASSUME NEW S \in SUBSET Nat, S # {}, NEW n \in Nat, \A s \in S : s <= n
    PROVE  \E x \in S : \A y \in S : y <= x
<1> DEFINE T == {m \in Nat : \A s \in S : s <= m}
<1>1. PICK x \in T : \A y \in T : x <= y
  <2>1. T \in SUBSET Nat /\ n \in T
    OBVIOUS
  <2> QED
    BY <2>1, NatMin
<1>2. CASE x \in S
  BY <1>1, <1>2
<1>3. CASE x \notin S
  <2>1. \A s \in S : s <= x /\ s # x /\ s \in Nat
    BY <1>1, <1>3
  <2>2. x # 0
    <3>1. PICK s \in S : TRUE
      OBVIOUS
    <3> QED
      BY <1>1, <2>1, <3>1
  <2>3. x - 1 \in T
    BY <1>1, <2>1, <2>2
  <2> QED
    BY <1>1, <2>3
<1> QED
  BY <1>2, <1>3

-----------------------------------------------------------------------------
(* The rows of a delivery                                                  *)

WuRecords ==
    [status : WorkUnitStatuses, active : Runs \cup {NoRun},
     selected : Runs \cup {NoRun}, verdict : Verdicts, verified : Digests]
EvidenceRecords ==
    [no : Nat, crit : Criteria, hash : Contents,
     verdict : {"PASS", "FAIL"}, unit : Units, run : Runs]
ArtStates == {"none", "named", "backed"}
EvidenceRuns == {e.run : e \in evid}

RunTypes ==
    /\ wu \in [Units -> WuRecords]
    /\ run \in [Runs -> RunStatuses]
    /\ agent \in [Runs -> {"none", "working", "stopped", "gone"}]
    /\ owner \in [Units -> Runs \cup {NoRun}]
TaskTypes ==
    /\ state \in TaskStates
    /\ plan \in PlanRecords
    /\ \A d \in DOMAIN decisions :
          decisions[d] \in {"PENDING", "APPROVED", "REJECTED", "SUPERSEDED"}
ArtTypes ==
    /\ art \in [Contents -> ArtStates]
    /\ store \subseteq Contents
    /\ evid \subseteq EvidenceRecords
    /\ inputs \in [Runs -> SUBSET Contents]
    /\ result = [r \in Runs |-> result[r]]
    /\ \A r \in Runs : result[r] \in ResultsOf[UnitOf[r]] \cup {NoResult}
DTypes == RunTypes /\ TaskTypes /\ ArtTypes

\* What the steps of DeliveryLog do to a delivery.
DeliveryStep ==
    \/ \E p \in PlanRecords : _activate_plan(p)
    \/ DispatchReadyRuns
    \/ PrepareAcceptance
    \/ \E d \in DOMAIN decisions : AcceptResult(d) \/ RejectResult(d)
    \/ Environment

LEMMA LogSteps ==
    ASSUME [LogNext]_vars
    PROVE  DeliveryStep \/ UNCHANGED deliveryVars
<1>1. ASSUME NEW n \in PlanNames PROVE PlanOf[n] \in PlanRecords
  BY <1>1, DeliveryAssumption
<1>2. CASE HumanCommand
  BY <1>1, <1>2 DEF HumanCommand, ActivatePlan, RequestRepairPlan, DeliveryStep
<1>3. ASSUME NEW m \in Messages, Execute(m) PROVE DeliveryStep \/ UNCHANGED deliveryVars
  BY <1>1, <1>3, AnswerAssumption DEF Execute, Handle, ActivatePlan, DeliveryStep
<1> QED
  BY <1>2, <1>3 DEF LogNext, DeliveryStep, vars

\* The digest a result verifies is one it lists and the core holds.
LEMMA VerifiedIsHeld ==
    ASSUME NEW x, IsResult(x), NEW rows, HeldRefs(x, rows) # {}, NEW old
    PROVE  /\ VerifiedDigest(old, x, rows) \in Contents
           /\ rows[VerifiedDigest(old, x, rows)] = "backed"
<1>1. ListedRefs(x) \in Seq(Contents)
  BY DEF IsResult, ListedRefs
<1>2. HeldRefs(x, rows) \in SUBSET Nat
  BY <1>1 DEF HeldRefs
<1>3. \E i \in HeldRefs(x, rows) : \A j \in HeldRefs(x, rows) : i <= j
  BY <1>2, NatMin
<1> DEFINE i == CHOOSE i \in HeldRefs(x, rows) : \A j \in HeldRefs(x, rows) : i <= j
<1>4. i \in HeldRefs(x, rows)
  BY <1>3
<1>5. VerifiedDigest(old, x, rows) = ListedRefs(x)[i]
  BY DEF VerifiedDigest
<1> HIDE DEF i
<1> QED
  BY <1>1, <1>4, <1>5 DEF HeldRefs

LEMMA DTypesInitial == Fresh => DTypes
<1> SUFFICES ASSUME Fresh PROVE DTypes
  OBVIOUS
<1>1. RunTypes
  BY DEF Fresh, Init, RunTypes, WuRecords, WorkUnitStatuses, Verdicts, Digests, RunStatuses
<1>2. TaskTypes
  BY DEF Fresh, Init, TaskTypes, TaskStates, PlanRecords
<1>3. ArtTypes
  BY DEF Fresh, Init, ArtTypes, ArtStates
<1> QED
  BY <1>1, <1>2, <1>3 DEF DTypes

LEMMA DTypesInductive ==
    ASSUME DTypes, DeliveryStep
    PROVE  DTypes'
<1> USE DEF DTypes
<1>0. UnitOf \in [Runs -> Units]
  BY DeliveryAssumption
<1>1. ASSUME NEW p \in PlanRecords, _activate_plan(p) PROVE DTypes'
  <2>1. RunTypes'
    BY <1>1 DEF _activate_plan, RunTypes, WuRecords, WorkUnitStatuses, RunStatuses
  <2>2. TaskTypes'
    BY <1>1 DEF _activate_plan, _supersede_pending_acceptance, PlanActivated, TaskTypes, TaskStates
  <2>3. ArtTypes'
    BY <1>1 DEF _activate_plan, artVars, ArtTypes
  <2> QED
    BY <2>1, <2>2, <2>3
<1>2. CASE DispatchReadyRuns
  <2>1. ASSUME NEW u \in Units, FreshRuns(u) # {} PROVE NextRun(u) \in Runs /\ UnitOf[NextRun(u)] = u
    BY <2>1 DEF NextRun, FreshRuns
  <2>2. RunTypes'
    <3>1. wu' \in [Units -> WuRecords]
      <4> SUFFICES ASSUME NEW u \in Units PROVE wu'[u] \in WuRecords
        BY <1>2 DEF DispatchReadyRuns
      <4>1. wu[u] \in WuRecords
        BY DEF RunTypes
      <4>2. {"BLOCKED", "RUNNING"} \subseteq WorkUnitStatuses
        BY DEF WorkUnitStatuses
      <4>3. \/ wu'[u] = wu[u]
            \/ wu'[u] = [wu[u] EXCEPT !.status = "BLOCKED"]
            \/ /\ FreshRuns(u) # {}
               /\ wu'[u] = [wu[u] EXCEPT !.status = "RUNNING", !.active = NextRun(u)]
        BY <1>2 DEF DispatchReadyRuns
      <4>4. CASE wu'[u] = [wu[u] EXCEPT !.status = "BLOCKED"]
        BY <4>1, <4>2, <4>4 DEF WuRecords
      <4>5. CASE /\ FreshRuns(u) # {}
                 /\ wu'[u] = [wu[u] EXCEPT !.status = "RUNNING", !.active = NextRun(u)]
        BY <2>1, <4>1, <4>2, <4>5 DEF WuRecords
      <4> QED
        BY <4>1, <4>3, <4>4, <4>5
    <3>2. run' \in [Runs -> RunStatuses] /\ UNCHANGED agent
      BY <1>2 DEF DispatchReadyRuns, RunTypes, RunStatuses
    <3>3. owner' \in [Units -> Runs \cup {NoRun}]
      <4>1. Dispatched \subseteq Runs
        BY <2>1 DEF Dispatched
      <4> QED
        BY <1>2, <4>1 DEF DispatchReadyRuns, RunTypes
    <3> QED
      BY <3>1, <3>2, <3>3 DEF RunTypes
  <2>3. TaskTypes'
    BY <1>2 DEF DispatchReadyRuns, taskVars, planVars, TaskTypes
  <2>4. ArtTypes'
    <3>1. \A r \in Runs : _build_context_manifest(UnitOf[r]) \subseteq Contents
      BY <1>0 DEF _build_context_manifest, RunTypes, TaskTypes, WuRecords, Digests, PlanRecords,
           EdgeRecords
    <3> QED
      BY <1>2, <3>1 DEF DispatchReadyRuns, ArtTypes
  <2> QED
    BY <2>2, <2>3, <2>4
<1>3. CASE PrepareAcceptance
  BY <1>3 DEF PrepareAcceptance, AcceptanceReady, planVars, runVars, artVars, RunTypes, TaskTypes,
       TaskStates, ArtTypes
<1>4. ASSUME NEW d \in DOMAIN decisions, AcceptResult(d) \/ RejectResult(d) PROVE DTypes'
  BY <1>4 DEF AcceptResult, RejectResult, FinalAccepted, DecisionResolved, planVars, runVars,
       artVars, RunTypes, TaskTypes, TaskStates, ArtTypes
<1>5. ASSUME NEW r \in Runs, StartRun(r) PROVE DTypes'
  BY <1>5 DEF StartRun, taskVars, planVars, artVars, RunTypes, RunStatuses, TaskTypes, ArtTypes
<1>6. ASSUME NEW r \in Runs, StopRun(r) PROVE DTypes'
  <2>1. RunTypes'
    <3> DEFINE u == UnitOf[r]
    <3>1. u \in Units /\ wu[u] \in WuRecords
      BY <1>0 DEF RunTypes
    <3>2. wu' \in [Units -> WuRecords]
      <4>1. CASE UNCHANGED wu
        BY <4>1 DEF RunTypes
      <4>2. CASE wu' = [wu EXCEPT ![u].active = NoRun,
                                  ![u].status = IF @ = "RUNNING" THEN "PENDING" ELSE @]
        BY <3>1, <4>2 DEF RunTypes, WuRecords, WorkUnitStatuses
      <4> QED
        BY <1>6, <4>1, <4>2 DEF StopRun
    <3>3. /\ run' \in [Runs -> RunStatuses]
          /\ agent' \in [Runs -> {"none", "working", "stopped", "gone"}]
          /\ owner' \in [Units -> Runs \cup {NoRun}]
      BY <1>6 DEF StopRun, RunTypes, RunStatuses
    <3> QED
      BY <3>2, <3>3 DEF RunTypes
  <2> QED
    BY <1>6, <2>1 DEF StopRun, taskVars, planVars, artVars, TaskTypes, ArtTypes
<1>7. CASE Crash
  BY <1>7 DEF Crash, taskVars, planVars, artVars, RunTypes, TaskTypes, ArtTypes
<1>8. ASSUME NEW H \in SUBSET Runs, Reconcile(H) PROVE DTypes'
  <2>1. RunTypes'
    <3>1. wu' \in [Units -> WuRecords]
      <4> SUFFICES ASSUME NEW u \in Units PROVE wu'[u] \in WuRecords
        BY <1>8 DEF Reconcile
      <4> DEFINE lost == {r \in Runs : run[r] = "RUNNING" /\ agent[r] = "gone"}
                 x == [wu[u] EXCEPT !.active = IF @ \in lost THEN NoRun ELSE @]
      <4>1. x \in WuRecords
        <5>1. wu[u] \in WuRecords
          BY DEF RunTypes
        <5> QED
          BY <5>1 DEF WuRecords
      <4>2. wu'[u] = x \/ \E s \in {"BLOCKED", "PENDING"} : wu'[u] = [x EXCEPT !.status = s]
        BY <1>8 DEF Reconcile
      <4>3. {"BLOCKED", "PENDING"} \subseteq WorkUnitStatuses
        BY DEF WorkUnitStatuses
      <4> HIDE DEF x
      <4> QED
        BY <4>1, <4>2, <4>3 DEF WuRecords
    <3>2. run' \in [Runs -> RunStatuses] /\ UNCHANGED agent
      BY <1>8 DEF Reconcile, RunTypes, RunStatuses
    <3>3. owner' \in [Units -> Runs \cup {NoRun}]
      BY <1>8 DEF Reconcile, RunTypes
    <3> QED
      BY <3>1, <3>2, <3>3 DEF RunTypes
  <2>2. TaskTypes'
    BY <1>8 DEF Reconcile, planVars, BlockingGateOpened, TaskTypes, TaskStates
  <2>3. ArtTypes'
    BY <1>8 DEF Reconcile, artVars, ArtTypes
  <2> QED
    BY <2>1, <2>2, <2>3
<1>9. ASSUME NEW r \in Runs, NEW c \in Contents, NEW committed, PublishArtifact(r, c, committed)
      PROVE  DTypes'
  BY <1>9 DEF PublishArtifact, PublishedRow, taskVars, planVars, runVars, RunTypes, TaskTypes,
       ArtTypes, ArtStates
<1>10. ASSUME NEW r \in Runs, NEW c \in Contents, ContextAppend(r, c) PROVE DTypes'
  BY <1>10 DEF ContextAppend, taskVars, planVars, runVars, RunTypes, TaskTypes, ArtTypes
<1>11. ASSUME NEW r \in Runs, NEW x \in ResultsOf[UnitOf[r]], SubmitLateResult(r, x) PROVE DTypes'
  BY <1>11 DEF SubmitLateResult, Reports, taskVars, planVars, runVars, RunTypes, TaskTypes, ArtTypes
<1>12. ASSUME NEW r \in Runs, NEW x \in ResultsOf[UnitOf[r]], SubmitSupersededResult(r, x)
       PROVE  DTypes'
  <2>1. RunTypes'
    <3>1. wu' = [wu EXCEPT ![UnitOf[r]] = [wu[UnitOf[r]] EXCEPT !.active = NoRun]]
      BY <1>12 DEF SubmitSupersededResult
    <3>2. wu' \in [Units -> WuRecords]
      <4>1. [wu[UnitOf[r]] EXCEPT !.active = NoRun] \in WuRecords
        BY <1>0 DEF RunTypes, WuRecords
      <4> QED
        BY <1>0, <3>1, <4>1 DEF RunTypes
    <3> QED
      BY <1>12, <3>2 DEF SubmitSupersededResult, RunTypes, RunStatuses
  <2>2. TaskTypes'
    BY <1>12 DEF SubmitSupersededResult, taskVars, planVars, TaskTypes
  <2>3. ArtTypes'
    BY <1>12 DEF SubmitSupersededResult, Reports, NamedRow, ArtTypes, ArtStates
  <2> QED
    BY <2>1, <2>2, <2>3
<1>13. ASSUME NEW r \in Runs, NEW x \in ResultsOf[UnitOf[r]], SubmitResult(r, x) PROVE DTypes'
  <2> DEFINE u == UnitOf[r]
             rows == [c \in Contents |-> NamedRow(c, x)]
  <2>1. IsResult(x) /\ u \in Units
    BY <1>0, DeliveryAssumption
  <2>2. rows \in [Contents -> ArtStates]
    BY DEF ArtTypes, NamedRow, ArtStates
  <2>3. VerifiedDigest(wu[u].verified, x, rows) \in Digests
    <3>1. CASE HeldRefs(x, rows) = {}
      BY <2>1, <3>1 DEF VerifiedDigest, RunTypes, WuRecords
    <3>2. CASE HeldRefs(x, rows) # {}
      BY <2>1, <3>2, VerifiedIsHeld DEF Digests
    <3> QED
      BY <3>1, <3>2
  <2>4. /\ run' = [run EXCEPT ![r] = "SUCCEEDED"]
        /\ art' = rows
        /\ wu' = [wu EXCEPT ![u] =
                IF x.outcome = "BLOCKED"
                THEN [@ EXCEPT !.status = "BLOCKED", !.active = NoRun]
                ELSE [status |-> "DONE", active |-> NoRun, selected |-> r, verdict |-> x.verdict,
                      verified |-> VerifiedDigest(wu[u].verified, x, rows)]]
        /\ evid' = IF x.outcome = "BLOCKED" THEN evid ELSE evid \cup EvidenceRows(r, x)
        /\ state' = _maybe_advance_verify_task_state(u, x)
        /\ result' = [result EXCEPT ![r] = x]
        /\ UNCHANGED <<decisions, planVars, agent, owner, store, inputs>>
    BY <1>13 DEF SubmitResult, Reports
  <2>5. RunTypes'
    <3> HIDE DEF rows, u
    <3>1. wu[u] \in WuRecords
      BY <2>1 DEF RunTypes
    <3>2. [wu[u] EXCEPT !.status = "BLOCKED", !.active = NoRun] \in WuRecords
      BY <3>1 DEF WuRecords, WorkUnitStatuses
    <3>3. [status |-> "DONE", active |-> NoRun, selected |-> r, verdict |-> x.verdict,
           verified |-> VerifiedDigest(wu[u].verified, x, rows)] \in WuRecords
      BY <2>1, <2>3 DEF WuRecords, WorkUnitStatuses, IsResult
    <3>4. wu' \in [Units -> WuRecords]
      BY <2>1, <2>4, <3>2, <3>3 DEF RunTypes
    <3> QED
      BY <2>4, <3>4 DEF RunTypes, RunStatuses
  <2>6. TaskTypes'
    BY <2>4 DEF _maybe_advance_verify_task_state, VerificationFailed, RequiredOutputsReady,
         planVars, TaskTypes, TaskStates
  <2>7. _next_event_seq \in Nat
    <3>1. {e.run : e \in evid} \in SUBSET Runs
      BY DEF ArtTypes, EvidenceRecords
    <3>2. IsFiniteSet({e.run : e \in evid})
      BY <3>1, DeliveryAssumption, FS_Subset
    <3>3. Cardinality({e.run : e \in evid}) \in Nat
      BY <3>2, FS_CardinalityType
    <3> QED
      BY <3>3 DEF _next_event_seq
  <2>8. EvidenceRows(r, x) \subseteq EvidenceRecords
    BY <2>1, <2>7 DEF EvidenceRows, EvidenceRecords, IsResult, EvidenceItems
  <2>9. ArtTypes'
    BY <2>2, <2>4, <2>8 DEF ArtTypes
  <2> QED
    BY <2>5, <2>6, <2>9
<1> QED
  BY <1>1, <1>2, <1>3, <1>4, <1>5, <1>6, <1>7, <1>8, <1>9, <1>10, <1>11, <1>12, <1>13
  DEF DeliveryStep, Environment, AgentStep

-----------------------------------------------------------------------------
(* Contents                                                                *)

\* A row is marked as backed only once its bytes are in the store.
BackedIsStored == \A c \in Contents : art[c] = "backed" => c \in store
ReadInv == BackedIsStored /\ DeliveriesCanBeRead

\* Steps that neither forget a content nor record a new delivery.
LEMMA ReadKept ==
    ASSUME DTypes, ReadInv, UNCHANGED inputs,
           \A u \in Units : wu'[u].verified = wu[u].verified,
           \A c \in Contents : art[c] = "backed" => art'[c] = "backed",
           store \subseteq store', BackedIsStored'
    PROVE  ReadInv'
<1>1. ASSUME NEW c \in Contents, _read_task_artifact_bytes(c)
      PROVE  _read_task_artifact_bytes(c)'
  BY <1>1 DEF _read_task_artifact_bytes
<1>2. \A u \in Units : wu[u].verified # NoContent => wu[u].verified \in Contents
  BY DEF DTypes, RunTypes, WuRecords, Digests
<1>3. \A r \in Runs : inputs[r] \subseteq Contents
  BY DEF DTypes, ArtTypes
<1> QED
  BY <1>1, <1>2, <1>3 DEF ReadInv, DeliveriesCanBeRead

LEMMA ReadInductive ==
    ASSUME DTypes, ReadInv, DeliveryStep
    PROVE  ReadInv'
<1>0. UnitOf \in [Runs -> Units] /\ BackedIsStored
  BY DeliveryAssumption DEF ReadInv
<1>1. ASSUME UNCHANGED artVars, \A u \in Units : wu'[u].verified = wu[u].verified
      PROVE  ReadInv'
  BY <1>0, <1>1, ReadKept DEF artVars, BackedIsStored
<1>2. ASSUME NEW p \in PlanRecords, _activate_plan(p) PROVE ReadInv'
  <2>1. \A u \in Units : wu'[u].verified = wu[u].verified
    BY <1>2 DEF _activate_plan, DTypes, RunTypes, WuRecords
  <2> QED
    BY <1>1, <1>2, <2>1 DEF _activate_plan
<1>3. CASE DispatchReadyRuns
  <2>1. \A u \in Units : wu'[u].verified = wu[u].verified
    BY <1>3 DEF DispatchReadyRuns, DTypes, RunTypes, WuRecords
  <2>2. ASSUME NEW r \in Runs, NEW c \in inputs'[r] PROVE _read_task_artifact_bytes(c)
    <3>1. CASE c \in inputs[r]
      BY <3>1 DEF ReadInv, DeliveriesCanBeRead
    <3>2. CASE c \in _build_context_manifest(UnitOf[r])
      BY <3>2 DEF _build_context_manifest, ReadInv, DeliveriesCanBeRead, DTypes, TaskTypes,
           PlanRecords, EdgeRecords
    <3> QED
      BY <1>3, <2>2, <3>1, <3>2 DEF DispatchReadyRuns
  <2>3. UNCHANGED <<art, store>>
    BY <1>3 DEF DispatchReadyRuns
  <2> QED
    BY <2>1, <2>2, <2>3 DEF ReadInv, BackedIsStored, DeliveriesCanBeRead, _read_task_artifact_bytes
<1>4. CASE PrepareAcceptance
  BY <1>1, <1>4 DEF PrepareAcceptance, runVars
<1>5. ASSUME NEW d \in DOMAIN decisions, AcceptResult(d) \/ RejectResult(d) PROVE ReadInv'
  BY <1>1, <1>5 DEF AcceptResult, RejectResult, runVars
<1>6. ASSUME NEW r \in Runs, StartRun(r) PROVE ReadInv'
  BY <1>1, <1>6 DEF StartRun
<1>7. ASSUME NEW r \in Runs, StopRun(r) PROVE ReadInv'
  <2>1. \A u \in Units : wu'[u].verified = wu[u].verified
    BY <1>0, <1>7 DEF StopRun, DTypes, RunTypes, WuRecords
  <2> QED
    BY <1>1, <1>7, <2>1 DEF StopRun
<1>8. CASE Crash
  BY <1>1, <1>8 DEF Crash
<1>9. ASSUME NEW H \in SUBSET Runs, Reconcile(H) PROVE ReadInv'
  <2>1. \A u \in Units : wu'[u].verified = wu[u].verified
    <3> SUFFICES ASSUME NEW u \in Units PROVE wu'[u].verified = wu[u].verified
      OBVIOUS
    <3> DEFINE lost == {r \in Runs : run[r] = "RUNNING" /\ agent[r] = "gone"}
               x == [wu[u] EXCEPT !.active = IF @ \in lost THEN NoRun ELSE @]
    <3>1. wu'[u] = x \/ \E s \in {"BLOCKED", "PENDING"} : wu'[u] = [x EXCEPT !.status = s]
      BY <1>9 DEF Reconcile
    <3>2. wu[u] \in WuRecords
      BY DEF DTypes, RunTypes
    <3> QED
      BY <3>1, <3>2 DEF WuRecords
  <2> QED
    BY <1>1, <1>9, <2>1 DEF Reconcile
<1>10. ASSUME NEW r \in Runs, NEW c \in Contents, NEW committed, PublishArtifact(r, c, committed)
       PROVE  ReadInv'
  <2>1. /\ store' = store \cup {c}
        /\ art' = [art EXCEPT ![c] = PublishedRow(c, committed)]
        /\ UNCHANGED <<wu, inputs>>
    BY <1>10 DEF PublishArtifact, runVars
  <2>2. BackedIsStored' /\ \A b \in Contents : art[b] = "backed" => art'[b] = "backed"
    BY <1>0, <2>1 DEF BackedIsStored, PublishedRow, DTypes, ArtTypes
  <2> QED
    BY <2>1, <2>2, ReadKept
<1>11. ASSUME NEW r \in Runs, NEW c \in Contents, ContextAppend(r, c) PROVE ReadInv'
  BY <1>11 DEF ContextAppend, runVars, ReadInv, BackedIsStored, DeliveriesCanBeRead,
       _read_task_artifact_bytes, DTypes, ArtTypes
<1>12. ASSUME NEW r \in Runs, NEW x \in ResultsOf[UnitOf[r]], SubmitLateResult(r, x) PROVE ReadInv'
  BY <1>0, <1>12, ReadKept DEF SubmitLateResult, runVars, BackedIsStored
<1>13. ASSUME NEW x, art' = [c \in Contents |-> NamedRow(c, x)], UNCHANGED store
       PROVE  BackedIsStored' /\ \A c \in Contents : art'[c] = "backed" <=> art[c] = "backed"
  BY <1>0, <1>13 DEF BackedIsStored, NamedRow, DTypes, ArtTypes
<1>14. ASSUME NEW r \in Runs, NEW x \in ResultsOf[UnitOf[r]], SubmitSupersededResult(r, x)
       PROVE  ReadInv'
  <2>1. /\ wu' = [wu EXCEPT ![UnitOf[r]].active = NoRun]
        /\ art' = [c \in Contents |-> NamedRow(c, x)] /\ UNCHANGED <<store, inputs>>
    BY <1>14 DEF SubmitSupersededResult
  <2>2. \A u \in Units : wu'[u].verified = wu[u].verified
    BY <1>0, <2>1 DEF DTypes, RunTypes, WuRecords
  <2> QED
    BY <1>13, <2>1, <2>2, ReadKept
<1>15. ASSUME NEW r \in Runs, NEW x \in ResultsOf[UnitOf[r]], SubmitResult(r, x) PROVE ReadInv'
  <2> DEFINE u == UnitOf[r]
             rows == [c \in Contents |-> NamedRow(c, x)]
  <2>1. IsResult(x) /\ u \in Units
    BY <1>0, DeliveryAssumption
  <2>2. /\ art' = rows /\ UNCHANGED <<store, inputs>>
        /\ wu' = [wu EXCEPT ![u] =
                IF x.outcome = "BLOCKED"
                THEN [@ EXCEPT !.status = "BLOCKED", !.active = NoRun]
                ELSE [status |-> "DONE", active |-> NoRun, selected |-> r, verdict |-> x.verdict,
                      verified |-> VerifiedDigest(wu[u].verified, x, rows)]]
    BY <1>15 DEF SubmitResult
  <2>3. BackedIsStored' /\ \A c \in Contents : rows[c] = "backed" <=> art[c] = "backed"
    BY <1>13, <2>2
  <2>4. \A v \in Units \ {u} : wu'[v] = wu[v]
    BY <2>1, <2>2 DEF DTypes, RunTypes
  <2>5. CASE wu'[u].verified = wu[u].verified
    BY <2>2, <2>3, <2>4, <2>5, ReadKept
  <2>6. CASE wu'[u].verified # wu[u].verified
    <3>1. wu'[u].verified = VerifiedDigest(wu[u].verified, x, rows)
      BY <2>1, <2>2, <2>6 DEF DTypes, RunTypes, WuRecords
    <3>2. HeldRefs(x, rows) # {}
      BY <2>6, <3>1 DEF VerifiedDigest
    <3>3. wu'[u].verified \in Contents /\ rows[wu'[u].verified] = "backed"
      BY <2>1, <3>1, <3>2, VerifiedIsHeld
    <3>4. _read_task_artifact_bytes(wu[u].verified)'
      BY <2>2, <2>3, <3>3 DEF BackedIsStored, _read_task_artifact_bytes
    <3>5. \A c \in Contents : _read_task_artifact_bytes(c) => _read_task_artifact_bytes(c)'
      BY <2>2, <2>3 DEF _read_task_artifact_bytes
    <3>6. \A v \in Units : wu[v].verified # NoContent => wu[v].verified \in Contents
      BY DEF DTypes, RunTypes, WuRecords, Digests
    <3>7. \A q \in Runs : inputs[q] \subseteq Contents
      BY DEF DTypes, ArtTypes
    <3> QED
      BY <2>2, <2>3, <2>4, <3>4, <3>5, <3>6, <3>7 DEF ReadInv, DeliveriesCanBeRead
  <2> QED
    BY <2>5, <2>6
<1> QED
  BY <1>2, <1>3, <1>4, <1>5, <1>6, <1>7, <1>8, <1>9, <1>10, <1>11, <1>12, <1>14, <1>15
  DEF DeliveryStep, Environment, AgentStep

-----------------------------------------------------------------------------
(* Evidence                                                                *)

\* Results are numbered in the order of their submission, one row per criterion, and
\* come from runs that have ended: what such a run reports later gives no evidence.
EvidenceIsNumbered ==
    /\ \A e \in evid : /\ e.no \in 1..Cardinality(EvidenceRuns)
                       /\ run[e.run] = "SUCCEEDED"
    /\ \A e, f \in evid : e.no = f.no => e.run = f.run
    /\ \A e, f \in evid : e.run = f.run /\ e.crit = f.crit => e = f

LEMMA EvidenceFinite ==
    ASSUME DTypes
    PROVE  /\ EvidenceRuns \in SUBSET Runs /\ IsFiniteSet(EvidenceRuns)
           /\ Cardinality(EvidenceRuns) \in Nat /\ Cardinality(Runs) \in Nat
           /\ Cardinality(EvidenceRuns) <= Cardinality(Runs)
<1>1. EvidenceRuns \in SUBSET Runs
  BY DEF EvidenceRuns, DTypes, ArtTypes, EvidenceRecords
<1>2. IsFiniteSet(Runs)
  BY DeliveryAssumption
<1>3. IsFiniteSet(EvidenceRuns) /\ Cardinality(EvidenceRuns) <= Cardinality(Runs)
  BY <1>1, <1>2, FS_Subset
<1> QED
  BY <1>1, <1>2, <1>3, FS_CardinalityType

LEMMA EvidenceInductive ==
    ASSUME DTypes, EvidenceIsNumbered, DeliveryStep
    PROVE  EvidenceIsNumbered'
<1>0. UnitOf \in [Runs -> Units]
  BY DeliveryAssumption
<1>1. ASSUME UNCHANGED evid, \A q \in Runs : run[q] = "SUCCEEDED" => run'[q] = "SUCCEEDED"
      PROVE  EvidenceIsNumbered'
  BY <1>1 DEF EvidenceIsNumbered, EvidenceRuns, DTypes, ArtTypes, EvidenceRecords
<1>2. ASSUME NEW r \in Runs, run' = [run EXCEPT ![r] = "SUCCEEDED"]
      PROVE  /\ \A q \in Runs : run[q] = "SUCCEEDED" => run'[q] = "SUCCEEDED"
             /\ run'[r] = "SUCCEEDED"
  BY <1>2 DEF DTypes, RunTypes
<1>3. ASSUME NEW r \in Runs, NEW x \in ResultsOf[UnitOf[r]], SubmitResult(r, x),
             x.outcome # "BLOCKED"
      PROVE  EvidenceIsNumbered'
  <2> DEFINE n == Cardinality(EvidenceRuns)
  <2>1. IsResult(x) /\ DistinctCriteria(x) /\ evid' = evid \cup EvidenceRows(r, x)
    BY <1>0, <1>3, DeliveryAssumption DEF SubmitResult
  <2>2. /\ \A q \in Runs : run[q] = "SUCCEEDED" => run'[q] = "SUCCEEDED"
        /\ run[r] # "SUCCEEDED" /\ run'[r] = "SUCCEEDED"
    BY <1>2, <1>3 DEF SubmitResult
  <2>3. r \notin EvidenceRuns
    BY <2>2 DEF EvidenceRuns, EvidenceIsNumbered
  <2>4. \A e \in EvidenceRows(r, x) : e.run = r /\ e.no = n + 1
    BY DEF EvidenceRows, _next_event_seq, EvidenceRuns
  <2>5. CASE EvidenceRows(r, x) = {}
    BY <1>1, <2>1, <2>2, <2>5
  <2>6. CASE EvidenceRows(r, x) # {}
    <3>1. EvidenceRuns' = EvidenceRuns \cup {r}
      BY <2>1, <2>4, <2>6 DEF EvidenceRuns
    <3>2. Cardinality(EvidenceRuns') = n + 1 /\ n \in Nat
      BY <2>3, <3>1, EvidenceFinite, FS_AddElement
    <3>3. \A e \in evid : e.no \in 1..n /\ e.run \in Runs /\ e.run # r
      BY <2>3 DEF EvidenceIsNumbered, EvidenceRuns, DTypes, ArtTypes, EvidenceRecords
    <3> HIDE DEF n
    <3>4. \A e \in evid' : e.no \in 1..Cardinality(EvidenceRuns') /\ run'[e.run] = "SUCCEEDED"
      BY <2>1, <2>2, <2>4, <3>2, <3>3 DEF EvidenceIsNumbered
    <3>5. \A e, f \in evid' : e.no = f.no => e.run = f.run
      BY <2>1, <2>4, <3>2, <3>3 DEF EvidenceIsNumbered
    <3>6. \A e, f \in EvidenceRows(r, x) : e.crit = f.crit => e = f
      BY <2>1 DEF EvidenceRows, DistinctCriteria
    <3>7. \A e, f \in evid' : e.run = f.run /\ e.crit = f.crit => e = f
      BY <2>1, <2>4, <3>3, <3>6 DEF EvidenceIsNumbered
    <3> QED
      BY <3>4, <3>5, <3>7 DEF EvidenceIsNumbered
  <2> QED
    BY <2>5, <2>6
<1>4. ASSUME NEW r \in Runs, AgentStep(r) PROVE EvidenceIsNumbered'
  <2>1. ASSUME NEW c \in Contents, NEW committed,
               PublishArtifact(r, c, committed) \/ ContextAppend(r, c)
        PROVE  EvidenceIsNumbered'
    BY <1>1, <2>1 DEF PublishArtifact, ContextAppend, runVars
  <2>2. ASSUME NEW x \in ResultsOf[UnitOf[r]],
               SubmitSupersededResult(r, x) \/ SubmitLateResult(r, x)
        PROVE  EvidenceIsNumbered'
    BY <1>1, <1>2, <2>2 DEF SubmitSupersededResult, SubmitLateResult, runVars
  <2>3. ASSUME NEW x \in ResultsOf[UnitOf[r]], SubmitResult(r, x)
        PROVE  EvidenceIsNumbered'
    <3>1. CASE x.outcome = "BLOCKED"
      BY <1>1, <1>2, <2>3, <3>1 DEF SubmitResult
    <3> QED
      BY <1>3, <2>3, <3>1
  <2> QED
    BY <1>4, <2>1, <2>2, <2>3 DEF AgentStep
<1>5. ASSUME NEW r \in Runs, StartRun(r) \/ StopRun(r) PROVE EvidenceIsNumbered'
  BY <1>1, <1>5 DEF StartRun, StopRun, artVars, ACTIVE_RUN, DTypes, RunTypes
<1>6. CASE Crash
  BY <1>1, <1>6 DEF Crash, artVars
<1>7. ASSUME NEW H \in SUBSET Runs, Reconcile(H) PROVE EvidenceIsNumbered'
  <2> DEFINE lost == {r \in Runs : run[r] = "RUNNING" /\ agent[r] = "gone"}
  <2>1. run' = [r \in Runs |-> IF r \in lost THEN "LOST" ELSE run[r]] /\ UNCHANGED evid
    BY <1>7 DEF Reconcile, artVars
  <2> QED
    BY <1>1, <2>1
<1>8. ASSUME NEW p, _activate_plan(p) PROVE EvidenceIsNumbered'
  BY <1>1, <1>8 DEF _activate_plan, artVars
<1>9. CASE DispatchReadyRuns
  <2>1. \A r \in Dispatched : run[r] = "NONE"
    BY DEF Dispatched, NextRun, FreshRuns
  <2> QED
    BY <1>1, <1>9, <2>1 DEF DispatchReadyRuns
<1>10. ASSUME NEW d, PrepareAcceptance \/ AcceptResult(d) \/ RejectResult(d)
      PROVE  EvidenceIsNumbered'
  BY <1>1, <1>10 DEF PrepareAcceptance, AcceptResult, RejectResult, artVars, runVars
<1> QED
  BY <1>4, <1>5, <1>6, <1>7, <1>8, <1>9, <1>10 DEF DeliveryStep, Environment

\* The row a snapshot freezes for a criterion is newer than every other row that
\* applies to it.
LEMMA LatestIsLast ==
    ASSUME DTypes, EvidenceIsNumbered, NEW c, ApplicableEvidence(c) # {}
    PROVE  /\ _latest_criterion_evidence(c) \in ApplicableEvidence(c)
           /\ \A f \in ApplicableEvidence(c) :
                 f = _latest_criterion_evidence(c) \/ f.no < _latest_criterion_evidence(c).no
<1> DEFINE A == ApplicableEvidence(c)
           N == {e.no : e \in A}
           e == _latest_criterion_evidence(c)
<1>1. A \subseteq evid /\ \A f \in A : f.crit = c
  BY DEF ApplicableEvidence
<1>2. Cardinality(EvidenceRuns) \in Nat
  BY EvidenceFinite
<1>3. N \in SUBSET Nat /\ N # {} /\ \A n \in N : n <= Cardinality(EvidenceRuns)
  BY <1>1, <1>2 DEF EvidenceIsNumbered
<1>4. \E n \in N : \A m \in N : m <= n
  BY <1>2, <1>3, NatMax
<1>5. \E f \in A : \A g \in A : g.no <= f.no
  BY <1>4
<1>6. e \in A /\ \A f \in A : f.no <= e.no
  BY <1>5 DEF _latest_criterion_evidence
<1> HIDE DEF e, A
<1>8. ASSUME NEW f \in A PROVE f = e \/ f.no < e.no
  <2>1. f.no \in Nat /\ e.no \in Nat /\ f.no <= e.no
    BY <1>1, <1>3, <1>6
  <2>2. f.no = e.no => f = e
    BY <1>1, <1>6 DEF EvidenceIsNumbered
  <2> QED
    BY <2>1, <2>2
<1> QED
  BY <1>6, <1>8 DEF e, A

-----------------------------------------------------------------------------
(* Final acceptance                                                        *)

\* A run at work owns the workspace of its unit.
ActiveRunOwns == \A r \in Runs : run[r] \in ACTIVE_RUN => owner[UnitOf[r]] = r

\* While a snapshot waits for acceptance nobody owns a workspace and every unit of
\* the plan is DONE.
PendingIsSettled ==
    PendingAcceptance # {} =>
        /\ \A u \in Units : owner[u] = NoRun
        /\ \A u \in plan.nodes : wu[u].status = "DONE"

AcceptInv == ActiveRunOwns /\ PendingIsSettled /\ PendingVerdictsStand

\* A question stays what it was when nothing its verdicts rest on changes: the rows of
\* evidence, the plan, and which run each unit has selected, whatever that run reported.
LEMMA PendingKept ==
    ASSUME DTypes, AcceptInv,
           PendingAcceptance' # {} =>
             /\ PendingAcceptance # {}
             /\ UNCHANGED <<evid, plan, planNo, snap>>
             /\ \A u \in Units : /\ owner[u] = NoRun => owner'[u] = NoRun
                                 /\ wu'[u].selected = wu[u].selected
                                 /\ wu'[u].status = wu[u].status
    PROVE  PendingIsSettled' /\ PendingVerdictsStand'
<1>1. plan.nodes \subseteq Units
  BY DEF DTypes, TaskTypes, PlanRecords
<1>2. PendingIsSettled'
  BY <1>1 DEF AcceptInv, PendingIsSettled
<1>3. PendingVerdictsStand'
  <2> SUFFICES ASSUME PendingAcceptance' # {} PROVE PendingVerdictsStand'
    BY DEF PendingVerdictsStand
  <2>1. UNCHANGED <<evid, plan, planNo, snap>>
    OBVIOUS
  <2>2. ASSUME NEW e PROVE Counts(e)' <=> Counts(e)
    BY <1>1, <2>1 DEF Counts
  <2>3. ASSUME NEW e PROVE LastWordIsPass(e)' <=> LastWordIsPass(e)
    BY <2>1, <2>2 DEF LastWordIsPass
  <2>4. ASSUME NEW c \in Criteria
        PROVE  /\ c \in DOMAIN snap.evidence /\ snap.evidence[c].crit = c
               /\ LastWordIsPass(snap.evidence[c])
    BY DEF AcceptInv, PendingVerdictsStand
  <2>5. ASSUME NEW c \in Criteria, NEW e, e = snap.evidence[c] PROVE LastWordIsPass(e)'
    BY <2>3, <2>4, <2>5
  <2> QED
    BY <2>1, <2>4, <2>5 DEF AcceptInv, PendingVerdictsStand
<1> QED
  BY <1>2, <1>3

\* What is frozen is the plan's last word, and that it passes, on the digests of the moment.
LEMMA FrozenIsLastWord ==
    ASSUME DTypes, EvidenceIsNumbered, NEW c \in Criteria, ApplicableEvidence(c) # {},
           _latest_criterion_evidence(c).verdict = "PASS"
    PROVE  /\ _latest_criterion_evidence(c).crit = c
           /\ LastWordIsPass(_latest_criterion_evidence(c))
<1> DEFINE e == _latest_criterion_evidence(c)
<1>1. e \in ApplicableEvidence(c) /\ \A f \in ApplicableEvidence(c) : f = e \/ f.no < e.no
  BY LatestIsLast
<1> HIDE DEF e
<1>2. e.crit = c /\ Counts(e) /\ e.hash \in _current_delivery_hashes
  BY <1>1 DEF ApplicableEvidence, Counts
<1>3. ASSUME NEW f \in evid, Counts(f), f.crit = e.crit, f.hash = e.hash
      PROVE  f \in ApplicableEvidence(c)
  BY <1>2, <1>3 DEF ApplicableEvidence, Counts
<1> QED
  BY <1>1, <1>2, <1>3 DEF LastWordIsPass, e

\* While a question is open no run is at work.
LEMMA PendingStopsRuns ==
    ASSUME AcceptInv, NEW r \in Runs, run[r] \in ACTIVE_RUN
    PROVE  PendingAcceptance = {}
BY DeliveryAssumption DEF AcceptInv, ActiveRunOwns, PendingIsSettled

LEMMA AcceptInductive ==
    ASSUME DTypes, EvidenceIsNumbered, AcceptInv, DeliveryStep
    PROVE  AcceptInv'
<1>0. UnitOf \in [Runs -> Units] /\ NoRun \notin Runs
  BY DeliveryAssumption
<1> USE DEF AcceptInv
<1>1. ASSUME NEW p \in PlanRecords, _activate_plan(p) PROVE AcceptInv'
  <2>1. PendingAcceptance' = {}
    BY <1>1 DEF _activate_plan, _supersede_pending_acceptance, PendingAcceptance
  <2>2. ActiveRunOwns'
    BY <1>0, <1>1 DEF _activate_plan, ActiveRunOwns, ACTIVE_RUN
  <2> QED
    BY <2>1, <2>2 DEF PendingIsSettled, PendingVerdictsStand
<1>2. CASE DispatchReadyRuns
  <2>1. PendingAcceptance' = {}
    BY <1>2 DEF DispatchReadyRuns, DispatchRefused, taskVars, PendingAcceptance
  <2>2. ASSUME NEW r \in Dispatched
        PROVE  /\ r \in Runs /\ Ready(UnitOf[r]) /\ FreshRuns(UnitOf[r]) # {}
               /\ r = NextRun(UnitOf[r])
    BY <2>2 DEF Dispatched, NextRun, FreshRuns
  <2>3. ActiveRunOwns'
    <3> SUFFICES ASSUME NEW r \in Runs, run'[r] \in ACTIVE_RUN PROVE owner'[UnitOf[r]] = r
      BY DEF ActiveRunOwns
    <3> DEFINE u == UnitOf[r]
    <3>1. owner' = [v \in Units |->
                      IF \E q \in Dispatched : UnitOf[q] = v
                      THEN CHOOSE q \in Dispatched : UnitOf[q] = v ELSE owner[v]]
      BY <1>2 DEF DispatchReadyRuns
    <3>2. CASE r \in Dispatched
      <4>1. (CHOOSE q \in Dispatched : UnitOf[q] = u) = r
        BY <2>2, <3>2
      <4> QED
        BY <1>0, <3>1, <3>2, <4>1
    <3>3. CASE r \notin Dispatched
      <4>1. owner[u] = r
        BY <1>2, <3>3 DEF DispatchReadyRuns, ActiveRunOwns
      <4>2. ~Ready(u)
        BY <1>0, <4>1 DEF Ready
      <4>3. ~\E q \in Dispatched : UnitOf[q] = u
        BY <2>2, <4>2
      <4> QED
        BY <1>0, <3>1, <4>1, <4>3
    <3> QED
      BY <3>2, <3>3
  <2> QED
    BY <2>1, <2>3 DEF PendingIsSettled, PendingVerdictsStand
<1>3. CASE PrepareAcceptance
  <2>1. UNCHANGED <<planVars, runVars, artVars>>
    BY <1>3 DEF PrepareAcceptance
  <2>2. UNCHANGED <<plan, planNo, wu, run, owner, result, evid>>
    BY <2>1 DEF planVars, runVars, artVars
  <2>3. ASSUME NEW c \in Criteria
        PROVE  /\ c \in DOMAIN snap'.evidence
               /\ snap'.evidence[c] = _latest_criterion_evidence(c)
               /\ ApplicableEvidence(c) # {} /\ snap'.evidence[c].verdict = "PASS"
    BY <1>3 DEF PrepareAcceptance, _assert_acceptance_evidence, _build_acceptance_evidence
  <2>4. ASSUME NEW c \in Criteria
        PROVE  /\ c \in DOMAIN snap'.evidence /\ snap'.evidence[c].crit = c
               /\ LastWordIsPass(snap.evidence[c])'
    <3>1. LastWordIsPass(_latest_criterion_evidence(c)) /\ _latest_criterion_evidence(c).crit = c
      BY <2>3, FrozenIsLastWord
    <3> QED
      BY <2>2, <2>3, <3>1 DEF LastWordIsPass, Counts
  <2>5. PendingVerdictsStand'
    BY <1>3, <2>2, <2>4 DEF PrepareAcceptance, PendingVerdictsStand
  <2>6. PendingIsSettled'
    BY <1>3, <2>2 DEF PrepareAcceptance, _assert_no_live_writers, PendingIsSettled
  <2> QED
    BY <2>2, <2>5, <2>6 DEF ActiveRunOwns
<1>4. ASSUME NEW d \in DOMAIN decisions, AcceptResult(d) \/ RejectResult(d) PROVE AcceptInv'
  <2>1. /\ UNCHANGED <<snap, plan, planNo, wu, run, owner, result, evid>>
        /\ d \in PendingAcceptance
    BY <1>4 DEF AcceptResult, RejectResult, planVars, runVars, artVars
  <2> QED
    BY <2>1, PendingKept DEF ActiveRunOwns
<1>5. ASSUME NEW r \in Runs, StartRun(r) PROVE AcceptInv'
  <2>1. PendingAcceptance' = {}
    BY <1>5 DEF StartRun, taskVars, PendingAcceptance
  <2> QED
    BY <1>5, <2>1 DEF StartRun, ActiveRunOwns, ACTIVE_RUN, PendingIsSettled,
         PendingVerdictsStand, DTypes, RunTypes
<1>6. ASSUME NEW r \in Runs, StopRun(r) PROVE AcceptInv'
  <2>1. /\ UNCHANGED <<decisions, snap, plan, planNo, evid>>
        /\ owner' = [owner EXCEPT ![UnitOf[r]] = IF @ = r THEN NoRun ELSE @]
        /\ run' = [run EXCEPT ![r] = IF @ \in ACTIVE_RUN THEN "CANCELLED" ELSE @]
    BY <1>6 DEF StopRun, taskVars, planVars, artVars
  <2>2. ActiveRunOwns'
    BY <1>0, <2>1 DEF ActiveRunOwns, ACTIVE_RUN, DTypes, RunTypes
  <2>3. CASE run[r] \in ACTIVE_RUN
    <3>1. PendingAcceptance' = {}
      BY <2>1, <2>3, PendingStopsRuns DEF PendingAcceptance
    <3> QED
      BY <2>2, <3>1 DEF PendingIsSettled, PendingVerdictsStand
  <2>4. CASE run[r] \notin ACTIVE_RUN
    <3>1. UNCHANGED wu /\ PendingAcceptance' = PendingAcceptance
      BY <1>6, <2>1, <2>4 DEF StopRun, PendingAcceptance
    <3>2. \A u \in Units : owner[u] = NoRun => owner'[u] = NoRun
      BY <2>1 DEF DTypes, RunTypes
    <3> QED
      BY <2>1, <2>2, <3>1, <3>2, PendingKept
  <2> QED
    BY <2>3, <2>4
<1>7. CASE Crash
  <2>1. UNCHANGED <<decisions, snap, plan, planNo, wu, run, owner, result, evid>>
    BY <1>7 DEF Crash, taskVars, planVars, artVars
  <2> QED
    BY <2>1, PendingKept DEF ActiveRunOwns, PendingAcceptance
<1>8. ASSUME NEW H \in SUBSET Runs, Reconcile(H) PROVE AcceptInv'
  <2> DEFINE lost == {r \in Runs : run[r] = "RUNNING" /\ agent[r] = "gone"}
  <2>1. /\ run' = [r \in Runs |-> IF r \in lost THEN "LOST" ELSE run[r]]
        /\ owner' = [u \in Units |-> IF owner[u] \in lost THEN NoRun ELSE owner[u]]
        /\ lost # {}
        /\ UNCHANGED decisions
    BY <1>8 DEF Reconcile
  <2>2. PendingAcceptance' = {}
    BY <2>1, PendingStopsRuns DEF ACTIVE_RUN, PendingAcceptance
  <2>3. ActiveRunOwns'
    BY <1>0, <2>1 DEF ActiveRunOwns, ACTIVE_RUN
  <2> QED
    BY <2>2, <2>3 DEF PendingIsSettled, PendingVerdictsStand
<1>9. ASSUME NEW r \in Runs, NEW c \in Contents, NEW committed,
             PublishArtifact(r, c, committed) \/ ContextAppend(r, c)
      PROVE  AcceptInv'
  <2>1. UNCHANGED <<decisions, snap, plan, planNo, wu, run, owner, result, evid>>
    BY <1>9 DEF PublishArtifact, ContextAppend, taskVars, planVars, runVars
  <2> QED
    BY <2>1, PendingKept DEF ActiveRunOwns, PendingAcceptance
\* A late report may change the digests that count as delivered, but no verdict of a
\* snapshot and nobody's selection.
<1>10. ASSUME NEW r \in Runs, NEW x \in ResultsOf[UnitOf[r]], SubmitLateResult(r, x) PROVE AcceptInv'
  <2>1. UNCHANGED <<decisions, snap, plan, planNo, wu, run, owner, evid>>
    BY <1>10 DEF SubmitLateResult, taskVars, planVars, runVars
  <2> QED
    BY <2>1, PendingKept DEF ActiveRunOwns, PendingAcceptance
<1>11. ASSUME NEW r \in Runs, NEW x \in ResultsOf[UnitOf[r]],
              SubmitSupersededResult(r, x) \/ SubmitResult(r, x)
       PROVE  AcceptInv'
  <2>1. /\ run[r] = "RUNNING" /\ run' = [run EXCEPT ![r] = "SUCCEEDED"]
        /\ UNCHANGED <<decisions, owner>>
    BY <1>11 DEF SubmitSupersededResult, SubmitResult, taskVars
  <2>2. PendingAcceptance' = {}
    BY <2>1, PendingStopsRuns DEF ACTIVE_RUN, PendingAcceptance
  <2>3. ActiveRunOwns'
    BY <2>1 DEF ActiveRunOwns, ACTIVE_RUN, DTypes, RunTypes
  <2> QED
    BY <2>2, <2>3 DEF PendingIsSettled, PendingVerdictsStand
<1> QED
  BY <1>1, <1>2, <1>3, <1>4, <1>5, <1>6, <1>7, <1>8, <1>9, <1>10, <1>11
  DEF DeliveryStep, Environment, AgentStep

-----------------------------------------------------------------------------
(* Plans                                                                   *)

\* One step of validate_dag's search over nodes N and edges E.
Search(N, E, g) ==
    [path \in SUBSET N |->
       {u \in N \ path : \A e \in E : e.from = u => e.to \in g[path \cup {u}]}]

\* The search is defined: the union of its approximations from below is a solution.
LEMMA SearchExists ==
    ASSUME NEW N, NEW E
    PROVE  \E g : g = Search(N, E, g)
<1> DEFINE F(g) == [P \in SUBSET N |->
                      {u \in N \ P : \A e \in E : e.from = u => e.to \in g[P \cup {u}]}]
           Below == {g \in [SUBSET N -> SUBSET N] : \A P \in SUBSET N : g[P] \subseteq F(g)[P]}
           h == [P \in SUBSET N |-> UNION {g[P] : g \in Below}]
<1>1. h \in [SUBSET N -> SUBSET N] /\ F(h) \in [SUBSET N -> SUBSET N]
  OBVIOUS
<1>2. ASSUME NEW f \in [SUBSET N -> SUBSET N], NEW g \in [SUBSET N -> SUBSET N],
             \A P \in SUBSET N : f[P] \subseteq g[P]
      PROVE  \A P \in SUBSET N : F(f)[P] \subseteq F(g)[P]
  <2> SUFFICES ASSUME NEW P \in SUBSET N, NEW u \in F(f)[P] PROVE u \in F(g)[P]
    OBVIOUS
  <2>1. u \in N \ P /\ \A e \in E : e.from = u => e.to \in f[P \cup {u}]
    OBVIOUS
  <2>2. P \cup {u} \in SUBSET N
    BY <2>1
  <2>3. \A e \in E : e.from = u => e.to \in g[P \cup {u}]
    BY <1>2, <2>1, <2>2
  <2> QED
    BY <2>1, <2>3
<1>3. \A g \in Below : g \in [SUBSET N -> SUBSET N] /\ \A P \in SUBSET N : g[P] \subseteq F(g)[P]
  OBVIOUS
<1>4. ASSUME NEW g \in [SUBSET N -> SUBSET N], \A P \in SUBSET N : g[P] \subseteq F(g)[P]
      PROVE  g \in Below
  BY <1>4
<1>5. \A P \in SUBSET N : h[P] = UNION {g[P] : g \in Below}
  OBVIOUS
<1> HIDE DEF Below, h, F
<1>6. ASSUME NEW g \in Below, NEW P \in SUBSET N PROVE g[P] \subseteq h[P]
  BY <1>5
<1>7. ASSUME NEW P \in SUBSET N PROVE h[P] \subseteq F(h)[P]
  <2> SUFFICES ASSUME NEW u \in h[P] PROVE u \in F(h)[P]
    OBVIOUS
  <2>1. PICK g \in Below : u \in g[P]
    BY <1>5
  <2>2. g \in [SUBSET N -> SUBSET N] /\ u \in F(g)[P]
    BY <1>3, <2>1
  <2>3. F(g)[P] \subseteq F(h)[P]
    BY <1>1, <1>2, <1>6, <2>2
  <2> QED
    BY <2>2, <2>3
<1>8. F(h) \in Below
  <2>1. \A P \in SUBSET N : F(h)[P] \subseteq F(F(h))[P]
    BY <1>1, <1>2, <1>7
  <2> QED
    BY <1>1, <1>4, <2>1
<1>9. ASSUME NEW P \in SUBSET N PROVE F(h)[P] = h[P]
  BY <1>6, <1>7, <1>8
<1>10. h = F(h)
  BY <1>1, <1>9
<1> QED
  BY <1>10 DEF F, Search

\* A finite set of sets that is not empty has a member none of whose proper subsets
\* is another.
LEMMA SmallestSet ==
    ASSUME NEW N, IsFiniteSet(N), NEW T \in SUBSET SUBSET N, T # {}
    PROVE  \E S \in T : \A R \in T : R \subseteq S => R = S
<1>1. IsWellFoundedOn(StrictSubsetOrdering(N), SUBSET N)
  BY FS_StrictSubsetOrderingWellFounded, FS_FiniteSubsetsOfFinite
<1>2. PICK S \in T : \A R \in T : ~(<<R, S>> \in StrictSubsetOrdering(N))
  BY <1>1, WFMin
<1>3. ASSUME NEW R \in T, R \subseteq S, R # S PROVE FALSE
  <2>1. <<R, S>> \in StrictSubsetOrdering(N)
    BY <1>3 DEF StrictSubsetOrdering
  <2> QED
    BY <1>2, <2>1
<1> QED
  BY <1>3

\* What the search of validate_dag lets in has no set of units that wait for each other.
LEMMA SearchFindsCycles ==
    ASSUME NEW p \in PlanRecords, validate_dag(p), NEW S \in SUBSET p.nodes, S # {}
    PROVE  \E u \in S : \A e \in p.edges : e.to = u => e.from \notin S
<1> DEFINE N == p.nodes
           E == p.edges
           Waits(R) == R # {} /\ \A u \in R : \E e \in E : e.to = u /\ e.from \in R
<1> SUFFICES ASSUME Waits(S) PROVE FALSE
  OBVIOUS
<1>1. IsFiniteSet(N)
  <2>1. N \in SUBSET Units /\ IsFiniteSet(Units)
    BY DeliveryAssumption DEF PlanRecords
  <2> QED
    BY <2>1, FS_Subset
<1>2. \A e \in E : e.from \in N /\ e.to \in N
  BY DEF validate_dag
\* A smallest set of units that wait for each other: everyone in it is waited for.
<1>3. PICK R \in SUBSET N : Waits(R) /\ \A Q \in SUBSET N : Waits(Q) /\ Q \subseteq R => Q = R
  <2> DEFINE T == {Q \in SUBSET N : Waits(Q)}
  <2>1. T \in SUBSET SUBSET N /\ S \in T
    OBVIOUS
  <2>2. PICK R \in T : \A Q \in T : Q \subseteq R => Q = R
    <3> HIDE DEF T
    <3> QED
      BY <1>1, <2>1, SmallestSet
  <2> QED
    BY <2>2
<1>4. ASSUME NEW u \in R PROVE \E e \in E : e.from = u /\ e.to \in R
  <2> SUFFICES ASSUME \A e \in E : e.from = u => e.to \notin R PROVE FALSE
    OBVIOUS
  <2> DEFINE Q == R \ {u}
  <2>1. PICK e \in E : e.to = u /\ e.from \in R
    BY <1>3
  <2>2. e.from # u
    BY <2>1
  <2>3. Q # {} /\ Q \in SUBSET N
    BY <2>1, <2>2
  <2>4. ASSUME NEW v \in Q PROVE \E f \in E : f.to = v /\ f.from \in Q
    <3>1. PICK f \in E : f.to = v /\ f.from \in R
      BY <1>3
    <3> QED
      BY <3>1
  <2>5. Waits(Q) /\ Q \subseteq R /\ Q # R
    BY <2>3, <2>4
  <2> QED
    BY <1>3, <2>5
\* The search walks on inside R for ever: it leaves no unit of R.
<1> DEFINE dfs[path \in SUBSET N] ==
             {u \in N \ path : \A e \in E : e.from = u => e.to \in dfs[path \cup {u}]}
<1>5. dfs = [path \in SUBSET N |->
               {u \in N \ path : \A e \in E : e.from = u => e.to \in dfs[path \cup {u}]}]
  <2>1. \E g : g = [path \in SUBSET N |->
                      {u \in N \ path : \A e \in E : e.from = u => e.to \in g[path \cup {u}]}]
    <3>1. PICK g : g = Search(N, E, g)
      BY SearchExists
    <3> HIDE DEF N, E
    <3>2. g = [path \in SUBSET N |->
                 {u \in N \ path : \A e \in E : e.from = u => e.to \in g[path \cup {u}]}]
      BY <3>1 DEF Search
    <3> QED
      BY <3>2, Zenon
  <2> QED
    BY <2>1
<1>6. dfs[{}] = N
  BY DEF validate_dag, CycleFree
<1> HIDE DEF dfs
<1>7. PICK P \in SUBSET N : /\ dfs[P] \cap R # {}
                            /\ \A Q \in SUBSET N : dfs[Q] \cap R # {} /\ P \subseteq Q => Q = P
  <2> DEFINE T == {N \ Q : Q \in {X \in SUBSET N : dfs[X] \cap R # {}}}
  <2>1. T \in SUBSET SUBSET N
    OBVIOUS
  <2>2. N \ {} \in T
    BY <1>3, <1>6
  <2>3. PICK C \in T : \A D \in T : D \subseteq C => D = C
    <3> HIDE DEF T
    <3> QED
      BY <1>1, <2>1, <2>2, SmallestSet
  <2>4. PICK P \in SUBSET N : dfs[P] \cap R # {} /\ C = N \ P
    BY <2>3
  <2>5. ASSUME NEW Q \in SUBSET N, dfs[Q] \cap R # {}, P \subseteq Q PROVE Q = P
    <3>1. N \ Q \in T /\ N \ Q \subseteq C
      BY <2>4, <2>5
    <3>2. N \ Q = N \ P
      BY <2>3, <2>4, <3>1
    <3> QED
      BY <3>2
  <2> QED
    BY <2>4, <2>5
<1>8. PICK u \in R : u \in dfs[P]
  BY <1>7
<1>9. u \in N \ P /\ \A e \in E : e.from = u => e.to \in dfs[P \cup {u}]
  <2>1. dfs[P] = {v \in N \ P : \A e \in E : e.from = v => e.to \in dfs[P \cup {v}]}
    <3> HIDE DEF N, E
    <3> QED
      BY <1>5, Zenon
  <2> QED
    BY <1>8, <2>1
<1>10. PICK e \in E : e.from = u /\ e.to \in R
  BY <1>4
<1>11. P \cup {u} \in SUBSET N /\ dfs[P \cup {u}] \cap R # {}
  BY <1>9, <1>10
<1>12. P \cup {u} = P
  BY <1>7, <1>11
<1> QED
  BY <1>9, <1>12

\* The active plan was let in by validate_dag.
PlanIsValid == plan.nodes = {} \/ validate_dag(plan)

LEMMA PlanInductive ==
    ASSUME PlanIsValid, DeliveryStep
    PROVE  PlanIsValid'
<1>1. ASSUME NEW p \in PlanRecords, _activate_plan(p) PROVE PlanIsValid'
  <2>1. plan' = p /\ validate_dag(p)
    BY <1>1 DEF _activate_plan
  <2> QED
    BY <2>1 DEF PlanIsValid, validate_dag, CycleFree
<1>2. ASSUME UNCHANGED plan PROVE PlanIsValid'
  BY <1>2 DEF PlanIsValid, validate_dag, CycleFree
<1>3. CASE Environment
  BY <1>2, <1>3 DEF Environment, AgentStep, PublishArtifact, ContextAppend, SubmitResult,
       SubmitSupersededResult, SubmitLateResult, StartRun, StopRun, Crash, Reconcile, planVars
<1>4. CASE DispatchReadyRuns \/ PrepareAcceptance
  BY <1>2, <1>4 DEF DispatchReadyRuns, PrepareAcceptance, planVars
<1>5. CASE \E d \in DOMAIN decisions : AcceptResult(d) \/ RejectResult(d)
  BY <1>2, <1>5 DEF AcceptResult, RejectResult, planVars
<1> QED
  BY <1>1, <1>3, <1>4, <1>5 DEF DeliveryStep

-----------------------------------------------------------------------------
(* The theorems                                                            *)

DeliveryInv ==
    LogInv /\ DTypes /\ ReadInv /\ AcceptInv /\ EvidenceIsNumbered /\ PlanIsValid

\* Every step through the command log preserves the invariant of a delivery.
THEOREM DeliveryInvariance == LogSpec => []DeliveryInv
<1>1. Fresh => DeliveryInv
  <2> SUFFICES ASSUME Fresh PROVE DeliveryInv
    OBVIOUS
  <2>1. LogInv /\ DTypes
    BY LogInitial, DTypesInitial
  <2>2. ReadInv
    BY DEF Fresh, Init, ReadInv, BackedIsStored, DeliveriesCanBeRead
  <2>3. PendingAcceptance = {}
    BY DEF Fresh, Init, PendingAcceptance
  <2>4. AcceptInv
    BY <2>3 DEF Fresh, Init, AcceptInv, ActiveRunOwns, ACTIVE_RUN, PendingIsSettled,
         PendingVerdictsStand
  <2>5. EvidenceIsNumbered
    BY DEF Fresh, Init, EvidenceIsNumbered
  <2>6. PlanIsValid
    BY DEF Fresh, Init, PlanIsValid
  <2> QED
    BY <2>1, <2>2, <2>4, <2>5, <2>6 DEF DeliveryInv
<1>2. DeliveryInv /\ [LogNext]_vars => DeliveryInv'
  <2> SUFFICES ASSUME DeliveryInv, [LogNext]_vars PROVE DeliveryInv'
    OBVIOUS
  <2> USE DEF DeliveryInv
  <2>1. LogInv'
    BY LogInductive
  <2>2. CASE DeliveryStep
    BY <2>1, <2>2, DTypesInductive, ReadInductive, AcceptInductive, EvidenceInductive,
       PlanInductive
  <2>3. CASE UNCHANGED deliveryVars
    <3>1. UNCHANGED <<state, decisions, snap, plan, planNo, wu, run, agent, owner, result, art,
                      store, evid, inputs>>
      BY <2>3 DEF deliveryVars, taskVars, planVars, runVars, artVars
    <3>2. DTypes'
      BY <3>1 DEF DTypes, RunTypes, TaskTypes, ArtTypes
    <3>3. ReadInv'
      BY <3>1 DEF ReadInv, BackedIsStored, DeliveriesCanBeRead, _read_task_artifact_bytes
    <3>4. PendingIsSettled' /\ PendingVerdictsStand'
      BY <3>1, PendingKept DEF PendingAcceptance
    <3>5. AcceptInv'
      BY <3>1, <3>4 DEF AcceptInv, ActiveRunOwns
    <3>6. EvidenceIsNumbered'
      BY <3>1 DEF EvidenceIsNumbered, EvidenceRuns
    <3>7. PlanIsValid'
      BY <3>1 DEF PlanIsValid, validate_dag, CycleFree
    <3> QED
      BY <2>1, <3>2, <3>3, <3>5, <3>6, <3>7
  <2> QED
    BY <2>2, <2>3, LogSteps
<1> QED
  BY <1>1, <1>2, PTL DEF LogSpec

\* The rows that results, plans and acceptance share keep their types (orm.py).
THEOREM DeliveryTypeCorrect == LogSpec => []DeliveryTypeOK
<1>1. DeliveryInv => DeliveryTypeOK
  <2> SUFFICES ASSUME DeliveryInv PROVE DeliveryTypeOK
    OBVIOUS
  <2>1. evid \subseteq [no : 1..Cardinality(Runs), crit : Criteria, hash : Contents,
                        verdict : {"PASS", "FAIL"}, unit : Units, run : Runs]
    <3> SUFFICES ASSUME NEW e \in evid PROVE e.no \in 1..Cardinality(Runs) /\ e \in EvidenceRecords
      BY DEF EvidenceRecords
    <3> QED
      BY EvidenceFinite DEF DeliveryInv, EvidenceIsNumbered, DTypes, ArtTypes
  <2> QED
    BY <2>1 DEF DeliveryInv, LogInv, LogTypes, DTypes, RunTypes, TaskTypes, ArtTypes, WuRecords,
         ArtStates, DeliveryTypeOK
<1> QED
  BY <1>1, DeliveryInvariance, PTL

\* What a unit is recorded to have delivered, and what a run is told to rely on,
\* can be read from the content store (_submit_result, _publish_artifact,
\* _context_append, _build_context_manifest).
THEOREM ReadableDeliveries == LogSpec => []DeliveriesCanBeRead
<1>1. DeliveryInv => DeliveriesCanBeRead
  BY DEF DeliveryInv, ReadInv
<1> QED
  BY <1>1, DeliveryInvariance, PTL

\* No plan that is active holds units that wait for each other: the search of
\* validate_dag (domain/plan.py) finds every circle of every plan.
THEOREM PlansCanProceed == LogSpec => []SomeUnitCanGoFirst
<1>1. DeliveryInv => SomeUnitCanGoFirst
  <2> SUFFICES ASSUME DeliveryInv, NEW S \in SUBSET plan.nodes, S # {}
               PROVE  \E u \in S : \A e \in plan.edges : e.to = u => e.from \notin S
    BY DEF SomeUnitCanGoFirst
  <2>1. plan \in PlanRecords /\ validate_dag(plan)
    BY DEF DeliveryInv, DTypes, TaskTypes, PlanIsValid
  <2> QED
    BY <2>1, SearchFindsCycles
<1> QED
  BY <1>1, DeliveryInvariance, PTL

\* Whatever plan revision, new run, verdict, late report or reconcile comes while a human
\* looks at a snapshot, its verdicts are the last word of the runs the plan's units have
\* selected, or the question is withdrawn (_prepare_acceptance, _submit_result,
\* _supersede_pending_acceptance).
THEOREM VerdictsStand == LogSpec => []PendingVerdictsStand
<1>1. DeliveryInv => PendingVerdictsStand
  BY DEF DeliveryInv, AcceptInv
<1> QED
  BY <1>1, DeliveryInvariance, PTL

\* A task is completed only with every unit of its plan DONE and, for each criterion, on
\* a digest of which the plan's last word is that it passes, although agents that have
\* reported may report again (_resolve_decision, _assert_acceptance_evidence).
THEOREM AcceptanceStands == LogSpec => AcceptedEvidenceStands
<1> DEFINE Stands ==
             /\ \A u \in plan.nodes : wu[u].status = "DONE"
             /\ \A c \in Criteria : \E e \in evid : e.crit = c /\ LastWordIsPass(e)
<1>1. ASSUME DeliveryInv, NEW d \in DOMAIN decisions, AcceptResult(d) PROVE Stands
  <2>1. PendingAcceptance # {}
    BY <1>1 DEF AcceptResult
  <2>2. ASSUME NEW c \in Criteria
        PROVE  snap.evidence[c].crit = c /\ LastWordIsPass(snap.evidence[c])
    BY <1>1, <2>1 DEF DeliveryInv, AcceptInv, PendingVerdictsStand
  <2>3. ASSUME NEW c \in Criteria PROVE \E e \in evid : e.crit = c /\ LastWordIsPass(e)
    <3>1. snap.evidence[c] \in evid
      BY <2>2 DEF LastWordIsPass, Counts
    <3> QED
      BY <2>2, <3>1
  <2> QED
    BY <1>1, <2>1, <2>3 DEF DeliveryInv, AcceptInv, PendingIsSettled
<1>2. ASSUME DeliveryStep, state # "COMPLETED", state' = "COMPLETED"
      PROVE  \E d \in DOMAIN decisions : AcceptResult(d)
  <2>1. ASSUME NEW p, _activate_plan(p) PROVE FALSE
    BY <1>2, <2>1 DEF _activate_plan, PlanActivated
  <2>2. CASE Environment
    <3>1. ASSUME NEW r \in Runs, StartRun(r) \/ StopRun(r) PROVE FALSE
      BY <1>2, <3>1 DEF StartRun, StopRun, taskVars
    <3>2. CASE Crash \/ \E H \in SUBSET Runs : Reconcile(H)
      BY <1>2, <3>2 DEF Crash, Reconcile, taskVars, BlockingGateOpened
    <3>3. ASSUME NEW r \in Runs, NEW c, NEW committed,
                 PublishArtifact(r, c, committed) \/ ContextAppend(r, c)
          PROVE  FALSE
      BY <1>2, <3>3 DEF PublishArtifact, ContextAppend, taskVars
    <3>4. ASSUME NEW r \in Runs, NEW x,
                 SubmitResult(r, x) \/ SubmitSupersededResult(r, x) \/ SubmitLateResult(r, x)
          PROVE  FALSE
      BY <1>2, <3>4 DEF SubmitResult, SubmitSupersededResult, SubmitLateResult, taskVars,
           _maybe_advance_verify_task_state, VerificationFailed, RequiredOutputsReady
    <3> QED
      BY <2>2, <3>1, <3>2, <3>3, <3>4 DEF Environment, AgentStep
  <2>3. ASSUME DispatchReadyRuns \/ PrepareAcceptance \/ \E d \in DOMAIN decisions : RejectResult(d)
        PROVE  FALSE
    BY <1>2, <2>3 DEF DispatchReadyRuns, PrepareAcceptance, RejectResult, taskVars,
         AcceptanceReady, DecisionResolved
  <2> QED
    BY <1>2, <2>1, <2>2, <2>3 DEF DeliveryStep
<1>3. DeliveryInv /\ [LogNext]_vars =>
        [state # "COMPLETED" /\ state' = "COMPLETED" => Stands]_vars
  <2> SUFFICES ASSUME DeliveryInv, [LogNext]_vars, state # "COMPLETED", state' = "COMPLETED"
               PROVE  Stands
    OBVIOUS
  <2>1. DeliveryStep
    BY LogSteps DEF deliveryVars, taskVars
  <2> QED
    BY <1>1, <1>2, <2>1
<1> QED
  BY <1>3, DeliveryInvariance, PTL DEF LogSpec, AcceptedEvidenceStands
=============================================================================
