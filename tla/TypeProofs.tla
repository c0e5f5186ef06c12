----------------------------- MODULE TypeProofs -----------------------------
(***************************************************************************)
(* The type invariant of the orchestrator core, for every set of units,    *)
(* runs, workspaces and external actions.                                  *)
(***************************************************************************)
EXTENDS HibikiProperties, TLAPS

-----------------------------------------------------------------------------
(* The row updates keep rows in their tables' types.                       *)

LEMMA ReleaseType ==
    ASSUME TypeOK, NEW x \in WorkspaceRecords, NEW R
    PROVE  ReleaseBy(x, R) \in WorkspaceRecords
BY DEF ReleaseBy, WorkspaceRecords, WorkspaceStates

LEMMA KeepType ==
    ASSUME NEW x \in WorkspaceRecords, NEW R
    PROVE  KeepBy(x, R) \in WorkspaceRecords
BY DEF KeepBy, WorkspaceRecords

LEMMA VacateType ==
    ASSUME NEW x \in UnitRecords, NEW R
    PROVE  VacateBy(x, R) \in UnitRecords
BY DEF VacateBy, UnitRecords

LEMMA UnitUpdateType ==
    ASSUME NEW x \in UnitRecords, NEW s \in WorkUnitStatuses, NEW b \in BlockedReasons,
           NEW a \in Runs \cup {NoRun}, NEW m \in Runs \cup {NoRun}
    PROVE  /\ [x EXCEPT !.status = s] \in UnitRecords
           /\ [x EXCEPT !.status = s, !.reason = b] \in UnitRecords
           /\ [x EXCEPT !.status = s, !.reason = b, !.active = a] \in UnitRecords
           /\ [x EXCEPT !.status = s, !.active = a, !.marker = m] \in UnitRecords
           /\ [x EXCEPT !.status = s, !.marker = m, !.reason = b] \in UnitRecords
           /\ [x EXCEPT !.status = s, !.reason = b, !.active = a, !.marker = m] \in UnitRecords
BY DEF UnitRecords

LEMMA ClearBlockType ==
    ASSUME NEW x \in UnitRecords
    PROVE  ClearBlock(x) \in UnitRecords
BY DEF ClearBlock, UnitRecords, WorkUnitStatuses, BlockedReasons

LEMMA EnqueueType ==
    ASSUME TypeOK, NEW R
    PROVE  _enqueue_stops_for_runs(R) \in [Runs -> OutboxStatuses]
BY DEF TypeOK, _enqueue_stops_for_runs, OutboxStatuses

\* _invalidate_pending_outbox writes legal rows.
LEMMA InvalidatedType ==
    ASSUME TypeOK
    PROVE  /\ InvalidatedStarts \in [Runs -> OutboxStatuses]
           /\ \A r \in Runs : InvalidatedRun(r) \in RunStatuses
           /\ \A x \in WorkspaceRecords : InvalidatedWorkspace(x) \in WorkspaceRecords
           /\ \A u, x : x \in UnitRecords => InvalidatedUnit(u, x) \in UnitRecords
           /\ \A e \in Effects, c \in BOOLEAN : InvalidatedEffect(e, c) \in SideEffectStates
           /\ InvalidatedEffectRows \in [Effects -> OutboxStatuses]
<1>1. InvalidatedStarts \in [Runs -> OutboxStatuses]
  BY DEF TypeOK, InvalidatedStarts, OutboxStatuses
<1>2. \A r \in Runs : InvalidatedRun(r) \in RunStatuses
  BY DEF TypeOK, InvalidatedRun, RunStatuses
<1>3. \A x \in WorkspaceRecords : InvalidatedWorkspace(x) \in WorkspaceRecords
  BY ReleaseType, KeepType DEF InvalidatedWorkspace
<1>4. \A u, x : x \in UnitRecords => InvalidatedUnit(u, x) \in UnitRecords
  <2> SUFFICES ASSUME NEW u, NEW x \in UnitRecords
               PROVE  InvalidatedUnit(u, x) \in UnitRecords
    OBVIOUS
  <2> DEFINE y == VacateBy(x, RevokedRuns)
  <2>1. y \in UnitRecords
    BY VacateType
  <2> HIDE DEF y
  <2>2. [y EXCEPT !.status = "PENDING", !.reason = "none", !.active = NoRun] \in UnitRecords
    BY <2>1 DEF UnitRecords, WorkUnitStatuses, BlockedReasons
  <2> QED
    BY <2>1, <2>2 DEF InvalidatedUnit, y
<1>5. \A e \in Effects, c \in BOOLEAN : InvalidatedEffect(e, c) \in SideEffectStates
  BY DEF TypeOK, InvalidatedEffect, SideEffectStates
<1>6. InvalidatedEffectRows \in [Effects -> OutboxStatuses]
  BY DEF TypeOK, InvalidatedEffectRows, OutboxStatuses
<1> QED
  BY <1>1, <1>2, <1>3, <1>4, <1>5, <1>6

-----------------------------------------------------------------------------
LEMMA InitType == Init => TypeOK
<1> SUFFICES ASSUME Init PROVE TypeOK
  OBVIOUS
<1> USE RunAssumption, PlanAssumption DEF Init
<1>1. /\ state \in TaskStates
      /\ pauseIntent \in BOOLEAN /\ cancelIntent \in BOOLEAN
  BY DEF TaskStates
<1>2. /\ calls \in 0..CallLimit
      /\ submitted \in 0..MaxContracts /\ active \in 0..MaxContracts
      /\ snap \in 0..MaxContracts /\ planNo \in 0..MaxPlans
  OBVIOUS
<1>3. open \subseteq Gates /\ plan \in PlanRecords
  BY DEF PlanRecords
<1>4. wu \in [Units -> UnitRecords]
  BY DEF UnitRecords, WorkUnitStatuses, BlockedReasons, Verdicts
<1>5. ws \in [Workspaces -> WorkspaceRecords]
  BY DEF WorkspaceRecords, WorkspaceStates
<1>6. /\ run \in [Runs -> RunStatuses] /\ unconf \in [Runs -> BOOLEAN]
      /\ start \in [Runs -> OutboxStatuses] /\ stop \in [Runs -> OutboxStatuses]
  BY DEF RunStatuses, OutboxStatuses
<1>7. /\ eff \in [Effects -> SideEffectStates]
      /\ ttl \in [Effects -> {"none", "valid", "expired"}]
      /\ effRow \in [Effects -> OutboxStatuses]
      /\ applied \in [Effects -> BOOLEAN]
  BY DEF SideEffectStates, OutboxStatuses
<1>8. effVer \in [Effects -> 0..MaxContracts] /\ sends \in [Effects -> 0..2]
  OBVIOUS
<1>9. /\ startPc \in [Runs -> StartPhases] /\ stopPc \in [Runs -> StopPhases]
      /\ effPc \in [Effects -> EffectPhases] /\ agentPc \in [Runs -> AgentPhases]
      /\ alive \in [Runs -> BOOLEAN] /\ revoked \in [Runs -> BOOLEAN]
      /\ stray \in [Runs -> BOOLEAN]
  BY DEF StartPhases, StopPhases, EffectPhases, AgentPhases
<1> QED
  BY <1>1, <1>2, <1>3, <1>4, <1>5, <1>6, <1>7, <1>8, <1>9 DEF TypeOK

-----------------------------------------------------------------------------
(* One lemma per group of actions of HibikiCore.                           *)

LEMMA CommandType == TypeOK /\ Command => TypeOK'
<1> SUFFICES ASSUME TypeOK, Command PROVE TypeOK'
  OBVIOUS
<1> USE PlanAssumption DEF TypeOK, taskVars, decisionVars, planVars, execVars, agentOutbox,
        effectRows, dispatchers, adapterVars, worldVars
<1>1. CASE SubmitContract
  BY <1>1 DEF SubmitContract, _set_task_state, ContractSubmitted, TaskStates, Gates, FixedGates
<1>2. CASE ApproveContract
  BY <1>2 DEF ApproveContract, _set_task_state, ContractApproved, ContractApprovedSimple,
              TaskStates
<1>3. ASSUME NEW g \in Gates, CloseGate(g) PROVE TypeOK'
  BY <1>3, ClearBlockType DEF CloseGate, _recompute_runnable_state, _set_task_state,
              DecisionResolved, TaskStates
<1>4. ASSUME NEW e \in Effects, ApproveSideEffect(e) PROVE TypeOK'
  BY <1>4, ClearBlockType DEF ApproveSideEffect, _recompute_runnable_state, _set_task_state,
              DecisionResolved, TaskStates, SideEffectStates
<1>5. ASSUME NEW g \in Clarifications, NEW r \in Runs \cup {NoRun}, OpenBlockingGate(g, r)
      PROVE  TypeOK'
  <2>1. \A u \in Units : GateUnit(u, r) \in UnitRecords
    <3> SUFFICES ASSUME NEW u \in Units PROVE GateUnit(u, r) \in UnitRecords
      OBVIOUS
    <3> DEFINE x == IF wu[u].status = "RUNNING"
                    THEN [wu[u] EXCEPT !.status = "BLOCKED", !.reason = "other",
                                       !.active = NoRun]
                    ELSE wu[u]
    <3>1. x \in UnitRecords
      BY DEF UnitRecords, WorkUnitStatuses, BlockedReasons
    <3> HIDE DEF x
    <3>2. [x EXCEPT !.marker = IF @ = r THEN NoRun ELSE @] \in UnitRecords
      BY <3>1 DEF UnitRecords
    <3> QED
      BY <3>2 DEF GateUnit, x
  <2>2. wu' \in [Units -> UnitRecords]
    BY <1>5, <2>1, InvalidatedType DEF OpenBlockingGate
  <2>3. run' \in [Runs -> RunStatuses]
    BY <1>5, InvalidatedType DEF OpenBlockingGate, RunStatuses
  <2>4. open' \subseteq Gates /\ state' \in TaskStates
    BY <1>5 DEF OpenBlockingGate, Gates, _set_task_state, BlockingGateOpened, TaskStates
  <2> QED
    BY <1>5, <2>2, <2>3, <2>4, InvalidatedType, EnqueueType DEF OpenBlockingGate
<1>6. CASE PauseTask
  BY <1>6, InvalidatedType, EnqueueType DEF PauseTask, _set_task_state, PauseRequested,
              TaskStates
<1>7. CASE RuntimeQuiescent
  <2>1. wu' \in [Units -> UnitRecords]
    <3> SUFFICES ASSUME NEW u \in Units PROVE wu'[u] \in UnitRecords
      BY <1>7 DEF RuntimeQuiescent
    <3> DEFINE x == IF wu[u].status = "RUNNING"
                    THEN [wu[u] EXCEPT !.status = "BLOCKED", !.reason = "paused",
                                       !.active = NoRun]
                    ELSE wu[u]
    <3>1. x \in UnitRecords
      BY DEF UnitRecords, WorkUnitStatuses, BlockedReasons
    <3> HIDE DEF x
    <3>2. VacateBy(x, ActiveRuns) \in UnitRecords
      BY <3>1, VacateType
    <3> QED
      BY <1>7, <3>2 DEF RuntimeQuiescent, x
  <2> QED
    BY <1>7, <2>1, ReleaseType DEF RuntimeQuiescent, _set_task_state, RuntimeQuiescentEvent,
                TaskStates, RunStatuses
<1>8. CASE ResumeTask
  <2>1. \A u \in Units : [wu[u] EXCEPT !.status = "PENDING", !.reason = "none"] \in UnitRecords
    BY UnitUpdateType DEF WorkUnitStatuses, BlockedReasons
  <2>2. wu' \in [Units -> UnitRecords]
    BY <1>8, <2>1 DEF ResumeTask
  <2> QED
    BY <1>8, <2>2 DEF ResumeTask, _set_task_state, ResumeRequested, ResumeRequestedRunnable,
                TaskStates
<1>9. CASE CancelTask
  <2>1. \A u \in Units : CancelledUnit(u) \in UnitRecords
    <3> SUFFICES ASSUME NEW u \in Units PROVE CancelledUnit(u) \in UnitRecords
      OBVIOUS
    <3> DEFINE x == InvalidatedUnit(u, wu[u])
    <3>1. x \in UnitRecords
      BY InvalidatedType
    <3> HIDE DEF x
    <3>2. [x EXCEPT !.status = "CANCELLED"] \in UnitRecords
      BY <3>1 DEF UnitRecords, WorkUnitStatuses
    <3> QED
      BY <3>1, <3>2 DEF CancelledUnit, x
  <2>2. \A e \in Effects : CancelledEffect(e) \in SideEffectStates
    BY InvalidatedType DEF CancelledEffect, SideEffectStates
  <2> QED
    BY <1>9, <2>1, <2>2, InvalidatedType, EnqueueType DEF CancelTask, _set_task_state,
                CancelRequested, TaskStates
<1>10. ASSUME NEW accept \in BOOLEAN, CancellationSettled(accept) PROVE TypeOK'
  BY <1>10 DEF CancellationSettled, _set_task_state, CancellationSettledEvent, TaskStates,
               RunStatuses
<1>11. CASE PrepareAcceptance
  BY <1>11 DEF PrepareAcceptance, _set_task_state, AcceptanceAsked, AcceptanceReady, TaskStates, Gates, FixedGates
<1>12. CASE ApproveAcceptance
  BY <1>12 DEF ApproveAcceptance, _set_task_state, FinalAccepted, TaskStates
<1>13. ASSUME NEW p \in Plans, ActivatePlan(p) PROVE TypeOK'
  <2>1. wu' \in [Units -> UnitRecords]
    <3> SUFFICES ASSUME NEW u \in Units PROVE PlannedUnit(u, p) \in UnitRecords
      BY <1>13 DEF ActivatePlan
    <3> DEFINE x == wu[u]
    <3>x. x \in UnitRecords
      OBVIOUS
    <3> HIDE DEF x
    <3>1. [x EXCEPT !.status = "PENDING"] \in UnitRecords
      BY <3>x DEF UnitRecords, WorkUnitStatuses
    <3>2. [x EXCEPT !.status = "CANCELLED", !.reason = "other", !.active = NoRun,
                    !.marker = IF x.status = "PENDING" THEN @ ELSE NoRun] \in UnitRecords
      BY <3>x DEF UnitRecords, WorkUnitStatuses, BlockedReasons
    <3> QED
      BY <3>1, <3>2 DEF PlannedUnit, x
  <2>2. plan' \in PlanRecords /\ planNo' \in 0..MaxPlans
    BY <1>13 DEF ActivatePlan, RevisionAllowed
  <2>3. run' \in [Runs -> RunStatuses] /\ start' \in [Runs -> OutboxStatuses]
    BY <1>13 DEF ActivatePlan, RunStatuses, OutboxStatuses
  <2>4. state' \in TaskStates
    BY <1>13 DEF ActivatePlan, _set_task_state, PlanActivated, TaskStates
  <2> QED
    BY <1>13, <2>1, <2>2, <2>3, <2>4, ReleaseType, EnqueueType DEF ActivatePlan
<1>14. ASSUME NEW S \in SUBSET Units, NEW X \in SUBSET Units, NEW O \in SUBSET Units,
              DispatchReadyRuns(S, X, O)
       PROVE  TypeOK'
  <2> DEFINE New == {FreshRun(u) : u \in S}
  <2>1. \A u \in S : FreshRun(u) \in Runs
    <3> SUFFICES ASSUME NEW u \in S PROVE FreshRun(u) \in Runs
      OBVIOUS
    <3>1. FreshRuns(u) # {}
      BY <1>14 DEF DispatchReadyRuns
    <3>2. FreshRun(u) \in FreshRuns(u)
      BY <3>1 DEF FreshRun
    <3> QED
      BY <3>2 DEF FreshRuns
  <2>2. New \subseteq Runs
    BY <2>1
  <2> HIDE DEF New
  <2>3. wu' \in [Units -> UnitRecords]
    <3> SUFFICES ASSUME NEW u \in Units PROVE wu'[u] \in UnitRecords
      BY <1>14 DEF DispatchReadyRuns
    <3>1. u \in S => [wu[u] EXCEPT !.status = "RUNNING", !.active = FreshRun(u),
                                   !.marker = FreshRun(u)] \in UnitRecords
      <4>1. "RUNNING" \in WorkUnitStatuses /\ "none" \in BlockedReasons /\ wu[u] \in UnitRecords
        BY DEF WorkUnitStatuses, BlockedReasons
      <4> QED
        BY <2>1, <4>1, UnitUpdateType
    <3>2. [wu[u] EXCEPT !.status = "BLOCKED", !.marker = NoRun,
                        !.reason = "attempts_exhausted"] \in UnitRecords
      BY UnitUpdateType DEF WorkUnitStatuses, BlockedReasons
    <3>3. [wu[u] EXCEPT !.status = "BLOCKED", !.marker = NoRun, !.reason = "other"]
             \in UnitRecords
      BY UnitUpdateType DEF WorkUnitStatuses, BlockedReasons
    <3> QED
      BY <1>14, <3>1, <3>2, <3>3 DEF DispatchReadyRuns
  <2>4. ws' \in [Workspaces -> WorkspaceRecords]
    <3> SUFFICES ASSUME NEW w \in Workspaces, \E r \in New : WorkspaceOfRun(r) = w
                 PROVE  [state |-> "LOCKED", writer |-> TRUE,
                         owner |-> CHOOSE r \in New : WorkspaceOfRun(r) = w]
                           \in WorkspaceRecords
      BY <1>14 DEF DispatchReadyRuns, New
    <3> QED
      BY <2>2 DEF WorkspaceRecords, WorkspaceStates
  <2>5. run' \in [Runs -> RunStatuses] /\ start' \in [Runs -> OutboxStatuses]
    BY <1>14 DEF DispatchReadyRuns, RunStatuses, OutboxStatuses
  <2> QED
    BY <1>14, <2>3, <2>4, <2>5 DEF DispatchReadyRuns
<1>15. CASE DispatchOverBudget
  BY <1>15 DEF DispatchOverBudget, _set_task_state, BlockingGateOpened, TaskStates, Gates,
               FixedGates
<1>16. ASSUME NEW r \in Runs, ConfirmRunExit(r) PROVE TypeOK'
  BY <1>16, EnqueueType DEF ConfirmRunExit, _confirm_run_exit, OutboxStatuses
<1> QED
  BY <1>1, <1>2, <1>3, <1>4, <1>5, <1>6, <1>7, <1>8, <1>9, <1>10, <1>11, <1>12, <1>13, <1>14,
     <1>15, <1>16 DEF Command

LEMMA AgentType == ASSUME NEW r \in Runs PROVE TypeOK /\ AgentStep(r) => TypeOK'
<1> SUFFICES ASSUME TypeOK, AgentStep(r) PROVE TypeOK'
  OBVIOUS
<1> USE RunAssumption, PlanAssumption DEF TypeOK, taskVars, decisionVars, planVars, execVars,
        agentOutbox, effectRows, dispatchers, adapterVars, worldVars
<1>1. CASE RecordModelUsage(r)
  BY <1>1 DEF RecordModelUsage
<1>2. ASSUME NEW outcome \in {"COMPLETED", "BLOCKED"}, NEW verdict \in Verdicts,
             SubmitResult(r, outcome, verdict)
      PROVE  TypeOK'
  <2> DEFINE u == UnitOf[r]
             x == wu[u]
  <2>1. u \in Units /\ x \in UnitRecords
    OBVIOUS
  <2> HIDE DEF x
  <2>2. /\ VacateBy(x, {r}) \in UnitRecords
        /\ [x EXCEPT !.status = "BLOCKED", !.reason = "other", !.active = NoRun,
                     !.marker = NoRun] \in UnitRecords
        /\ [x EXCEPT !.status = "DONE", !.verdict = verdict, !.active = NoRun,
                     !.marker = NoRun] \in UnitRecords
    BY <2>1, VacateType DEF UnitRecords, WorkUnitStatuses, BlockedReasons
  <2>3. wu' \in [Units -> UnitRecords]
    <3>1. \E y \in UnitRecords : wu' = [wu EXCEPT ![u] = y]
      BY <1>2, <2>2 DEF SubmitResult, x
    <3> QED
      BY <2>1, <3>1
  <2>4. state' \in TaskStates
    BY <1>2 DEF SubmitResult, VerifiedState, VerificationFailed, RequiredOutputsReady, TaskStates
  <2>5. run' \in [Runs -> RunStatuses]
    BY <1>2 DEF SubmitResult, RunStatuses
  <2> QED
    BY <1>2, <2>3, <2>4, <2>5 DEF SubmitResult
<1>3. CASE AuthorizeShell(r)
  BY <1>3 DEF AuthorizeShell, AgentPhases
<1>4. WorkspaceOfRun(r) \in Workspaces
  BY DEF WorkspaceOfRun
<1>5. [ws EXCEPT ![WorkspaceOfRun(r)].writer = TRUE] \in [Workspaces -> WorkspaceRecords]
  <2> DEFINE x == ws[WorkspaceOfRun(r)]
  <2>1. x \in WorkspaceRecords
    BY <1>4
  <2> HIDE DEF x
  <2>2. [x EXCEPT !.writer = TRUE] \in WorkspaceRecords
    BY <2>1 DEF WorkspaceRecords
  <2> QED
    BY <1>4, <2>2 DEF x
<1>6. CASE BeginShell(r)
  BY <1>5, <1>6 DEF BeginShell, AgentPhases
<1>7. CASE EndShell(r)
  <2>1. _release_workspace_after_confirmed_exit(ws[WorkspaceOfRun(r)], r) \in WorkspaceRecords
    BY <1>4 DEF _release_workspace_after_confirmed_exit, WorkspaceRecords, WorkspaceStates
  <2>2. ws' \in [Workspaces -> WorkspaceRecords]
    BY <1>4, <1>7, <2>1 DEF EndShell
  <2> QED
    BY <1>7, <2>2 DEF EndShell, AgentPhases
<1>8. CASE LoseShell(r)
  BY <1>5, <1>8 DEF LoseShell, AgentPhases
<1>9. CASE LeaveRun(r)
  BY <1>9, EnqueueType DEF LeaveRun, _confirm_run_exit, OutboxStatuses, AgentPhases
<1>10. CASE AgentExit(r)
  BY <1>10 DEF AgentExit, AgentPhases
<1>11. CASE ContainerExit(r)
  BY <1>11 DEF ContainerExit, AgentPhases
<1> QED
  BY <1>1, <1>2, <1>3, <1>6, <1>7, <1>8, <1>9, <1>10, <1>11 DEF AgentStep

LEMMA StartType == ASSUME NEW r \in Runs PROVE TypeOK /\ StartStep(r) => TypeOK'
<1> SUFFICES ASSUME TypeOK, StartStep(r) PROVE TypeOK'
  OBVIOUS
<1> USE DEF TypeOK, taskVars, decisionVars, planVars, execVars, agentOutbox, effectRows,
        dispatchers, adapterVars, worldVars
<1>1. ASSUME FenceStart(r)
      PROVE  /\ start' \in [Runs -> OutboxStatuses] /\ stop' \in [Runs -> OutboxStatuses]
             /\ ws' \in [Workspaces -> WorkspaceRecords]
  BY <1>1, KeepType, EnqueueType DEF FenceStart, OutboxStatuses
<1>2. CASE ClaimStart(r)
  BY <1>2 DEF ClaimStart, OutboxStatuses, StartPhases
<1>3. CASE CheckStart(r)
  BY <1>1, <1>3 DEF CheckStart, StartPhases
<1>4. CASE AdapterStart(r)
  BY <1>4 DEF AdapterStart, StartPhases
<1>5. CASE AckStart(r)
  <2>1. /\ start' \in [Runs -> OutboxStatuses] /\ run' \in [Runs -> RunStatuses]
        /\ startPc' \in [Runs -> StartPhases]
    BY <1>5 DEF AckStart, OutboxStatuses, RunStatuses, StartPhases
  <2> QED
    BY <1>5, <2>1, KeepType, EnqueueType DEF AckStart
<1>6. CASE AckStartRevoked(r)
  BY <1>6 DEF AckStartRevoked, OutboxStatuses, StartPhases
<1>7. CASE FailStart(r)
  BY <1>1, <1>7 DEF FailStart, StartPhases
<1> QED
  BY <1>2, <1>3, <1>4, <1>5, <1>6, <1>7 DEF StartStep

LEMMA StopType == ASSUME NEW r \in Runs PROVE TypeOK /\ StopStep(r) => TypeOK'
<1> SUFFICES ASSUME TypeOK, StopStep(r) PROVE TypeOK'
  OBVIOUS
<1> USE RunAssumption DEF TypeOK, taskVars, decisionVars, planVars, execVars, agentOutbox,
        effectRows, dispatchers, adapterVars, worldVars
<1>1. CASE ClaimStop(r)
  BY <1>1 DEF ClaimStop, OutboxStatuses, StopPhases
<1>2. CASE AdapterStop(r)
  BY <1>2 DEF AdapterStop, AgentPhases, StopPhases
<1>3. CASE AckStop(r)
  <2> DEFINE w == WorkspaceOfRun(r)
             x == ws[w]
             y == VacateBy(wu[UnitOf[r]], {r})
  <2>1. w \in Workspaces /\ x \in WorkspaceRecords /\ y \in UnitRecords
    BY VacateType DEF WorkspaceOfRun
  <2> HIDE DEF w, x, y
  <2>2. /\ StopAckedWorkspace(x, r) \in WorkspaceRecords
        /\ [x EXCEPT !.state = "QUARANTINED", !.writer = TRUE] \in WorkspaceRecords
    BY <2>1 DEF StopAckedWorkspace, WorkspaceRecords, WorkspaceStates
  <2>3. ReleaseBy(StopAckedWorkspace(x, r), {r}) \in WorkspaceRecords
    BY <2>2, ReleaseType
  <2>4. ws' \in [Workspaces -> WorkspaceRecords]
    BY <1>3, <2>1, <2>2, <2>3 DEF AckStop, w, x
  <2>5. [y EXCEPT !.active = NoRun,
                  !.status = IF y.reason = "none" THEN "PENDING"
                             ELSE IF run[r] = "RUNNING" THEN "BLOCKED" ELSE @] \in UnitRecords
    BY <2>1 DEF UnitRecords, WorkUnitStatuses
  <2>6. StopAckedUnit(wu[UnitOf[r]], r) \in UnitRecords
    BY <2>1, <2>5 DEF StopAckedUnit, y
  <2>7. wu' \in [Units -> UnitRecords]
    BY <1>3, <2>6 DEF AckStop
  <2>8. /\ run' \in [Runs -> RunStatuses] /\ stop' \in [Runs -> OutboxStatuses]
        /\ stopPc' \in [Runs -> StopPhases]
    BY <1>3 DEF AckStop, RunStatuses, OutboxStatuses, StopPhases
  <2> QED
    BY <1>3, <2>4, <2>7, <2>8 DEF AckStop
<1>4. CASE FailStop(r)
  BY <1>4 DEF FailStop, OutboxStatuses, StopPhases
<1> QED
  BY <1>1, <1>2, <1>3, <1>4 DEF StopStep

LEMMA EffectType == ASSUME NEW e \in Effects PROVE TypeOK /\ EffectStep(e) => TypeOK'
<1> SUFFICES ASSUME TypeOK, EffectStep(e) PROVE TypeOK'
  OBVIOUS
<1> USE DEF TypeOK, taskVars, decisionVars, planVars, execVars, agentOutbox, effectRows,
        dispatchers, adapterVars, worldVars, SideEffectStates, OutboxStatuses, EffectPhases
<1>1. CASE ProposeSideEffect(e)
  BY <1>1 DEF ProposeSideEffect, _set_task_state, BlockingGateOpened, TaskStates, Gates
<1>2. CASE ApprovalExpires(e)
  BY <1>2 DEF ApprovalExpires
<1>3. CASE DispatchSideEffect(e)
  BY <1>3 DEF DispatchSideEffect
<1>4. Unsent(e) \in SideEffectStates
  BY DEF Unsent
<1>5. CASE ClaimEffect(e)
  BY <1>4, <1>5 DEF ClaimEffect
<1>6. CASE PrecheckEffect(e)
  BY <1>4, <1>6 DEF PrecheckEffect
<1>7. CASE SendEffect(e)
  <2>1. sends' \in [Effects -> 0..2]
    BY <1>7 DEF SendEffect
  <2>2. effPc' \in [Effects -> EffectPhases]
    BY <1>7 DEF SendEffect
  <2>3. \/ UNCHANGED applied
        \/ \E b \in {applied[e], TRUE} : applied' = [applied EXCEPT ![e] = b]
    BY <1>7, Zenon DEF SendEffect
  <2>4. applied' \in [Effects -> BOOLEAN]
    <3>1. applied[e] \in BOOLEAN
      OBVIOUS
    <3>2. \A b \in BOOLEAN : [applied EXCEPT ![e] = b] \in [Effects -> BOOLEAN]
      OBVIOUS
    <3> QED
      BY <2>3, <3>1, <3>2, Zenon
  <2> QED
    BY <1>7, <2>1, <2>2, <2>4 DEF SendEffect
<1>8. CASE ApplyReceipt(e)
  BY <1>8 DEF ApplyReceipt
<1>9. UncertainState \in TaskStates
  BY DEF UncertainState, BlockingGateOpened, TaskStates
<1>10. CASE ApplyUnknown(e)
  BY <1>9, <1>10 DEF ApplyUnknown
<1>11. CASE FailEffect(e)
  BY <1>9, <1>11 DEF FailEffect
<1>12. CASE ReconcileSideEffect(e)
  BY <1>12 DEF ReconcileSideEffect, _set_task_state, BlockingGateOpened, TaskStates
<1> QED
  BY <1>1, <1>2, <1>3, <1>5, <1>6, <1>7, <1>8, <1>10, <1>11, <1>12 DEF EffectStep

LEMMA RecoveryType == TypeOK /\ Recovery => TypeOK'
<1> SUFFICES ASSUME TypeOK, Recovery PROVE TypeOK'
  OBVIOUS
<1> USE DEF TypeOK, taskVars, decisionVars, planVars, execVars, agentOutbox, effectRows,
        dispatchers, adapterVars, worldVars
<1>1. CASE Crash
  BY <1>1 DEF Crash, StartPhases, StopPhases, EffectPhases, AgentPhases
<1>2. \A u \in Units : \A L, H : RecoveredUnit(u, L, H) \in UnitRecords
  <2> SUFFICES ASSUME NEW u \in Units, NEW L, NEW H
               PROVE  RecoveredUnit(u, L, H) \in UnitRecords
    OBVIOUS
  <2> DEFINE x == VacateBy(wu[u], L)
  <2>1. x \in UnitRecords
    BY VacateType
  <2> HIDE DEF x
  <2>2. /\ [x EXCEPT !.status = "PENDING", !.reason = "none"] \in UnitRecords
        /\ \A b \in BlockedReasons : [x EXCEPT !.status = "BLOCKED", !.reason = b] \in UnitRecords
    BY <2>1 DEF UnitRecords, WorkUnitStatuses, BlockedReasons
  <2> QED
    BY <2>1, <2>2 DEF RecoveredUnit, x, BlockedReasons
<1>3. ASSUME NEW xStart, NEW xStop, NEW xEff, NEW H, NEW Q,
             Reconcile(xStart, xStop, xEff, H, Q)
      PROVE  TypeOK'
  <2>1. wu' \in [Units -> UnitRecords]
    BY <1>2, <1>3 DEF Reconcile
  <2>2. ws' \in [Workspaces -> WorkspaceRecords]
    <3> DEFINE uncertain == \E e \in xEff : eff[e] \in {"DISPATCHING", "UNKNOWN"}
               stateE == IF uncertain /\ state \notin TERMINAL_TASK_STATES
                         THEN "WAITING_HUMAN" ELSE state
               keep == stateE \in {"PAUSED", "WAITING_HUMAN", "CANCELLING"}
               L == IF keep THEN {} ELSE LostRuns
               U == IF keep THEN {} ELSE {r \in ActiveRuns : unconf[r]}
    <3>1. ws' = [w \in Workspaces |->
              LET x == ReleaseBy(KeepBy(ws[w], xStart), L)
              IN IF \E r \in U : WorkspaceOfRun(r) = w
                 THEN [x EXCEPT !.state = "QUARANTINED", !.writer = TRUE]
                 ELSE IF \E r \in Q : WorkspaceOfRun(r) = w
                 THEN [x EXCEPT !.state = "QUARANTINED"]
                 ELSE x]
      BY <1>3 DEF Reconcile
    <3> HIDE DEF uncertain, stateE, keep, L, U
    <3> SUFFICES ASSUME NEW w \in Workspaces PROVE ws'[w] \in WorkspaceRecords
      BY <3>1
    <3> DEFINE x == ReleaseBy(KeepBy(ws[w], xStart), L)
    <3>2. x \in WorkspaceRecords
      BY KeepType, ReleaseType
    <3> HIDE DEF x
    <3>3. /\ [x EXCEPT !.state = "QUARANTINED", !.writer = TRUE] \in WorkspaceRecords
          /\ [x EXCEPT !.state = "QUARANTINED"] \in WorkspaceRecords
      BY <3>2 DEF WorkspaceRecords, WorkspaceStates
    <3> QED
      BY <3>1, <3>2, <3>3 DEF x
  <2>3. start' \in [Runs -> OutboxStatuses] /\ stop' \in [Runs -> OutboxStatuses]
    BY <1>3, EnqueueType DEF Reconcile, OutboxStatuses
  <2>4. run' \in [Runs -> RunStatuses]
    BY <1>3 DEF Reconcile, RunStatuses
  <2>5. eff' \in [Effects -> SideEffectStates] /\ effRow' \in [Effects -> OutboxStatuses]
    BY <1>3 DEF Reconcile, ReconciledEffect, SideEffectStates, OutboxStatuses
  <2>6. state' \in TaskStates
    BY <1>3 DEF Reconcile, TaskStates
  <2> QED
    BY <1>3, <2>1, <2>2, <2>3, <2>4, <2>5, <2>6 DEF Reconcile
<1> QED
  BY <1>1, <1>3 DEF Recovery

-----------------------------------------------------------------------------
LEMMA StepType == TypeOK /\ [Next]_vars => TypeOK'
<1> SUFFICES ASSUME TypeOK, [Next]_vars PROVE TypeOK'
  OBVIOUS
<1>1. CASE Next
  BY <1>1, CommandType, AgentType, StartType, StopType, EffectType, RecoveryType DEF Next
<1>2. CASE UNCHANGED vars
  BY <1>2 DEF TypeOK, vars, taskVars, decisionVars, planVars, execVars, agentOutbox, effectRows,
              dispatchers, adapterVars, worldVars
<1> QED
  BY <1>1, <1>2

\* Every row, queue entry and thread position stays within its type: in
\* particular the plan revisions stay within max_plan_revisions and the recorded
\* model calls within model_call_limit, whatever the handlers, dispatchers,
\* agents and crashes do.
THEOREM TypeCorrect == Spec => []TypeOK
<1>1. Init => TypeOK
  BY InitType
<1>2. TypeOK /\ [Next]_vars => TypeOK'
  BY StepType
<1> QED
  BY <1>1, <1>2, PTL DEF Spec
=============================================================================
