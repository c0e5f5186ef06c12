----------------------------- MODULE RestProofs -----------------------------
(***************************************************************************)
(* The task's life cycle: a task at rest has no writer, no live run and no *)
(* running unit, a task that is being stopped has a stop on its way to     *)
(* every agent, and cancellation and terminal states are final.            *)
(***************************************************************************)
EXTENDS LockProofs

AtRest == state \in {"PAUSED", "COMPLETED", "ABORTED"}

\* Nobody may write, and nothing that could is on its way to the adapter.
Quiet(r) ==
    /\ run[r] \notin ACTIVE_RUN
    /\ UnitOf[r] \notin ShellUnits => ~Coming(r)
    /\ ~(alive[r] /\ InShell(r))

RestInv == AtRest => \A r \in Runs : Quiet(r)

\* What the three ways to rest ask for is enough.
LEMMA NoWriterIsQuiet ==
    ASSUME WorkspaceInv, ShellInv, ~_task_has_live_writer, NEW r \in Runs
    PROVE  /\ UnitOf[r] \notin ShellUnits => ~Coming(r)
           /\ ~(alive[r] /\ InShell(r))
<1>1. /\ UnitOf[r] \notin ShellUnits /\ Coming(r) => Holds(r)
      /\ alive[r] /\ InShell(r) => Holds(r)
  BY DEF WorkspaceInv, ComingAgentHolds, ShellInv, ShellHolds
<1> QED
  BY <1>1 DEF _task_has_live_writer, Holds

\* A task that is at rest before and after a step stays quiet when no run
\* becomes live and no start passes its check.
LEMMA RestKept ==
    ASSUME WorkspaceInv, ShellInv, RestInv, Next, AtRest' => AtRest,
           AtRest => \A r \in Runs : /\ run'[r] \in ACTIVE_RUN => run[r] \in ACTIVE_RUN
                                     /\ Coming(r)' => Coming(r)
    PROVE  RestInv'
<1> SUFFICES ASSUME AtRest, NEW r \in Runs, alive'[r], InShell(r)' PROVE FALSE
  BY DEF RestInv, Quiet
<1>1. run[r] \notin ACTIVE_RUN /\ ~(alive[r] /\ InShell(r))
  BY DEF RestInv, Quiet
<1>2. InShell(r) /\ ~alive[r]
  BY <1>1, ShellStep DEF WorkspaceInv, EntersShell, ACTIVE_RUN
<1>3. AdapterStart(r)
  BY <1>2, ShellStep DEF WorkspaceInv
<1> QED
  BY <1>2, <1>3 DEF AdapterStart, ShellInv, StartsOnce

LEMMA RestCommand == ASSUME WorkspaceInv, ShellInv, RestInv, Command PROVE RestInv'
<1>0. Next
  BY DEF Next
<1> USE DEF taskVars, decisionVars, planVars, execVars, agentOutbox, effectRows, dispatchers,
        adapterVars, worldVars
<1>1. ASSUME RuntimeQuiescent \/ \E accept \in BOOLEAN : CancellationSettled(accept)
      PROVE  RestInv'
  <2>1. /\ run' = [r \in Runs |-> IF r \in ActiveRuns THEN "CANCELLED" ELSE run[r]]
        /\ ~_task_has_live_writer
        /\ UNCHANGED <<alive, startPc, revoked, agentPc, unconf>>
    BY <1>1 DEF RuntimeQuiescent, CancellationSettled
  <2>2. \A r \in Runs : run'[r] \notin ACTIVE_RUN
    BY <2>1 DEF ActiveRuns, ACTIVE_RUN
  <2>3. \A r \in Runs : /\ UnitOf[r] \notin ShellUnits => ~Coming(r)'
                        /\ ~(alive[r] /\ InShell(r))'
    BY <2>1, NoWriterIsQuiet DEF Coming, InShell
  <2> QED
    BY <2>2, <2>3 DEF RestInv, Quiet
<1>2. CASE ApproveAcceptance
  <2>1. \A r \in Runs : run[r] \notin ACTIVE_RUN
    BY <1>2 DEF ApproveAcceptance, ActiveRuns
  <2>2. \A r \in Runs : /\ UnitOf[r] \notin ShellUnits => ~Coming(r)
                        /\ ~(alive[r] /\ InShell(r))
    BY <1>2, NoWriterIsQuiet DEF ApproveAcceptance
  <2> QED
    BY <1>2, <2>1, <2>2 DEF ApproveAcceptance, RestInv, Quiet, Coming, InShell
<1>3. CASE \/ SubmitContract \/ ApproveContract \/ ResumeTask \/ PrepareAcceptance
           \/ DispatchOverBudget \/ PauseTask \/ CancelTask
           \/ \E g \in Clarifications, r \in Runs \cup {NoRun} : OpenBlockingGate(g, r)
  <2>1. \E event \in {ContractSubmitted, ContractApproved, ContractApprovedSimple, ResumeRequested,
                      ResumeRequestedRunnable, AcceptanceAsked, BlockingGateOpened,
                      PauseRequested, CancelRequested} : _set_task_state(event)
    BY <1>3, Zenon DEF SubmitContract, ApproveContract, ResumeTask, PrepareAcceptance,
              DispatchOverBudget, PauseTask, CancelTask, OpenBlockingGate
  <2>2. state' \in {"WAITING_HUMAN", "PLANNING", "EXECUTING", "PAUSING", "CANCELLING"}
    BY <2>1 DEF _set_task_state, ContractSubmitted, ContractApproved, ContractApprovedSimple,
              ResumeRequested, ResumeRequestedRunnable, AcceptanceAsked,
              AcceptanceReady, BlockingGateOpened, PauseRequested, CancelRequested
  <2> QED
    BY <2>2 DEF RestInv, AtRest
<1>7. CASE \/ \E g \in Gates : CloseGate(g)
           \/ \E e \in Effects : ApproveSideEffect(e)
  <2>1. /\ UNCHANGED state \/ _set_task_state(DecisionResolved)
        /\ UNCHANGED <<run, alive, startPc, revoked, agentPc, unconf>>
    BY <1>7 DEF CloseGate, ApproveSideEffect, _recompute_runnable_state
  <2> QED
    BY <2>1 DEF RestInv, AtRest, Quiet, Coming, InShell, _set_task_state, DecisionResolved
<1>4. ASSUME NEW p \in Plans, ActivatePlan(p) PROVE RestInv'
  <2>1. AtRest' => AtRest
    BY <1>4 DEF ActivatePlan, _set_task_state, PlanActivated, AtRest
  <2>2. \A r \in Runs : run'[r] \in ACTIVE_RUN => run[r] \in ACTIVE_RUN
    BY <1>4 DEF ActivatePlan, ACTIVE_RUN
  <2>3. UNCHANGED <<alive, startPc, revoked>>
    BY <1>4 DEF ActivatePlan
  <2> QED
    BY <1>0, <2>1, <2>2, <2>3, RestKept DEF Coming
<1>5. CASE \E S, X, O \in SUBSET Units : DispatchReadyRuns(S, X, O)
  BY <1>5 DEF DispatchReadyRuns, DispatchGuard, guard_dispatch, DISPATCHABLE_TASK_STATES, RestInv,
              AtRest
<1>6. CASE \E r \in Runs : ConfirmRunExit(r)
  BY <1>6 DEF ConfirmRunExit, _confirm_run_exit, RestInv, AtRest, Quiet, Coming, InShell
<1> QED
  BY <1>1, <1>2, <1>3, <1>4, <1>5, <1>6, <1>7 DEF Command

LEMMA RestRunStep ==
    ASSUME NEW r \in Runs, WorkspaceInv, ShellInv, RestInv, AgentStep(r) \/ StartStep(r) \/ StopStep(r)
    PROVE  RestInv'
<1> USE DEF taskVars, decisionVars, planVars, execVars, agentOutbox, effectRows, dispatchers,
        adapterVars, worldVars
<1>type. TypeOK
  BY DEF WorkspaceInv
<1>0. Next
  BY DEF Next
<1>1. CASE AgentStep(r)
  <2>1. AtRest' => AtRest
    BY <1>1 DEF AgentStep, RecordModelUsage, SubmitResult, VerifiedState, VerificationFailed,
         RequiredOutputsReady, AuthorizeShell, BeginShell, EndShell, LoseShell, LeaveRun,
         _confirm_run_exit, AgentExit, ContainerExit, AtRest
  <2>2. \A q \in Runs : /\ run'[q] \in ACTIVE_RUN => run[q] \in ACTIVE_RUN
                        /\ Coming(q)' => Coming(q)
    BY <1>1, <1>type DEF AgentStep, RecordModelUsage, SubmitResult, AuthorizeShell, BeginShell,
         EndShell, LoseShell, LeaveRun, _confirm_run_exit, AgentExit, ContainerExit, ACTIVE_RUN,
         Coming, TypeOK
  <2> QED
    BY <1>0, <2>1, <2>2, RestKept
<1>2. CASE StartStep(r)
  <2>1. UNCHANGED state
    BY <1>2 DEF StartStep, ClaimStart, CheckStart, AdapterStart, AckStart, AckStartRevoked, FailStart
  \* The last check before the adapter is called fails in a task at rest.
  <2>2. AtRest => \A q \in Runs : Coming(q)' => Coming(q)
    BY <1>2, <1>type DEF StartStep, ClaimStart, CheckStart, AdapterStart, AckStart, AckStartRevoked,
         FailStart, SendAllowed, DISPATCHABLE_TASK_STATES, AtRest, Coming, TypeOK
  <2>3. \A q \in Runs : run'[q] \in ACTIVE_RUN => run[q] \in ACTIVE_RUN
    BY <1>2, <1>type DEF StartStep, ClaimStart, CheckStart, AdapterStart, AckStart, AckStartRevoked,
         FailStart, ACTIVE_RUN, TypeOK
  <2> QED
    BY <1>0, <2>1, <2>2, <2>3, RestKept DEF AtRest
<1>3. CASE StopStep(r)
  <2>1. UNCHANGED state
    BY <1>3 DEF StopStep, ClaimStop, AdapterStop, AckStop, FailStop
  <2>2. \A q \in Runs : /\ run'[q] \in ACTIVE_RUN => run[q] \in ACTIVE_RUN
                        /\ Coming(q)' => Coming(q)
    BY <1>3, <1>type DEF StopStep, ClaimStop, AdapterStop, AckStop, FailStop, ACTIVE_RUN, Coming,
         TypeOK
  <2> QED
    BY <1>0, <2>1, <2>2, RestKept DEF AtRest
<1> QED
  BY <1>1, <1>2, <1>3

LEMMA RestEffect ==
    ASSUME NEW e \in Effects, WorkspaceInv, ShellInv, RestInv, EffectStep(e) PROVE RestInv'
<1>1. UNCHANGED <<run, alive, startPc, revoked>>
  BY DEF EffectStep, ProposeSideEffect, ApprovalExpires, DispatchSideEffect, ClaimEffect,
         PrecheckEffect, SendEffect, ApplyReceipt, ApplyUnknown, FailEffect, ReconcileSideEffect,
         execVars, dispatchers, adapterVars
<1>2. \/ UNCHANGED state
      \/ _set_task_state(BlockingGateOpened)
      \/ UncertainEventApplies /\ state' = UncertainState
  BY DEF EffectStep, ProposeSideEffect, ApprovalExpires, DispatchSideEffect, ClaimEffect,
         PrecheckEffect, SendEffect, ApplyReceipt, ApplyUnknown, FailEffect, ReconcileSideEffect,
         taskVars
<1>3. AtRest' => AtRest
  BY <1>2 DEF AtRest, _set_task_state, BlockingGateOpened, UncertainState, UncertainEventApplies,
              TERMINAL_TASK_STATES
<1> QED
  BY <1>1, <1>3, RestKept DEF Next, Coming

LEMMA RestRecovery == ASSUME WorkspaceInv, ShellInv, RestInv, Recovery PROVE RestInv'
<1>0. Next
  BY DEF Next
<1> USE DEF taskVars, dispatchers, adapterVars, execVars
<1>1. CASE Crash
  BY <1>1 DEF Crash, RestInv, AtRest, Quiet, Coming
<1>2. ASSUME NEW xStart, NEW xStop, NEW xEff, NEW H, NEW Q,
             Reconcile(xStart, xStop, xEff, H, Q)
      PROVE  RestInv'
  <2>1. AtRest' => AtRest
    BY <1>2 DEF Reconcile, AtRest
  <2>2. \A r \in Runs : run'[r] \in ACTIVE_RUN => run[r] \in ACTIVE_RUN
    BY <1>2 DEF Reconcile, ACTIVE_RUN
  <2>3. UNCHANGED <<alive, startPc, revoked>>
    BY <1>2 DEF Reconcile
  <2> QED
    BY <1>0, <2>1, <2>2, <2>3, RestKept DEF Coming
<1> QED
  BY <1>1, <1>2 DEF Recovery

-----------------------------------------------------------------------------
LEMMA RestPreserved == ASSUME WorkspaceInv, ShellInv, RestInv, [Next]_vars PROVE RestInv'
<1>1. CASE Next
  BY <1>1, RestCommand, RestRunStep, RestEffect, RestRecovery DEF Next
<1>2. CASE UNCHANGED vars
  BY <1>2 DEF vars, taskVars, execVars, dispatchers, adapterVars, RestInv, AtRest, Quiet, Coming,
     InShell
<1> QED
  BY <1>1, <1>2

LEMMA RestInit == Init => RestInv
BY DEF Init, RestInv, AtRest

THEOREM RestInvariance == Spec => []RestInv
<1>1. WorkspaceInv /\ ShellInv /\ RestInv /\ [Next]_vars => RestInv'
  BY RestPreserved
<1> QED
  BY <1>1, RestInit, WorkspaceInvariance, ShellInvariance, PTL DEF Spec

\* A task that is PAUSED, COMPLETED or ABORTED has no live run and nobody who may
\* write: the checks of runtime_quiescent, cancellation_settled and accept_result
\* cover every start that was on its way and every open shell call.
THEOREM RestingTasksAreQuiet == Spec => []RestIsQuiet
<1>1. RestInv => RestIsQuiet
  BY DEF RestInv, AtRest, Quiet, Coming, MayWrite, RestIsQuiet
<1> QED
  BY <1>1, RestInvariance, PTL

-----------------------------------------------------------------------------
(* Units that count as RUNNING.                                            *)

\* A unit at work has no reason to be blocked, and its active_run_id names one of
\* its own runs.
UnitRow(u, x) ==
    /\ x.status \in {"NONE", "PENDING", "RUNNING"} => x.reason = "none"
    /\ x.active # NoRun => UnitOf[x.active] = u

\* A RUNNING unit belongs to the plan and has a live run.
UnitInv ==
    \A u \in Units :
        /\ UnitRow(u, wu[u])
        /\ wu[u].status = "RUNNING" =>
             /\ u \in plan.nodes
             /\ \E r \in Runs : UnitOf[r] = u /\ run[r] \in ACTIVE_RUN

LEMMA UnitKept ==
    ASSUME UnitInv, \A u \in Units : UnitRow(u, wu'[u]),
           \A u \in Units : wu'[u].status = "RUNNING" =>
               /\ wu[u].status = "RUNNING" /\ u \in plan'.nodes
               /\ \A r \in Runs : UnitOf[r] = u /\ run[r] \in ACTIVE_RUN => run'[r] \in ACTIVE_RUN
    PROVE  UnitInv'
BY DEF UnitInv

\* The updates of rows that several handlers make.
LEMMA RowUpdates ==
    ASSUME NEW u \in Units, NEW x \in UnitRecords, UnitRow(u, x)
    PROVE  /\ \A R : /\ UnitRow(u, VacateBy(x, R)) /\ VacateBy(x, R) \in UnitRecords
                     /\ VacateBy(x, R).status = x.status
           /\ UnitRow(u, InvalidatedUnit(u, x)) /\ InvalidatedUnit(u, x) \in UnitRecords
           /\ InvalidatedUnit(u, x).status = "RUNNING" =>
                x.status = "RUNNING" /\ \A r \in RevokedRuns : UnitOf[r] # u
           /\ UnitRow(u, ClearBlock(x))
           /\ ClearBlock(x).status = "RUNNING" => x.status = "RUNNING"
<1>1. \A R : /\ UnitRow(u, VacateBy(x, R)) /\ VacateBy(x, R) \in UnitRecords
             /\ VacateBy(x, R).status = x.status /\ VacateBy(x, R).reason = x.reason
             /\ VacateBy(x, R).active \in {x.active, NoRun}
  BY DEF VacateBy, UnitRow, UnitRecords
<1>2. /\ UnitRow(u, ClearBlock(x))
      /\ ClearBlock(x).status = "RUNNING" => x.status = "RUNNING"
  BY DEF ClearBlock, UnitRow, UnitRecords
<1> DEFINE y == VacateBy(x, RevokedRuns)
<1>3. /\ UnitRow(u, y) /\ y \in UnitRecords
      /\ InvalidatedUnit(u, x) =
           IF y.status = "RUNNING" /\ \E r \in RevokedRuns : UnitOf[r] = u
           THEN [y EXCEPT !.status = "PENDING", !.reason = "none", !.active = NoRun]
           ELSE y
  BY <1>1 DEF InvalidatedUnit
<1>4. y.status = x.status
  BY <1>1
<1> HIDE DEF y
<1>5. /\ UnitRow(u, InvalidatedUnit(u, x)) /\ InvalidatedUnit(u, x) \in UnitRecords
      /\ InvalidatedUnit(u, x).status = "RUNNING" =>
           x.status = "RUNNING" /\ \A r \in RevokedRuns : UnitOf[r] # u
  BY <1>3, <1>4 DEF UnitRow, UnitRecords, WorkUnitStatuses, BlockedReasons
<1> QED
  BY <1>1, <1>2, <1>5

LEMMA UnitCommand == ASSUME WorkspaceInv, UnitInv, Command PROVE UnitInv'
<1> USE DEF taskVars, decisionVars, planVars, execVars, agentOutbox, effectRows, dispatchers,
        adapterVars, worldVars
<1>type. TypeOK /\ \A u \in Units : wu[u] \in UnitRecords /\ UnitRow(u, wu[u])
  BY DEF WorkspaceInv, TypeOK, UnitInv
<1>1. CASE UNCHANGED <<plan, run, wu>>
  BY <1>1 DEF UnitInv
<1>2. CASE \/ \E g \in Gates : CloseGate(g)
           \/ \E e \in Effects : ApproveSideEffect(e)
  <2>1. /\ UNCHANGED <<plan, run>>
        /\ UNCHANGED wu \/ wu' = [u \in Units |-> ClearBlock(wu[u])]
    BY <1>2 DEF CloseGate, ApproveSideEffect, _recompute_runnable_state
  <2> QED
    BY <1>type, <2>1, RowUpdates, UnitKept DEF UnitInv
<1>3. ASSUME NEW g \in Clarifications, NEW r \in Runs \cup {NoRun}, OpenBlockingGate(g, r)
      PROVE  UnitInv'
  <2>1. /\ UNCHANGED plan
        /\ wu' = [u \in Units |-> InvalidatedUnit(u, GateUnit(u, r))]
        /\ run' = [s \in Runs |-> IF s = r /\ run[s] = "RUNNING" THEN "SUCCEEDED"
                                  ELSE InvalidatedRun(s)]
    BY <1>3 DEF OpenBlockingGate
  <2>2. ASSUME NEW u \in Units
        PROVE  /\ GateUnit(u, r) \in UnitRecords /\ UnitRow(u, GateUnit(u, r))
               /\ GateUnit(u, r).status = "RUNNING" =>
                    wu[u].status = "RUNNING" /\ (r = NoRun \/ UnitOf[r] # u)
    BY <1>type DEF GateUnit, UnitRow, UnitRecords, WorkUnitStatuses, BlockedReasons
  <2>3. ASSUME NEW u \in Units
        PROVE  /\ UnitRow(u, wu'[u])
               /\ wu'[u].status = "RUNNING" =>
                    /\ wu[u].status = "RUNNING"
                    /\ r = NoRun \/ UnitOf[r] # u
                    /\ \A s \in RevokedRuns : UnitOf[s] # u
    BY <2>1, <2>2, RowUpdates
  <2> QED
    BY <2>1, <2>2, <2>3, UnitKept, RunAssumption DEF UnitInv, InvalidatedRun
<1>4. CASE PauseTask \/ CancelTask
  <2>1. /\ UNCHANGED plan
        /\ run' = [r \in Runs |-> InvalidatedRun(r)]
        /\ \A u \in Units : LET x == InvalidatedUnit(u, wu[u]) IN
             wu'[u] = x \/ (x.status \in {"PENDING", "BLOCKED"} /\ wu'[u] = [x EXCEPT !.status = "CANCELLED"])
    BY <1>4 DEF PauseTask, CancelTask, CancelledUnit
  <2>2. ASSUME NEW u \in Units
        PROVE  /\ UnitRow(u, wu'[u])
               /\ wu'[u].status = "RUNNING" =>
                    wu[u].status = "RUNNING" /\ \A s \in RevokedRuns : UnitOf[s] # u
    <3> DEFINE x == InvalidatedUnit(u, wu[u])
    <3>1. /\ UnitRow(u, x) /\ x \in UnitRecords
          /\ x.status = "RUNNING" => wu[u].status = "RUNNING" /\ \A s \in RevokedRuns : UnitOf[s] # u
      BY <1>type, RowUpdates
    <3>2. wu'[u] \in {x, [x EXCEPT !.status = "CANCELLED"]}
      BY <2>1
    <3> HIDE DEF x
    <3> QED
      BY <3>1, <3>2 DEF UnitRow, UnitRecords
  <2> QED
    BY <2>1, <2>2, UnitKept DEF UnitInv, InvalidatedRun
<1>5. CASE RuntimeQuiescent
  <2> DEFINE x(u) == IF wu[u].status = "RUNNING"
                     THEN [wu[u] EXCEPT !.status = "BLOCKED", !.reason = "paused", !.active = NoRun]
                     ELSE wu[u]
  <2>1. wu' = [u \in Units |-> VacateBy(x(u), ActiveRuns)]
    BY <1>5 DEF RuntimeQuiescent
  <2>2. ASSUME NEW u \in Units
        PROVE  x(u) \in UnitRecords /\ UnitRow(u, x(u)) /\ x(u).status # "RUNNING"
    BY <1>type DEF UnitRow, UnitRecords, WorkUnitStatuses, BlockedReasons
  <2> HIDE DEF x
  <2>3. \A u \in Units : UnitRow(u, wu'[u]) /\ wu'[u].status # "RUNNING"
    BY <2>1, <2>2, RowUpdates
  <2> QED
    BY <2>3 DEF UnitInv
<1>6. CASE ResumeTask
  <2>1. /\ UNCHANGED <<plan, run>>
        /\ \A u \in Units :
             \/ wu'[u] = wu[u]
             \/ wu'[u] = [wu[u] EXCEPT !.status = "PENDING", !.reason = "none"]
    BY <1>6 DEF ResumeTask
  <2>2. \A u \in Units : /\ UnitRow(u, wu'[u])
                         /\ wu'[u].status = "RUNNING" => wu[u].status = "RUNNING"
    BY <1>type, <2>1 DEF UnitRow, UnitRecords
  <2> QED
    BY <2>1, <2>2, UnitKept DEF UnitInv
<1>7. ASSUME NEW accept, CancellationSettled(accept) PROVE UnitInv'
  <2>1. ~_task_has_live_writer /\ UNCHANGED <<plan, wu>>
        /\ run' = [r \in Runs |-> IF r \in ActiveRuns THEN "CANCELLED" ELSE run[r]]
    BY <1>7 DEF CancellationSettled
  <2>2. ActiveRuns = {}
    BY <2>1 DEF ActiveRuns, _task_has_live_writer, WorkspaceInv, LiveRunHolds, Holds
  <2> QED
    BY <2>1, <2>2 DEF UnitInv
<1>8. ASSUME NEW p \in Plans, ActivatePlan(p) PROVE UnitInv'
  <2>1. /\ plan' = p
        /\ wu' = [u \in Units |-> PlannedUnit(u, p)]
        /\ run' = [r \in Runs |-> IF r \in TornUnsent(p) THEN "CANCELLED" ELSE run[r]]
    BY <1>8 DEF ActivatePlan
  <2>2. ASSUME NEW u \in Units
        PROVE  /\ UnitRow(u, wu'[u])
               /\ wu'[u].status = "RUNNING" => wu[u].status = "RUNNING" /\ u \in p.nodes
    BY <1>type, <2>1 DEF PlannedUnit, Orphans, UnitRow, UnitRecords
  <2>3. ASSUME NEW r \in TornUnsent(p) PROVE UnitOf[r] \notin p.nodes
    BY <1>type, RunAssumption DEF TornUnsent, TornRuns, Orphans, ActiveRuns, UnitRow
  <2> QED
    BY <2>1, <2>2, <2>3, UnitKept
<1>9. ASSUME NEW S \in SUBSET Units, NEW X \in SUBSET Units, NEW O \in SUBSET Units,
             DispatchReadyRuns(S, X, O)
      PROVE  UnitInv'
  <2> DEFINE New == {FreshRun(u) : u \in S}
  <2>1. /\ UNCHANGED plan
        /\ run' = [r \in Runs |-> IF r \in New THEN "CREATED" ELSE run[r]]
        /\ \A u \in S : Ready(u)
        /\ wu' = [u \in Units |->
                IF u \in S THEN [wu[u] EXCEPT !.status = "RUNNING", !.active = FreshRun(u),
                                              !.marker = FreshRun(u)]
                ELSE IF u \in X THEN [wu[u] EXCEPT !.status = "BLOCKED", !.marker = NoRun,
                                                   !.reason = "attempts_exhausted"]
                ELSE IF u \in O THEN [wu[u] EXCEPT !.status = "BLOCKED", !.marker = NoRun,
                                                   !.reason = "other"]
                ELSE wu[u]]
    BY <1>9 DEF DispatchReadyRuns
  <2>2. \A r \in Runs : run[r] \in ACTIVE_RUN => run'[r] \in ACTIVE_RUN
    BY <2>1 DEF ACTIVE_RUN
  <2>3. ASSUME NEW u \in S
        PROVE  FreshRun(u) \in Runs /\ UnitOf[FreshRun(u)] = u /\ run'[FreshRun(u)] \in ACTIVE_RUN
    <3>1. FreshRuns(u) # {}
      BY <1>9 DEF DispatchReadyRuns
    <3>2. FreshRun(u) \in FreshRuns(u)
      BY <3>1 DEF FreshRun
    <3> QED
      BY <2>1, <3>2 DEF FreshRuns, ACTIVE_RUN
  <2>4. ASSUME NEW u \in S
        PROVE  /\ UnitRow(u, wu'[u]) /\ u \in plan'.nodes
               /\ \E r \in Runs : UnitOf[r] = u /\ run'[r] \in ACTIVE_RUN
    <3>1. wu'[u] = [wu[u] EXCEPT !.status = "RUNNING", !.active = FreshRun(u),
                                 !.marker = FreshRun(u)]
      BY <2>1
    <3>2. wu[u].status = "PENDING" /\ u \in plan.nodes
      BY <2>1 DEF Ready
    <3>3. wu'[u].reason = "none" /\ wu'[u].active = FreshRun(u)
      BY <1>type, <3>1, <3>2 DEF UnitRow, UnitRecords
    <3> QED
      BY <2>1, <2>3, <3>2, <3>3 DEF UnitRow
  <2>5. ASSUME NEW u \in Units \ S
        PROVE  /\ UnitRow(u, wu'[u])
               /\ wu'[u].status = "RUNNING" => wu'[u] = wu[u]
    <3>1. wu'[u] \in {wu[u],
                      [wu[u] EXCEPT !.status = "BLOCKED", !.marker = NoRun,
                                    !.reason = "attempts_exhausted"],
                      [wu[u] EXCEPT !.status = "BLOCKED", !.marker = NoRun, !.reason = "other"]}
      BY <2>1
    <3> QED
      BY <1>type, <3>1 DEF UnitRow, UnitRecords
  <2> HIDE DEF New
  <2>6. ASSUME NEW u \in Units \ S, wu'[u].status = "RUNNING"
        PROVE  /\ u \in plan'.nodes
               /\ \E r \in Runs : UnitOf[r] = u /\ run'[r] \in ACTIVE_RUN
    <3>1. wu[u].status = "RUNNING"
      BY <2>5, <2>6
    <3> QED
      BY <2>1, <2>2, <3>1 DEF UnitInv
  <2>7. \A u \in Units : u \in S \/ u \in Units \ S
    OBVIOUS
  <2> QED
    BY <2>4, <2>5, <2>6, <2>7 DEF UnitInv
<1> QED
  BY <1>1, <1>2, <1>3, <1>4, <1>5, <1>6, <1>7, <1>8, <1>9 DEF Command, SubmitContract,
     ApproveContract, PrepareAcceptance, ApproveAcceptance, DispatchOverBudget, ConfirmRunExit,
     _confirm_run_exit

LEMMA UnitAgent == ASSUME WorkspaceInv, UnitInv, NEW r \in Runs, AgentStep(r) PROVE UnitInv'
<1> USE DEF taskVars, decisionVars, planVars, execVars, agentOutbox, effectRows, dispatchers,
        adapterVars, worldVars
<1>type. TypeOK /\ \A u \in Units : wu[u] \in UnitRecords /\ UnitRow(u, wu[u])
  BY DEF WorkspaceInv, TypeOK, UnitInv
<1>1. CASE UNCHANGED <<plan, run, wu>>
  BY <1>1 DEF UnitInv
<1>2. ASSUME NEW outcome, NEW verdict \in Verdicts, SubmitResult(r, outcome, verdict)
      PROVE  UnitInv'
  <2> DEFINE u == UnitOf[r]
             x == wu[u]
  <2>1. /\ UNCHANGED plan
        /\ u \in Units
        /\ \A s \in Runs \ {r} : run'[s] = run[s]
        /\ \A v \in Units \ {u} : wu'[v] = wu[v]
        /\ \/ u \notin plan.nodes /\ wu'[u] = VacateBy(x, {r})
           \/ wu'[u] = [x EXCEPT !.status = "BLOCKED", !.reason = "other",
                                 !.active = NoRun, !.marker = NoRun]
           \/ wu'[u] = [x EXCEPT !.status = "DONE", !.verdict = verdict,
                                 !.active = NoRun, !.marker = NoRun]
    BY <1>2, <1>type, RunAssumption DEF SubmitResult, TypeOK
  <2>2. /\ x \in UnitRecords /\ UnitRow(u, x)
        /\ u \notin plan.nodes => x.status # "RUNNING"
    BY <1>type, <2>1 DEF UnitInv
  <2> HIDE DEF x
  <2>3. UnitRow(u, wu'[u]) /\ wu'[u].status # "RUNNING"
    <3>1. CASE u \notin plan.nodes /\ wu'[u] = VacateBy(x, {r})
      BY <2>1, <2>2, <3>1, RowUpdates
    <3>2. CASE wu'[u].status \in {"BLOCKED", "DONE"} /\ wu'[u].active = NoRun
      BY <3>2 DEF UnitRow
    <3> QED
      BY <2>1, <2>2, <3>1, <3>2 DEF UnitRecords
  <2> HIDE DEF u
  <2>4. \A v \in Units : UnitRow(v, wu'[v])
    BY <1>type, <2>1, <2>3
  <2>5. \A v \in Units : wu'[v].status = "RUNNING" => v # u /\ wu[v].status = "RUNNING"
    BY <2>1, <2>3
  <2> QED
    BY <2>1, <2>4, <2>5, UnitKept DEF UnitInv, u
<1> QED
  BY <1>1, <1>2 DEF AgentStep, RecordModelUsage, AuthorizeShell, BeginShell, EndShell, LoseShell,
     LeaveRun, _confirm_run_exit, AgentExit, ContainerExit

LEMMA UnitStart == ASSUME WorkspaceInv, UnitInv, NEW r \in Runs, StartStep(r) PROVE UnitInv'
<1>1. UNCHANGED <<plan, wu>>
  BY DEF StartStep, ClaimStart, CheckStart, AdapterStart, AckStart, AckStartRevoked, FailStart,
     execVars, planVars
<1>2. \A s \in Runs : run[s] \in ACTIVE_RUN => run'[s] \in ACTIVE_RUN
  BY DEF StartStep, ClaimStart, CheckStart, AdapterStart, AckStart, AckStartRevoked, FailStart,
     execVars, ACTIVE_RUN, WorkspaceInv, TypeOK
<1> QED
  BY <1>1, <1>2, UnitKept DEF UnitInv

LEMMA UnitStop == ASSUME WorkspaceInv, UnitInv, NEW r \in Runs, StopStep(r) PROVE UnitInv'
<1> USE DEF planVars, execVars
<1>type. TypeOK /\ \A u \in Units : wu[u] \in UnitRecords /\ UnitRow(u, wu[u])
  BY DEF WorkspaceInv, TypeOK, UnitInv
<1>1. CASE UNCHANGED <<plan, run, wu>>
  BY <1>1 DEF UnitInv
<1>2. CASE AckStop(r) /\ run' = [run EXCEPT ![r] = "CANCELLED"]
                      /\ wu' = [wu EXCEPT ![UnitOf[r]] = StopAckedUnit(@, r)]
  <2> DEFINE u == UnitOf[r]
             x == wu[u]
             y == VacateBy(x, {r})
  <2>1. /\ UNCHANGED plan
        /\ u \in Units
        /\ \A s \in Runs \ {r} : run'[s] = run[s]
        /\ \A v \in Units \ {u} : wu'[v] = wu[v]
        /\ wu'[u] = StopAckedUnit(x, r)
    BY <1>2, <1>type, RunAssumption DEF AckStop, TypeOK
  <2>2. y \in UnitRecords /\ UnitRow(u, y)
    BY <1>type, <2>1, RowUpdates
  <2>3. wu'[u] = IF y.status # "RUNNING" THEN y
                 ELSE [y EXCEPT !.active = NoRun,
                                !.status = IF y.reason = "none" THEN "PENDING"
                                           ELSE IF run[r] = "RUNNING" THEN "BLOCKED" ELSE @]
    BY <2>1 DEF StopAckedUnit
  <2> HIDE DEF y
  <2>4. UnitRow(u, wu'[u]) /\ wu'[u].status # "RUNNING"
    BY <2>2, <2>3 DEF UnitRow, UnitRecords
  <2> HIDE DEF u, x
  <2>5. \A v \in Units : UnitRow(v, wu'[v])
    BY <1>type, <2>1, <2>4
  <2>6. \A v \in Units : wu'[v].status = "RUNNING" => v # u /\ wu[v].status = "RUNNING"
    BY <2>1, <2>4
  <2> QED
    BY <2>1, <2>5, <2>6, UnitKept DEF UnitInv, u
<1> QED
  BY <1>1, <1>2 DEF StopStep, ClaimStop, AdapterStop, AckStop, FailStop

LEMMA UnitRecovery == ASSUME WorkspaceInv, UnitInv, Recovery PROVE UnitInv'
<1> USE DEF planVars, execVars
<1>type. \A u \in Units : wu[u] \in UnitRecords /\ UnitRow(u, wu[u])
  BY DEF WorkspaceInv, TypeOK, UnitInv
<1>1. CASE Crash
  BY <1>1 DEF Crash, UnitInv
<1>2. ASSUME NEW xStart, NEW xStop, NEW xEff, NEW H, NEW Q,
             Reconcile(xStart, xStop, xEff, H, Q)
      PROVE  UnitInv'
  <2>1. PICK L : /\ run' = [r \in Runs |-> IF r \in L THEN "LOST" ELSE run[r]]
                 /\ wu' = [u \in Units |-> RecoveredUnit(u, L, H)]
                 /\ L \subseteq Runs
    <3> DEFINE uncertain == \E e \in xEff : eff[e] \in {"DISPATCHING", "UNKNOWN"}
               stateE == IF uncertain /\ state \notin TERMINAL_TASK_STATES
                         THEN "WAITING_HUMAN" ELSE state
               L == IF stateE \in {"PAUSED", "WAITING_HUMAN", "CANCELLING"} THEN {} ELSE LostRuns
    <3>1. /\ run' = [r \in Runs |-> IF r \in L THEN "LOST" ELSE run[r]]
          /\ wu' = [u \in Units |-> RecoveredUnit(u, L, H)]
      BY <1>2 DEF Reconcile
    <3>2. L \subseteq Runs
      BY DEF LostRuns
    <3> HIDE DEF L
    <3> QED
      BY <3>1, <3>2
  <2>2. UNCHANGED plan
    BY <1>2 DEF Reconcile
  <2>3. ASSUME NEW u \in Units
        PROVE  /\ UnitRow(u, wu'[u])
               /\ wu'[u].status = "RUNNING" => wu[u].status = "RUNNING" /\ \A r \in L : UnitOf[r] # u
    <3> DEFINE x == VacateBy(wu[u], L)
    <3>1. x \in UnitRecords /\ UnitRow(u, x) /\ x.status = wu[u].status
      BY <1>type, RowUpdates
    <3>2. \/ wu'[u] = x /\ (x.status # "RUNNING" \/ \A r \in L : UnitOf[r] # u)
          \/ wu'[u] = [x EXCEPT !.status = "BLOCKED", !.reason = "other"]
          \/ wu'[u] = [x EXCEPT !.status = "BLOCKED", !.reason = "attempts_exhausted"]
          \/ wu'[u] = [x EXCEPT !.status = "PENDING", !.reason = "none"]
      <4> DEFINE hasEffect == \E r \in H : UnitOf[r] = u
                 blocks == lost_run_recovery_policy(hasEffect, FreshRuns(u) = {}) = "BLOCKED"
      <4>1. wu'[u] = IF x.status # "RUNNING" \/ \A r \in L : UnitOf[r] # u THEN x
                     ELSE IF blocks
                     THEN [x EXCEPT !.status = "BLOCKED",
                                    !.reason = IF hasEffect THEN "other" ELSE "attempts_exhausted"]
                     ELSE [x EXCEPT !.status = "PENDING", !.reason = "none"]
        BY <2>1 DEF RecoveredUnit
      <4> HIDE DEF x, hasEffect, blocks
      <4> QED
        BY <4>1
    <3> HIDE DEF x
    <3> QED
      BY <3>1, <3>2 DEF UnitRow, UnitRecords
  <2> QED
    BY <2>1, <2>2, <2>3, UnitKept DEF UnitInv
<1> QED
  BY <1>1, <1>2 DEF Recovery

LEMMA UnitEffect == ASSUME UnitInv, NEW e \in Effects, EffectStep(e) PROVE UnitInv'
<1>1. UNCHANGED <<plan, run, wu>>
  BY DEF EffectStep, ProposeSideEffect, ApprovalExpires, DispatchSideEffect, ClaimEffect,
         PrecheckEffect, SendEffect, ApplyReceipt, ApplyUnknown, FailEffect, ReconcileSideEffect,
         execVars, planVars
<1> QED
  BY <1>1 DEF UnitInv

THEOREM UnitInvariance == Spec => []UnitInv
<1>1. Init => UnitInv
  BY DEF Init, UnitInv, UnitRow
<1>2. WorkspaceInv /\ UnitInv /\ [Next]_vars => UnitInv'
  <2> SUFFICES ASSUME WorkspaceInv, UnitInv, [Next]_vars PROVE UnitInv'
    OBVIOUS
  <2>1. CASE Next
    BY <2>1, UnitCommand, UnitAgent, UnitStart, UnitStop, UnitRecovery, UnitEffect DEF Next
  <2>2. CASE UNCHANGED vars
    BY <2>2 DEF vars, planVars, execVars, UnitInv
  <2> QED
    BY <2>1, <2>2
<1> QED
  BY <1>1, <1>2, WorkspaceInvariance, PTL DEF Spec

\* A task at rest has no RUNNING unit: whoever ends, revokes, stops or loses the
\* run of a unit takes the unit out of RUNNING in the same transaction, so that
\* resume_task and accept_result never meet a unit that nobody works on.
THEOREM RestingUnits == Spec => []RestHasNoRunningUnit
<1>1. RestInv /\ UnitInv => RestHasNoRunningUnit
  BY DEF RestInv, AtRest, Quiet, UnitInv, RestHasNoRunningUnit
<1> QED
  BY <1>1, RestInvariance, UnitInvariance, PTL

-----------------------------------------------------------------------------
(* Tasks that are being stopped.                                           *)

Stopping == state \in {"PAUSING", "CANCELLING"}

\* Every agent that runs or is about to, and has its workspace, will be stopped or
\* was given up on.
StopInv ==
    Stopping => \A r \in Runs : Coming(r) /\ Owned(r) => stop[r] \in LIVE_OUTBOX \/ Quarantined(r)

\* Only pause_task and cancel_task begin to stop a task.
LEMMA StoppingStep ==
    ASSUME Next, ~PauseTask, ~CancelTask, Stopping'
    PROVE  state' = state
<1> USE DEF taskVars, decisionVars, planVars, execVars, agentOutbox, effectRows, dispatchers,
        adapterVars, worldVars, Stopping
<1>1. CASE \/ SubmitContract \/ ApproveContract \/ ResumeTask \/ PrepareAcceptance
           \/ ApproveAcceptance \/ DispatchOverBudget \/ RuntimeQuiescent
           \/ \E accept \in BOOLEAN : CancellationSettled(accept)
           \/ \E g \in Clarifications, r \in Runs \cup {NoRun} : OpenBlockingGate(g, r)
  <2>1. \E event \in {ContractSubmitted, ContractApproved, ContractApprovedSimple, ResumeRequested,
                      ResumeRequestedRunnable, AcceptanceAsked, FinalAccepted,
                      BlockingGateOpened, RuntimeQuiescentEvent, CancellationSettledEvent} :
          _set_task_state(event)
    BY <1>1, Zenon DEF SubmitContract, ApproveContract, ResumeTask, PrepareAcceptance,
              ApproveAcceptance, DispatchOverBudget, RuntimeQuiescent, CancellationSettled,
              OpenBlockingGate
  <2> QED
    BY <2>1 DEF _set_task_state, ContractSubmitted, ContractApproved, ContractApprovedSimple,
              ResumeRequested, ResumeRequestedRunnable, AcceptanceAsked, AcceptanceReady,
              FinalAccepted, BlockingGateOpened, RuntimeQuiescentEvent, CancellationSettledEvent
<1>2. CASE \/ \E g \in Gates : CloseGate(g)
           \/ \E e \in Effects : ApproveSideEffect(e)
           \/ \E p \in Plans : ActivatePlan(p)
           \/ \E S, X, O \in SUBSET Units : DispatchReadyRuns(S, X, O)
           \/ \E r \in Runs : ConfirmRunExit(r)
  BY <1>2 DEF CloseGate, ApproveSideEffect, _recompute_runnable_state, ActivatePlan,
         DispatchReadyRuns, ConfirmRunExit, _confirm_run_exit, _set_task_state, DecisionResolved,
         PlanActivated
<1>3. ASSUME NEW r \in Runs, AgentStep(r) PROVE state' \in {state, "EXECUTING", "VERIFYING"}
  BY <1>3 DEF AgentStep, RecordModelUsage, SubmitResult, VerifiedState, VerificationFailed,
         RequiredOutputsReady, AuthorizeShell, BeginShell, EndShell, LoseShell, LeaveRun,
         _confirm_run_exit, AgentExit, ContainerExit
<1>4. ASSUME NEW r \in Runs, StartStep(r) \/ StopStep(r) PROVE UNCHANGED state
  BY <1>4 DEF StartStep, ClaimStart, CheckStart, AdapterStart, AckStart, AckStartRevoked,
         FailStart, StopStep, ClaimStop, AdapterStop, AckStop, FailStop
<1>5. ASSUME NEW e \in Effects, EffectStep(e) PROVE state' \in {state, "WAITING_HUMAN"}
  BY <1>5 DEF EffectStep, ProposeSideEffect, ApprovalExpires, DispatchSideEffect, ClaimEffect,
         PrecheckEffect, SendEffect, ApplyReceipt, ApplyUnknown, FailEffect, ReconcileSideEffect,
         _set_task_state, BlockingGateOpened, UncertainState
<1>6. CASE Crash
  BY <1>6 DEF Crash
<1>7. ASSUME NEW xStart, NEW xStop, NEW xEff, NEW H, NEW Q,
             Reconcile(xStart, xStop, xEff, H, Q)
      PROVE  state' \in {state, "WAITING_HUMAN"}
  BY <1>7 DEF Reconcile
<1> QED
  BY <1>1, <1>2, <1>3, <1>4, <1>5, <1>6, <1>7 DEF Next, Command, Recovery

\* A start passes its last check only in a task that is at work.
LEMMA ComingStep ==
    ASSUME TypeOK, Next, NEW q \in Runs, Coming(q)', ~Coming(q)
    PROVE  state \in DISPATCHABLE_TASK_STATES
<1> USE DEF taskVars, decisionVars, planVars, execVars, agentOutbox, effectRows, dispatchers,
        adapterVars, worldVars, Coming
<1>1. Command => UNCHANGED <<startPc, alive, revoked>>
  BY DEF Command, SubmitContract, ApproveContract, ResumeTask, PrepareAcceptance,
         ApproveAcceptance, DispatchOverBudget, CloseGate, ApproveSideEffect, OpenBlockingGate,
         PauseTask, CancelTask, RuntimeQuiescent, CancellationSettled, ActivatePlan,
         DispatchReadyRuns, ConfirmRunExit, _confirm_run_exit
<1>2. ASSUME NEW r \in Runs, AgentStep(r) PROVE Coming(q)' => Coming(q)
  BY <1>2 DEF AgentStep, RecordModelUsage, SubmitResult, AuthorizeShell, BeginShell, EndShell,
         LoseShell, LeaveRun, _confirm_run_exit, AgentExit, ContainerExit, TypeOK
<1>3. ASSUME NEW r \in Runs, StartStep(r) PROVE state \in DISPATCHABLE_TASK_STATES
  BY <1>3 DEF StartStep, ClaimStart, CheckStart, AdapterStart, AckStart, AckStartRevoked,
         FailStart, SendAllowed, TypeOK
<1>4. ASSUME NEW r \in Runs, StopStep(r) PROVE Coming(q)' => Coming(q)
  BY <1>4 DEF StopStep, ClaimStop, AdapterStop, AckStop, FailStop, TypeOK
<1>5. ASSUME NEW e \in Effects, EffectStep(e) PROVE UNCHANGED <<startPc, alive, revoked>>
  BY <1>5 DEF EffectStep, ProposeSideEffect, ApprovalExpires, DispatchSideEffect, ClaimEffect,
         PrecheckEffect, SendEffect, ApplyReceipt, ApplyUnknown, FailEffect, ReconcileSideEffect
<1>6. CASE Crash
  BY <1>6 DEF Crash
<1>7. ASSUME NEW xStart, NEW xStop, NEW xEff, NEW H, NEW Q,
             Reconcile(xStart, xStop, xEff, H, Q)
      PROVE  UNCHANGED <<startPc, alive, revoked>>
  BY <1>7 DEF Reconcile
<1> QED
  BY <1>1, <1>2, <1>3, <1>4, <1>5, <1>6, <1>7 DEF Next, Recovery

\* Only _ack_stop takes a stop off the queue.
LEMMA StopRowStep ==
    ASSUME TypeOK, Next, NEW q \in Runs, stop[q] \in LIVE_OUTBOX
    PROVE  stop'[q] \in LIVE_OUTBOX \/ AckStop(q)
<1> USE DEF taskVars, decisionVars, planVars, execVars, agentOutbox, effectRows, dispatchers,
        adapterVars, worldVars, _enqueue_stops_for_runs, LIVE_OUTBOX
<1>1. Command => stop'[q] \in LIVE_OUTBOX
  BY DEF Command, SubmitContract, ApproveContract, ResumeTask, PrepareAcceptance,
         ApproveAcceptance, DispatchOverBudget, CloseGate, ApproveSideEffect, OpenBlockingGate,
         PauseTask, CancelTask, RuntimeQuiescent, CancellationSettled, ActivatePlan,
         DispatchReadyRuns, ConfirmRunExit, _confirm_run_exit
<1>2. ASSUME NEW r \in Runs, AgentStep(r) \/ StartStep(r) PROVE stop'[q] \in LIVE_OUTBOX
  BY <1>2 DEF AgentStep, RecordModelUsage, SubmitResult, AuthorizeShell, BeginShell, EndShell,
         LoseShell, LeaveRun, _confirm_run_exit, AgentExit, ContainerExit, StartStep, ClaimStart,
         CheckStart, AdapterStart, AckStart, AckStartRevoked, FailStart, FenceStart
<1>3. ASSUME NEW r \in Runs, StopStep(r) PROVE stop'[q] \in LIVE_OUTBOX \/ AckStop(q)
  <2>1. CASE AckStop(r)
    BY <2>1 DEF AckStop, TypeOK
  <2>2. CASE ~AckStop(r)
    BY <1>3, <2>2 DEF StopStep, ClaimStop, AdapterStop, FailStop, TypeOK
  <2> QED
    BY <2>1, <2>2
<1>4. ASSUME NEW e \in Effects, EffectStep(e) PROVE UNCHANGED stop
  BY <1>4 DEF EffectStep, ProposeSideEffect, ApprovalExpires, DispatchSideEffect, ClaimEffect,
         PrecheckEffect, SendEffect, ApplyReceipt, ApplyUnknown, FailEffect, ReconcileSideEffect
<1>5. CASE Crash
  BY <1>5 DEF Crash
<1>6. ASSUME NEW xStart, NEW xStop, NEW xEff, NEW H, NEW Q,
             Reconcile(xStart, xStop, xEff, H, Q)
      PROVE  stop'[q] \in LIVE_OUTBOX
  BY <1>6 DEF Reconcile
<1> QED
  BY <1>1, <1>2, <1>3, <1>4, <1>5, <1>6 DEF Next, Recovery

LEMMA StopPreserved == ASSUME WorkspaceInv, ShellInv, StopInv, [Next]_vars PROVE StopInv'
<1>1. CASE UNCHANGED vars
  BY <1>1 DEF vars, taskVars, execVars, agentOutbox, dispatchers, adapterVars, StopInv, Stopping,
     Coming, Owned, Quarantined
<1>2. SUFFICES ASSUME Next, Stopping', NEW r \in Runs, Coming(r)', Owned(r)'
               PROVE  stop'[r] \in LIVE_OUTBOX \/ Quarantined(r)'
  BY <1>1 DEF StopInv
<1>3. Holds(r)'
  BY <1>2, ShellPreserved DEF ShellInv, ComingOwnerHolds
<1>4. CASE PauseTask \/ CancelTask
  <2>1. stop' = _enqueue_stops_for_runs(UncertainStarts \cup RunsRequiringStopNext)
    BY <1>4 DEF PauseTask, CancelTask
  <2>2. r \in RunsRequiringStopNext
    BY <1>3 DEF RunsRequiringStopNext, Holds, Owned
  <2> QED
    BY <2>1, <2>2 DEF _enqueue_stops_for_runs, LIVE_OUTBOX
<1>5. CASE ~PauseTask /\ ~CancelTask
  <2>1. Stopping
    BY <1>2, <1>5, StoppingStep DEF Stopping
  <2>2. Coming(r)
    BY <1>2, <2>1, ComingStep DEF Stopping, DISPATCHABLE_TASK_STATES, WorkspaceInv
  <2>3. Owned(r)
    <3>1. run[r] # "NONE"
      BY <2>2 DEF WorkspaceInv, FreshRunIsUntouched, Coming
    <3> QED
      BY <1>2, <3>1, OwnerStep, RunWorkspace, RunAssumption DEF Owned
  <2>4. Keeps(r)
    BY <1>2, <2>2, <2>3, ComingKeeps DEF ShellInv, ComingOwnerHolds
  <2>5. CASE Quarantined(r)
    BY <2>4, <2>5 DEF Keeps
  <2>6. CASE AckStop(r)
    <3>1. stopPc[r] = "alive"
      BY <2>2, <2>6 DEF AckStop, WorkspaceInv, StopIsRemembered, Coming
    <3> DEFINE w == WorkspaceOfRun(r)
    <3>2. w \in Workspaces /\ ws \in [Workspaces -> WorkspaceRecords]
      BY RunWorkspace DEF WorkspaceInv, TypeOK
    <3>3. ws' = [ws EXCEPT ![w] = IF @.owner = r
                                  THEN [@ EXCEPT !.state = "QUARANTINED", !.writer = TRUE] ELSE @]
      BY <2>6, <3>1 DEF AckStop
    <3> QED
      BY <2>3, <3>2, <3>3 DEF WorkspaceRecords, Owned, Quarantined
  <2>7. CASE stop[r] \in LIVE_OUTBOX /\ ~AckStop(r)
    BY <1>2, <2>7, StopRowStep DEF WorkspaceInv
  <2> QED
    BY <2>1, <2>2, <2>3, <2>5, <2>6, <2>7 DEF StopInv
<1> QED
  BY <1>4, <1>5

\* Until a pause or a cancellation is settled, every agent that can still write to
\* its run's workspace has a stop on its way or the workspace is quarantined: the
\* agents that come up after _runs_requiring_stop was read are fenced, and those
\* that ended their run first are found by the workspace they own.
THEOREM StopsReachAgents == Spec => []StopReachesEveryAgent
<1>1. Init => StopInv
  BY DEF Init, StopInv, Stopping
<1>2. WorkspaceInv /\ ShellInv /\ StopInv /\ [Next]_vars => StopInv'
  BY StopPreserved
<1>3. WorkspaceInv /\ StopInv => StopReachesEveryAgent
  BY DEF WorkspaceInv, ComingAgentHolds, Holds, Coming, StopInv, Stopping, Quarantined,
     StopReachesEveryAgent
<1> QED
  BY <1>1, <1>2, <1>3, WorkspaceInvariance, ShellInvariance, PTL DEF Spec

-----------------------------------------------------------------------------
(* Cancellation and the end of a task.                                     *)

\* What a step may do to a task that is being cancelled or is over.
FinalStep ==
    /\ state = "CANCELLING" => state' \in {"CANCELLING", "ABORTED"}
    /\ state \in TERMINAL_TASK_STATES => state' = state

LEMMA FinalSame == UNCHANGED state => FinalStep
BY DEF FinalStep

\* No event of TASK_TRANSITIONS but cancellation.settled leads out of
\* CANCELLING, none out of a terminal state.
LEMMA FinalEvent ==
    ASSUME NEW event, _set_task_state(event),
           event.from \cap TERMINAL_TASK_STATES = {},
           "CANCELLING" \in event.from => event.to = "ABORTED"
    PROVE  FinalStep
BY DEF FinalStep, _set_task_state, TERMINAL_TASK_STATES

LEMMA FinalCommand == Command => FinalStep
<1> SUFFICES ASSUME Command PROVE FinalStep
  OBVIOUS
<1> USE DEF TERMINAL_TASK_STATES
<1>1. CASE SubmitContract
  BY <1>1, FinalEvent DEF SubmitContract, ContractSubmitted
<1>2. CASE ApproveContract
  BY <1>2, FinalEvent DEF ApproveContract, ContractApproved, ContractApprovedSimple
<1>3. CASE \/ \E g \in Gates : CloseGate(g)
           \/ \E e \in Effects : ApproveSideEffect(e)
  <2>1. UNCHANGED state \/ _set_task_state(DecisionResolved)
    BY <1>3 DEF CloseGate, ApproveSideEffect, _recompute_runnable_state
  <2> QED
    BY <2>1, FinalSame, FinalEvent DEF DecisionResolved
<1>4. CASE \E g \in Clarifications, r \in Runs \cup {NoRun} : OpenBlockingGate(g, r)
  BY <1>4, FinalEvent DEF OpenBlockingGate, BlockingGateOpened
<1>5. CASE PauseTask
  BY <1>5, FinalEvent DEF PauseTask, PauseRequested
<1>6. CASE RuntimeQuiescent
  BY <1>6, FinalEvent DEF RuntimeQuiescent, RuntimeQuiescentEvent
<1>7. CASE ResumeTask
  BY <1>7, FinalEvent DEF ResumeTask, ResumeRequested, ResumeRequestedRunnable
<1>8. CASE CancelTask
  BY <1>8, FinalEvent DEF CancelTask, CancelRequested
<1>9. CASE \E accept \in BOOLEAN : CancellationSettled(accept)
  BY <1>9, FinalEvent DEF CancellationSettled, CancellationSettledEvent
<1>10. CASE PrepareAcceptance
  BY <1>10, FinalEvent DEF PrepareAcceptance, AcceptanceAsked, AcceptanceReady
<1>11. CASE ApproveAcceptance
  BY <1>11, FinalEvent DEF ApproveAcceptance, FinalAccepted
<1>12. CASE \E p \in Plans : ActivatePlan(p)
  <2>1. UNCHANGED state \/ _set_task_state(PlanActivated)
    BY <1>12 DEF ActivatePlan
  <2> QED
    BY <2>1, FinalSame, FinalEvent DEF PlanActivated
<1>13. CASE \/ \E S, X, O \in SUBSET Units : DispatchReadyRuns(S, X, O)
            \/ \E r \in Runs : ConfirmRunExit(r)
  BY <1>13, FinalSame DEF DispatchReadyRuns, ConfirmRunExit, _confirm_run_exit, taskVars
<1>14. CASE DispatchOverBudget
  BY <1>14, FinalEvent DEF DispatchOverBudget, BlockingGateOpened
<1> QED
  BY <1>1, <1>2, <1>3, <1>4, <1>5, <1>6, <1>7, <1>8, <1>9, <1>10, <1>11, <1>12, <1>13, <1>14
     DEF Command

LEMMA FinalRunStep ==
    ASSUME NEW r \in Runs PROVE AgentStep(r) \/ StartStep(r) \/ StopStep(r) => FinalStep
<1>1. ASSUME NEW outcome \in {"COMPLETED", "BLOCKED"}, NEW verdict \in Verdicts,
             SubmitResult(r, outcome, verdict)
      PROVE  FinalStep
  BY <1>1 DEF SubmitResult, VerifiedState, VerificationFailed, RequiredOutputsReady, FinalStep,
              TERMINAL_TASK_STATES
<1>2. ASSUME \/ RecordModelUsage(r) \/ AuthorizeShell(r) \/ BeginShell(r) \/ EndShell(r)
             \/ LoseShell(r) \/ LeaveRun(r) \/ AgentExit(r) \/ ContainerExit(r)
             \/ StartStep(r) \/ StopStep(r)
      PROVE  FinalStep
  <2>1. UNCHANGED state
    BY <1>2 DEF RecordModelUsage, AuthorizeShell, BeginShell, EndShell, LoseShell, LeaveRun,
         _confirm_run_exit, AgentExit, ContainerExit, StartStep, ClaimStart, CheckStart,
         AdapterStart, AckStart, AckStartRevoked, FailStart, StopStep, ClaimStop, AdapterStop,
         AckStop, FailStop, taskVars
  <2> QED
    BY <2>1, FinalSame
<1> QED
  BY <1>1, <1>2 DEF AgentStep

LEMMA FinalEffectStep == ASSUME NEW e \in Effects PROVE EffectStep(e) => FinalStep
<1> SUFFICES ASSUME EffectStep(e) PROVE FinalStep
  OBVIOUS
<1>1. \/ UNCHANGED state
      \/ _set_task_state(BlockingGateOpened)
      \/ UncertainEventApplies /\ state' = UncertainState
  BY DEF EffectStep, ProposeSideEffect, ApprovalExpires, DispatchSideEffect, ClaimEffect,
         PrecheckEffect, SendEffect, ApplyReceipt, ApplyUnknown, FailEffect, ReconcileSideEffect,
         taskVars
<1> QED
  BY <1>1, FinalSame DEF FinalStep, _set_task_state, BlockingGateOpened, UncertainEventApplies,
     UncertainState, TERMINAL_TASK_STATES

LEMMA FinalRecovery == Recovery => FinalStep
<1> SUFFICES ASSUME Recovery PROVE FinalStep
  OBVIOUS
<1>1. CASE Crash
  BY <1>1, FinalSame DEF Crash, taskVars
<1>2. ASSUME NEW xStart, NEW xStop, NEW xEff, NEW H, NEW Q,
             Reconcile(xStart, xStop, xEff, H, Q)
      PROVE  FinalStep
  \* Both ways into WAITING_HUMAN go through blocking_gate.opened.
  <2>1. UNCHANGED state \/ (state \in BlockingGateOpened.from /\ state' = "WAITING_HUMAN")
    BY <1>2 DEF Reconcile, BlockingGateOpened, TERMINAL_TASK_STATES
  <2> QED
    BY <2>1, FinalSame DEF FinalStep, BlockingGateOpened, TERMINAL_TASK_STATES
<1> QED
  BY <1>1, <1>2 DEF Recovery

LEMMA FinalNext == [Next]_vars => FinalStep
<1> SUFFICES ASSUME [Next]_vars PROVE FinalStep
  OBVIOUS
<1>1. CASE Next
  BY <1>1, FinalCommand, FinalRunStep, FinalEffectStep, FinalRecovery DEF Next
<1>2. CASE UNCHANGED vars
  BY <1>2, FinalSame DEF vars, taskVars
<1> QED
  BY <1>1, <1>2

-----------------------------------------------------------------------------
\* A cancelled task ends in ABORTED and terminal states are final, whichever
\* command, late result, unknown receipt or reconcile comes afterwards.
THEOREM CancellationIsFinal == Spec => CancelIsFinal
<1>1. [Next]_vars => [/\ state = "CANCELLING" => state' \in {"CANCELLING", "ABORTED"}
                      /\ state \in TERMINAL_TASK_STATES => state' = state]_vars
  BY FinalNext DEF FinalStep
<1> QED
  BY <1>1, PTL DEF Spec, CancelIsFinal
=============================================================================
