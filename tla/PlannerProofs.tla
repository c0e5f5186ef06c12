--------------------------- MODULE PlannerProofs ----------------------------
(***************************************************************************)
(* Proofs about Planner: its type, one valid PLAN run per session, who may *)
(* propose, and which contract is in force.                                *)
(***************************************************************************)
EXTENDS Planner, TLAPS

\* The run the session names was dispatched.
SessionNamesRun == activeRun # NoRun => run[activeRun] # "NONE"
SessionInv == SessionBindsItsRun /\ SessionNamesRun

\* How version numbers relate: a pending contract is a fresh submission with the
\* last number, and a delta was written against a version that was active then.
PendingIsFresh ==
    pending # 0 => /\ pending = last /\ pending > active
                   /\ root[pending] = pending /\ merged[pending] = {}
DeltasLookBack ==
    \A d \in Deltas :
        /\ delta[d].gate # "NONE" => delta[d].base <= active /\ delta[d].base < MaxVersions
        /\ delta[d].gate = "APPLIED" => delta[d].base < active
VersionsInOrder == active <= last /\ root[active] <= active
ContractInv ==
    /\ VersionsInOrder
    /\ PendingIsFresh
    /\ DeltasLookBack
    /\ AppliedDeltasAreInForce

PlannerInv == TypeOK /\ SessionInv /\ ContractInv

-----------------------------------------------------------------------------
(* Initial states                                                          *)

\* The state create_task leaves satisfies the invariant.
LEMMA InitInv == Init => PlannerInv
<1> SUFFICES ASSUME Init PROVE PlannerInv
  OBVIOUS
<1> USE PlannerAssumption DEF Init
<1>1. TypeOK
  <2>1. state \in TaskStates /\ pauseIntent \in BOOLEAN /\ cancelIntent \in BOOLEAN
    BY DEF TaskStates
  <2>2. 0 \in Versions /\ 0 \in 0..MaxGen /\ messages \in Nat /\ cursor \in 0..messages
    BY DEF Versions
  <2>3. /\ root \in [Versions -> Versions] /\ merged \in [Versions -> SUBSET Deltas]
        /\ last \in Versions /\ active \in Versions /\ pending \in Versions
    BY <2>2
  <2>4. delta \in [Deltas -> DeltaRecords] /\ clarify \subseteq Clarifications
    BY <2>2 DEF DeltaRecords, GateStates, RunOrNone
  <2>5. /\ gen \in 0..MaxGen /\ session \in {"NONE", "ACTIVE", "CLOSED"}
        /\ activeRun \in RunOrNone /\ marker \in RunOrNone
    BY <2>2 DEF RunOrNone
  <2>6. /\ run \in [PlanRuns -> RunStatuses] /\ runGen \in [PlanRuns -> 0..MaxGen]
        /\ runVer \in [PlanRuns -> Versions]
    BY <2>2 DEF RunStatuses
  <2>7. /\ start \in [PlanRuns -> OutboxStatuses] /\ stop \in [PlanRuns -> OutboxStatuses]
        /\ startPc \in [PlanRuns -> StartPhases] /\ stopPc \in [PlanRuns -> StopPhases]
        /\ alive \in [PlanRuns -> BOOLEAN] /\ revoked \in [PlanRuns -> BOOLEAN]
    BY DEF OutboxStatuses, StartPhases, StopPhases
  <2> QED
    BY <2>1, <2>2, <2>3, <2>4, <2>5, <2>6, <2>7 DEF TypeOK
<1>2. SessionInv
  BY DEF SessionInv, SessionBindsItsRun, SessionNamesRun, ACTIVE_RUN
<1>3. ContractInv
  <2>1. 0 \in Versions
    BY DEF Versions
  <2> QED
    BY <2>1 DEF ContractInv, VersionsInOrder, PendingIsFresh, DeltasLookBack,
                AppliedDeltasAreInForce
<1> QED
  BY <1>1, <1>2, <1>3 DEF PlannerInv

-----------------------------------------------------------------------------
(* Type correctness                                                        *)

LEMMA StateType ==
    ASSUME TypeOK, NEW event, _set_task_state(event), event.to \in TaskStates
    PROVE  state' \in TaskStates
BY DEF _set_task_state

LEMMA RunnableType ==
    ASSUME TypeOK, _recompute_runnable_state
    PROVE  state' \in TaskStates
BY DEF TypeOK, _recompute_runnable_state, _set_task_state, DecisionResolved, TaskStates

LEMMA EventTypes ==
    \A event \in {ContractSubmitted, ContractApproved, ContractApprovedSimple, PlanActivated,
                  BlockingGateOpened, PauseRequested, CancelRequested, RuntimeQuiescentEvent,
                  ResumeRequested, ResumeRequestedRunnable, CancellationSettledEvent} :
        event.to \in TaskStates
BY DEF ContractSubmitted, ContractApproved, ContractApprovedSimple, PlanActivated,
       BlockingGateOpened, PauseRequested, CancelRequested, RuntimeQuiescentEvent,
       ResumeRequested, ResumeRequestedRunnable, CancellationSettledEvent, TaskStates

LEMMA RowTypes ==
    ASSUME TypeOK, NEW R
    PROVE  /\ _enqueue_stops_for_runs(R) \in [PlanRuns -> OutboxStatuses]
           /\ Vacated(marker, R) \in RunOrNone /\ Vacated(activeRun, R) \in RunOrNone
BY DEF TypeOK, _enqueue_stops_for_runs, Vacated, RunOrNone, OutboxStatuses

LEMMA GateType ==
    ASSUME TypeOK, NEW d \in Deltas, NEW g \in GateStates
    PROVE  [delta EXCEPT ![d].gate = g] \in [Deltas -> DeltaRecords]
BY DEF TypeOK, DeltaRecords

\* The contracts and decisions written by the human, the planner and the deltas.
LEMMA ContractType ==
    ASSUME TypeOK, ContractInv,
           \/ SubmitContract \/ ApproveContract \/ RejectContract
           \/ \E d \in Deltas : \/ ApproveDelta(d) \/ RejectDelta(d)
                                \/ ApplyContractDelta(d) \/ _invalidate_stale_contract_delta(d)
           \/ \E d \in Deltas, who \in RunOrNone, g \in 1..MaxGen : ProposeDelta(d, who, g)
    PROVE  TypeOK'
<1> USE PlannerAssumption DEF taskVars, contractVars, gateVars, sessionVars, runVars, outboxVars,
        volatile
<1>1. CASE SubmitContract
  <2>1. last + 1 \in Versions
    BY <1>1 DEF SubmitContract, TypeOK, Versions
  <2>2. state' \in TaskStates
    BY <1>1, StateType, EventTypes DEF SubmitContract
  <2> QED
    BY <1>1, <2>1, <2>2 DEF SubmitContract, TypeOK
<1>2. CASE ApproveContract
  <2>1. state' \in TaskStates
    BY <1>2, StateType, EventTypes DEF ApproveContract
  <2>2. 0 \in Versions
    BY DEF Versions
  <2> QED
    BY <1>2, <2>1, <2>2 DEF ApproveContract, TypeOK
<1>3. CASE RejectContract
  <2>1. 0 \in Versions
    BY DEF Versions
  <2> QED
    BY <1>3, <2>1, RunnableType DEF RejectContract, TypeOK
<1>4. ASSUME NEW d \in Deltas, ApproveDelta(d) PROVE TypeOK'
  <2>1. state' \in TaskStates
    BY <1>4, StateType, EventTypes DEF ApproveDelta, TypeOK
  <2>2. delta' \in [Deltas -> DeltaRecords]
    BY <1>4, GateType DEF ApproveDelta, GateStates
  <2> QED
    BY <1>4, <2>1, <2>2 DEF ApproveDelta, TypeOK
<1>5. ASSUME NEW d \in Deltas, RejectDelta(d) PROVE TypeOK'
  <2>1. delta' \in [Deltas -> DeltaRecords]
    BY <1>5, GateType DEF RejectDelta, GateStates
  <2> QED
    BY <1>5, <2>1, RunnableType DEF RejectDelta, TypeOK
<1>6. ASSUME NEW d \in Deltas, ApplyContractDelta(d) PROVE TypeOK'
  <2>1. delta[d].base \in Versions /\ delta[d].base + 1 \in Versions
    <3>1. delta[d].base \in Versions
      BY DEF TypeOK, DeltaRecords
    <3>2. delta[d].base < MaxVersions
      BY <1>6 DEF ApplyContractDelta, ContractInv, DeltasLookBack
    <3> QED
      BY <3>1, <3>2 DEF Versions
  <2>2. delta' \in [Deltas -> DeltaRecords]
    BY <1>6, GateType DEF ApplyContractDelta, GateStates
  <2>3. root' \in [Versions -> Versions]
    BY <1>6, <2>1 DEF ApplyContractDelta, TypeOK
  <2>4. merged' \in [Versions -> SUBSET Deltas]
    BY <1>6, <2>1 DEF ApplyContractDelta, TypeOK, _merge_contract_content
  <2> QED
    BY <1>6, <2>1, <2>2, <2>3, <2>4, RunnableType DEF ApplyContractDelta, TypeOK
<1>7. ASSUME NEW d \in Deltas, _invalidate_stale_contract_delta(d) PROVE TypeOK'
  <2>1. delta' \in [Deltas -> DeltaRecords]
    BY <1>7, GateType DEF _invalidate_stale_contract_delta, GateStates
  <2> QED
    BY <1>7, <2>1, RunnableType DEF _invalidate_stale_contract_delta, TypeOK
<1>8. ASSUME NEW d \in Deltas, NEW who \in RunOrNone, NEW g \in 1..MaxGen,
             ProposeDelta(d, who, g)
      PROVE  TypeOK'
  <2>1. state' \in TaskStates
    BY <1>8, StateType, EventTypes DEF ProposeDelta
  <2>2. delta' \in [Deltas -> DeltaRecords]
    BY <1>8 DEF ProposeDelta, TypeOK, DeltaRecords, GateStates
  <2> QED
    BY <1>8, <2>1, <2>2 DEF ProposeDelta, TypeOK
<1> QED
  BY <1>1, <1>2, <1>3, <1>4, <1>5, <1>6, <1>7, <1>8

\* The other commands.
LEMMA ControlType ==
    ASSUME TypeOK,
           \/ \E who \in RunOrNone, g \in 1..MaxGen :
                 ProposePlan(who, g) \/ \E c \in 0..(messages + 1) : AdvanceCheckpoint(who, g, c)
           \/ PostTaskMessage \/ ReplacePlannerGeneration
           \/ \E status \in {"ACTIVE", "CLOSED"} : ClosePlannerSession(status)
           \/ \E g \in Clarifications : OpenBlockingGate(g) \/ ResolveClarification(g)
           \/ PauseTask \/ RuntimeQuiescent \/ ResumeTask \/ CancelTask \/ CancellationSettled
    PROVE  TypeOK'
<1> USE PlannerAssumption DEF taskVars, contractVars, gateVars, sessionVars, runVars, outboxVars,
        volatile
<1>1. ASSUME NEW who \in RunOrNone, NEW g \in 1..MaxGen, ProposePlan(who, g) PROVE TypeOK'
  <2>1. state' \in TaskStates
    BY <1>1, StateType, EventTypes DEF ProposePlan
  <2> QED
    BY <1>1, <2>1 DEF ProposePlan, TypeOK
<1>2. ASSUME NEW who \in RunOrNone, NEW g \in 1..MaxGen, NEW c \in 0..(messages + 1),
             AdvanceCheckpoint(who, g, c)
      PROVE  TypeOK'
  BY <1>2 DEF AdvanceCheckpoint, CheckpointInLog, TypeOK
<1>3. CASE PostTaskMessage
  BY <1>3 DEF PostTaskMessage, TypeOK
<1>4. CASE ReplacePlannerGeneration
  <2>1. run' \in [PlanRuns -> RunStatuses]
    BY <1>4 DEF ReplacePlannerGeneration, TypeOK, RunStatuses
  <2>2. stop' \in [PlanRuns -> OutboxStatuses]
    BY <1>4, RowTypes DEF ReplacePlannerGeneration
  <2>3. gen' \in 0..MaxGen /\ session' \in {"NONE", "ACTIVE", "CLOSED"}
    BY <1>4 DEF ReplacePlannerGeneration, TypeOK
  <2> QED
    BY <1>4, <2>1, <2>2, <2>3 DEF ReplacePlannerGeneration, TypeOK, RunOrNone
<1>5. ASSUME NEW status \in {"ACTIVE", "CLOSED"}, ClosePlannerSession(status) PROVE TypeOK'
  BY <1>5 DEF ClosePlannerSession, TypeOK, RunOrNone
<1>6. ASSUME _invalidate_pending_outbox
      PROVE  /\ start' \in [PlanRuns -> OutboxStatuses] /\ run' \in [PlanRuns -> RunStatuses]
             /\ marker' \in RunOrNone /\ activeRun' \in RunOrNone
  <2>1. start' \in [PlanRuns -> OutboxStatuses] /\ run' \in [PlanRuns -> RunStatuses]
    BY <1>6 DEF _invalidate_pending_outbox, TypeOK, OutboxStatuses, RunStatuses
  <2> QED
    BY <1>6, <2>1, RowTypes DEF _invalidate_pending_outbox, _clear_run_occupancy
<1>7. ASSUME NEW g \in Clarifications, OpenBlockingGate(g) PROVE TypeOK'
  <2>1. state' \in TaskStates
    BY <1>7, StateType, EventTypes DEF OpenBlockingGate
  <2>2. stop' \in [PlanRuns -> OutboxStatuses]
    BY <1>7, RowTypes DEF OpenBlockingGate
  <2> QED
    BY <1>6, <1>7, <2>1, <2>2 DEF OpenBlockingGate, TypeOK
<1>8. ASSUME NEW g \in Clarifications, ResolveClarification(g) PROVE TypeOK'
  BY <1>8, RunnableType DEF ResolveClarification, TypeOK
<1>9. CASE PauseTask \/ CancelTask
  <2>1. state' \in TaskStates
    BY <1>9, StateType, EventTypes DEF PauseTask, CancelTask, StopTask
  <2>2. stop' \in [PlanRuns -> OutboxStatuses]
    BY <1>9, RowTypes DEF PauseTask, CancelTask, StopTask
  <2> QED
    BY <1>6, <1>9, <2>1, <2>2 DEF PauseTask, CancelTask, StopTask, TypeOK
<1>10. CASE RuntimeQuiescent
  <2>1. state' \in TaskStates
    BY <1>10, StateType, EventTypes DEF RuntimeQuiescent
  <2>2. run' \in [PlanRuns -> RunStatuses]
    BY <1>10 DEF RuntimeQuiescent, TypeOK, RunStatuses
  <2> QED
    BY <1>10, <2>1, <2>2, RowTypes DEF RuntimeQuiescent, _clear_run_occupancy, TypeOK
<1>11. CASE ResumeTask
  <2>1. state' \in TaskStates
    BY <1>11, StateType, EventTypes DEF ResumeTask
  <2> QED
    BY <1>11, <2>1 DEF ResumeTask, TypeOK
<1>12. CASE CancellationSettled
  <2>1. state' \in TaskStates
    BY <1>12, StateType, EventTypes DEF CancellationSettled
  <2>2. run' \in [PlanRuns -> RunStatuses]
    BY <1>12 DEF CancellationSettled, TypeOK, RunStatuses
  <2> QED
    BY <1>12, <2>1, <2>2 DEF CancellationSettled, TypeOK
<1> QED
  BY <1>1, <1>2, <1>3, <1>4, <1>5, <1>7, <1>8, <1>9, <1>10, <1>11, <1>12

\* Dispatch, results, dispatchers and agents.
LEMMA RunStepType ==
    ASSUME TypeOK, NEW r \in PlanRuns, RunStep(r)
    PROVE  TypeOK'
<1> USE PlannerAssumption DEF taskVars, contractVars, gateVars, sessionVars, runVars, outboxVars,
        volatile, TypeOK
<1>1. CASE DispatchPlannerRun(r)
  BY <1>1 DEF DispatchPlannerRun, RunStatuses, OutboxStatuses, RunOrNone
<1>2. CASE SubmitResult(r)
  <2>1. run' \in [PlanRuns -> RunStatuses]
    BY <1>2 DEF SubmitResult, RunStatuses
  <2> QED
    BY <1>2, <2>1, RowTypes DEF SubmitResult, _clear_run_occupancy
<1>3. CASE ConfirmRunExit(r)
  BY <1>3, RowTypes DEF ConfirmRunExit, OutboxStatuses
<1>4. CASE AgentExit(r)
  BY <1>4 DEF AgentExit
<1>5. CASE ClaimStart(r)
  BY <1>5 DEF ClaimStart, OutboxStatuses, StartPhases
<1>6. CASE CheckStart(r)
  BY <1>6, RowTypes DEF CheckStart, FenceStart, OutboxStatuses, StartPhases
<1>7. CASE AdapterStart(r)
  BY <1>7 DEF AdapterStart, StartPhases
<1>8. CASE AckStart(r)
  BY <1>8, RowTypes DEF AckStart, OutboxStatuses, RunStatuses, StartPhases
<1>9. CASE AckStartRevoked(r) \/ FailStart(r)
  BY <1>9, RowTypes DEF AckStartRevoked, FailStart, FenceStart, OutboxStatuses, StartPhases
<1>10. CASE ClaimStop(r) \/ FailStop(r)
  BY <1>10 DEF ClaimStop, FailStop, OutboxStatuses, StopPhases
<1>11. CASE AdapterStop(r)
  BY <1>11 DEF AdapterStop, StopPhases
<1>12. CASE AckStop(r)
  BY <1>12, RowTypes DEF AckStop, _clear_run_occupancy, OutboxStatuses, RunStatuses, StopPhases
<1> QED
  BY <1>1, <1>2, <1>3, <1>4, <1>5, <1>6, <1>7, <1>8, <1>9, <1>10, <1>11, <1>12 DEF RunStep

LEMMA RecoveryType ==
    ASSUME TypeOK,
           Crash \/ \E xStart \in SUBSET InFlight(start), xStop \in SUBSET InFlight(stop) :
                       Reconcile(xStart, xStop)
    PROVE  TypeOK'
<1> USE DEF taskVars, contractVars, gateVars, sessionVars, runVars, outboxVars, volatile
<1>1. CASE Crash
  BY <1>1 DEF Crash, TypeOK, StartPhases, StopPhases
<1>2. ASSUME NEW xStart, NEW xStop, Reconcile(xStart, xStop) PROVE TypeOK'
  <2>1. start' \in [PlanRuns -> OutboxStatuses] /\ run' \in [PlanRuns -> RunStatuses]
    BY <1>2 DEF Reconcile, TypeOK, OutboxStatuses, RunStatuses
  <2>2. stop' \in [PlanRuns -> OutboxStatuses]
    BY <1>2, RowTypes DEF Reconcile, OutboxStatuses
  <2> QED
    BY <1>2, <2>1, <2>2, RowTypes DEF Reconcile, _clear_run_occupancy, TypeOK
<1> QED
  BY <1>1, <1>2

LEMMA StepType == TypeOK /\ ContractInv /\ [Next]_vars => TypeOK'
<1> SUFFICES ASSUME TypeOK, ContractInv, [Next]_vars PROVE TypeOK'
  OBVIOUS
<1>1. CASE Command
  BY <1>1, ContractType, ControlType DEF Command, PlannerWrite
<1>2. CASE UNCHANGED vars
  BY <1>2 DEF TypeOK, vars, taskVars, contractVars, gateVars, sessionVars, runVars, outboxVars,
              volatile
<1> QED
  BY <1>1, <1>2, RunStepType, RecoveryType DEF Next

-----------------------------------------------------------------------------
(* One valid PLAN run                                                      *)

\* The steps that end a set R of runs, and only those, and clear their columns.
LEMMA RunsEnded ==
    ASSUME TypeOK, SessionInv, NEW R \in SUBSET PlanRuns, _clear_run_occupancy(R),
           \A r \in PlanRuns : run'[r] # "NONE" \/ run'[r] = run[r],
           \A r \in R : run'[r] \notin ACTIVE_RUN,
           \A r \in PlanRuns \ R : run'[r] \in ACTIVE_RUN => run[r] \in ACTIVE_RUN,
           UNCHANGED <<runGen, gen, session>>
    PROVE  SessionInv'
<1>1. SessionBindsItsRun'
  BY DEF SessionInv, SessionBindsItsRun, _clear_run_occupancy, Vacated
<1>2. SessionNamesRun'
  BY PlannerAssumption DEF SessionInv, SessionNamesRun, _clear_run_occupancy, Vacated, TypeOK,
                           RunOrNone
<1> QED
  BY <1>1, <1>2 DEF SessionInv

\* The steps that leave sessions and runs alone.
LEMMA SessionKept ==
    ASSUME SessionInv, UNCHANGED <<run, runGen, gen, session, activeRun, marker>>
    PROVE  SessionInv'
BY DEF SessionInv, SessionBindsItsRun, SessionNamesRun

\* A marker on no live run means that there is none.
LEMMA NoLiveRun ==
    ASSUME SessionInv, marker \notin LiveRuns
    PROVE  \A r \in PlanRuns : run[r] \notin ACTIVE_RUN
BY DEF SessionInv, SessionBindsItsRun, LiveRuns

LEMMA SessionCommand ==
    ASSUME TypeOK, SessionInv, Command
    PROVE  SessionInv'
<1> USE DEF taskVars, contractVars, gateVars, sessionVars, runVars, outboxVars, volatile
<1>1. CASE ReplacePlannerGeneration
  <2>1. \A r \in PlanRuns : run'[r] \notin ACTIVE_RUN
    <3> SUFFICES ASSUME NEW r \in PlanRuns, run'[r] \in ACTIVE_RUN PROVE FALSE
      OBVIOUS
    <3>1. run[r] \in ACTIVE_RUN /\ r \notin BumpRevokes
      BY <1>1 DEF ReplacePlannerGeneration, ACTIVE_RUN
    <3>2. marker = r
      BY <3>1 DEF SessionInv, SessionBindsItsRun
    <3> QED
      BY <3>1, <3>2 DEF BumpRevokes, ACTIVE_RUN, TERMINAL_RUN
  <2> QED
    BY <1>1, <2>1 DEF ReplacePlannerGeneration, SessionInv, SessionBindsItsRun, SessionNamesRun
<1>2. ASSUME NEW status, ClosePlannerSession(status) PROVE SessionInv'
  BY <1>2, NoLiveRun DEF ClosePlannerSession, SessionInv, SessionBindsItsRun, SessionNamesRun
<1>3. ASSUME _invalidate_pending_outbox, UNCHANGED <<runGen, gen, session>> PROVE SessionInv'
  BY <1>3, RunsEnded DEF _invalidate_pending_outbox, RevokedRuns, UnsentStarts, ACTIVE_RUN
<1>4. CASE PauseTask \/ CancelTask \/ \E g \in Clarifications : OpenBlockingGate(g)
  BY <1>3, <1>4 DEF PauseTask, CancelTask, StopTask, OpenBlockingGate
<1>5. CASE RuntimeQuiescent
  BY <1>5, RunsEnded DEF RuntimeQuiescent, LiveRuns, ACTIVE_RUN
<1>6. CASE CancellationSettled
  <2>1. \A r \in PlanRuns : run'[r] \notin ACTIVE_RUN /\ (run[r] # "NONE" => run'[r] # "NONE")
    BY <1>6 DEF CancellationSettled, LiveRuns, ACTIVE_RUN
  <2> QED
    BY <1>6, <2>1 DEF CancellationSettled, SessionInv, SessionBindsItsRun, SessionNamesRun,
                      TypeOK, RunOrNone
<1>7. CASE \/ SubmitContract \/ ApproveContract \/ RejectContract
           \/ \E d \in Deltas : \/ ApproveDelta(d) \/ RejectDelta(d)
                                \/ ApplyContractDelta(d) \/ _invalidate_stale_contract_delta(d)
  BY <1>7, SessionKept DEF SubmitContract, ApproveContract, RejectContract, ApproveDelta,
      RejectDelta, ApplyContractDelta, _invalidate_stale_contract_delta
<1>8. CASE \E who \in RunOrNone, g \in 1..MaxGen :
              \/ \E d \in Deltas : ProposeDelta(d, who, g)
              \/ ProposePlan(who, g)
              \/ \E c \in 0..(messages + 1) : AdvanceCheckpoint(who, g, c)
  BY <1>8, SessionKept DEF ProposeDelta, ProposePlan, AdvanceCheckpoint
<1>9. CASE PostTaskMessage \/ ResumeTask \/ \E g \in Clarifications : ResolveClarification(g)
  BY <1>9, SessionKept DEF PostTaskMessage, ResumeTask, ResolveClarification
<1> QED
  BY <1>1, <1>2, <1>4, <1>5, <1>6, <1>7, <1>8, <1>9 DEF Command, PlannerWrite

LEMMA SessionRunStep ==
    ASSUME TypeOK, SessionInv, NEW r \in PlanRuns, RunStep(r)
    PROVE  SessionInv'
<1> USE DEF taskVars, contractVars, gateVars, sessionVars, runVars, outboxVars, volatile
<1>1. CASE DispatchPlannerRun(r)
  <2>1. \A q \in PlanRuns : run'[q] \in ACTIVE_RUN => q = r
    BY <1>1, NoLiveRun DEF DispatchPlannerRun
  <2>2. runGen'[r] = gen' /\ run'[r] = "CREATED"
    BY <1>1 DEF DispatchPlannerRun, TypeOK
  <2> QED
    BY <1>1, <2>1, <2>2 DEF DispatchPlannerRun, SessionInv, SessionBindsItsRun, SessionNamesRun
<1>2. CASE SubmitResult(r)
  BY <1>2, RunsEnded DEF SubmitResult, ACTIVE_RUN, TypeOK
<1>3. CASE AckStart(r)
  BY <1>3 DEF AckStart, ACTIVE_RUN, TypeOK, SessionInv, SessionBindsItsRun, SessionNamesRun
<1>4. CASE AckStop(r)
  <2>1. CASE stopPc[r] = "stopped" /\ r \in LiveRuns
    BY <1>4, <2>1, RunsEnded DEF AckStop, ACTIVE_RUN, TypeOK
  <2>2. CASE ~(stopPc[r] = "stopped" /\ r \in LiveRuns)
    BY <1>4, <2>2, SessionKept DEF AckStop
  <2> QED
    BY <2>1, <2>2
<1>5. CASE \/ ConfirmRunExit(r) \/ AgentExit(r) \/ ClaimStart(r) \/ CheckStart(r)
           \/ AdapterStart(r) \/ AckStartRevoked(r) \/ FailStart(r)
           \/ ClaimStop(r) \/ AdapterStop(r) \/ FailStop(r)
  BY <1>5, SessionKept DEF ConfirmRunExit, AgentExit, ClaimStart, CheckStart, AdapterStart,
      AckStartRevoked, FailStart, ClaimStop, AdapterStop, FailStop
<1> QED
  BY <1>1, <1>2, <1>3, <1>4, <1>5 DEF RunStep

LEMMA StepSession == TypeOK /\ SessionInv /\ [Next]_vars => SessionInv'
<1> SUFFICES ASSUME TypeOK, SessionInv, [Next]_vars PROVE SessionInv'
  OBVIOUS
<1> USE DEF taskVars, contractVars, gateVars, sessionVars, runVars, outboxVars, volatile
<1>1. CASE Crash \/ UNCHANGED vars
  BY <1>1, SessionKept DEF Crash, vars
<1>2. ASSUME NEW xStart, NEW xStop, Reconcile(xStart, xStop) PROVE SessionInv'
  BY <1>2, RunsEnded DEF Reconcile, LostRuns, ACTIVE_RUN
<1> QED
  BY <1>1, <1>2, SessionCommand, SessionRunStep DEF Next

-----------------------------------------------------------------------------
(* Contracts and deltas                                                    *)

LEMMA ContractKept ==
    ASSUME ContractInv, UNCHANGED <<contractVars, delta>>
    PROVE  ContractInv'
BY DEF ContractInv, VersionsInOrder, PendingIsFresh, DeltasLookBack, AppliedDeltasAreInForce,
       contractVars

\* A decision that does not become APPLIED leaves the contracts' order alone.
LEMMA GateMoves ==
    ASSUME TypeOK, ContractInv, NEW d \in Deltas, NEW g \in GateStates \ {"NONE", "APPLIED"},
           delta[d].gate \notin {"NONE", "APPLIED"}, delta' = [delta EXCEPT ![d].gate = g],
           UNCHANGED contractVars
    PROVE  ContractInv'
<1>1. \A e \in Deltas : /\ delta'[e].base = delta[e].base
                        /\ delta'[e].gate = "APPLIED" <=> delta[e].gate = "APPLIED"
                        /\ delta'[e].gate # "NONE" => delta[e].gate # "NONE"
  BY DEF TypeOK, DeltaRecords
<1> QED
  BY <1>1 DEF ContractInv, VersionsInOrder, PendingIsFresh, DeltasLookBack,
              AppliedDeltasAreInForce, contractVars

\* Numbers behind the version arithmetic.
LEMMA VersionsAreNat ==
    ASSUME TypeOK
    PROVE  /\ last \in Nat /\ active \in Nat /\ pending \in Nat
           /\ \A v \in Versions : v \in Nat /\ root[v] \in Nat
           /\ \A d \in Deltas : delta[d].base \in Nat /\ delta[d].base \in Versions
BY PlannerAssumption DEF TypeOK, Versions, DeltaRecords

LEMMA StepContract == TypeOK /\ ContractInv /\ [Next]_vars => ContractInv'
<1> SUFFICES ASSUME TypeOK, ContractInv, [Next]_vars PROVE ContractInv'
  OBVIOUS
<1> USE DEF taskVars, gateVars, sessionVars, runVars, outboxVars, volatile
<1>1. CASE SubmitContract
  <2>1. last + 1 \in Versions /\ last + 1 # active /\ last + 1 > active
    BY <1>1, VersionsAreNat, PlannerAssumption
       DEF SubmitContract, ContractInv, VersionsInOrder, Versions
  <2>2. /\ root'[active] = root[active] /\ merged'[active] = merged[active]
        /\ root'[last + 1] = last + 1 /\ merged'[last + 1] = {}
    BY <1>1, <2>1 DEF SubmitContract, TypeOK
  <2> QED
    BY <1>1, <2>1, <2>2, VersionsAreNat
       DEF SubmitContract, ContractInv, VersionsInOrder, PendingIsFresh, DeltasLookBack,
           AppliedDeltasAreInForce
<1>2. CASE ApproveContract
  BY <1>2, VersionsAreNat
     DEF ApproveContract, ContractInv, VersionsInOrder, PendingIsFresh, DeltasLookBack,
         AppliedDeltasAreInForce
<1>3. CASE RejectContract
  BY <1>3 DEF RejectContract, ContractInv, VersionsInOrder, PendingIsFresh, DeltasLookBack,
              AppliedDeltasAreInForce
<1>4. ASSUME NEW d \in Deltas,
             ApproveDelta(d) \/ RejectDelta(d) \/ _invalidate_stale_contract_delta(d)
      PROVE  ContractInv'
  BY <1>4, GateMoves
     DEF ApproveDelta, RejectDelta, _invalidate_stale_contract_delta, GateStates
<1>5. ASSUME NEW d \in Deltas, ApplyContractDelta(d) PROVE ContractInv'
  <2> DEFINE base == delta[d].base
  <2>1. /\ active = base /\ last = base /\ pending = 0
        /\ base \in Nat /\ base \in Versions /\ base + 1 \in Versions
    BY <1>5, VersionsAreNat, PlannerAssumption
       DEF ApplyContractDelta, DeltaIsCurrent, ContractInv, VersionsInOrder, PendingIsFresh,
           DeltasLookBack, Versions
  <2>2. /\ active' = base + 1 /\ last' = base + 1 /\ pending' = 0
        /\ root'[base + 1] = root[base]
        /\ merged'[base + 1] = merged[base] \cup {d}
    BY <1>5, <2>1 DEF ApplyContractDelta, _merge_contract_content, TypeOK
  <2>3. \A e \in Deltas : /\ delta'[e].base = delta[e].base
                          /\ e # d => delta'[e].gate = delta[e].gate
                          /\ delta'[d].gate = "APPLIED"
    BY <1>5 DEF ApplyContractDelta, TypeOK, DeltaRecords
  <2>4. delta[d].gate = "APPROVED_PENDING_APPLY"
    BY <1>5 DEF ApplyContractDelta
  <2> HIDE DEF base
  <2>5. delta[d].base = base
    BY DEF base
  <2>6. VersionsInOrder' /\ PendingIsFresh'
    BY <2>1, <2>2, VersionsAreNat DEF ContractInv, VersionsInOrder, PendingIsFresh
  <2>7. DeltasLookBack'
    BY <2>1, <2>2, <2>3, <2>4, <2>5, VersionsAreNat DEF ContractInv, DeltasLookBack
  <2>8. AppliedDeltasAreInForce'
    BY <2>1, <2>2, <2>3, <2>5, VersionsAreNat
       DEF ContractInv, AppliedDeltasAreInForce, VersionsInOrder
  <2> QED
    BY <2>6, <2>7, <2>8 DEF ContractInv
<1>6. ASSUME NEW d \in Deltas, NEW who, NEW g, ProposeDelta(d, who, g) PROVE ContractInv'
  <2>1. \A e \in Deltas : e # d => delta'[e] = delta[e]
    BY <1>6 DEF ProposeDelta, TypeOK
  <2>2. delta'[d].gate = "OPEN" /\ delta'[d].base = active /\ active < MaxVersions
    BY <1>6 DEF ProposeDelta, TypeOK
  <2>3. delta[d].gate = "NONE" /\ UNCHANGED contractVars
    BY <1>6 DEF ProposeDelta
  <2> QED
    BY <2>1, <2>2, <2>3, VersionsAreNat
       DEF ContractInv, VersionsInOrder, PendingIsFresh, DeltasLookBack,
           AppliedDeltasAreInForce, contractVars
<1>7. CASE \E who \in RunOrNone, g \in 1..MaxGen :
              ProposePlan(who, g) \/ \E c \in 0..(messages + 1) : AdvanceCheckpoint(who, g, c)
  BY <1>7, ContractKept DEF ProposePlan, AdvanceCheckpoint
<1>8. CASE \/ PostTaskMessage \/ ReplacePlannerGeneration
           \/ \E status \in {"ACTIVE", "CLOSED"} : ClosePlannerSession(status)
           \/ \E g \in Clarifications : OpenBlockingGate(g) \/ ResolveClarification(g)
  BY <1>8, ContractKept DEF PostTaskMessage, ReplacePlannerGeneration, ClosePlannerSession,
      OpenBlockingGate, ResolveClarification
<1>9. CASE PauseTask \/ RuntimeQuiescent \/ ResumeTask \/ CancelTask \/ CancellationSettled
  BY <1>9, ContractKept DEF PauseTask, RuntimeQuiescent, ResumeTask, CancelTask, StopTask,
      CancellationSettled
<1>10. ASSUME NEW r \in PlanRuns, RunStep(r) PROVE ContractInv'
  BY <1>10, ContractKept DEF RunStep, DispatchPlannerRun, SubmitResult, ConfirmRunExit, AgentExit,
      ClaimStart, CheckStart, AdapterStart, AckStart, AckStartRevoked, FailStart, ClaimStop,
      AdapterStop, AckStop, FailStop
<1>11. ASSUME NEW xStart, NEW xStop, Reconcile(xStart, xStop) PROVE ContractInv'
  BY <1>11, ContractKept DEF Reconcile
<1>12. CASE Crash \/ UNCHANGED vars
  BY <1>12, ContractKept DEF Crash, vars
<1> QED
  BY <1>1, <1>2, <1>3, <1>4, <1>5, <1>6, <1>7, <1>8, <1>9, <1>10, <1>11, <1>12
     DEF Next, Command, PlannerWrite

-----------------------------------------------------------------------------
(* The theorems                                                            *)

LEMMA InvariantHolds == Spec => []PlannerInv
<1>1. PlannerInv /\ [Next]_vars => PlannerInv'
  BY StepType, StepSession, StepContract DEF PlannerInv
<1> QED
  BY <1>1, InitInv, PTL DEF Spec

\* Every row stays within its type; in particular the cursor a planner keeps
\* never points past the end of the message log it reads.
THEOREM PlannerTypeCorrect == Spec => []TypeOK
<1>1. PlannerInv => TypeOK
  BY DEF PlannerInv
<1> QED
  BY <1>1, InvariantHolds, PTL

\* A session has at most one valid PLAN run, which its columns name and whose
\* generation is current, for any number of runs and generations.
THEOREM OneValidPlanRun == Spec => []SessionBindsItsRun
<1>1. PlannerInv => SessionBindsItsRun
  BY DEF PlannerInv, SessionInv
<1> QED
  BY <1>1, InvariantHolds, PTL

\* The credential of a run that is over, replaced or of a closed session writes no
\* proposal and no checkpoint: dispatch, result, generation change, stop and loss
\* keep the session's columns such that the check of _assert_planner_write_auth
\* recognizes the one run that may write, for any number of runs and generations.
THEOREM SupersededRunsWriteNothing == Spec => SupersededPlannersAreSilent
<1> DEFINE Silent == \A who \in PlanRuns :
                        Superseded(who) => \A g \in 1..MaxGen : ~PlannerWrite(who, g)
<1>1. PlannerInv => Silent
  <2> SUFFICES ASSUME PlannerInv, NEW who \in PlanRuns, NEW g \in 1..MaxGen, PlannerWrite(who, g)
               PROVE  ~Superseded(who)
    OBVIOUS
  <2>1. _assert_planner_write_auth(who, g)
    BY DEF PlannerWrite, ProposeDelta, ProposePlan, AdvanceCheckpoint
  <2>2. activeRun = who /\ run[who] \notin TERMINAL_RUN /\ run[who] # "NONE"
    BY <2>1, PlannerAssumption
       DEF _assert_planner_write_auth, PlannerInv, SessionInv, SessionNamesRun
  <2>3. run[who] \in ACTIVE_RUN
    BY <2>2 DEF PlannerInv, TypeOK, RunStatuses, ACTIVE_RUN, TERMINAL_RUN
  <2> QED
    BY <2>2, <2>3 DEF Superseded, PlannerInv, SessionInv, SessionBindsItsRun
<1>2. PlannerInv /\ [Next]_vars => [written' # written => Silent]_written
  BY <1>1
<1> QED
  BY <1>2, InvariantHolds, PTL DEF Spec, SupersededPlannersAreSilent

\* The active contract holds exactly the approved deltas applied since its
\* submission, for any number of versions and deltas.
THEOREM ApprovedDeltasInForce == Spec => []AppliedDeltasAreInForce
<1>1. PlannerInv => AppliedDeltasAreInForce
  BY DEF PlannerInv, ContractInv
<1> QED
  BY <1>1, InvariantHolds, PTL

\* Approving a pending contract never takes the task back to an old version.
THEOREM PendingIsNewest == Spec => []PendingContractIsNewest
<1>1. PlannerInv => PendingContractIsNewest
  BY DEF PlannerInv, ContractInv, PendingIsFresh, PendingContractIsNewest
<1> QED
  BY <1>1, InvariantHolds, PTL
=============================================================================
