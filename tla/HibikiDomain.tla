---------------------------- MODULE HibikiDomain ----------------------------
(***************************************************************************)
(* The pure domain layer of the Hibiki orchestrator: the status enums, the  *)
(* transition tables and the guards that every command handler consults    *)
(* (src/hibiki/domain/enums.py, transitions.py and guards.py).             *)
(*                                                                         *)
(* Every event of the task table leads to one state whatever state it is   *)
(* applied in, so an event is the record of the states it may be applied   *)
(* in and the state it leads to.  An event applied anywhere else raises    *)
(* InvalidTransitionError, which rolls the whole command back.             *)
(***************************************************************************)

TaskStates == {"NEW", "PLANNING", "EXECUTING", "WAITING_HUMAN", "VERIFYING",
               "PAUSING", "PAUSED", "CANCELLING", "COMPLETED", "FAILED", "ABORTED"}

TERMINAL_TASK_STATES == {"COMPLETED", "FAILED", "ABORTED"}

DISPATCHABLE_TASK_STATES == {"PLANNING", "EXECUTING", "VERIFYING"}

\* The events of TASK_TRANSITIONS that some handler applies.
ContractSubmitted == [from |-> {"NEW", "WAITING_HUMAN"}, to |-> "WAITING_HUMAN"]
ContractApproved  == [from |-> {"WAITING_HUMAN"}, to |-> "PLANNING"]
ContractApprovedSimple == [from |-> {"WAITING_HUMAN"}, to |-> "EXECUTING"]
DecisionResolved  == [from |-> {"WAITING_HUMAN"}, to |-> "EXECUTING"]
PlanActivated     == [from |-> {"PLANNING", "EXECUTING", "VERIFYING"}, to |-> "EXECUTING"]
BlockingGateOpenedWhileCancelling ==    \* mutant: the cancellation is forgotten
    [from |-> {"WAITING_HUMAN", "PLANNING", "EXECUTING", "VERIFYING", "CANCELLING"},
     to |-> "WAITING_HUMAN"]
BlockingGateOpened ==
    [from |-> {"WAITING_HUMAN", "PLANNING", "EXECUTING", "VERIFYING"}, to |-> "WAITING_HUMAN"]
RequiredOutputsReady == [from |-> {"EXECUTING"}, to |-> "VERIFYING"]
VerificationFailed == [from |-> {"VERIFYING"}, to |-> "EXECUTING"]
AcceptanceReady   == [from |-> {"EXECUTING", "VERIFYING", "PLANNING"}, to |-> "WAITING_HUMAN"]
FinalAccepted     == [from |-> {"WAITING_HUMAN"}, to |-> "COMPLETED"]
PauseRequested    ==
    [from |-> {"NEW", "WAITING_HUMAN", "PLANNING", "EXECUTING", "VERIFYING"}, to |-> "PAUSING"]
RuntimeQuiescentEvent == [from |-> {"PAUSING"}, to |-> "PAUSED"]
ResumeRequested   == [from |-> {"PAUSED"}, to |-> "WAITING_HUMAN"]
ResumeRequestedRunnable == [from |-> {"PAUSED"}, to |-> "EXECUTING"]
CancelRequested   ==
    [from |-> {"NEW", "WAITING_HUMAN", "PLANNING", "EXECUTING", "VERIFYING", "PAUSING", "PAUSED"},
     to |-> "CANCELLING"]
CancellationSettledEvent == [from |-> {"CANCELLING"}, to |-> "ABORTED"]

-----------------------------------------------------------------------------
\* "NONE" stands for a row that does not exist yet.
WorkUnitStatuses == {"NONE", "PENDING", "RUNNING", "BLOCKED", "DONE", "FAILED", "CANCELLED"}
TERMINAL_WORK_UNIT == {"DONE", "FAILED", "CANCELLED"}

RunStatuses == {"NONE", "CREATED", "RUNNING", "SUCCEEDED", "FAILED", "TIMED_OUT",
                "CANCELLED", "LOST"}
TERMINAL_RUN == {"SUCCEEDED", "FAILED", "TIMED_OUT", "CANCELLED", "LOST"}
\* The statuses the handlers select with AgentRunStatus.CREATED / RUNNING.
ACTIVE_RUN == {"CREATED", "RUNNING"}

SideEffectStates == {"NONE", "PROPOSED", "WAITING_APPROVAL", "AUTHORIZED", "DISPATCHING",
                     "SUCCEEDED", "FAILED_CONFIRMED", "UNKNOWN", "CANCELLED"}

OutboxStatuses == {"NONE", "PENDING", "IN_FLIGHT", "ACKED", "DEAD"}
\* A row that a dispatcher may still act on.
LIVE_OUTBOX == {"PENDING", "IN_FLIGHT"}

WorkspaceStates == {"READY", "LOCKED", "QUARANTINED"}

\* A verdict of BLOCKED satisfies no predicate and fails nothing: it counts as NONE.
Verdicts == {"NONE", "PASS", "FAIL"}

\* blocked_reason, as far as any handler tells one from another.
BlockedReasons == {"none", "paused", "attempts_exhausted", "other"}

-----------------------------------------------------------------------------
\* guards.guard_dispatch: when a business run may be created.
guard_dispatch(taskState, hasContract, hasGate, cancel, pause) ==
    /\ taskState \in DISPATCHABLE_TASK_STATES
    /\ hasContract
    /\ ~hasGate
    /\ ~cancel
    /\ ~pause

\* guards.guard_side_effect_send: when an external action may be registered
\* for sending, claimed or transmitted.
guard_side_effect_send(task, cancel, pause, hasGate, activeVer, effectVer, expired, effect, allowed) ==
    /\ ~cancel /\ task # "CANCELLING"
    /\ ~pause /\ task \notin {"PAUSING", "PAUSED"}
    /\ task \notin TERMINAL_TASK_STATES
    /\ ~hasGate
    /\ activeVer # 0
    /\ effectVer = activeVer
    /\ ~expired
    /\ effect \in allowed

\* service.lost_run_recovery_policy: a lost run is retried only when nothing
\* of it can have reached the outside world and attempts remain.
lost_run_recovery_policy(hasEffect, exhausted) ==
    IF hasEffect \/ exhausted THEN "BLOCKED" ELSE "RETRY"
=============================================================================
