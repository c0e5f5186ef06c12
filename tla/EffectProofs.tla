---------------------------- MODULE EffectProofs ----------------------------
(***************************************************************************)
(* External actions are transmitted at most once, and the recorded         *)
(* outcomes are true.                                                      *)
(***************************************************************************)
EXTENDS TypeProofs

\* The states in which an action may have been transmitted.
SentStates == {"DISPATCHING", "UNKNOWN", "SUCCEEDED", "FAILED_CONFIRMED"}

\* What the row of an action, its outbox row, its dispatcher and the outside
\* world say of each other.
EffectOK(e) ==
    /\ sends[e] <= 1
    /\ eff[e] # "PROPOSED"
    /\ sends[e] > 0 \/ effPc[e] # "idle" => eff[e] \in SentStates /\ effRow[e] # "PENDING"
    \* the outbox row
    /\ effRow[e] = "PENDING" => eff[e] \in {"DISPATCHING", "UNKNOWN"}
    /\ effRow[e] = "IN_FLIGHT" => eff[e] \in SentStates
    /\ eff[e] = "DISPATCHING" => effRow[e] \in {"PENDING", "IN_FLIGHT"}
    \* the dispatcher, before and after its call
    /\ effPc[e] \in {"claimed", "checked"} => sends[e] = 0 /\ eff[e] \in {"DISPATCHING", "UNKNOWN"}
    /\ effPc[e] \in {"succeeded", "failed", "unknown", "raised"} => sends[e] > 0
    \* the outside world
    /\ applied[e] => sends[e] > 0
    /\ eff[e] = "SUCCEEDED" \/ effPc[e] = "succeeded" => applied[e]
    /\ eff[e] = "FAILED_CONFIRMED" \/ effPc[e] = "failed" => ~applied[e] /\ sends[e] > 0

EffectInv == TypeOK /\ \A e \in Effects : EffectOK(e)

-----------------------------------------------------------------------------
LEMMA EffectInit == Init => EffectInv
<1> SUFFICES ASSUME Init PROVE EffectInv
  OBVIOUS
<1>1. TypeOK
  BY InitType
<1>2. \A e \in Effects : EffectOK(e)
  BY DEF Init, EffectOK
<1> QED
  BY <1>1, <1>2 DEF EffectInv

LEMMA EffectUntouched ==
    ASSUME NEW e \in Effects, EffectOK(e),
           eff'[e] = eff[e], effRow'[e] = effRow[e], effPc'[e] = effPc[e],
           sends'[e] = sends[e], applied'[e] = applied[e]
    PROVE  EffectOK(e)'
BY DEF EffectOK

\* Revoking an outbox row makes an action that may have been sent UNKNOWN and
\* takes one that was not sent back.
LEMMA EffectRevoked ==
    ASSUME NEW e \in Effects, TypeOK, EffectOK(e), NEW c \in BOOLEAN,
           \/ eff'[e] = InvalidatedEffect(e, c)
           \/ eff[e] \in {"PROPOSED", "WAITING_APPROVAL", "AUTHORIZED"} /\ eff'[e] = "CANCELLED",
           effRow' = InvalidatedEffectRows,
           effPc'[e] = effPc[e], sends'[e] = sends[e], applied'[e] = applied[e]
    PROVE  EffectOK(e)'
<1>1. effRow'[e] = IF effRow[e] = "IN_FLIGHT" THEN "ACKED"
                   ELSE IF effRow[e] = "PENDING" THEN "DEAD" ELSE effRow[e]
  BY DEF InvalidatedEffectRows
<1> QED
  BY <1>1 DEF EffectOK, InvalidatedEffect, SentStates, TypeOK

LEMMA EffectCommand ==
    ASSUME EffectInv, Command, NEW e \in Effects PROVE EffectOK(e)'
<1> USE DEF taskVars, decisionVars, planVars, execVars, agentOutbox, effectRows, dispatchers,
        adapterVars, worldVars
<1>e. EffectOK(e) /\ TypeOK
  BY DEF EffectInv
<1>1. CASE \/ SubmitContract \/ ApproveContract \/ ResumeTask \/ PrepareAcceptance
           \/ ApproveAcceptance \/ DispatchOverBudget \/ RuntimeQuiescent
           \/ \E g \in Gates : CloseGate(g)
           \/ \E accept \in BOOLEAN : CancellationSettled(accept)
           \/ \E p \in Plans : ActivatePlan(p)
           \/ \E S, X, O \in SUBSET Units : DispatchReadyRuns(S, X, O)
           \/ \E r \in Runs : ConfirmRunExit(r)
  <2>1. UNCHANGED <<eff, effRow, effPc, sends, applied>>
    BY <1>1 DEF SubmitContract, ApproveContract, ResumeTask, PrepareAcceptance, ApproveAcceptance,
              DispatchOverBudget, RuntimeQuiescent, CloseGate, CancellationSettled, ActivatePlan,
              DispatchReadyRuns, ConfirmRunExit, _confirm_run_exit
  <2> QED
    BY <1>e, <2>1, EffectUntouched
<1>2. ASSUME NEW x \in Effects, ApproveSideEffect(x) PROVE EffectOK(e)'
  BY <1>2, <1>e DEF ApproveSideEffect, EffectOK, SentStates, TypeOK
<1>3. ASSUME \/ PauseTask
             \/ \E g \in Clarifications, r \in Runs \cup {NoRun} : OpenBlockingGate(g, r)
      PROVE  EffectOK(e)'
  <2>1. /\ eff'[e] = InvalidatedEffect(e, FALSE)
        /\ effRow' = InvalidatedEffectRows
        /\ UNCHANGED <<effPc, sends, applied>>
    BY <1>3 DEF PauseTask, OpenBlockingGate
  <2> QED
    BY <1>e, <2>1, EffectRevoked
<1>4. CASE CancelTask
  <2>1. /\ \/ eff'[e] = InvalidatedEffect(e, TRUE)
           \/ /\ eff[e] \in {"PROPOSED", "WAITING_APPROVAL", "AUTHORIZED"}
              /\ eff'[e] = "CANCELLED"
        /\ effRow' = InvalidatedEffectRows
        /\ UNCHANGED <<effPc, sends, applied>>
    BY <1>4 DEF CancelTask, CancelledEffect
  <2> QED
    BY <1>e, <2>1, EffectRevoked
<1> QED
  BY <1>1, <1>2, <1>3, <1>4 DEF Command

LEMMA EffectDispatch ==
    ASSUME EffectInv, NEW x \in Effects, EffectStep(x), NEW e \in Effects PROVE EffectOK(e)'
<1> USE DEF taskVars, decisionVars, planVars, execVars, agentOutbox, effectRows, dispatchers,
        adapterVars, worldVars
<1>e. EffectOK(e) /\ TypeOK
  BY DEF EffectInv
<1>0. CASE x # e
  <2>1. /\ eff'[e] = eff[e] /\ effRow'[e] = effRow[e] /\ effPc'[e] = effPc[e]
        /\ sends'[e] = sends[e] /\ applied'[e] = applied[e]
    BY <1>0, <1>e DEF EffectStep, ProposeSideEffect, ApprovalExpires, DispatchSideEffect, ClaimEffect,
         PrecheckEffect, SendEffect, ApplyReceipt, ApplyUnknown, FailEffect, ReconcileSideEffect,
         TypeOK
  <2> QED
    BY <1>e, <2>1, EffectUntouched
<1>1. CASE ProposeSideEffect(e)
  BY <1>1, <1>e DEF ProposeSideEffect, EffectOK, SentStates, TypeOK
<1>2. CASE ApprovalExpires(e)
  BY <1>2, <1>e, EffectUntouched DEF ApprovalExpires
<1>3. CASE DispatchSideEffect(e)
  BY <1>3, <1>e DEF DispatchSideEffect, _guard_side_effect_eligibility, guard_side_effect_send,
              EffectOK, SentStates, TypeOK
<1>4. CASE ClaimEffect(e)
  BY <1>4, <1>e DEF ClaimEffect, Unsent, _guard_side_effect_eligibility, guard_side_effect_send,
              EffectOK, SentStates, TypeOK
<1>5. CASE PrecheckEffect(e)
  BY <1>5, <1>e DEF PrecheckEffect, Unsent, _guard_side_effect_eligibility, guard_side_effect_send,
              EffectOK, SentStates, TypeOK
<1>6. CASE SendEffect(e)
  BY <1>6, <1>e DEF SendEffect, EffectOK, SentStates, TypeOK
<1>7. CASE ApplyReceipt(e)
  BY <1>7, <1>e DEF ApplyReceipt, EffectOK, SentStates, TypeOK
<1>8. CASE ApplyUnknown(e)
  BY <1>8, <1>e DEF ApplyUnknown, EffectOK, SentStates, TypeOK
<1>9. CASE FailEffect(e)
  BY <1>9, <1>e DEF FailEffect, EffectOK, SentStates, TypeOK
<1>10. CASE ReconcileSideEffect(e)
  BY <1>10, <1>e DEF ReconcileSideEffect, EffectOK, SentStates, TypeOK
<1> QED
  BY <1>0, <1>1, <1>2, <1>3, <1>4, <1>5, <1>6, <1>7, <1>8, <1>9, <1>10 DEF EffectStep

LEMMA EffectElsewhere ==
    ASSUME EffectInv, NEW r \in Runs, AgentStep(r) \/ StartStep(r) \/ StopStep(r),
           NEW e \in Effects
    PROVE  EffectOK(e)'
<1>1. UNCHANGED <<eff, effRow, effPc, sends, applied>>
  BY DEF AgentStep, RecordModelUsage, SubmitResult, AuthorizeShell, BeginShell, EndShell, LoseShell,
         LeaveRun, _confirm_run_exit, AgentExit, ContainerExit, StartStep, ClaimStart, CheckStart,
         AdapterStart, AckStart, AckStartRevoked, FailStart, StopStep, ClaimStop, AdapterStop,
         AckStop, FailStop, effectRows, dispatchers, worldVars
<1> QED
  BY <1>1, EffectUntouched DEF EffectInv

LEMMA EffectRecovery ==
    ASSUME EffectInv, Recovery, NEW e \in Effects PROVE EffectOK(e)'
<1> USE DEF taskVars, decisionVars, planVars, execVars, agentOutbox, effectRows, dispatchers,
        adapterVars, worldVars
<1>e. EffectOK(e) /\ TypeOK
  BY DEF EffectInv
<1>1. CASE Crash
  BY <1>1, <1>e DEF Crash, EffectOK
<1>2. ASSUME NEW xStart, NEW xStop, NEW xEff, NEW H, NEW Q,
             Reconcile(xStart, xStop, xEff, H, Q)
      PROVE  EffectOK(e)'
  <2>1. /\ eff' = [y \in Effects |-> IF y \in xEff THEN ReconciledEffect(y) ELSE eff[y]]
        /\ effRow' = [y \in Effects |-> IF y \in xEff THEN "ACKED" ELSE effRow[y]]
        /\ UNCHANGED <<effPc, sends, applied>>
        /\ effPc[e] = "idle"
        /\ e \in xEff => effRow[e] = "IN_FLIGHT"
    BY <1>2, <1>e DEF Reconcile, InFlight
  <2> QED
    BY <1>e, <2>1 DEF EffectOK, ReconciledEffect, SentStates, TypeOK
<1> QED
  BY <1>1, <1>2 DEF Recovery

-----------------------------------------------------------------------------
\* EffectInv is the inductive invariant behind the theorems below.
THEOREM EffectInvariance == Spec => []EffectInv
<1>1. Init => EffectInv
  BY EffectInit
<1>2. EffectInv /\ [Next]_vars => EffectInv'
  <2> SUFFICES ASSUME EffectInv, [Next]_vars PROVE EffectInv'
    OBVIOUS
  <2>1. TypeOK'
    BY StepType DEF EffectInv
  <2>2. CASE Next
    BY <2>1, <2>2, EffectCommand, EffectDispatch, EffectElsewhere, EffectRecovery
       DEF Next, EffectInv
  <2>3. CASE UNCHANGED vars
    BY <2>1, <2>3, EffectUntouched DEF EffectInv, vars, effectRows, dispatchers, worldVars
  <2> QED
    BY <2>2, <2>3
<1> QED
  BY <1>1, <1>2, PTL DEF Spec

\* INV-09: an external action is transmitted at most once, however its outbox row
\* is revoked, claimed, lost in a crash, reconciled or registered again.
THEOREM SentAtMostOnce == Spec => []AtMostOneSend
<1>1. EffectInv => AtMostOneSend
  BY DEF EffectInv, EffectOK, AtMostOneSend
<1> QED
  BY <1>1, EffectInvariance, PTL

\* The side_effects table never contradicts the outside world.
THEOREM TrueOutcomes == Spec => []OutcomesAreTrue
<1>1. EffectInv => OutcomesAreTrue
  BY DEF EffectInv, EffectOK, OutcomesAreTrue, SentStates
<1> QED
  BY <1>1, EffectInvariance, PTL

-----------------------------------------------------------------------------
(* Every step moves every action as ExternalAction allows.                 *)

Moves(e) ==
    \/ Action!Same(e) \/ Action!Transmit(e)
    \/ /\ Action!Internal(e)
       /\ \/ Action!Wait(e) \/ Action!Authorize(e) \/ Action!Take(e) \/ Action!GiveBack(e)
          \/ Action!Cancel(e) \/ Action!Learn(e)

LEMMA UntouchedMoves ==
    ASSUME NEW e \in Effects, eff'[e] = eff[e], sends'[e] = sends[e], applied'[e] = applied[e]
    PROVE  Moves(e)
BY DEF Moves, Action!Same, Action!Internal

\* What the handlers that change an action's row without calling anybody do to it.
LEMMA RowMoves ==
    ASSUME NEW e \in Effects, EffectInv, sends'[e] = sends[e], applied'[e] = applied[e],
           \/ eff[e] = "NONE" /\ eff'[e] \in {"WAITING_APPROVAL", "AUTHORIZED"}
           \/ eff[e] = "WAITING_APPROVAL" /\ eff'[e] = "AUTHORIZED"
           \/ eff[e] = "AUTHORIZED" /\ eff'[e] = "DISPATCHING"
           \/ /\ eff[e] \in {"WAITING_APPROVAL", "AUTHORIZED", "DISPATCHING"} /\ sends[e] = 0
              /\ eff'[e] = "CANCELLED"
           \/ eff[e] = "DISPATCHING" /\ sends[e] = 0 /\ eff'[e] = "AUTHORIZED"
           \/ /\ eff[e] \in SentStates
              /\ \/ eff'[e] \in {"DISPATCHING", "UNKNOWN"}
                 \/ eff'[e] = "SUCCEEDED" /\ applied[e]
                 \/ eff'[e] = "FAILED_CONFIRMED" /\ sends[e] > 0 /\ ~applied[e]
    PROVE  Moves(e)
<1>1. sends[e] \in {0, 1}
  BY DEF EffectInv, EffectOK, TypeOK
<1> QED
  BY <1>1 DEF Moves, SentStates, Action!Internal, Action!Wait, Action!Authorize, Action!Take,
              Action!GiveBack, Action!Cancel, Action!Learn

LEMMA RevokedMoves ==
    ASSUME NEW e \in Effects, EffectInv, NEW c \in BOOLEAN,
           \/ eff'[e] = InvalidatedEffect(e, c)
           \/ eff[e] \in {"PROPOSED", "WAITING_APPROVAL", "AUTHORIZED"} /\ eff'[e] = "CANCELLED",
           sends'[e] = sends[e], applied'[e] = applied[e]
    PROVE  Moves(e)
<1>1. EffectOK(e) /\ sends[e] \in {0, 1, 2}
  BY DEF EffectInv, TypeOK
<1>2. CASE eff'[e] = eff[e]
  BY <1>2, UntouchedMoves
<1>3. CASE eff'[e] # eff[e]
  BY <1>1, <1>3, RowMoves DEF InvalidatedEffect, EffectOK, SentStates
<1> QED
  BY <1>2, <1>3

LEMMA CommandMoves ==
    ASSUME EffectInv, Command, NEW e \in Effects PROVE Moves(e)
<1> USE DEF taskVars, decisionVars, planVars, execVars, agentOutbox, effectRows, dispatchers,
        adapterVars, worldVars
<1>1. CASE \/ SubmitContract \/ ApproveContract \/ ResumeTask \/ PrepareAcceptance
           \/ ApproveAcceptance \/ DispatchOverBudget \/ RuntimeQuiescent
           \/ \E g \in Gates : CloseGate(g)
           \/ \E accept \in BOOLEAN : CancellationSettled(accept)
           \/ \E p \in Plans : ActivatePlan(p)
           \/ \E S, X, O \in SUBSET Units : DispatchReadyRuns(S, X, O)
           \/ \E r \in Runs : ConfirmRunExit(r)
  <2>1. UNCHANGED <<eff, sends, applied>>
    BY <1>1 DEF SubmitContract, ApproveContract, ResumeTask, PrepareAcceptance, ApproveAcceptance,
              DispatchOverBudget, RuntimeQuiescent, CloseGate, CancellationSettled, ActivatePlan,
              DispatchReadyRuns, ConfirmRunExit, _confirm_run_exit
  <2> QED
    BY <2>1, UntouchedMoves
<1>2. ASSUME NEW x \in Effects, ApproveSideEffect(x) PROVE Moves(e)
  <2>1. CASE x = e
    BY <1>2, <2>1, RowMoves DEF ApproveSideEffect, EffectInv, TypeOK
  <2>2. CASE x # e
    BY <1>2, <2>2, UntouchedMoves DEF ApproveSideEffect, EffectInv, TypeOK
  <2> QED
    BY <2>1, <2>2
<1>3. CASE \/ PauseTask
           \/ \E g \in Clarifications, r \in Runs \cup {NoRun} : OpenBlockingGate(g, r)
  <2>1. eff'[e] = InvalidatedEffect(e, FALSE) /\ UNCHANGED <<sends, applied>>
    BY <1>3 DEF PauseTask, OpenBlockingGate
  <2> QED
    BY <2>1, RevokedMoves
<1>4. CASE CancelTask
  <2>1. /\ \/ eff'[e] = InvalidatedEffect(e, TRUE)
           \/ /\ eff[e] \in {"PROPOSED", "WAITING_APPROVAL", "AUTHORIZED"}
              /\ eff'[e] = "CANCELLED"
        /\ UNCHANGED <<sends, applied>>
    BY <1>4 DEF CancelTask, CancelledEffect
  <2> QED
    BY <2>1, RevokedMoves
<1> QED
  BY <1>1, <1>2, <1>3, <1>4 DEF Command

\* A dispatcher that was stopped before its call takes an unsent action back.
LEMMA UnsentMoves ==
    ASSUME NEW e \in Effects, EffectInv, eff'[e] = Unsent(e), sends[e] = 0,
           sends'[e] = sends[e], applied'[e] = applied[e]
    PROVE  Moves(e)
<1>1. CASE eff'[e] = eff[e]
  BY <1>1, UntouchedMoves
<1>2. CASE eff'[e] # eff[e]
  BY <1>2, RowMoves DEF Unsent
<1> QED
  BY <1>1, <1>2

LEMMA DispatchMoves ==
    ASSUME EffectInv, NEW x \in Effects, EffectStep(x), NEW e \in Effects PROVE Moves(e)
<1> USE DEF taskVars, decisionVars, planVars, execVars, agentOutbox, effectRows, dispatchers,
        adapterVars, worldVars
<1>e. EffectOK(e) /\ TypeOK
  BY DEF EffectInv
<1>t. eff \in [Effects -> SideEffectStates] /\ sends[e] \in 0..2 /\ applied[e] \in BOOLEAN
  BY <1>e DEF TypeOK
<1>0. CASE x # e
  <2>1. eff'[e] = eff[e] /\ sends'[e] = sends[e] /\ applied'[e] = applied[e]
    BY <1>0, <1>e DEF EffectStep, ProposeSideEffect, ApprovalExpires, DispatchSideEffect, ClaimEffect,
         PrecheckEffect, SendEffect, ApplyReceipt, ApplyUnknown, FailEffect, ReconcileSideEffect,
         TypeOK
  <2> QED
    BY <2>1, UntouchedMoves
<1>1. CASE ProposeSideEffect(e)
  BY <1>1, <1>t, RowMoves DEF ProposeSideEffect
<1>2. CASE ApprovalExpires(e)
  BY <1>2, UntouchedMoves DEF ApprovalExpires
<1>3. CASE DispatchSideEffect(e)
  BY <1>3, <1>t, RowMoves DEF DispatchSideEffect, _guard_side_effect_eligibility, guard_side_effect_send
<1>4. CASE ClaimEffect(e)
  <2>1. sends[e] = 0 /\ eff[e] \in {"DISPATCHING", "UNKNOWN"}
    BY <1>4, <1>e, <1>t DEF ClaimEffect, EffectOK
  <2>2. CASE eff'[e] = "DISPATCHING"
    BY <1>4, <2>1, <2>2, RowMoves DEF ClaimEffect, SentStates
  <2>3. CASE eff'[e] = Unsent(e)
    BY <1>4, <2>1, <2>3, UnsentMoves DEF ClaimEffect
  <2> QED
    BY <1>4, <1>t, <2>1, <2>2, <2>3 DEF ClaimEffect
<1>5. CASE PrecheckEffect(e)
  <2>1. sends[e] = 0
    BY <1>5, <1>e DEF PrecheckEffect, EffectOK
  <2>2. eff'[e] = eff[e] \/ eff'[e] = Unsent(e)
    BY <1>5, <1>t DEF PrecheckEffect
  <2> QED
    BY <1>5, <2>1, <2>2, UnsentMoves, UntouchedMoves DEF PrecheckEffect
<1>6. CASE SendEffect(e)
  <2>1. sends[e] = 0 /\ eff[e] \in {"DISPATCHING", "UNKNOWN"}
    BY <1>6, <1>e DEF SendEffect, EffectOK
  <2>2. sends'[e] = 1 /\ eff' = eff
    BY <1>6, <1>e, <2>1 DEF SendEffect, TypeOK
  <2>3. TypeOK'
    BY <1>e, StepType DEF Next
  <2>4. applied'[e] \in BOOLEAN
    BY <2>3 DEF TypeOK
  <2> QED
    BY <2>1, <2>2, <2>4 DEF Moves, Action!Transmit
<1>7. CASE ApplyReceipt(e)
  <2>1. /\ sends[e] > 0 /\ eff[e] \in SentStates
        /\ effPc[e] = "succeeded" => applied[e]
        /\ effPc[e] = "failed" => ~applied[e]
    BY <1>7, <1>e DEF ApplyReceipt, EffectOK
  <2> QED
    BY <1>7, <1>t, <2>1, RowMoves DEF ApplyReceipt
<1>8. CASE ApplyUnknown(e) \/ FailEffect(e)
  <2>1. eff[e] \in SentStates
    BY <1>8, <1>e DEF ApplyUnknown, FailEffect, EffectOK
  <2>2. eff'[e] \in {eff[e], "UNKNOWN"} /\ UNCHANGED <<sends, applied>>
    BY <1>8, <1>t DEF ApplyUnknown, FailEffect
  <2>3. CASE eff'[e] = eff[e]
    BY <2>2, <2>3, UntouchedMoves
  <2>4. CASE eff'[e] = "UNKNOWN"
    BY <2>1, <2>2, <2>4, RowMoves
  <2> QED
    BY <2>2, <2>3, <2>4
<1>9. CASE ReconcileSideEffect(e)
  BY <1>9, <1>t, RowMoves DEF ReconcileSideEffect, SentStates
<1> QED
  BY <1>0, <1>1, <1>2, <1>3, <1>4, <1>5, <1>6, <1>7, <1>8, <1>9 DEF EffectStep

LEMMA ElsewhereMoves ==
    ASSUME EffectInv, NEW r \in Runs, AgentStep(r) \/ StartStep(r) \/ StopStep(r),
           NEW e \in Effects
    PROVE  Moves(e)
<1>1. UNCHANGED <<eff, sends, applied>>
  BY DEF AgentStep, RecordModelUsage, SubmitResult, AuthorizeShell, BeginShell, EndShell, LoseShell,
         LeaveRun, _confirm_run_exit, AgentExit, ContainerExit, StartStep, ClaimStart, CheckStart,
         AdapterStart, AckStart, AckStartRevoked, FailStart, StopStep, ClaimStop, AdapterStop,
         AckStop, FailStop, effectRows, worldVars
<1> QED
  BY <1>1, UntouchedMoves

LEMMA RecoveryMoves ==
    ASSUME EffectInv, Recovery, NEW e \in Effects PROVE Moves(e)
<1> USE DEF taskVars, decisionVars, planVars, execVars, agentOutbox, effectRows, dispatchers,
        adapterVars, worldVars
<1>1. CASE Crash
  BY <1>1, UntouchedMoves DEF Crash
<1>2. ASSUME NEW xStart, NEW xStop, NEW xEff, NEW H, NEW Q,
             Reconcile(xStart, xStop, xEff, H, Q)
      PROVE  Moves(e)
  <2>1. eff'[e] \in {eff[e], ReconciledEffect(e)} /\ UNCHANGED <<sends, applied>>
    BY <1>2 DEF Reconcile
  <2>2. CASE eff'[e] = eff[e]
    BY <2>1, <2>2, UntouchedMoves
  <2>3. CASE eff'[e] # eff[e]
    BY <2>1, <2>3, RowMoves DEF ReconciledEffect, SentStates
  <2> QED
    BY <2>2, <2>3
<1> QED
  BY <1>1, <1>2 DEF Recovery

\* INV-09 and SPEC 14 as one specification: whatever is paused, gated, cancelled, lost
\* in a crash or reconciled, an external action is sent once, after an
\* authorization, and never after it was cancelled.
THEOREM CoreImplementsActions == Spec => ActionsAreSentOnce
<1>1. Init => Action!ActionInit
  BY DEF Init, Action!ActionInit
<1>2. EffectInv /\ [Next]_vars => [Action!ActionNext]_(Action!actionVars)
  <2> SUFFICES ASSUME EffectInv, [Next]_vars PROVE [Action!ActionNext]_(Action!actionVars)
    OBVIOUS
  <2>1. CASE Next
    <3>1. \A e \in Effects : Moves(e)
      BY <2>1, CommandMoves, DispatchMoves, ElsewhereMoves, RecoveryMoves DEF Next
    <3> QED
      BY <3>1 DEF Moves, Action!ActionNext
  <2>2. CASE UNCHANGED vars
    BY <2>2 DEF vars, effectRows, worldVars, Action!actionVars
  <2> QED
    BY <2>1, <2>2
<1> QED
  BY <1>1, <1>2, EffectInvariance, PTL DEF Spec, ActionsAreSentOnce, Action!ActionSpec
=============================================================================
