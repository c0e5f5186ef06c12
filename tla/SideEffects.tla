---------------------------- MODULE SideEffects -----------------------------
(***************************************************************************)
(* External actions: proposal and approval bind an action, dispatch puts   *)
(* it in the outbox, a dispatcher thread claims the row, looks once more,  *)
(* calls the external system outside any transaction and records what came *)
(* back.  Pause, cancel and gates (TaskControl) and the startup reconcile  *)
(* (Execution) change the same rows in between.                            *)
(***************************************************************************)
EXTENDS HibikiState

\* propose_side_effect of a new logical_action_key; the contract may have
\* authorized the key beforehand.  A known key only returns its row.
ProposeSideEffect(e) ==
    /\ _active_contract
    /\ eff[e] = "NONE"
    /\ effVer' = [effVer EXCEPT ![e] = active]
    /\ \/ /\ eff' = [eff EXCEPT ![e] = "AUTHORIZED"]
          /\ UNCHANGED <<open, state>>
       \/ /\ eff' = [eff EXCEPT ![e] = "WAITING_APPROVAL"]
          /\ open' = open \cup {e}
          /\ _set_task_state(BlockingGateOpened)
    /\ UNCHANGED <<pauseIntent, cancelIntent, calls, submitted, active, snap, planVars,
                   execVars, agentOutbox, ttl, effRow, dispatchers, adapterVars, worldVars>>

\* The approval's time to live runs out.
ApprovalExpires(e) ==
    /\ ttl[e] = "valid"
    /\ ttl' = [ttl EXCEPT ![e] = "expired"]
    /\ UNCHANGED <<taskVars, decisionVars, planVars, execVars, agentOutbox, eff, effVer,
                   effRow, dispatchers, adapterVars, worldVars>>

DispatchSideEffect(e) ==
    /\ _guard_side_effect_eligibility(e, {"AUTHORIZED"})
    /\ eff' = [eff EXCEPT ![e] = "DISPATCHING"]
    /\ effRow' = [effRow EXCEPT ![e] = "PENDING"]
    /\ UNCHANGED <<taskVars, decisionVars, planVars, execVars, agentOutbox, effVer, ttl,
                   dispatchers, adapterVars, worldVars>>

-----------------------------------------------------------------------------
\* What an unsent action falls back to when it may not be sent.
Unsent(e) ==
    IF eff[e] = "DISPATCHING"
    THEN IF cancelIntent \/ state = "CANCELLING" THEN "CANCELLED" ELSE "AUTHORIZED"
    ELSE eff[e]

\* _claim_one_outbox for a side_effect.dispatch row.
ClaimEffect(e) ==
    /\ effRow[e] = "PENDING"
    /\ \/ /\ _guard_side_effect_eligibility(e, {"DISPATCHING", "AUTHORIZED"})
          /\ effRow' = [effRow EXCEPT ![e] = "IN_FLIGHT"]
          /\ eff' = [eff EXCEPT ![e] = "DISPATCHING"]
          /\ effPc' = [effPc EXCEPT ![e] = "claimed"]
       \/ /\ ~_guard_side_effect_eligibility(e, {"DISPATCHING", "AUTHORIZED"})
          /\ effRow' = [effRow EXCEPT ![e] = "DEAD"]
          /\ eff' = [eff EXCEPT ![e] =
                       IF @ = "AUTHORIZED" /\ (cancelIntent \/ state = "CANCELLING")
                       THEN "CANCELLED" ELSE Unsent(e)]
          /\ UNCHANGED effPc
    /\ UNCHANGED <<taskVars, decisionVars, planVars, execVars, agentOutbox, effVer, ttl,
                   startPc, stopPc, adapterVars, worldVars>>

\* _do_external_dispatch._precheck: the last look before the call.
PrecheckEffect(e) ==
    /\ effPc[e] = "claimed"
    /\ \/ /\ effRow[e] # "DEAD"
          /\ _guard_side_effect_eligibility(e, {"DISPATCHING"})
          /\ effPc' = [effPc EXCEPT ![e] = "checked"]
          /\ UNCHANGED <<eff, effRow>>
       \/ /\ effRow[e] # "DEAD"
          /\ ~_guard_side_effect_eligibility(e, {"DISPATCHING"})
          /\ effPc' = [effPc EXCEPT ![e] = "idle"]
          /\ effRow' = [effRow EXCEPT ![e] = "DEAD"]
          /\ eff' = [eff EXCEPT ![e] = Unsent(e)]
       \/ /\ effRow[e] = "DEAD"
          /\ effPc' = [effPc EXCEPT ![e] = "idle"]
          /\ UNCHANGED <<eff, effRow>>
    /\ UNCHANGED <<taskVars, decisionVars, planVars, execVars, agentOutbox, effVer, ttl,
                   startPc, stopPc, adapterVars, worldVars>>

\* external_adapter.dispatch: succeeds, fails, or answers that it does not know or
\* raises, whether the action took place or not.
SendEffect(e) ==
    /\ effPc[e] = "checked"
    /\ sends' = [sends EXCEPT ![e] = IF @ < 2 THEN @ + 1 ELSE @]
    /\ \/ /\ effPc' = [effPc EXCEPT ![e] = "succeeded"]
          /\ applied' = [applied EXCEPT ![e] = TRUE]
       \/ /\ effPc' = [effPc EXCEPT ![e] = "failed"]
          /\ UNCHANGED applied
       \/ /\ \E answer \in {"unknown", "raised"} : effPc' = [effPc EXCEPT ![e] = answer]
          /\ \E done \in {applied[e], TRUE} : applied' = [applied EXCEPT ![e] = done]
    /\ UNCHANGED <<taskVars, decisionVars, planVars, execVars, agentOutbox, effectRows,
                   startPc, stopPc, adapterVars, stray>>

-----------------------------------------------------------------------------
\* An action whose outcome is unknown sends a running task to WAITING_HUMAN.
\* The event is refused in NEW, PAUSING, PAUSED and CANCELLING.
UncertainEventApplies == state \in TERMINAL_TASK_STATES \cup BlockingGateOpened.from
UncertainState == IF state \in TERMINAL_TASK_STATES THEN state ELSE BlockingGateOpened.to

\* _do_external_dispatch._apply with a definite receipt.
ApplyReceipt(e) ==
    /\ effPc[e] \in {"succeeded", "failed"}
    /\ effPc' = [effPc EXCEPT ![e] = "idle"]
    /\ effRow' = [effRow EXCEPT ![e] = "ACKED"]
    /\ eff' = [eff EXCEPT ![e] = IF effPc[e] = "succeeded" THEN "SUCCEEDED"
                                 ELSE "FAILED_CONFIRMED"]
    /\ UNCHANGED <<taskVars, decisionVars, planVars, execVars, agentOutbox, effVer, ttl,
                   startPc, stopPc, adapterVars, worldVars>>

\* _apply with an unknown receipt.  When the task event is refused the
\* transaction is rolled back and _fail_outbox runs instead.
ApplyUnknown(e) ==
    /\ effPc[e] = "unknown"
    /\ UncertainEventApplies
    /\ effPc' = [effPc EXCEPT ![e] = "idle"]
    /\ effRow' = [effRow EXCEPT ![e] = "ACKED"]
    /\ eff' = [eff EXCEPT ![e] = "UNKNOWN"]
    /\ state' = UncertainState
    /\ UNCHANGED <<pauseIntent, cancelIntent, calls, decisionVars, planVars, execVars,
                   agentOutbox, effVer, ttl, startPc, stopPc, adapterVars, worldVars>>

\* _fail_outbox for a side_effect.dispatch row.  If the task event is refused
\* here too, the exception leaves the dispatcher and nothing is written.
FailEffect(e) ==
    /\ \/ effPc[e] = "raised"
       \/ effPc[e] = "unknown" /\ ~UncertainEventApplies
    /\ effPc' = [effPc EXCEPT ![e] = "idle"]
    /\ \/ /\ eff[e] \in {"DISPATCHING", "AUTHORIZED"} /\ UncertainEventApplies
          /\ eff' = [eff EXCEPT ![e] = "UNKNOWN"]
          /\ state' = UncertainState
          /\ effRow' = [effRow EXCEPT ![e] = "ACKED"]
       \/ /\ eff[e] \in {"DISPATCHING", "AUTHORIZED"} /\ ~UncertainEventApplies
          /\ UNCHANGED <<eff, state, effRow>>
       \/ /\ eff[e] \notin {"DISPATCHING", "AUTHORIZED"}
          /\ effRow' = [effRow EXCEPT ![e] = "ACKED"]
          /\ UNCHANGED <<eff, state>>
    /\ UNCHANGED <<pauseIntent, cancelIntent, calls, decisionVars, planVars, execVars,
                   agentOutbox, effVer, ttl, startPc, stopPc, adapterVars, worldVars>>

\* reconcile_side_effect: asks the provider, never sends again.
ReconcileSideEffect(e) ==
    /\ eff[e] \in {"DISPATCHING", "UNKNOWN"}
    /\ \/ /\ e \in Queryable
          /\ eff' = [eff EXCEPT ![e] = IF applied[e] THEN "SUCCEEDED" ELSE "UNKNOWN"]
          /\ UNCHANGED state
       \/ /\ e \in Queryable /\ sends[e] > 0 /\ ~applied[e]
          /\ eff' = [eff EXCEPT ![e] = "FAILED_CONFIRMED"]
          /\ UNCHANGED state
       \/ /\ e \notin Queryable
          /\ eff' = [eff EXCEPT ![e] = "UNKNOWN"]
          /\ \/ state \in {"WAITING_HUMAN", "CANCELLING", "ABORTED"} /\ UNCHANGED state
             \/ /\ state \notin {"WAITING_HUMAN", "CANCELLING", "ABORTED"}
                /\ _set_task_state(BlockingGateOpened)
    /\ UNCHANGED <<pauseIntent, cancelIntent, calls, decisionVars, planVars, execVars,
                   agentOutbox, effVer, ttl, effRow, dispatchers, adapterVars, worldVars>>
=============================================================================
