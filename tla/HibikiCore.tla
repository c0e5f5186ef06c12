----------------------------- MODULE HibikiCore -----------------------------
(***************************************************************************)
(* The orchestrator core for one task: every command, dispatcher step,     *)
(* agent step and failure of TaskControl, Execution and SideEffects,       *)
(* interleaved.                                                            *)
(***************************************************************************)
EXTENDS TaskControl, Execution, SideEffects

\* Commands a human or the user agent gives.
Command ==
    \/ SubmitContract
    \/ ApproveContract
    \/ \E g \in Gates : CloseGate(g)
    \/ \E e \in Effects : ApproveSideEffect(e)
    \/ \E g \in Clarifications, r \in Runs \cup {NoRun} : OpenBlockingGate(g, r)
    \/ PauseTask
    \/ RuntimeQuiescent
    \/ ResumeTask
    \/ CancelTask
    \/ \E accept \in BOOLEAN : CancellationSettled(accept)
    \/ PrepareAcceptance
    \/ ApproveAcceptance
    \/ \E p \in Plans : ActivatePlan(p)
    \/ \E S, X, O \in SUBSET Units : DispatchReadyRuns(S, X, O)
    \/ DispatchOverBudget
    \/ \E r \in Runs : ConfirmRunExit(r)

AgentStep(r) ==
    \/ RecordModelUsage(r)
    \/ \E outcome \in {"COMPLETED", "BLOCKED"}, verdict \in Verdicts :
          SubmitResult(r, outcome, verdict)
    \/ AuthorizeShell(r)
    \/ BeginShell(r)
    \/ EndShell(r)
    \/ LoseShell(r)
    \/ LeaveRun(r)
    \/ AgentExit(r)
    \/ ContainerExit(r)

StartStep(r) ==
    \/ ClaimStart(r)
    \/ CheckStart(r)
    \/ AdapterStart(r)
    \/ AckStart(r)
    \/ AckStartRevoked(r)
    \/ FailStart(r)

StopStep(r) ==
    \/ ClaimStop(r)
    \/ AdapterStop(r)
    \/ AckStop(r)
    \/ FailStop(r)

EffectStep(e) ==
    \/ ProposeSideEffect(e)
    \/ ApprovalExpires(e)
    \/ DispatchSideEffect(e)
    \/ ClaimEffect(e)
    \/ PrecheckEffect(e)
    \/ SendEffect(e)
    \/ ApplyReceipt(e)
    \/ ApplyUnknown(e)
    \/ FailEffect(e)
    \/ ReconcileSideEffect(e)

Recovery ==
    \/ Crash
    \/ \E xStart \in SUBSET InFlight(start), xStop \in SUBSET InFlight(stop),
          xEff \in SUBSET InFlight(effRow), H \in SUBSET LostRuns, Q \in SUBSET HeldRuns :
          Reconcile(xStart, xStop, xEff, H, Q)

Next ==
    \/ Command
    \/ \E r \in Runs : AgentStep(r) \/ StartStep(r) \/ StopStep(r)
    \/ \E e \in Effects : EffectStep(e)
    \/ Recovery

Spec == Init /\ [][Next]_vars

-----------------------------------------------------------------------------
\* Progress while the core process stays up.  Every command drains the outbox
\* when it has committed, so claimed rows are served and a stop that failed is
\* tried again; agents come to their end (ApiAgent.tla, AgentEnds) and so do their
\* shell calls, confirmed or not; the operator confirms exits and asks for the
\* state the task is being stopped for.
UpNext ==
    \/ Command
    \/ \E r \in Runs : AgentStep(r) \/ StartStep(r) \/ StopStep(r)
    \/ \E e \in Effects : EffectStep(e)
Fairness ==
    /\ \A r \in Runs :
          /\ WF_vars(StartStep(r))
          /\ WF_vars(ClaimStop(r)) /\ SF_vars(AdapterStop(r)) /\ WF_vars(AckStop(r))
          /\ WF_vars(LeaveRun(r)) /\ WF_vars(AgentExit(r))
          /\ WF_vars(BeginShell(r)) /\ WF_vars(EndShell(r) \/ LoseShell(r))
          /\ WF_vars(ConfirmRunExit(r))
    /\ WF_vars(RuntimeQuiescent)
    /\ WF_vars(CancellationSettled(TRUE))
LiveSpec == Init /\ [][UpNext]_vars /\ Fairness
=============================================================================
