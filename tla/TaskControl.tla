---------------------------- MODULE TaskControl -----------------------------
(***************************************************************************)
(* The commands that steer a task: contracts, decisions and their gates,   *)
(* pause and resume, cancellation, final acceptance.  Each action is one   *)
(* command handler of application/service.py with everything it writes in  *)
(* its transaction, the queue and the agents' rows included.               *)
(*                                                                         *)
(* Decisions: the handlers keep a gate OPEN exactly while its decision is  *)
(* PENDING, and a decision that left PENDING only answers replays, so the  *)
(* set "open" stands for both tables.  A command that raises (an expired   *)
(* decision, a stale version, an invalid transition) changes nothing.      *)
(***************************************************************************)
EXTENDS HibikiState

\* submit_contract: a new version, superseding a pending one.
SubmitContract ==
    /\ submitted < MaxContracts
    /\ submitted' = submitted + 1
    /\ open' = open \cup {ContractGate}
    /\ _set_task_state(ContractSubmitted)
    /\ UNCHANGED <<pauseIntent, cancelIntent, calls, active, snap, planVars, execVars,
                   agentOutbox, effectRows, dispatchers, adapterVars, worldVars>>

\* resolve_decision APPROVE of a CONTRACT_APPROVAL: the version becomes ACTIVE.
\* Whether the contract is "simple" is part of its content.
ApproveContract ==
    /\ ContractGate \in open
    /\ open' = open \ {ContractGate}
    /\ active' = submitted
    /\ \E event \in {ContractApproved, ContractApprovedSimple} : _set_task_state(event)
    /\ UNCHANGED <<pauseIntent, cancelIntent, calls, submitted, snap, planVars, execVars,
                   agentOutbox, effectRows, dispatchers, adapterVars, worldVars>>

\* resolve_decision REJECT of any kind, and APPROVE of the kinds that only
\* reopen the way (CLARIFICATION, RESOURCE_LIMIT).
CloseGate(g) ==
    /\ g \in open
    /\ open' = open \ {g}
    /\ _recompute_runnable_state(open \ {g})
    /\ UNCHANGED <<pauseIntent, cancelIntent, calls, submitted, active, snap, planVars,
                   run, unconf, ws, agentOutbox, effectRows, dispatchers, adapterVars,
                   worldVars>>

\* resolve_decision APPROVE of a SIDE_EFFECT_APPROVAL.
ApproveSideEffect(e) ==
    /\ e \in open
    /\ eff[e] = "WAITING_APPROVAL"
    /\ eff' = [eff EXCEPT ![e] = "AUTHORIZED"]
    /\ ttl' = [ttl EXCEPT ![e] = "valid"]
    /\ open' = open \ {e}
    /\ _recompute_runnable_state(open \ {e})
    /\ UNCHANGED <<pauseIntent, cancelIntent, calls, submitted, active, snap, planVars,
                   run, unconf, ws, agentOutbox, effVer, effRow, dispatchers, adapterVars,
                   worldVars>>

-----------------------------------------------------------------------------
\* open_blocking_gate, with the run that asked for it or without one (NoRun).
\* The run counts as finished with a BLOCKED outcome and is stopped.
GateUnit(u, r) ==
    IF r = NoRun \/ UnitOf[r] # u THEN wu[u]
    ELSE LET x == IF wu[u].status = "RUNNING"
                  THEN [wu[u] EXCEPT !.status = "BLOCKED", !.reason = "other",
                                     !.active = NoRun]
                  ELSE wu[u]
         IN [x EXCEPT !.marker = IF @ = r THEN NoRun ELSE @]
OpenBlockingGate(g, r) ==
    /\ g \in Clarifications \ open
    /\ r # NoRun => run[r] # "NONE"
    /\ open' = open \cup {g}
    /\ _set_task_state(BlockingGateOpened)
    /\ run' = [s \in Runs |-> IF s = r /\ run[s] = "RUNNING" THEN "SUCCEEDED"
                              ELSE InvalidatedRun(s)]
    /\ wu' = [u \in Units |-> InvalidatedUnit(u, GateUnit(u, r))]
    /\ ws' = [w \in Workspaces |-> InvalidatedWorkspace(ws[w])]
    /\ start' = InvalidatedStarts
    /\ stop' = _enqueue_stops_for_runs(({r} \ {NoRun}) \cup UncertainStarts)
    /\ eff' = [e \in Effects |-> InvalidatedEffect(e, FALSE)]
    /\ effRow' = InvalidatedEffectRows
    /\ UNCHANGED <<pauseIntent, cancelIntent, calls, submitted, active, snap, planVars,
                   unconf, effVer, ttl, dispatchers, adapterVars, worldVars>>

-----------------------------------------------------------------------------
PauseTask ==
    /\ _set_task_state(PauseRequested)
    /\ pauseIntent' = TRUE
    /\ run' = [r \in Runs |-> InvalidatedRun(r)]
    /\ wu' = [u \in Units |-> InvalidatedUnit(u, wu[u])]
    /\ ws' = [w \in Workspaces |-> InvalidatedWorkspace(ws[w])]
    /\ start' = InvalidatedStarts
    /\ stop' = _enqueue_stops_for_runs(UncertainStarts \cup RunsRequiringStopNext)
    /\ eff' = [e \in Effects |-> InvalidatedEffect(e, FALSE)]
    /\ effRow' = InvalidatedEffectRows
    /\ UNCHANGED <<cancelIntent, calls, decisionVars, planVars, unconf, effVer, ttl,
                   dispatchers, adapterVars, worldVars>>

\* runtime_quiescent: refused (and rolled back) while a writer may be alive.
RuntimeQuiescent ==
    /\ ~_task_has_live_writer
    /\ _set_task_state(RuntimeQuiescentEvent)
    /\ pauseIntent' = FALSE
    /\ run' = [r \in Runs |-> IF r \in ActiveRuns THEN "CANCELLED" ELSE run[r]]
    /\ wu' = [u \in Units |->
                LET x == IF wu[u].status = "RUNNING"
                         THEN [wu[u] EXCEPT !.status = "BLOCKED", !.reason = "paused",
                                            !.active = NoRun]
                         ELSE wu[u]
                IN VacateBy(x, ActiveRuns)]
    /\ ws' = [w \in Workspaces |-> ReleaseBy(ws[w], ActiveRuns)]
    /\ UNCHANGED <<cancelIntent, calls, decisionVars, planVars, unconf, agentOutbox,
                   effectRows, dispatchers, adapterVars, worldVars>>

\* resume_task: back to the gates that are open, or to work.
ResumeTask ==
    /\ \/ /\ _has_blocking_gate
          /\ _set_task_state(ResumeRequested)
          /\ UNCHANGED wu
       \/ /\ ~_has_blocking_gate
          /\ _set_task_state(ResumeRequestedRunnable)
          /\ wu' = [u \in Units |->
                      IF wu[u].status = "BLOCKED" /\ wu[u].reason = "paused"
                      THEN [wu[u] EXCEPT !.status = "PENDING", !.reason = "none"]
                      ELSE wu[u]]
    /\ UNCHANGED <<pauseIntent, cancelIntent, calls, decisionVars, planVars, run, unconf, ws,
                   agentOutbox, effectRows, dispatchers, adapterVars, worldVars>>

-----------------------------------------------------------------------------
\* cancel_task
CancelledUnit(u) ==
    LET x == InvalidatedUnit(u, wu[u])
    IN IF x.status \in {"PENDING", "BLOCKED"} THEN [x EXCEPT !.status = "CANCELLED"] ELSE x
CancelledEffectInFlight(e) ==    \* mutant: an action that may be sent is cancelled
    IF eff[e] \in {"PROPOSED", "WAITING_APPROVAL", "AUTHORIZED", "DISPATCHING"}
    THEN "CANCELLED" ELSE eff[e]
CancelledEffect(e) ==
    IF eff[e] \in {"PROPOSED", "WAITING_APPROVAL", "AUTHORIZED"} THEN "CANCELLED"
    ELSE InvalidatedEffect(e, TRUE)
CancelTask ==
    /\ _set_task_state(CancelRequested)
    /\ cancelIntent' = TRUE
    /\ run' = [r \in Runs |-> InvalidatedRun(r)]
    /\ wu' = [u \in Units |-> CancelledUnit(u)]
    /\ ws' = [w \in Workspaces |-> InvalidatedWorkspace(ws[w])]
    /\ start' = InvalidatedStarts
    /\ stop' = _enqueue_stops_for_runs(UncertainStarts \cup RunsRequiringStopNext)
    /\ eff' = [e \in Effects |-> CancelledEffect(e)]
    /\ effRow' = InvalidatedEffectRows
    /\ UNCHANGED <<pauseIntent, calls, decisionVars, planVars, unconf, effVer, ttl,
                   dispatchers, adapterVars, worldVars>>

\* cancellation_settled: effects without a known outcome need accept_unknown.
UnresolvedEffects == {e \in Effects : eff[e] \in {"UNKNOWN", "DISPATCHING"}}
CancellationSettled(acceptUnknown) ==
    /\ UnresolvedEffects = {} \/ acceptUnknown
    /\ ~_task_has_live_writer
    /\ run' = [r \in Runs |-> IF r \in ActiveRuns THEN "CANCELLED" ELSE run[r]]
    /\ _set_task_state(CancellationSettledEvent)
    /\ UNCHANGED <<pauseIntent, cancelIntent, calls, decisionVars, planVars, wu, unconf, ws,
                   agentOutbox, effectRows, dispatchers, adapterVars, worldVars>>

-----------------------------------------------------------------------------
\* A task that already waits for a human goes on waiting.
AcceptanceAsked == [AcceptanceReady EXCEPT !.from = @ \cup {"WAITING_HUMAN"}]

\* prepare_acceptance: freezes a result snapshot and asks for the decision.
\* Whether the evidence covers the required criteria is left open here; Delivery
\* looks at it.
PrepareAcceptance ==
    /\ _active_contract
    /\ \A e \in Effects : eff[e] # "UNKNOWN"
    /\ ~_has_blocking_gate
    /\ ~_task_has_live_writer
    /\ planNo > 0
    /\ \A u \in plan.nodes : wu[u].status = "DONE"
    /\ _set_task_state(AcceptanceAsked)
    /\ open' = {AcceptanceGate}
    /\ snap' = active
    /\ UNCHANGED <<pauseIntent, cancelIntent, calls, submitted, active, planVars, execVars,
                   agentOutbox, effectRows, dispatchers, adapterVars, worldVars>>

\* The snapshot's contract and plan must still be the active ones; activate_plan
\* closes the decision, so only the contract can have moved.
SnapshotIsCurrent == snap = active

\* accept_result / resolve_decision APPROVE of a FINAL_ACCEPTANCE.
ApproveAcceptance ==
    /\ AcceptanceGate \in open
    /\ SnapshotIsCurrent
    /\ \A u \in Units : plan.nodes = {} \/ u \in plan.nodes
                         => wu[u].status \notin {"PENDING", "RUNNING", "BLOCKED"}
    /\ open \ {AcceptanceGate} = {}
    /\ ~_task_has_live_writer
    /\ _active_contract
    /\ ActiveRuns = {}
    /\ \A e \in Effects : eff[e] # "UNKNOWN"
    /\ open' = {}
    /\ _set_task_state(FinalAccepted)
    /\ UNCHANGED <<pauseIntent, cancelIntent, calls, submitted, active, snap, planVars,
                   execVars, agentOutbox, effectRows, dispatchers, adapterVars, worldVars>>
=============================================================================
