----------------------------- MODULE Execution ------------------------------
(***************************************************************************)
(* Plans, work units, runs and workspaces: the commands that create and    *)
(* finish runs, the outbox dispatchers that start and stop agents, the     *)
(* agents themselves, a crash of the core process and the reconcile        *)
(* command an operator gives after it.                                     *)
(*                                                                         *)
(* Any thread that executed a command drains the outbox afterwards, the    *)
(* agents' own threads included, so rows are claimed and served            *)
(* concurrently.  A dispatcher's place between two transactions is kept    *)
(* per row (startPc, stopPc): a row is claimed once, so one thread at most *)
(* is working on it.                                                       *)
(***************************************************************************)
EXTENDS HibikiState, FiniteSets

\* activate_plan: the nodes get execution rows, and units of the old plan that
\* the new one drops are torn down.  A terminal unit that is named again keeps
\* its status.
Orphans(p) == {u \in Units \ p.nodes : wu[u].status \in {"PENDING", "RUNNING", "BLOCKED"}}
TornRuns(p) ==
    {r \in ActiveRuns : \E u \in Orphans(p) : wu[u].status # "PENDING" /\ wu[u].active = r}
TornUnsent(p) == {r \in TornRuns(p) : run[r] = "CREATED" /\ start[r] = "PENDING"}
PlannedUnit(u, p) ==
    IF u \in p.nodes /\ wu[u].status = "NONE" THEN [wu[u] EXCEPT !.status = "PENDING"]
    ELSE IF u \in Orphans(p)
    THEN [wu[u] EXCEPT !.status = "CANCELLED", !.reason = "other", !.active = NoRun,
                       !.marker = IF wu[u].status = "PENDING" THEN @ ELSE NoRun]
    ELSE wu[u]
RevisionAllowedOnceMore == planNo <= MaxPlans    \* mutant: off by one
RevisionAllowed == planNo < MaxPlans
ActivatePlan(p) ==
    /\ _active_contract
    /\ RevisionAllowed
    /\ plan' = p
    /\ planNo' = planNo + 1
    /\ open' = open \ {AcceptanceGate}
    /\ wu' = [u \in Units |-> PlannedUnit(u, p)]
    /\ run' = [r \in Runs |-> IF r \in TornUnsent(p) THEN "CANCELLED" ELSE run[r]]
    /\ ws' = [w \in Workspaces |-> ReleaseBy(ws[w], TornUnsent(p))]
    /\ start' = [r \in Runs |-> IF r \in TornUnsent(p) THEN "DEAD" ELSE start[r]]
    /\ stop' = _enqueue_stops_for_runs(TornRuns(p))
    /\ \/ _set_task_state(PlanActivated)
       \/ state \notin PlanActivated.from /\ UNCHANGED state
    /\ UNCHANGED <<pauseIntent, cancelIntent, calls, submitted, active, snap, unconf,
                   effectRows, dispatchers, adapterVars, worldVars>>

-----------------------------------------------------------------------------
_deps_satisfied(u) ==
    \A e \in plan.edges : e.to = u =>
        /\ wu[e.from].status = "DONE"
        /\ e.pred = "VERDICT_PASS" => wu[e.from].verdict = "PASS"

ReadyWhoeverOwns(u) ==    \* mutant: the owner of the workspace is not asked for
    /\ u \in plan.nodes
    /\ wu[u].status = "PENDING"
    /\ _deps_satisfied(u)
    /\ ws[WorkspaceOf[u]].state # "QUARANTINED"
    /\ wu[u].marker \notin ActiveRuns
\* The checks of dispatch_ready_runs on a node, apart from the retry backoff.
Ready(u) ==
    LET w == ws[WorkspaceOf[u]] IN
    /\ u \in plan.nodes
    /\ wu[u].status = "PENDING"
    /\ _deps_satisfied(u)
    /\ w.state # "QUARANTINED"
    /\ w.owner # NoRun => ~w.writer /\ w.owner \notin ActiveRuns
    /\ wu[u].marker \notin ActiveRuns

\* next_retry_at is only set when the last attempt was lost, and may have passed.
MayBackOff(u) == \E r \in Runs : UnitOf[r] = u /\ run[r] = "LOST"

FreshRun(u) == CHOOSE r \in FreshRuns(u) : TRUE

DispatchGuard ==
    guard_dispatch(state, _active_contract, _has_blocking_gate, cancelIntent, pauseIntent)

\* dispatch_ready_runs walks the plan's nodes in their order until the cap is
\* reached.  The order, the sizes of the contexts and the clock are left open:
\* S are the units that get a run, X those blocked as out of attempts and O
\* those blocked because their mandatory context does not fit.
DispatchReadyRuns(S, X, O) ==
    LET New == {FreshRun(u) : u \in S} IN
    /\ DispatchGuard
    /\ calls < CallLimit
    /\ planNo > 0
    /\ \A u \in S \cup X \cup O : Ready(u)
    /\ \A u \in X : FreshRuns(u) = {}
    /\ \A u \in S \cup O : FreshRuns(u) # {}
    /\ S \cap O = {}
    /\ \A u, v \in S : WorkspaceOf[u] = WorkspaceOf[v] => u = v
    /\ Cardinality(ActiveRuns) + Cardinality(S) <= MaxActive
    /\ \/ Cardinality(ActiveRuns) + Cardinality(S) = MaxActive
       \/ \A u \in Units \ (S \cup X \cup O) :
            Ready(u) => MayBackOff(u) \/ \E v \in S : WorkspaceOf[u] = WorkspaceOf[v]
    /\ wu' = [u \in Units |->
                IF u \in S THEN [wu[u] EXCEPT !.status = "RUNNING", !.active = FreshRun(u),
                                              !.marker = FreshRun(u)]
                ELSE IF u \in X THEN [wu[u] EXCEPT !.status = "BLOCKED", !.marker = NoRun,
                                                   !.reason = "attempts_exhausted"]
                ELSE IF u \in O THEN [wu[u] EXCEPT !.status = "BLOCKED", !.marker = NoRun,
                                                   !.reason = "other"]
                ELSE wu[u]]
    /\ run' = [r \in Runs |-> IF r \in New THEN "CREATED" ELSE run[r]]
    /\ start' = [r \in Runs |-> IF r \in New THEN "PENDING" ELSE start[r]]
    /\ ws' = [w \in Workspaces |->
                IF \E r \in New : WorkspaceOfRun(r) = w
                THEN [state |-> "LOCKED", writer |-> TRUE,
                      owner |-> CHOOSE r \in New : WorkspaceOfRun(r) = w]
                ELSE ws[w]]
    /\ UNCHANGED <<taskVars, decisionVars, planVars, unconf, stop, effectRows, dispatchers,
                   adapterVars, worldVars>>

\* dispatch_ready_runs with the model call budget used up: _open_resource_gate.
DispatchOverBudget ==
    /\ DispatchGuard
    /\ calls >= CallLimit
    /\ open' = open \cup {ResourceGate}
    /\ _set_task_state(BlockingGateOpened)
    /\ UNCHANGED <<pauseIntent, cancelIntent, calls, submitted, active, snap, planVars,
                   execVars, agentOutbox, effectRows, dispatchers, adapterVars, worldVars>>

-----------------------------------------------------------------------------
(* Commands an agent gives, bound to its run.                              *)

\* record_model_usage: refused at the limit.  MaxUsage bounds the exploration.
RecordModelUsage(r) ==
    /\ alive[r] /\ agentPc[r] = "working"
    /\ calls < CallLimit
    /\ calls < MaxUsage
    /\ calls' = calls + 1
    /\ UNCHANGED <<state, pauseIntent, cancelIntent, decisionVars, planVars, execVars,
                   agentOutbox, effectRows, dispatchers, adapterVars, worldVars>>

\* submit_result of a run that is RUNNING.  A result that is late (its run is
\* terminal, or its unit has moved on) is recorded as history and changes nothing
\* modelled here.
VerifiedState(u, verdict) ==
    IF u \notin VerifyUnits \/ state \notin {"EXECUTING", "VERIFYING"} THEN state
    ELSE IF verdict = "FAIL" THEN VerificationFailed.to ELSE RequiredOutputsReady.to
SubmitResult(r, outcome, verdict) ==
    LET u == UnitOf[r] IN
    /\ alive[r] /\ agentPc[r] = "working"
    /\ run[r] = "RUNNING"
    /\ wu[u].active \in {NoRun, r}
    /\ wu[u].marker \in {NoRun, r}
    /\ run' = [run EXCEPT ![r] = "SUCCEEDED"]
    /\ \/ /\ u \notin plan.nodes        \* superseded assignment: history only
          /\ wu' = [wu EXCEPT ![u] = VacateBy(@, {r})]
          /\ UNCHANGED state
       \/ /\ u \in plan.nodes
          /\ outcome = "BLOCKED"
          /\ wu' = [wu EXCEPT ![u] = [@ EXCEPT !.status = "BLOCKED", !.reason = "other",
                                               !.active = NoRun, !.marker = NoRun]]
          /\ UNCHANGED state
       \/ /\ u \in plan.nodes
          /\ outcome = "COMPLETED"
          /\ wu' = [wu EXCEPT ![u] = [@ EXCEPT !.status = "DONE", !.verdict = verdict,
                                               !.active = NoRun, !.marker = NoRun]]
          /\ state' = VerifiedState(u, verdict)
    /\ UNCHANGED <<pauseIntent, cancelIntent, calls, decisionVars, planVars, unconf, ws,
                   agentOutbox, effectRows, dispatchers, adapterVars, worldVars>>

\* confirm_run_exit: only asks for a stop.
_confirm_run_exit(r) ==
    /\ run[r] # "NONE"
    /\ start' = [start EXCEPT ![r] = IF @ \in LIVE_OUTBOX THEN "DEAD" ELSE @]
    /\ stop' = _enqueue_stops_for_runs({r})
    /\ UNCHANGED <<taskVars, decisionVars, planVars, execVars, effectRows, dispatchers,
                   alive, revoked, worldVars>>

\* Given by a human, or by an agent that has come to its end.  A human's command that
\* finds no start and a stop on its way writes nothing and is no step.
ConfirmRunExit(r) ==
    /\ start[r] \in LIVE_OUTBOX \/ stop[r] \notin LIVE_OUTBOX
    /\ _confirm_run_exit(r)
    /\ UNCHANGED agentPc
LeaveRun(r) ==
    /\ alive[r] /\ agentPc[r] = "working"
    /\ _confirm_run_exit(r)
    /\ agentPc' = [agentPc EXCEPT ![r] = "leaving"]

\* shell.run, first half: the broker serves RUNNING runs only.
AuthorizeShell(r) ==
    /\ alive[r] /\ agentPc[r] = "working"
    /\ run[r] = "RUNNING"
    /\ UnitOf[r] \in ShellUnits
    /\ agentPc' = [agentPc EXCEPT ![r] = "authorized"]
    /\ UNCHANGED <<taskVars, decisionVars, planVars, execVars, agentOutbox, effectRows,
                   dispatchers, alive, revoked, worldVars>>

\* register_sandbox_identity(exit_confirmed=False) commits, then the container
\* starts.  The run's status is not looked at again.
BeginShell(r) ==
    /\ alive[r] /\ agentPc[r] = "authorized"
    /\ agentPc' = [agentPc EXCEPT ![r] = "shell"]
    /\ unconf' = [unconf EXCEPT ![r] = TRUE]
    /\ ws' = [ws EXCEPT ![WorkspaceOfRun(r)].writer = TRUE]
    /\ UNCHANGED <<taskVars, decisionVars, planVars, wu, run, agentOutbox, effectRows,
                   dispatchers, alive, revoked, worldVars>>

\* A confirmed container exit frees the workspace of a run that has ended.
release_on_container_exit(x, r) ==    \* mutant: of any run
    IF x.owner = r THEN [state |-> "READY", owner |-> NoRun, writer |-> FALSE] ELSE x
_release_workspace_after_confirmed_exit(x, r) ==
    IF run[r] \in TERMINAL_RUN /\ x.owner = r
    THEN [state |-> "READY", owner |-> NoRun, writer |-> FALSE] ELSE x

\* The sandbox saw the container end: register_sandbox_identity with
\* exit_confirmed=True.
EndShell(r) ==
    /\ alive[r] /\ agentPc[r] = "exited"
    /\ agentPc' = [agentPc EXCEPT ![r] = "working"]
    /\ unconf' = [unconf EXCEPT ![r] = FALSE]
    /\ ws' = [ws EXCEPT ![WorkspaceOfRun(r)] =
                _release_workspace_after_confirmed_exit(@, r)]
    /\ UNCHANGED <<taskVars, decisionVars, planVars, wu, run, agentOutbox, effectRows,
                   dispatchers, alive, revoked, worldVars>>

\* The sandbox could not tell: exit_confirmed=False again.  A container that
\* still runs is left behind and the agent goes on.
LoseShell(r) ==
    /\ alive[r] /\ agentPc[r] \in {"shell", "exited"}
    /\ agentPc' = [agentPc EXCEPT ![r] = "working"]
    /\ stray' = [stray EXCEPT ![r] = @ \/ agentPc[r] = "shell"]
    /\ ws' = [ws EXCEPT ![WorkspaceOfRun(r)].writer = TRUE]
    /\ UNCHANGED <<taskVars, decisionVars, planVars, wu, run, unconf, agentOutbox, effectRows,
                   dispatchers, alive, revoked, sends, applied>>

-----------------------------------------------------------------------------
(* Outbox dispatchers: agent.start                                         *)

\* _fence_claimed_agent_start, called for run r.
FenceStart(r) ==
    /\ start' = [start EXCEPT ![r] = "DEAD"]
    /\ ws' = [w \in Workspaces |-> KeepBy(ws[w], {r})]
    /\ stop' = _enqueue_stops_for_runs({r})

\* _claim_one_outbox takes the row, or finds the task frozen and drops it.
ClaimStart(r) ==
    /\ start[r] = "PENDING"
    /\ IF cancelIntent \/ pauseIntent \/ state \notin DISPATCHABLE_TASK_STATES
       THEN start' = [start EXCEPT ![r] = "DEAD"] /\ UNCHANGED startPc
       ELSE /\ start' = [start EXCEPT ![r] = "IN_FLIGHT"]
            /\ startPc' = [startPc EXCEPT ![r] = "claimed"]
    /\ UNCHANGED <<taskVars, decisionVars, planVars, execVars, stop, effectRows, stopPc,
                   effPc, adapterVars, worldVars>>

\* _start_send_allowed: the last look before the adapter is called.
SendAllowed(r) ==
    /\ run[r] \in ACTIVE_RUN
    /\ ~cancelIntent /\ ~pauseIntent
    /\ ~_has_blocking_gate
    /\ state \in DISPATCHABLE_TASK_STATES
CheckStart(r) ==
    /\ startPc[r] = "claimed"
    /\ \/ /\ start[r] # "IN_FLIGHT"
          /\ startPc' = [startPc EXCEPT ![r] = "idle"]
          /\ UNCHANGED <<start, stop, ws>>
       \/ /\ start[r] = "IN_FLIGHT" /\ ~SendAllowed(r)
          /\ startPc' = [startPc EXCEPT ![r] = "idle"]
          /\ FenceStart(r)
       \/ /\ start[r] = "IN_FLIGHT" /\ SendAllowed(r)
          /\ startPc' = [startPc EXCEPT ![r] = "allowed"]
          /\ UNCHANGED <<start, stop, ws>>
    /\ UNCHANGED <<taskVars, decisionVars, planVars, wu, run, unconf, effectRows, stopPc,
                   effPc, adapterVars, worldVars>>

\* agent_adapter.start: a revoked run is not started.  The call may also fail,
\* with or without an agent coming out of it.
AdapterStart(r) ==
    /\ startPc[r] = "allowed"
    /\ \/ /\ revoked[r]
          /\ startPc' = [startPc EXCEPT ![r] = "revoked"]
          /\ UNCHANGED alive
       \/ /\ ~revoked[r]
          /\ startPc' = [startPc EXCEPT ![r] = "started"]
          /\ alive' = [alive EXCEPT ![r] = TRUE]
       \/ /\ ~revoked[r]
          /\ startPc' = [startPc EXCEPT ![r] = "raised"]
          /\ \E came \in BOOLEAN : alive' = [alive EXCEPT ![r] = came]
    /\ UNCHANGED <<taskVars, decisionVars, planVars, execVars, agentOutbox, effectRows,
                   stopPc, effPc, revoked, agentPc, worldVars>>

\* _ack_outbox_and_mark_running: promotes the run unless it was revoked meanwhile.
StartFenced(r) ==
    \/ start[r] = "DEAD"
    \/ cancelIntent \/ pauseIntent
    \/ state \in {"WAITING_HUMAN", "PAUSING", "PAUSED", "CANCELLING"}
    \/ _has_blocking_gate
    \/ run[r] = "CANCELLED"
AckStart(r) ==
    /\ startPc[r] = "started"
    /\ startPc' = [startPc EXCEPT ![r] = "idle"]
    /\ \/ /\ StartFenced(r)
          /\ start' = [start EXCEPT ![r] = IF @ = "IN_FLIGHT" THEN "DEAD" ELSE @]
          /\ ws' = [w \in Workspaces |-> KeepBy(ws[w], {r})]
          /\ stop' = _enqueue_stops_for_runs({r})
          /\ UNCHANGED run
       \/ /\ ~StartFenced(r)
          /\ start' = [start EXCEPT ![r] = "ACKED"]
          /\ run' = [run EXCEPT ![r] = IF @ = "CREATED" THEN "RUNNING" ELSE @]
          /\ UNCHANGED <<ws, stop>>
    /\ UNCHANGED <<taskVars, decisionVars, planVars, wu, unconf, effectRows, stopPc, effPc,
                   adapterVars, worldVars>>

\* _ack_outbox(dead=True) after a revoked start; _fail_outbox after a failed call.
AckStartRevoked(r) ==
    /\ startPc[r] = "revoked"
    /\ startPc' = [startPc EXCEPT ![r] = "idle"]
    /\ start' = [start EXCEPT ![r] = "DEAD"]
    /\ UNCHANGED <<taskVars, decisionVars, planVars, execVars, stop, effectRows, stopPc,
                   effPc, adapterVars, worldVars>>
FailStart(r) ==
    /\ startPc[r] = "raised"
    /\ startPc' = [startPc EXCEPT ![r] = "idle"]
    /\ \/ start[r] = "DEAD" /\ UNCHANGED <<start, stop, ws>>
       \/ start[r] # "DEAD" /\ FenceStart(r)
    /\ UNCHANGED <<taskVars, decisionVars, planVars, wu, run, unconf, effectRows, stopPc,
                   effPc, adapterVars, worldVars>>

-----------------------------------------------------------------------------
(* Outbox dispatchers: agent.stop                                          *)

ClaimStop(r) ==
    /\ stop[r] = "PENDING"
    /\ stop' = [stop EXCEPT ![r] = "IN_FLIGHT"]
    /\ stopPc' = [stopPc EXCEPT ![r] = "claimed"]
    /\ UNCHANGED <<taskVars, decisionVars, planVars, execVars, start, effectRows, startPc,
                   effPc, adapterVars, worldVars>>

\* agent_adapter.stop: forbids later starts; the agent is gone when the call
\* returns, or it outlived the wait and is reported alive.  A record with an
\* unconfirmed sandbox stays alive.
AdapterStop(r) ==
    /\ stopPc[r] = "claimed"
    /\ revoked' = [revoked EXCEPT ![r] = TRUE]
    /\ \/ /\ alive[r] => agentPc[r] \in {"working", "leaving"} /\ ~unconf[r]
          /\ alive' = [alive EXCEPT ![r] = FALSE]
          /\ agentPc' = [agentPc EXCEPT ![r] = "working"]
          /\ stopPc' = [stopPc EXCEPT ![r] = "stopped"]
       \/ /\ alive[r]
          /\ stopPc' = [stopPc EXCEPT ![r] = "alive"]
          /\ UNCHANGED <<alive, agentPc>>
    /\ UNCHANGED <<taskVars, decisionVars, planVars, execVars, agentOutbox, effectRows,
                   startPc, effPc, worldVars>>

\* _ack_stop: the workspace and the run change hands only on a confirmed stop.
StopAckedAnyWorkspace(x, r) ==    \* mutant: the owner is not compared
    IF x.state = "QUARANTINED" THEN [x EXCEPT !.writer = FALSE]
    ELSE [state |-> "READY", owner |-> NoRun, writer |-> FALSE]
StopAckedReadyWorkspace(x, r) ==    \* mutant: a quarantined workspace is left alone
    IF x.owner # r \/ x.state = "QUARANTINED" THEN x
    ELSE [state |-> "READY", owner |-> NoRun, writer |-> FALSE]
StopAckedWorkspace(x, r) ==
    IF x.owner # r THEN x
    ELSE IF x.state = "QUARANTINED" THEN [x EXCEPT !.writer = FALSE]
    ELSE [state |-> "READY", owner |-> NoRun, writer |-> FALSE]
StopAckedUnitVacated(x, r) == VacateBy(x, {r})    \* mutant: the unit stays RUNNING
StopAckedUnit(x, r) ==
    LET y == VacateBy(x, {r}) IN
    IF y.status # "RUNNING" THEN y
    ELSE [y EXCEPT !.active = NoRun,
                   !.status = IF y.reason = "none" THEN "PENDING"
                              ELSE IF run[r] = "RUNNING" THEN "BLOCKED" ELSE @]
AckStop(r) ==
    LET w == WorkspaceOfRun(r)
        u == UnitOf[r]
    IN
    /\ stopPc[r] \in {"stopped", "alive"}
    /\ stopPc' = [stopPc EXCEPT ![r] = "idle"]
    /\ stop' = [stop EXCEPT ![r] = "NONE"]
    /\ \/ /\ stopPc[r] = "alive"
          /\ ws' = [ws EXCEPT ![w] =
                      IF @.owner = r THEN [@ EXCEPT !.state = "QUARANTINED", !.writer = TRUE]
                      ELSE @]
          /\ UNCHANGED <<run, wu>>
       \/ /\ stopPc[r] = "stopped" /\ run[r] \in ACTIVE_RUN
          /\ ws' = [ws EXCEPT ![w] = ReleaseBy(StopAckedWorkspace(@, r), {r})]
          /\ run' = [run EXCEPT ![r] = "CANCELLED"]
          /\ wu' = [wu EXCEPT ![u] = StopAckedUnit(@, r)]
       \/ /\ stopPc[r] = "stopped" /\ run[r] \notin ACTIVE_RUN
          /\ ws' = [ws EXCEPT ![w] = StopAckedWorkspace(@, r)]
          /\ UNCHANGED <<run, wu>>
    /\ UNCHANGED <<taskVars, decisionVars, planVars, unconf, start, effectRows, startPc,
                   effPc, adapterVars, worldVars>>

\* _fail_outbox of a stop: the row waits for another try.
FailStop(r) ==
    /\ stopPc[r] = "claimed"
    /\ stopPc' = [stopPc EXCEPT ![r] = "idle"]
    /\ stop' = [stop EXCEPT ![r] = "PENDING"]
    /\ UNCHANGED <<taskVars, decisionVars, planVars, execVars, start, effectRows, startPc,
                   effPc, adapterVars, worldVars>>

-----------------------------------------------------------------------------
(* Agents, containers, crash and reconcile                                 *)

\* An agent's thread ends, normally after confirm_run_exit (whose failure is
\* only noted).  With an unconfirmed sandbox its record stays alive.
AgentExit(r) ==
    /\ alive[r] /\ agentPc[r] \in {"working", "leaving"}
    /\ \/ /\ ~unconf[r]
          /\ alive' = [alive EXCEPT ![r] = FALSE]
          /\ agentPc' = [agentPc EXCEPT ![r] = "working"]
       \/ /\ unconf[r]
          /\ agentPc' = [agentPc EXCEPT ![r] = "ended"]
          /\ UNCHANGED alive
    /\ UNCHANGED <<taskVars, decisionVars, planVars, execVars, agentOutbox, effectRows,
                   dispatchers, revoked, worldVars>>

\* A container ends: the one of the call in progress, or one left behind.
ContainerExit(r) ==
    /\ \/ /\ agentPc[r] = "shell"
          /\ agentPc' = [agentPc EXCEPT ![r] = "exited"]
          /\ UNCHANGED stray
       \/ /\ stray[r]
          /\ stray' = [stray EXCEPT ![r] = FALSE]
          /\ UNCHANGED agentPc
    /\ UNCHANGED <<taskVars, decisionVars, planVars, execVars, agentOutbox, effectRows,
                   dispatchers, alive, revoked, sends, applied>>

\* The core process dies between two transactions and is started again: threads
\* and the adapter's records are gone, containers and the outside world are not.
Crash ==
    /\ startPc' = [r \in Runs |-> "idle"]
    /\ stopPc' = [r \in Runs |-> "idle"]
    /\ effPc' = [e \in Effects |-> "idle"]
    /\ alive' = [r \in Runs |-> FALSE]
    /\ revoked' = [r \in Runs |-> FALSE]
    /\ agentPc' = [r \in Runs |-> "working"]
    /\ stray' = [r \in Runs |-> stray[r] \/ agentPc[r] = "shell"]
    /\ UNCHANGED <<taskVars, decisionVars, planVars, execVars, agentOutbox, effectRows,
                   sends, applied>>

\* _recover_work_unit_after_lost_run, for runs of L that were lost and runs of H
\* that may have had an effect.
RecoveredUnit(u, L, H) ==
    LET x == VacateBy(wu[u], L)
        hasEffect == \E r \in H : UnitOf[r] = u
        exhausted == FreshRuns(u) = {}
    IN IF x.status # "RUNNING" \/ \A r \in L : UnitOf[r] # u THEN x
       ELSE IF lost_run_recovery_policy(hasEffect, exhausted) = "BLOCKED"
       THEN [x EXCEPT !.status = "BLOCKED",
                      !.reason = IF hasEffect THEN "other" ELSE "attempts_exhausted"]
       ELSE [x EXCEPT !.status = "PENDING", !.reason = "none"]

\* reconcile, given by an operator while no dispatcher is at work.  xStart,
\* xStop and xEff are the claimed rows whose lease has expired; H are the lost
\* runs that used a tool; Q are the live runs whose own lease has expired.
LostRunsAnyStatus ==    \* mutant: ended runs are looked at too
    {r \in Runs : run[r] \notin {"NONE", "CREATED"} /\ ~alive[r] /\ ~unconf[r]}
LostRuns == {r \in Runs : run[r] = "RUNNING" /\ ~alive[r] /\ ~unconf[r]}
HeldRuns == {r \in Runs : run[r] = "RUNNING" /\ alive[r] /\ ~unconf[r]}
InFlight(rows) == {x \in DOMAIN rows : rows[x] = "IN_FLIGHT"}
ReconciledEffectUnsent(e) ==    \* mutant: an action that was being sent is unsent
    IF eff[e] = "DISPATCHING" THEN "AUTHORIZED" ELSE eff[e]
ReconciledEffect(e) == IF eff[e] = "DISPATCHING" THEN "UNKNOWN" ELSE eff[e]
Reconcile(xStart, xStop, xEff, H, Q) ==
    LET uncertain == \E e \in xEff : eff[e] \in {"DISPATCHING", "UNKNOWN"}
        stateE == IF uncertain /\ state \notin TERMINAL_TASK_STATES
                  THEN "WAITING_HUMAN" ELSE state
        keep == stateE \in {"PAUSED", "WAITING_HUMAN", "CANCELLING"}
        L == IF keep THEN {} ELSE LostRuns
        U == IF keep THEN {} ELSE {r \in ActiveRuns : unconf[r]}
        blocked == \E u \in Units : /\ RecoveredUnit(u, L, H).status = "BLOCKED"
                                    /\ wu[u].status = "RUNNING"
    IN
    /\ \A r \in Runs : startPc[r] = "idle" /\ stopPc[r] = "idle"
    /\ \A e \in Effects : effPc[e] = "idle"
    /\ xStart \subseteq InFlight(start)
    /\ xStop \subseteq InFlight(stop)
    /\ xEff \subseteq InFlight(effRow)
    /\ H \subseteq L
    /\ Q \subseteq IF keep THEN {} ELSE HeldRuns
    /\ stateE # state => state \in BlockingGateOpened.from
    /\ eff' = [e \in Effects |-> IF e \in xEff THEN ReconciledEffect(e) ELSE eff[e]]
    /\ effRow' = [e \in Effects |-> IF e \in xEff THEN "ACKED" ELSE effRow[e]]
    /\ start' = [r \in Runs |-> IF r \in xStart THEN "DEAD" ELSE start[r]]
    /\ stop' = [r \in Runs |-> IF r \in xStop THEN "PENDING"
                               ELSE _enqueue_stops_for_runs(xStart)[r]]
    /\ run' = [r \in Runs |-> IF r \in L THEN "LOST" ELSE run[r]]
    /\ wu' = [u \in Units |-> RecoveredUnit(u, L, H)]
    /\ ws' = [w \in Workspaces |->
                LET x == ReleaseBy(KeepBy(ws[w], xStart), L)
                IN IF \E r \in U : WorkspaceOfRun(r) = w
                   THEN [x EXCEPT !.state = "QUARANTINED", !.writer = TRUE]
                   ELSE IF \E r \in Q : WorkspaceOfRun(r) = w
                   THEN [x EXCEPT !.state = "QUARANTINED"]
                   ELSE x]
    /\ IF blocked /\ stateE \notin TERMINAL_TASK_STATES
       THEN stateE \in BlockingGateOpened.from /\ state' = "WAITING_HUMAN"
       ELSE state' = stateE
    /\ UNCHANGED <<pauseIntent, cancelIntent, calls, decisionVars, planVars, unconf, effVer,
                   ttl, dispatchers, adapterVars, worldVars>>
=============================================================================
