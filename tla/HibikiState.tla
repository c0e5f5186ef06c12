---------------------------- MODULE HibikiState -----------------------------
(***************************************************************************)
(* The persistent state of one task, the in-memory state of the processes  *)
(* around it, and the reads and row updates that the command handlers of   *)
(* src/hibiki/application/service.py share.                                *)
(*                                                                         *)
(* Every command is one serial transaction (SerialSessionExecutor): it     *)
(* either commits all of its writes or raises and rolls all of them back,  *)
(* so a handler is one action and an early raise is a guard.  The calls to *)
(* the agent adapter and to the external system are made between           *)
(* transactions and are actions of their own.                              *)
(***************************************************************************)
EXTENDS HibikiDomain, Naturals

CONSTANTS
    Units,          \* work units that plans of the task may name
    Runs,           \* run identities; each belongs to one unit
    UnitOf,         \* UnitOf[r]: the unit that run r executes
    Workspaces,     \* mutable workspaces
    WorkspaceOf,    \* WorkspaceOf[u]: the workspace a plan binds u to
    ShellUnits,     \* units whose agents were granted shell.run
    VerifyUnits,    \* units with work_type VERIFY
    Plans,          \* plans a human may activate: records of nodes and edges
    MaxPlans,       \* max_plan_revisions
    MaxActive,      \* per_task_run_concurrency
    CallLimit,      \* model_call_limit of the task
    MaxUsage,       \* bound on the model calls that are recorded
    MaxContracts,   \* bound on submitted contract versions
    Clarifications, \* decisions that open_blocking_gate may open at a time
    Effects,        \* logical external actions
    Queryable,      \* effects whose provider answers an idempotent query
    NoRun           \* owner_run_id / active_run_id is NULL

EdgeRecords == [from : Units, to : Units, pred : {"DONE", "VERDICT_PASS"}]
PlanRecords == [nodes : SUBSET Units, edges : SUBSET EdgeRecords]

\* Decisions that are not named after an effect or a clarification.
ContractGate   == "contract"
AcceptanceGate == "acceptance"
ResourceGate   == "resource"
FixedGates == {ContractGate, AcceptanceGate, ResourceGate}
Gates == FixedGates \cup Clarifications \cup Effects

ASSUME RunAssumption ==
    /\ UnitOf \in [Runs -> Units]
    /\ WorkspaceOf \in [Units -> Workspaces]
    /\ NoRun \notin Runs
ASSUME PlanAssumption ==
    /\ Plans \subseteq PlanRecords
    /\ MaxPlans \in Nat
    /\ MaxActive \in Nat
    /\ CallLimit \in Nat \ {0}
    /\ MaxUsage \in 0..CallLimit
    /\ MaxContracts \in Nat
ASSUME GateAssumption ==
    /\ Clarifications \cap Effects = {}
    /\ FixedGates \cap (Clarifications \cup Effects) = {}
    /\ Queryable \subseteq Effects
    /\ ShellUnits \subseteq Units
    /\ VerifyUnits \subseteq Units

VARIABLES
    \* tasks row
    state, pauseIntent, cancelIntent, calls,
    \* contracts: versions submitted so far, and the ACTIVE one (0: none)
    submitted, active,
    \* open: decisions that are PENDING, each with its gate OPEN;
    \* snap: the contract version frozen in the pending acceptance snapshot
    open, snap,
    \* the ACTIVE plan and how many were activated
    plan, planNo,
    \* work_unit_executions, agent_runs and workspaces rows
    wu, run, unconf, ws,
    \* the agent.start and agent.stop outbox rows of each run; an ACKED stop is
    \* never read again and counts as none
    start, stop,
    \* side_effects rows and their side_effect.dispatch outbox rows
    eff, effVer, ttl, effRow,
    \* volatile: how far a dispatcher thread got with each claimed row
    startPc, stopPc, effPc,
    \* volatile: the agent adapter's records and where each agent's thread is
    alive, revoked, agentPc,
    \* the outside world: containers left behind, calls received, calls applied
    stray, sends, applied

taskVars     == <<state, pauseIntent, cancelIntent, calls>>
decisionVars == <<submitted, active, open, snap>>
planVars     == <<plan, planNo>>
execVars     == <<wu, run, unconf, ws>>
agentOutbox  == <<start, stop>>
effectRows   == <<eff, effVer, ttl, effRow>>
dispatchers  == <<startPc, stopPc, effPc>>
adapterVars  == <<alive, revoked, agentPc>>
worldVars    == <<stray, sends, applied>>
vars == <<taskVars, decisionVars, planVars, execVars, agentOutbox, effectRows,
          dispatchers, adapterVars, worldVars>>

UnitRecords == [status : WorkUnitStatuses, reason : BlockedReasons,
                active : Runs \cup {NoRun}, marker : Runs \cup {NoRun}, verdict : Verdicts]
WorkspaceRecords == [state : WorkspaceStates, owner : Runs \cup {NoRun}, writer : BOOLEAN]
StartPhases  == {"idle", "claimed", "allowed", "started", "revoked", "raised"}
StopPhases   == {"idle", "claimed", "stopped", "alive"}
AgentPhases  == {"working", "authorized", "shell", "exited", "leaving", "ended"}
EffectPhases == {"idle", "claimed", "checked", "succeeded", "failed", "unknown", "raised"}

TypeOK ==
    /\ state \in TaskStates
    /\ pauseIntent \in BOOLEAN
    /\ cancelIntent \in BOOLEAN
    /\ calls \in 0..CallLimit
    /\ submitted \in 0..MaxContracts
    /\ active \in 0..MaxContracts
    /\ open \subseteq Gates
    /\ snap \in 0..MaxContracts
    /\ plan \in PlanRecords
    /\ planNo \in 0..MaxPlans
    /\ wu \in [Units -> UnitRecords]
    /\ run \in [Runs -> RunStatuses]
    /\ unconf \in [Runs -> BOOLEAN]
    /\ ws \in [Workspaces -> WorkspaceRecords]
    /\ start \in [Runs -> OutboxStatuses]
    /\ stop \in [Runs -> OutboxStatuses]
    /\ eff \in [Effects -> SideEffectStates]
    /\ effVer \in [Effects -> 0..MaxContracts]
    /\ ttl \in [Effects -> {"none", "valid", "expired"}]
    /\ effRow \in [Effects -> OutboxStatuses]
    /\ startPc \in [Runs -> StartPhases]
    /\ stopPc \in [Runs -> StopPhases]
    /\ effPc \in [Effects -> EffectPhases]
    /\ alive \in [Runs -> BOOLEAN]
    /\ revoked \in [Runs -> BOOLEAN]
    /\ agentPc \in [Runs -> AgentPhases]
    /\ stray \in [Runs -> BOOLEAN]
    /\ sends \in [Effects -> 0..2]
    /\ applied \in [Effects -> BOOLEAN]

\* create_task: the row is NEW and nothing else exists.
Init ==
    /\ state = "NEW" /\ pauseIntent = FALSE /\ cancelIntent = FALSE /\ calls = 0
    /\ submitted = 0 /\ active = 0 /\ open = {} /\ snap = 0
    /\ plan = [nodes |-> {}, edges |-> {}] /\ planNo = 0
    /\ wu = [u \in Units |-> [status |-> "NONE", reason |-> "none", active |-> NoRun,
                              marker |-> NoRun, verdict |-> "NONE"]]
    /\ run = [r \in Runs |-> "NONE"]
    /\ unconf = [r \in Runs |-> FALSE]
    /\ ws = [w \in Workspaces |-> [state |-> "READY", owner |-> NoRun, writer |-> FALSE]]
    /\ start = [r \in Runs |-> "NONE"]
    /\ stop = [r \in Runs |-> "NONE"]
    /\ eff = [e \in Effects |-> "NONE"]
    /\ effVer = [e \in Effects |-> 0]
    /\ ttl = [e \in Effects |-> "none"]
    /\ effRow = [e \in Effects |-> "NONE"]
    /\ startPc = [r \in Runs |-> "idle"]
    /\ stopPc = [r \in Runs |-> "idle"]
    /\ effPc = [e \in Effects |-> "idle"]
    /\ alive = [r \in Runs |-> FALSE]
    /\ revoked = [r \in Runs |-> FALSE]
    /\ agentPc = [r \in Runs |-> "working"]
    /\ stray = [r \in Runs |-> FALSE]
    /\ sends = [e \in Effects |-> 0]
    /\ applied = [e \in Effects |-> FALSE]

-----------------------------------------------------------------------------
(* Reads                                                                   *)

WorkspaceOfRun(r) == WorkspaceOf[UnitOf[r]]
Owned(r) == ws[WorkspaceOfRun(r)].owner = r

_has_blocking_gate == open # {}

_active_contract == active # 0

ActiveRuns == {r \in Runs : run[r] \in ACTIVE_RUN}

\* A unit with no run identity left has used max_work_unit_attempts.
FreshRuns(u) == {r \in Runs : UnitOf[r] = u /\ run[r] = "NONE"}

_task_has_live_writer_runs_only ==    \* mutant: workspaces are not looked at
    \E r \in Runs : run[r] \in ACTIVE_RUN /\ alive[r]
_task_has_live_writer_or_quarantine ==    \* mutant: a quarantine counts as a writer
    \E r \in Runs : \/ run[r] \in ACTIVE_RUN /\ alive[r]
                    \/ /\ Owned(r)
                       /\ \/ alive[r] \/ ws[WorkspaceOfRun(r)].writer
                          \/ ws[WorkspaceOfRun(r)].state = "QUARANTINED"
_task_has_live_writer ==
    \E r \in Runs : \/ run[r] \in ACTIVE_RUN /\ alive[r]
                    \/ Owned(r) /\ (alive[r] \/ ws[WorkspaceOfRun(r)].writer)

_guard_side_effect_eligibility(e, allowed) ==
    guard_side_effect_send(state, cancelIntent, pauseIntent, _has_blocking_gate, active,
                           effVer[e], ttl[e] = "expired", eff[e], allowed)

-----------------------------------------------------------------------------
(* Row updates shared by the handlers                                      *)

_set_task_state(event) == state \in event.from /\ state' = event.to

\* The workspace half of _clear_run_occupancy, for a set R of runs.
ReleaseBy(x, R) ==
    IF x.owner \notin R THEN x
    ELSE IF unconf[x.owner] THEN [x EXCEPT !.state = "QUARANTINED", !.writer = TRUE]
    ELSE [state |-> "READY", owner |-> NoRun, writer |-> FALSE]

\* The work unit half of _clear_run_occupancy, for a set R of runs.
VacateBy(x, R) ==
    [x EXCEPT !.active = IF @ \in R THEN NoRun ELSE @,
              !.marker = IF @ \in R THEN NoRun ELSE @]

\* _keep_start_occupancy, for a set R of runs.
KeepBy(x, R) == IF x.owner \in R THEN [x EXCEPT !.writer = TRUE] ELSE x

\* _enqueue_stops_for_runs: a run whose stop row is still live gets no second one.
_enqueue_stops_for_runs(R) ==
    [r \in Runs |-> IF r \in R /\ stop[r] \notin LIVE_OUTBOX THEN "PENDING" ELSE stop[r]]

RunsRequiringStopActive ==    \* mutant: an agent that delivered its result is forgotten
    {r \in Runs : run'[r] \in ACTIVE_RUN}
\* _runs_requiring_stop, read after the other writes of the transaction.
RunsRequiringStopNext ==
    {r \in Runs : \/ run'[r] \in ACTIVE_RUN
                  \/ /\ ws'[WorkspaceOfRun(r)].owner = r
                     /\ alive[r] \/ ws'[WorkspaceOfRun(r)].writer}

\* _recompute_runnable_state, when the gates in remaining are left open.
RunnableAgain(remaining) == state = "WAITING_HUMAN" /\ remaining = {} /\ ~cancelIntent
ClearBlock(x) ==
    IF x.status = "BLOCKED" /\ x.reason \notin {"paused", "attempts_exhausted"}
    THEN [x EXCEPT !.status = "PENDING", !.reason = "none", !.active = NoRun]
    ELSE x
_recompute_runnable_state(remaining) ==
    \/ /\ RunnableAgain(remaining)
       /\ _set_task_state(DecisionResolved)
       /\ wu' = [u \in Units |-> ClearBlock(wu[u])]
    \/ ~RunnableAgain(remaining) /\ UNCHANGED <<state, wu>>

-----------------------------------------------------------------------------
(* _invalidate_pending_outbox: pause, cancel and an opened gate revoke the  *)
(* starts and external calls that wait in the outbox.                      *)

UnsentStartsByAdapter ==    \* mutant: a claimed start counts as unsent
    {r \in Runs : start[r] \in LIVE_OUTBOX /\ ~alive[r]}
\* Never handed to the adapter: the run is cancelled and its workspace freed.
UnsentStarts == {r \in Runs : start[r] = "PENDING" /\ ~alive[r]}
\* Possibly handed over: the occupancy stays and a stop is enqueued.
UncertainStarts ==
    {r \in Runs : start[r] = "IN_FLIGHT" \/ (start[r] = "PENDING" /\ alive[r])}
RevokedRuns == {r \in UnsentStarts : run[r] = "CREATED"}

InvalidatedStarts ==
    [r \in Runs |-> IF r \in UnsentStarts \cup UncertainStarts THEN "DEAD" ELSE start[r]]
InvalidatedRun(r) == IF r \in RevokedRuns THEN "CANCELLED" ELSE run[r]
InvalidatedWorkspace(x) == KeepBy(ReleaseBy(x, RevokedRuns), UncertainStarts)
InvalidatedUnit(u, x) ==
    LET y == VacateBy(x, RevokedRuns)
    IN IF y.status = "RUNNING" /\ \E r \in RevokedRuns : UnitOf[r] = u
       THEN [y EXCEPT !.status = "PENDING", !.reason = "none", !.active = NoRun]
       ELSE y

InvalidatedEffectReplayed(e, cancelling) ==    \* mutant: an action that may be sent is unsent
    IF eff[e] # "DISPATCHING" \/ effRow[e] \notin LIVE_OUTBOX THEN eff[e]
    ELSE IF cancelling THEN "CANCELLED" ELSE "AUTHORIZED"
InvalidatedEffect(e, cancelling) ==
    IF eff[e] # "DISPATCHING" THEN eff[e]
    ELSE IF effRow[e] = "IN_FLIGHT" THEN "UNKNOWN"
    ELSE IF effRow[e] # "PENDING" THEN eff[e]
    ELSE IF cancelling THEN "CANCELLED" ELSE "AUTHORIZED"
InvalidatedEffectRows ==
    [e \in Effects |-> IF effRow[e] = "IN_FLIGHT" THEN "ACKED"
                       ELSE IF effRow[e] = "PENDING" THEN "DEAD" ELSE effRow[e]]
=============================================================================
