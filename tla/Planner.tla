------------------------------ MODULE Planner -------------------------------
(***************************************************************************)
(* The planner of one task: its session with generations, the PLAN runs    *)
(* dispatched for it, its proposals, the message log it reads, and the     *)
(* contract deltas through which a proposal may change what the task is    *)
(* authorized to do.                                                       *)
(*                                                                         *)
(* A PLAN run has no work unit and no workspace; its agent is started and  *)
(* stopped through the outbox like any other.  Work units are left to      *)
(* Execution, and so are the caps on runs and plan revisions, which only   *)
(* refuse more.                                                            *)
(*                                                                         *)
(* A planner's commands come with the credential of its run, which anybody *)
(* who was given it may still hold when the run is over, and with a        *)
(* generation the caller chooses.                                          *)
(***************************************************************************)
EXTENDS HibikiDomain, Naturals

CONSTANTS
    PlanRuns,       \* identities of PLAN runs
    Deltas,         \* identities of contract delta decisions
    Clarifications, \* identities of other decisions that block the task
    NoRun,          \* the value of an empty run column
    MaxVersions,    \* bound of the exploration: contract versions
    MaxGen,         \*   planner generations
    MaxPosts        \*   messages posted, apart from results

ASSUME PlannerAssumption ==
    /\ NoRun \notin PlanRuns
    /\ MaxVersions \in Nat /\ MaxGen \in Nat /\ MaxPosts \in Nat

VARIABLES
    \* tasks row
    state, pauseIntent, cancelIntent,
    \* contracts: last version submitted or created, the ACTIVE one, the one a
    \* pending CONTRACT_APPROVAL is about (0: none), and of each version the
    \* submission it goes back to and the deltas merged into it since
    last, active, pending, root, merged,
    \* CONTRACT_DELTA decisions and the CLARIFICATION decisions that are open
    delta, clarify,
    \* planner_sessions row (gen = 0: none) and active_plan_run_markers row
    gen, session, activeRun, marker, cursor,
    \* task_messages
    messages,
    \* agent_runs rows: status, the generation and contract they were made for
    run, runGen, runVer,
    \* outbox rows and, volatile, the dispatchers' places and the adapter
    start, stop, startPc, stopPc, alive, revoked

taskVars     == <<state, pauseIntent, cancelIntent>>
contractVars == <<last, active, pending, root, merged>>
gateVars     == <<delta, clarify>>
sessionVars  == <<gen, session, activeRun, marker, cursor>>
runVars      == <<run, runGen, runVer>>
outboxVars   == <<start, stop>>
volatile     == <<startPc, stopPc, alive, revoked>>
vars == <<taskVars, contractVars, gateVars, sessionVars, messages, runVars, outboxVars,
          volatile>>

Versions == 0..MaxVersions
RunOrNone == PlanRuns \cup {NoRun}
\* A gate that is RESOLVED is kept apart by how it was: the decision REJECTED,
\* the delta APPLIED, or found STALE when it was to be applied.
GateStates == {"NONE", "OPEN", "APPROVED_PENDING_APPLY", "REJECTED", "APPLIED", "STALE"}
BLOCKING == {"OPEN", "APPROVED_PENDING_APPLY"}
DeltaRecords == [gate : GateStates, base : Versions, by : RunOrNone]
StartPhases == {"idle", "claimed", "allowed", "started", "revoked", "raised"}
StopPhases  == {"idle", "claimed", "stopped", "alive"}

TypeOK ==
    /\ state \in TaskStates /\ pauseIntent \in BOOLEAN /\ cancelIntent \in BOOLEAN
    /\ last \in Versions /\ active \in Versions /\ pending \in Versions
    /\ root \in [Versions -> Versions]
    /\ merged \in [Versions -> SUBSET Deltas]
    /\ delta \in [Deltas -> DeltaRecords]
    /\ clarify \subseteq Clarifications
    /\ gen \in 0..MaxGen /\ session \in {"NONE", "ACTIVE", "CLOSED"}
    /\ activeRun \in RunOrNone /\ marker \in RunOrNone
    /\ messages \in Nat /\ cursor \in 0..messages
    /\ run \in [PlanRuns -> RunStatuses]
    /\ runGen \in [PlanRuns -> 0..MaxGen]
    /\ runVer \in [PlanRuns -> Versions]
    /\ start \in [PlanRuns -> OutboxStatuses] /\ stop \in [PlanRuns -> OutboxStatuses]
    /\ startPc \in [PlanRuns -> StartPhases] /\ stopPc \in [PlanRuns -> StopPhases]
    /\ alive \in [PlanRuns -> BOOLEAN] /\ revoked \in [PlanRuns -> BOOLEAN]

\* create_task
Init ==
    /\ state = "NEW" /\ pauseIntent = FALSE /\ cancelIntent = FALSE
    /\ last = 0 /\ active = 0 /\ pending = 0
    /\ root = [v \in Versions |-> 0]
    /\ merged = [v \in Versions |-> {}]
    /\ delta = [d \in Deltas |-> [gate |-> "NONE", base |-> 0, by |-> NoRun]]
    /\ clarify = {}
    /\ gen = 0 /\ session = "NONE" /\ activeRun = NoRun /\ marker = NoRun /\ cursor = 0
    /\ messages = 0
    /\ run = [r \in PlanRuns |-> "NONE"]
    /\ runGen = [r \in PlanRuns |-> 0]
    /\ runVer = [r \in PlanRuns |-> 0]
    /\ start = [r \in PlanRuns |-> "NONE"] /\ stop = [r \in PlanRuns |-> "NONE"]
    /\ startPc = [r \in PlanRuns |-> "idle"] /\ stopPc = [r \in PlanRuns |-> "idle"]
    /\ alive = [r \in PlanRuns |-> FALSE] /\ revoked = [r \in PlanRuns |-> FALSE]

-----------------------------------------------------------------------------
(* Reads and row updates shared by the handlers                            *)

LiveRuns == {r \in PlanRuns : run[r] \in ACTIVE_RUN}

_has_blocking_gate ==
    pending # 0 \/ clarify # {} \/ \E d \in Deltas : delta[d].gate \in BLOCKING

\* A PLAN run has no workspace: only a live run with an agent counts.
_task_has_live_writer == \E r \in LiveRuns : alive[r]

_set_task_state(event) == state \in event.from /\ state' = event.to

\* _recompute_runnable_state, read after the gate was closed.
RunnableAgain == state = "WAITING_HUMAN" /\ ~_has_blocking_gate' /\ ~cancelIntent
_recompute_runnable_state ==
    \/ RunnableAgain /\ _set_task_state(DecisionResolved)
    \/ ~RunnableAgain /\ UNCHANGED state

\* The PLAN half of _clear_run_occupancy, for a set R of runs.
Vacated(column, R) == IF column \in R THEN NoRun ELSE column
_clear_run_occupancy(R) ==
    /\ marker' = Vacated(marker, R)
    /\ activeRun' = Vacated(activeRun, R)

_enqueue_stops_for_runs(R) ==
    [r \in PlanRuns |-> IF r \in R /\ stop[r] \notin LIVE_OUTBOX THEN "PENDING" ELSE stop[r]]

\* _invalidate_pending_outbox: a start that was never claimed is taken back with
\* its run, one that was may have reached the adapter and is followed by a stop.
UncertainStarts == {r \in PlanRuns : start[r] = "IN_FLIGHT" \/ (start[r] = "PENDING" /\ alive[r])}
UnsentStarts == {r \in PlanRuns : start[r] = "PENDING" /\ ~alive[r]}
RevokedRuns == {r \in UnsentStarts : run[r] = "CREATED"}
_invalidate_pending_outbox ==
    /\ start' = [r \in PlanRuns |-> IF start[r] \in LIVE_OUTBOX THEN "DEAD" ELSE start[r]]
    /\ run' = [r \in PlanRuns |-> IF r \in RevokedRuns THEN "CANCELLED" ELSE run[r]]
    /\ _clear_run_occupancy(RevokedRuns)

-----------------------------------------------------------------------------
(* Contracts and their deltas                                              *)

\* submit_contract: the next free version number, superseding a pending one.
SubmitContract ==
    /\ last < MaxVersions
    /\ last' = last + 1
    /\ pending' = last + 1
    /\ root' = [root EXCEPT ![last + 1] = last + 1]
    /\ merged' = [merged EXCEPT ![last + 1] = {}]
    /\ _set_task_state(ContractSubmitted)
    /\ UNCHANGED <<pauseIntent, cancelIntent, active, gateVars, sessionVars, messages, runVars,
                   outboxVars, volatile>>

\* resolve_decision of a CONTRACT_APPROVAL.  A rejected version keeps its number.
ApproveContract ==
    /\ pending # 0
    /\ active' = pending
    /\ pending' = 0
    /\ \E event \in {ContractApproved, ContractApprovedSimple} : _set_task_state(event)
    /\ UNCHANGED <<pauseIntent, cancelIntent, last, root, merged, gateVars, sessionVars, messages,
                   runVars, outboxVars, volatile>>
RejectContract ==
    /\ pending # 0
    /\ pending' = 0
    /\ UNCHANGED gateVars
    /\ _recompute_runnable_state
    /\ UNCHANGED <<pauseIntent, cancelIntent, last, active, root, merged, sessionVars, messages,
                   runVars, outboxVars, volatile>>

\* resolve_decision of a CONTRACT_DELTA.  Approval only unlocks the application.
ApproveDelta(d) ==
    /\ delta[d].gate = "OPEN"
    /\ delta' = [delta EXCEPT ![d].gate = "APPROVED_PENDING_APPLY"]
    /\ \/ state = "WAITING_HUMAN" /\ UNCHANGED state
       \/ state # "WAITING_HUMAN" /\ _set_task_state(BlockingGateOpened)
    /\ UNCHANGED <<pauseIntent, cancelIntent, contractVars, clarify, sessionVars, messages,
                   runVars, outboxVars, volatile>>
RejectDelta(d) ==
    /\ delta[d].gate = "OPEN"
    /\ delta' = [delta EXCEPT ![d].gate = "REJECTED"]
    /\ UNCHANGED <<contractVars, clarify>>
    /\ _recompute_runnable_state
    /\ UNCHANGED <<pauseIntent, cancelIntent, sessionVars, messages, runVars, outboxVars,
                   volatile>>

\* The compare-and-swap of apply_contract_delta: the contract the delta was
\* written against must be the active one, and the next number must be free.
BaselineUnchecked(d) == TRUE    \* mutant: neither is looked at
TargetUnchecked(d) == active = delta[d].base    \* mutant: the number may be taken
DeltaIsCurrent(d) == active = delta[d].base /\ last < delta[d].base + 1
\* _merge_contract_content, starting from the baseline's content.
_merge_contract_content(base, d) == merged[base] \cup {d}

\* apply_contract_delta, when it goes through and when it finds itself stale.
ApplyContractDelta(d) ==
    LET version == delta[d].base + 1 IN
    /\ delta[d].gate = "APPROVED_PENDING_APPLY"
    /\ ~_task_has_live_writer
    /\ active # 0
    /\ DeltaIsCurrent(d)
    /\ active' = version
    /\ last' = version
    /\ root' = [root EXCEPT ![version] = root[delta[d].base]]
    /\ merged' = [merged EXCEPT ![version] = _merge_contract_content(delta[d].base, d)]
    /\ delta' = [delta EXCEPT ![d].gate = "APPLIED"]
    /\ UNCHANGED <<pending, clarify>>
    /\ _recompute_runnable_state
    /\ UNCHANGED <<pauseIntent, cancelIntent, sessionVars, messages, runVars, outboxVars,
                   volatile>>
_invalidate_stale_contract_delta(d) ==
    /\ delta[d].gate = "APPROVED_PENDING_APPLY"
    /\ ~_task_has_live_writer
    /\ active # 0
    /\ ~DeltaIsCurrent(d)
    /\ delta' = [delta EXCEPT ![d].gate = "STALE"]
    /\ UNCHANGED <<contractVars, clarify>>
    /\ _recompute_runnable_state
    /\ UNCHANGED <<pauseIntent, cancelIntent, sessionVars, messages, runVars, outboxVars,
                   volatile>>

-----------------------------------------------------------------------------
(* The planner's own writes                                                *)

\* who is the run whose credential is used, or NoRun for the human owner; g is
\* the generation named in the command.
PlannerWriteAuthByGeneration(who, g) ==    \* mutant: the run is not asked for
    gen # 0 /\ g = gen
_assert_planner_write_auth(who, g) ==
    /\ gen # 0
    /\ g = gen
    /\ who # NoRun => activeRun = who /\ run[who] \notin TERMINAL_RUN

\* submit_plan_proposal that changes the authorization: a delta on the active
\* contract is put before the human.  Starts on their way are left alone.
ProposeDelta(d, who, g) ==
    /\ _assert_planner_write_auth(who, g)
    /\ delta[d].gate = "NONE"
    /\ active # 0 /\ active < MaxVersions
    /\ delta' = [delta EXCEPT ![d] = [gate |-> "OPEN", base |-> active, by |-> who]]
    /\ _set_task_state(BlockingGateOpened)
    /\ UNCHANGED <<pauseIntent, cancelIntent, contractVars, clarify, sessionVars, messages,
                   runVars, outboxVars, volatile>>

\* submit_plan_proposal of a plan: activate_plan, as far as the task's row goes.
ProposePlan(who, g) ==
    /\ _assert_planner_write_auth(who, g)
    /\ active # 0
    /\ _set_task_state(PlanActivated)
    /\ UNCHANGED <<pauseIntent, cancelIntent, contractVars, gateVars, sessionVars, messages,
                   runVars, outboxVars, volatile>>

\* advance_planner_checkpoint: the cursor stays within the log and never goes back.
CheckpointPastEnd(c) == cursor <= c    \* mutant
CheckpointInLog(c) == cursor <= c /\ c <= messages
AdvanceCheckpoint(who, g, c) ==
    /\ _assert_planner_write_auth(who, g)
    /\ CheckpointInLog(c)
    /\ cursor' = c
    /\ UNCHANGED <<taskVars, contractVars, gateVars, gen, session, activeRun, marker, messages,
                   runVars, outboxVars, volatile>>

PostTaskMessage ==
    /\ messages < MaxPosts
    /\ messages' = messages + 1
    /\ UNCHANGED <<taskVars, contractVars, gateVars, sessionVars, runVars, outboxVars, volatile>>

\* submit_result of a PLAN run.  A result of a run that has ended is history.
SubmitResult(r) ==
    /\ run[r] = "RUNNING"
    /\ run' = [run EXCEPT ![r] = "SUCCEEDED"]
    /\ _clear_run_occupancy({r})
    /\ messages' = messages + 1
    /\ UNCHANGED <<taskVars, contractVars, gateVars, gen, session, cursor, runGen, runVer,
                   outboxVars, volatile>>

-----------------------------------------------------------------------------
(* Planner sessions                                                        *)

\* The run a generation change ends: the marked one, unless it has ended.
BumpRevokesNobody == {}    \* mutant
BumpRevokes == {r \in PlanRuns : r = marker /\ run[r] \notin TERMINAL_RUN}
ReplacePlannerGeneration ==
    /\ gen < MaxGen
    /\ gen' = gen + 1
    /\ session' = IF gen = 0 THEN "ACTIVE" ELSE session
    /\ run' = [r \in PlanRuns |-> IF r \in BumpRevokes THEN "CANCELLED" ELSE run[r]]
    /\ stop' = _enqueue_stops_for_runs(BumpRevokes)
    /\ marker' = NoRun
    /\ activeRun' = NoRun
    /\ UNCHANGED <<taskVars, contractVars, gateVars, cursor, messages, runGen, runVer, start,
                   volatile>>

\* dispatch_planner_run.  A marked run that is live answers "already active".
DispatchPlannerRun(r) ==
    /\ guard_dispatch(state, active # 0, _has_blocking_gate, cancelIntent, pauseIntent)
    /\ gen = 0 \/ session = "ACTIVE"
    /\ gen = 0 => MaxGen > 0
    /\ marker \notin LiveRuns
    /\ run[r] = "NONE"
    /\ gen' = IF gen = 0 THEN 1 ELSE gen
    /\ session' = "ACTIVE"
    /\ run' = [run EXCEPT ![r] = "CREATED"]
    /\ runGen' = [runGen EXCEPT ![r] = gen']
    /\ runVer' = [runVer EXCEPT ![r] = active]
    /\ start' = [start EXCEPT ![r] = "PENDING"]
    /\ marker' = r
    /\ activeRun' = r
    /\ UNCHANGED <<taskVars, contractVars, gateVars, cursor, messages, stop, volatile>>

\* close_planner_session sets the status it is given; the marker stays.
ClosePlannerSession(status) ==
    /\ gen # 0
    /\ marker \notin LiveRuns
    /\ session' = status
    /\ activeRun' = NoRun
    /\ UNCHANGED <<taskVars, contractVars, gateVars, gen, marker, cursor, messages, runVars,
                   outboxVars, volatile>>

-----------------------------------------------------------------------------
(* Task control                                                            *)

\* open_blocking_gate does nothing to a run without a work unit.
OpenBlockingGate(g) ==
    /\ g \in Clarifications \ clarify
    /\ clarify' = clarify \cup {g}
    /\ _set_task_state(BlockingGateOpened)
    /\ _invalidate_pending_outbox
    /\ stop' = _enqueue_stops_for_runs(UncertainStarts)
    /\ UNCHANGED <<pauseIntent, cancelIntent, contractVars, delta, gen, session, cursor, messages,
                   runGen, runVer, volatile>>
ResolveClarification(g) ==
    /\ g \in clarify
    /\ clarify' = clarify \ {g}
    /\ UNCHANGED <<contractVars, delta>>
    /\ _recompute_runnable_state
    /\ UNCHANGED <<pauseIntent, cancelIntent, sessionVars, messages, runVars, outboxVars,
                   volatile>>

\* pause_task and cancel_task: _runs_requiring_stop selects the live runs only.
StopTask(event) ==
    /\ _set_task_state(event)
    /\ _invalidate_pending_outbox
    /\ stop' = _enqueue_stops_for_runs(UncertainStarts \cup (LiveRuns \ RevokedRuns))
    /\ UNCHANGED <<contractVars, gateVars, gen, session, cursor, messages, runGen, runVer,
                   volatile>>
PauseTask  == StopTask(PauseRequested) /\ pauseIntent' = TRUE /\ UNCHANGED cancelIntent
CancelTask == StopTask(CancelRequested) /\ cancelIntent' = TRUE /\ UNCHANGED pauseIntent

RuntimeQuiescent ==
    /\ ~_task_has_live_writer
    /\ _set_task_state(RuntimeQuiescentEvent)
    /\ pauseIntent' = FALSE
    /\ run' = [r \in PlanRuns |-> IF r \in LiveRuns THEN "CANCELLED" ELSE run[r]]
    /\ _clear_run_occupancy(LiveRuns)
    /\ UNCHANGED <<cancelIntent, contractVars, gateVars, gen, session, cursor, messages, runGen,
                   runVer, outboxVars, volatile>>

ResumeTask ==
    /\ \/ _has_blocking_gate /\ _set_task_state(ResumeRequested)
       \/ ~_has_blocking_gate /\ _set_task_state(ResumeRequestedRunnable)
    /\ UNCHANGED <<pauseIntent, cancelIntent, contractVars, gateVars, sessionVars, messages,
                   runVars, outboxVars, volatile>>

\* cancellation_settled ends live runs and leaves the session's columns.
CancellationSettled ==
    /\ ~_task_has_live_writer
    /\ _set_task_state(CancellationSettledEvent)
    /\ run' = [r \in PlanRuns |-> IF r \in LiveRuns THEN "CANCELLED" ELSE run[r]]
    /\ UNCHANGED <<pauseIntent, cancelIntent, contractVars, gateVars, sessionVars, messages,
                   runGen, runVer, outboxVars, volatile>>

-----------------------------------------------------------------------------
(* Dispatchers, agents, crash and reconcile, as in Execution but without a  *)
(* unit or a workspace.                                                     *)

FenceStart(r) ==
    /\ start' = [start EXCEPT ![r] = "DEAD"]
    /\ stop' = _enqueue_stops_for_runs({r})

\* _claim_one_outbox: a start of a task that may not run is dropped.
ClaimStart(r) ==
    /\ start[r] = "PENDING"
    /\ IF cancelIntent \/ pauseIntent \/ state \notin DISPATCHABLE_TASK_STATES
       THEN start' = [start EXCEPT ![r] = "DEAD"] /\ UNCHANGED startPc
       ELSE /\ start' = [start EXCEPT ![r] = "IN_FLIGHT"]
            /\ startPc' = [startPc EXCEPT ![r] = "claimed"]
    /\ UNCHANGED <<taskVars, contractVars, gateVars, sessionVars, messages, runVars, stop, stopPc,
                   alive, revoked>>

\* _start_send_allowed
SendAllowed(r) ==
    /\ run[r] \in ACTIVE_RUN
    /\ ~cancelIntent /\ ~pauseIntent
    /\ ~_has_blocking_gate
    /\ state \in DISPATCHABLE_TASK_STATES
CheckStart(r) ==
    /\ startPc[r] = "claimed"
    /\ \/ /\ start[r] # "IN_FLIGHT"
          /\ startPc' = [startPc EXCEPT ![r] = "idle"]
          /\ UNCHANGED <<start, stop>>
       \/ /\ start[r] = "IN_FLIGHT" /\ ~SendAllowed(r)
          /\ startPc' = [startPc EXCEPT ![r] = "idle"]
          /\ FenceStart(r)
       \/ /\ start[r] = "IN_FLIGHT" /\ SendAllowed(r)
          /\ startPc' = [startPc EXCEPT ![r] = "allowed"]
          /\ UNCHANGED <<start, stop>>
    /\ UNCHANGED <<taskVars, contractVars, gateVars, sessionVars, messages, runVars, stopPc, alive,
                   revoked>>

\* agent_adapter.start: refused for a revoked run; an adapter whose call fails may
\* or may not have brought the agent up.
AdapterStart(r) ==
    /\ startPc[r] = "allowed"
    /\ \/ /\ revoked[r]
          /\ startPc' = [startPc EXCEPT ![r] = "revoked"]
          /\ UNCHANGED alive
       \/ /\ ~revoked[r]
          /\ startPc' = [startPc EXCEPT ![r] = "started"]
          /\ alive' = [alive EXCEPT ![r] = TRUE]
       \/ /\ ~revoked[r]
          /\ startPc' = [startPc EXCEPT ![r] = "raised"]
          /\ \E came \in BOOLEAN : alive' = [alive EXCEPT ![r] = came]
    /\ UNCHANGED <<taskVars, contractVars, gateVars, sessionVars, messages, runVars, outboxVars,
                   stopPc, revoked>>

\* _ack_outbox_and_mark_running
StartFenced(r) ==
    \/ start[r] = "DEAD"
    \/ cancelIntent \/ pauseIntent
    \/ state \in {"WAITING_HUMAN", "PAUSING", "PAUSED", "CANCELLING"}
    \/ _has_blocking_gate
    \/ run[r] = "CANCELLED"
AckStart(r) ==
    /\ startPc[r] = "started"
    /\ startPc' = [startPc EXCEPT ![r] = "idle"]
    /\ \/ /\ StartFenced(r)
          /\ start' = [start EXCEPT ![r] = IF @ = "IN_FLIGHT" THEN "DEAD" ELSE @]
          /\ stop' = _enqueue_stops_for_runs({r})
          /\ UNCHANGED run
       \/ /\ ~StartFenced(r)
          /\ start' = [start EXCEPT ![r] = "ACKED"]
          /\ run' = [run EXCEPT ![r] = IF @ = "CREATED" THEN "RUNNING" ELSE @]
          /\ UNCHANGED stop
    /\ UNCHANGED <<taskVars, contractVars, gateVars, sessionVars, messages, runGen, runVer, stopPc,
                   alive, revoked>>

\* _ack_outbox(dead=True) after a revoked start; _fail_outbox after a failed call.
AckStartRevoked(r) ==
    /\ startPc[r] = "revoked"
    /\ startPc' = [startPc EXCEPT ![r] = "idle"]
    /\ start' = [start EXCEPT ![r] = "DEAD"]
    /\ UNCHANGED <<taskVars, contractVars, gateVars, sessionVars, messages, runVars, stop, stopPc,
                   alive, revoked>>
FailStart(r) ==
    /\ startPc[r] = "raised"
    /\ startPc' = [startPc EXCEPT ![r] = "idle"]
    /\ \/ start[r] = "DEAD" /\ UNCHANGED <<start, stop>>
       \/ start[r] # "DEAD" /\ FenceStart(r)
    /\ UNCHANGED <<taskVars, contractVars, gateVars, sessionVars, messages, runVars, stopPc, alive,
                   revoked>>

ClaimStop(r) ==
    /\ stop[r] = "PENDING"
    /\ stop' = [stop EXCEPT ![r] = "IN_FLIGHT"]
    /\ stopPc' = [stopPc EXCEPT ![r] = "claimed"]
    /\ UNCHANGED <<taskVars, contractVars, gateVars, sessionVars, messages, runVars, start,
                   startPc, alive, revoked>>

\* agent_adapter.stop: the agent is gone, or outlived the wait.
AdapterStop(r) ==
    /\ stopPc[r] = "claimed"
    /\ revoked' = [revoked EXCEPT ![r] = TRUE]
    /\ \/ /\ alive' = [alive EXCEPT ![r] = FALSE]
          /\ stopPc' = [stopPc EXCEPT ![r] = "stopped"]
       \/ /\ alive[r]
          /\ stopPc' = [stopPc EXCEPT ![r] = "alive"]
          /\ UNCHANGED alive
    /\ UNCHANGED <<taskVars, contractVars, gateVars, sessionVars, messages, runVars, outboxVars,
                   startPc>>

\* _ack_stop: a confirmed stop ends a live run; one that timed out leaves no trace.
AckStop(r) ==
    /\ stopPc[r] \in {"stopped", "alive"}
    /\ stopPc' = [stopPc EXCEPT ![r] = "idle"]
    /\ stop' = [stop EXCEPT ![r] = "NONE"]
    /\ \/ /\ stopPc[r] = "stopped" /\ r \in LiveRuns
          /\ run' = [run EXCEPT ![r] = "CANCELLED"]
          /\ _clear_run_occupancy({r})
       \/ /\ ~(stopPc[r] = "stopped" /\ r \in LiveRuns)
          /\ UNCHANGED <<run, marker, activeRun>>
    /\ UNCHANGED <<taskVars, contractVars, gateVars, gen, session, cursor, messages, runGen,
                   runVer, start, startPc, alive, revoked>>

\* _fail_outbox of a stop
FailStop(r) ==
    /\ stopPc[r] = "claimed"
    /\ stopPc' = [stopPc EXCEPT ![r] = "idle"]
    /\ stop' = [stop EXCEPT ![r] = "PENDING"]
    /\ UNCHANGED <<taskVars, contractVars, gateVars, sessionVars, messages, runVars, start,
                   startPc, alive, revoked>>

\* confirm_run_exit, given by the human or by the agent at its end.  A command that
\* finds no start and a stop on its way writes nothing and is no step.
ConfirmRunExit(r) ==
    /\ run[r] # "NONE"
    /\ start[r] \in LIVE_OUTBOX \/ stop[r] \notin LIVE_OUTBOX
    /\ start' = [start EXCEPT ![r] = IF @ \in LIVE_OUTBOX THEN "DEAD" ELSE @]
    /\ stop' = _enqueue_stops_for_runs({r})
    /\ UNCHANGED <<taskVars, contractVars, gateVars, sessionVars, messages, runVars, volatile>>
AgentExit(r) ==
    /\ alive[r]
    /\ alive' = [alive EXCEPT ![r] = FALSE]
    /\ UNCHANGED <<taskVars, contractVars, gateVars, sessionVars, messages, runVars, outboxVars,
                   startPc, stopPc, revoked>>

Crash ==
    /\ startPc' = [r \in PlanRuns |-> "idle"]
    /\ stopPc' = [r \in PlanRuns |-> "idle"]
    /\ alive' = [r \in PlanRuns |-> FALSE]
    /\ revoked' = [r \in PlanRuns |-> FALSE]
    /\ UNCHANGED <<taskVars, contractVars, gateVars, sessionVars, messages, runVars, outboxVars>>

\* reconcile; xStart and xStop are the claimed rows whose lease has expired.
InFlight(rows) == {r \in PlanRuns : rows[r] = "IN_FLIGHT"}
LostRuns ==
    IF state \in {"PAUSED", "WAITING_HUMAN", "CANCELLING"} THEN {}
    ELSE {r \in PlanRuns : run[r] = "RUNNING" /\ ~alive[r]}
Reconcile(xStart, xStop) ==
    /\ \A r \in PlanRuns : startPc[r] = "idle" /\ stopPc[r] = "idle"
    /\ start' = [r \in PlanRuns |-> IF r \in xStart THEN "DEAD" ELSE start[r]]
    /\ stop' = [r \in PlanRuns |-> IF r \in xStop THEN "PENDING"
                                   ELSE _enqueue_stops_for_runs(xStart)[r]]
    /\ run' = [r \in PlanRuns |-> IF r \in LostRuns THEN "LOST" ELSE run[r]]
    /\ _clear_run_occupancy(LostRuns)
    /\ UNCHANGED <<taskVars, contractVars, gateVars, gen, session, cursor, messages, runGen,
                   runVer, volatile>>

-----------------------------------------------------------------------------
PlannerWrite(who, g) ==
    \/ \E d \in Deltas : ProposeDelta(d, who, g)
    \/ ProposePlan(who, g)
    \/ \E c \in 0..(messages + 1) : AdvanceCheckpoint(who, g, c)

Command ==
    \/ SubmitContract \/ ApproveContract \/ RejectContract
    \/ \E d \in Deltas : \/ ApproveDelta(d) \/ RejectDelta(d)
                         \/ ApplyContractDelta(d) \/ _invalidate_stale_contract_delta(d)
    \/ \E who \in RunOrNone, g \in 1..MaxGen : PlannerWrite(who, g)
    \/ PostTaskMessage
    \/ ReplacePlannerGeneration
    \/ \E status \in {"ACTIVE", "CLOSED"} : ClosePlannerSession(status)
    \/ \E g \in Clarifications : OpenBlockingGate(g) \/ ResolveClarification(g)
    \/ PauseTask \/ RuntimeQuiescent \/ ResumeTask
    \/ CancelTask \/ CancellationSettled

RunStep(r) ==
    \/ DispatchPlannerRun(r) \/ SubmitResult(r) \/ ConfirmRunExit(r) \/ AgentExit(r)
    \/ ClaimStart(r) \/ CheckStart(r) \/ AdapterStart(r) \/ AckStart(r)
    \/ AckStartRevoked(r) \/ FailStart(r)
    \/ ClaimStop(r) \/ AdapterStop(r) \/ AckStop(r) \/ FailStop(r)

Next ==
    \/ Command
    \/ \E r \in PlanRuns : RunStep(r)
    \/ Crash
    \/ \E xStart \in SUBSET InFlight(start), xStop \in SUBSET InFlight(stop) :
          Reconcile(xStart, xStop)

Spec == Init /\ [][Next]_vars

-----------------------------------------------------------------------------
(* Properties                                                              *)

\* SPEC 9.1: a session has at most one valid PLAN run.  The run that is CREATED
\* or RUNNING is the one the session and its marker name, in a session that is
\* open, and it belongs to the current generation, however dispatches,
\* generation changes, results, stops, pauses and losses follow one another.
SessionBindsItsRun ==
    \A r \in PlanRuns : run[r] \in ACTIVE_RUN =>
        /\ marker = r /\ activeRun = r
        /\ runGen[r] = gen
        /\ session = "ACTIVE"

\* What a planner's command may change.
written == <<state, delta, cursor>>

\* SPEC 9.1: a planner that was replaced does not move the task.  The credential
\* of a run that is over, that was dispatched for an earlier generation or whose
\* session is closed writes neither a proposal nor a checkpoint, whatever
\* generation the command names and whatever dispatch, replacement, close, loss
\* or late start came in between.
Superseded(who) ==
    \/ run[who] \in TERMINAL_RUN
    \/ run[who] \in ACTIVE_RUN /\ (runGen[who] # gen \/ session # "ACTIVE")
SupersededPlannersAreSilent ==
    [][written' # written =>
         \A who \in PlanRuns :
            Superseded(who) => \A g \in 1..MaxGen : ~PlannerWrite(who, g)]_written

\* SPEC 6.3: what a human approved is what is in force.  The active contract
\* holds exactly the deltas that were applied since the submission it goes back
\* to: no delta written against an older contract undoes one applied after it.
AppliedDeltasAreInForce ==
    \A d \in Deltas :
        d \in merged[active] <=> delta[d].gate = "APPLIED" /\ delta[d].base >= root[active]

\* A contract that waits for approval is newer than the active one, whatever
\* delta is applied meanwhile: approving it never brings an old version back.
PendingContractIsNewest == pending # 0 => pending = last /\ pending > active
=============================================================================
