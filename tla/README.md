# Hibiki: a TLA+ model of the orchestrator core

Hibiki runs long tasks for a human principal: a task has a contract, a plan of
work units, agent runs that execute them in mutable workspaces, and external
actions that leave the system.  Everything is decided by one core
(`src/src/hibiki/application/service.py`), whose promises are the invariants
INV-01 to INV-12 of `src/HIBIKI_MVP_SPEC_v0.2.1.md`.  This directory models the
core with the threads, agents and failures around it, checks it with TLC on
small instances, and proves its main safety properties with TLAPS for every
instance.

## 1. Inventory

| Component | State | Operations | Hard behaviour |
|---|---|---|---|
| Domain tables and guards (`domain/`) | none | task, unit, run and effect transitions; `guard_dispatch`, `guard_side_effect_send` | an event that is refused rolls the whole command back |
| Task control (`service.py`) | task row, contracts, decisions and gates, acceptance snapshot | submit/approve/reject contract, resolve decision, open gate, pause, quiescent, resume, cancel, settled, prepare/accept result | each freezes work that other threads are doing at that moment |
| Plans, units, runs, workspaces | plan, unit executions with their active run and marker, runs, workspaces with owner and writer flag | activate plan, dispatch ready runs, submit result, record usage, confirm exit | the run's status, the unit's marker, the workspace's owner and the living agent must agree although they change at different times |
| Outbox dispatchers | outbox rows, one thread's place per claimed row | claim, last check, adapter call, acknowledge or fail, for `agent.start`, `agent.stop`, `side_effect.dispatch` | every gap between two transactions |
| External actions | effect rows, approvals with a time to live | propose, approve, dispatch, receipt, reconcile | a call whose outcome is not known; never sent twice |
| API agent (`runtime/api_agent.py`) | thread and its place, turn and call counters, revoked ids, stop event, what is published | start, model turns, tool calls, result, exit, `stop()` with a bounded wait | a start that is revoked while under way; a stop between two tool calls; an agent that outlives the stop |
| Tool broker, paths, workspace tools (`tools/broker.py`, `tools/paths.py`) | one audit row per call, the open directory of a walk | authorize, record outcome, record refusal, read, list, write, publish | the task is frozen between the ALLOW and the effect; names change under a walk |
| Sandbox (`tools/sandbox.py`) | docker client, container, its id | start, poll, kill, probe | a container whose end cannot be confirmed |
| Crash and startup reconcile | what the database still says | reconcile | judges by empty adapter records and expired leases |
| Planner sessions | session with generation, active run and cursor; marker; PLAN runs; message log | replace generation, dispatch, propose, advance checkpoint, post message, result, close | a replaced planner still holds its credential and its start may still be on its way |
| Contract deltas | decisions with a baseline, contract versions | propose, approve, reject, apply, invalidate | several deltas and submissions race for the next version number |
| Command log | inbox and idempotency rows | look up, replay, store | a command delivered again, in another order, after a crash that lost its answer |
| Plan validation (`domain/plan.py`) | none | `validate_dag` | circles through several edges |
| Contents, results, evidence, acceptance (`runtime/artifacts.py`, `service.py`) | content store, artifact rows, results, evidence rows, manifests, snapshots | publish, append to context, submit result, repair plan, prepare and accept | late results, contents that were named and never stored, verdicts that contradict each other |
| Model client, runners, CLI | | | not modelled: section 8 |

How they interact: a human, a runner or an agent's own thread calls
`execute(operation)`.  The handler runs in one serial transaction
(`SerialSessionExecutor`), which commits everything or nothing.  The calling
thread then drains the outbox: it claims a row in a transaction, looks again in
another, calls the adapter or the external system outside any transaction, and
records the answer in a third.  Agents are threads of the same process and
command the core through the same entrance.  A crash loses threads, adapter
records and dispatcher positions; rows, containers and the outside world
remain.

## 2. Modules

```
HibikiDomain      enums, transition tables, guards
  HibikiState     constants, variables, type, initial state, shared reads and row updates
    TaskControl   contracts, gates, pause/resume, cancel, acceptance
    Execution     plans, runs, workspaces, dispatchers, agents, crash, reconcile
    SideEffects   external actions
      HibikiCore  all of them interleaved: Next, Spec, LiveSpec
        HibikiProperties   the properties
          MCHibiki         the values of the constants for TLC
          TypeProofs       TypeOK
            RunProofs      workspaces and runs
              LockProofs   agents with shell commands; the core implements WorkspaceLock
                RestProofs tasks at rest and being stopped, cancellation
            EffectProofs   external actions
  Planner         planner sessions and contract deltas of one task
    MCPlanner     the values of its constants for TLC
    PlannerProofs its properties
  Delivery        plans, contents, results, evidence and acceptance of one task
    DeliveryLog   Delivery with its commands given through CommandLog; implements Once
      MCDelivery      the values of its constants for TLC
      DeliveryProofs  its properties and the refinement
WorkspaceLock     what a run is promised of its workspace
ExternalAction    what is promised of an external action
CommandLog        inbox and idempotency rows
Once              what a command log promises
WorkspacePaths    the walk of a file tool against a container that moves names
  ToolBroker      audit rows: ALLOW, DENY, outcomes
ShellSandbox      docker client, container, kill, probe
  ApiAgent        ToolBroker and ShellSandbox driven by the thread of one agent; stop()
    MCApiAgent    the values of its constants for TLC
    AgentProofs   its properties
```

The components share rows, so they share variables: each module is a group of
actions over `HibikiState`, and `HibikiCore` composes them by disjunction.

* **One handler, one action.**  Its guard is the conjunction of the handler's
  checks (anything that raises, and so rolls back, is a disabled action); its
  primed variables are all the rows the transaction writes.  `PauseTask` for
  instance includes `_invalidate_pending_outbox` and `_enqueue_stops_for_runs`.
* **Dispatchers.**  `startPc`, `stopPc` and `effPc` hold how far the thread that
  claimed a row has got: `ClaimStart`, `CheckStart`, `AdapterStart`, `AckStart`
  are the three transactions and the call of `_dispatch_outbox_item`.  One
  position per row is enough, because a row is claimed by one thread at a time.
* **Agents.**  `alive` is the adapter's record, `agentPc` the agent's place in a
  shell call or its exit, `revoked` the set of ids that may not start any more.
  `AdapterStop` either ends the agent or times out and reports it alive; both
  are possible whenever the agent is at a point where it looks at its stop
  event.
* **World.**  `stray` (containers nobody waits for), `sends` (calls the external
  system received) and `applied` (whether the action took place) are not read
  by the code, except through a container's exit and the provider's query.
* **Planner.**  A module of its own with its own variables: a PLAN run has no
  unit and no workspace, a planner reads and writes rows that no unit touches, and
  both together are beyond TLC.  Task control, the outbox and the adapter appear
  in it as in the core, cut down to what they do to a run without a workspace
  (which is less: `_task_has_live_writer` and `_runs_requiring_stop` see such a
  run only while it is live).  A planner's command carries the credential of a run
  (`who`, any run that ever was, or the human) and a generation of the caller's
  choice (`g`).  A contract is its version number, with the submission it goes back
  to (`root`) and the deltas merged into it since (`merged`).
* **Delivery.**  The part of a task that decides *what* is accepted, with the
  outbox cut down to one step per start and stop: which digests have their bytes
  in the store (`art`, `store`), what each run reported last (`result`; an agent may
  report again, after its run has ended too), the evidence
  rows with their sequence numbers, what a run was given to rely on (`inputs`), and
  the snapshot of the pending question (`snap`).  `PublishArtifact` writes the bytes
  and commits or rolls back its row; `SubmitResult`, `SubmitSupersededResult` and
  `SubmitLateResult` are the three ways through `_submit_result`; `validate_dag` is
  the depth-first search of `domain/plan.py`, written as a recursive function.
* **Command log.**  `Execute(m)` of `DeliveryLog` is `_execute_in_tx`: the inbox is
  asked, then the idempotency key, then the handler, all in one transaction with the
  two rows it stores.  `Hear` says whether the answer reached the caller or the
  process died after the commit.  A message can be delivered any number of times.
* **API agent.**  `pc` is the place of the thread of `_run_worker`, one step per call
  that leaves it.  The audit row, the walk (`fd`), the docker client and the container
  (`client`, `box`) are those of the call in progress; `leaked` says that a container of
  an earlier call still runs, `unconf` and `finished` are the two flags of the
  adapter's record that `stop()` reads, `told` is its answer.  The core appears as the
  run's status and the task's freeze, which change at any moment; the model as a
  choice of replies.  `late` counts what the agent did after a stop or a freeze.

Abstractions of the core, all of data: one task; a decision and its gate are one element of
`open`; contracts are version numbers; a plan is its nodes and dependency edges;
a run identity stands for an attempt, so `FreshRuns(u) = {}` means that the
attempts of a unit are used up; an acknowledged stop row is dropped; leases and
backoff delays are a choice ("may have expired"); the sizes of contexts, and
whether evidence covers the criteria, are left open, so the model allows more
than the code does; `revoke_epoch` rises exactly when `cancel_intent` is set
and is not kept apart; spec versions and fencing epochs of a unit stay at 1;
a verdict of BLOCKED counts as none.

## 3. Properties and passing runs

`TypeOK` is the type invariant.  The others are about:

| Property | What it says | Code it is about |
|---|---|---|
| `LiveRunOwnsWorkspace` | a CREATED or RUNNING run owns its workspace | dispatch, `_ack_stop`, `_clear_run_occupancy`, plan revision |
| `LiveAgentOwnsWorkspace` | so does an agent that runs or can still come up | `_invalidate_pending_outbox`, `_fence_claimed_agent_start` |
| `OneAgentPerWorkspace` | INV-07, at most one agent per workspace, for units without shell commands | the two above together |
| `OneWriterPerWorkspace` | INV-07 with shell commands: at most one agent of a workspace may write to it | the same, with `_register_sandbox_identity` and `_release_workspace_after_confirmed_exit` |
| `WorkspaceIsLocked` | the core implements `WorkspaceLock` | everything that gives, frees or keeps a workspace |
| `UnconfirmedShellKeepsWorkspace` | while the process is up, an unconfirmed container keeps its run's workspace | `_release_workspace_after_confirmed_exit` |
| `EndedRunsStayEnded` | INV-05, late facts do not change a run that has ended | `submit_result`, `_ack_stop`, `reconcile` |
| `RestIsQuiet`, `RestHasNoRunningUnit` | PAUSED, COMPLETED and ABORTED tasks have no live run, no RUNNING unit and no agent that may write | `_task_has_live_writer`, `_ack_stop` |
| `StopReachesEveryAgent` | a task being stopped has a stop on its way to every agent that may still write to its run's workspace | `_runs_requiring_stop`, `_ack_outbox_and_mark_running` |
| `CancelIsFinal` | only ABORTED follows CANCELLING | `TASK_TRANSITIONS` and every handler that applies an event |
| `AtMostOneSend`, `OutcomesAreTrue` | INV-09; what is recorded of an action is true | `_do_external_dispatch`, `_fail_outbox`, `_invalidate_pending_outbox`, `reconcile` |
| `ActionsAreSentOnce` | the core implements `ExternalAction` | the same; `_guard_side_effect_eligibility`, cancel |
| `PauseSettles`, `CancelSettles` | a pause and a cancellation come to their end | all dispatchers |
| `SessionBindsItsRun` | at most one valid PLAN run, named by the session and its marker, of the current generation | `_replace_planner_generation`, `_dispatch_planner_run`, `_clear_run_occupancy`, `_close_planner_session` |
| `SupersededPlannersAreSilent` | the credential of a planner that has ended, was replaced or lost its session proposes nothing and moves no cursor, whatever generation it names | `_assert_planner_write_auth` with all that changes the session |
| `AppliedDeltasAreInForce` | the active contract holds exactly the deltas applied since its submission | `apply_contract_delta`, `submit_contract` |
| `PendingContractIsNewest` | a contract that waits for approval is newer than the active one | the same, against a delta applied meanwhile |
| `SomeUnitCanGoFirst` | of any set of units of the active plan one waits for no other | `validate_dag` |
| `DeliveriesCanBeRead` | a recorded delivery, and every input of a run, has its bytes in the store | `_publish_artifact`, `_submit_result`, `_context_append`, `_build_context_manifest` |
| `PendingVerdictsStand` | while a human looks at a snapshot, every verdict in it is the last word of the selected runs of the active plan on its digest | `_prepare_acceptance`, `_supersede_pending_acceptance` against results, dispatches, reconcile and revisions |
| `AcceptedEvidenceStands` | a task completes only with its plan DONE and, for each criterion, a digest of which the last word of the plan's selected runs is that it passes | `_latest_criterion_evidence`, `_assert_acceptance_evidence`, `_resolve_decision` |
| `CommandsTakeEffectOnce` | the command log implements `Once` | `_execute_in_tx`, `_check_inbox`, `_check_idempotency` |
| `EffectsAreAllowed` | no effect before a committed ALLOW, none behind a DENY, file tools stay in the workspace | broker and `paths.py` |
| `ContainerIsClaimed`, `ToldGoneIsGone` | a container that may run is on record; "gone" means thread, start and container are over | `_dispatch_shell`, `execute`, `stop` |
| `StopTakesHold`, `FreezeTakesHold` | at most one step begins after a stop, one effect after a freeze | `_loop`, `_dispatch_tool`, `authorize` |
| `CallsAreCharged` | no model call before its charge | `_record_model_usage` |
| `HonestPass` | success is claimed only with outputs published and evidence offered | `_submit_result` of the adapter |
| `AgentEnds` | every thread comes to its end | `_loop`, `execute`, `stop` |

| Run | Instance | Why it is enough to be interesting |
|---|---|---|
| `agents` | two units sharing a workspace, one attempt each, two plans (the second drops the first unit), one run at a time, verification by one unit | the workspace changes hands between different runs while facts of the first are still arriving; 607,053 states |
| `effects` | two actions, with and without a provider query, two contracts, no units | two actions and the gates of both interact with acceptance; about 1.5 million states |
| `sessions` | two PLAN runs, two generations, a clarification gate, one contract | the second planner is dispatched while starts, stops and results of the first are under way, and the first goes on proposing plans and moving the cursor; about 1.3 million states |
| `deltas` | one PLAN run, two deltas, two contract versions, one posted message | both deltas on the same baseline, and either of them against a submission; about 1.2 million states |
| `shells` | one unit with a shell, two attempts, a gate, no crash (`LiveSpec`) | the agent of the first attempt is in a shell call, or ends one, while a gate, a stop or its own result has ended its run and the second attempt is dispatched; about 1.5 million states |
| `live` | one unit with a shell, one attempt, a gate, one model call, `LiveSpec` | shell calls overlapping a gate, a stop, a budget gate, and both ways of stopping a task; 37,219 states |
| `delivery` | a producer with two attempts and a verifier; four plans, one with a circle and one that `validate_dag` refuses for a missing pin; two contents, one of which nobody holds; two results per unit, each of which a run may report at any time and again; the verifier alone appends to its context (`Appending`); three messages, two under one key and two under one message id | a second attempt overtakes the first, a verifier contradicts the producer, a plan is revised and an agent reports again under a pending question; 426,202 states |
| `worker` | three run specs (publishes a file, has a shell, only verifies), one file, two tool calls per reply, up to three turns | every tool against a stop, a freeze, a container that moves names and every failure of docker; 483,084 states |

Bounds: `MaxContracts` (submitted versions), `MaxUsage` (recorded model calls)
and the sets of runs, clarifications and effects bound the exploration;
`MaxPlans`, `MaxActive` and `CallLimit` are limits of the code itself
(`max_plan_revisions`, `per_task_run_concurrency`, `model_call_limit`).  `sends`
counts to two, since a second transmission is all a property asks about.  In
`Planner`, `MaxVersions`, `MaxGen` and `MaxPosts` bound the contract versions,
the planner generations and the messages posted; two of each is the least that
lets something be superseded, and a third of any of them takes TLC beyond five
minutes.  In `Delivery`, `MaxPlans` is a limit of the code and `MaxDecisions` bounds the
questions asked (one: a second is the same question again); in `ApiAgent` the limits on
turns and calls are the run spec's and `MaxToolCalls` bounds one reply.  The proofs of
section 5 have no such bound.  No
run of the core uses symmetry: two attempts of a unit are not chosen
symmetrically, and units, effects and plans differ.  `sessions` permutes the runs
and `deltas` the deltas: `Planner` names none of them, and these runs check
invariants and an action property only.

Two attempts of one unit occur in `shells`, `delivery` and `badshellgate`.  `agents` has
crashes and no shell, `shells` has a shell, a gate and two attempts and no crash: with all
of them the instance takes TLC beyond five minutes.  The theorems of section 5 about the same
properties have crashes, gates, shells and attempts together.

`agents`, `effects`, `sessions`, `deltas` and `delivery` include `Crash` at any moment and
`Reconcile` afterwards.  `shells`, `live`, `delivery` and `worker` turn deadlock checking off: a
COMPLETED or ABORTED task, and an agent that has ended, may stop for good.

**Fairness** (`LiveSpec`, while the process stays up).  Weak fairness of the
start and stop steps: every command drains the outbox after its commit, so rows
are claimed, served and acknowledged as long as commands keep coming.  Strong
fairness of `AdapterStop`: a stop whose call failed goes back to PENDING and is
tried again, and the call does not fail for ever.  Weak fairness of `LeaveRun`,
`AgentExit`, `BeginShell` and of `EndShell` or `LoseShell`: the agent's loop is bounded
by a number of calls and by a wall clock, and a shell call by its time limit.  That
the agent ends is not only assumed: it is `AgentEnds` of the `worker` run.  Weak fairness of `RuntimeQuiescent`, `CancellationSettled(TRUE)` and
`ConfirmRunExit`: the operator asks for the state the task is being stopped
for, and confirms the exit of runs.  The last one is needed: when the bounded
wait of a stop ends just before the agent's own `confirm_run_exit`, that command
finds the stop row IN_FLIGHT and enqueues none, the stop is acknowledged as
"alive", and nobody reports the agent's end any more.  Without
`WF_vars(ConfirmRunExit(r))` TLC shows a pause that never settles.

`Spec` of `ApiAgent` has weak fairness of `AgentStep` alone: the thread is scheduled,
and each call that leaves it returns, because the model client, docker and the
grace period have time limits after which the call fails (a failure is one of the
outcomes of the step).  Nothing is assumed of the core, the container or whoever calls
`stop()`.

**Refinement.**  `WorkspaceLock` says what the core owes a run's workspace: one lock per
workspace, given to a run at most once; an agent begins to write only while its run holds
the lock (`Enter`), and the lock is freed or given on only while nobody writes (`Handover`).
The mapping reads the holder from the workspace's owner, the runs that were given one from
the runs that were dispatched, and who writes from `MayWrite`: an agent without shell
commands for as long as it is alive (more than the broker would serve), an agent with them while
its run is live (the broker refuses it otherwise) or while a shell call that was let
through may still have a container.  `MayWrite` is what INV-07 can mean for agents with
shell commands: that the thread of such an agent may outlive its hold on the workspace is
what `badshellgate` shows.

`ExternalAction` says what the core owes an external action: authorized, taken to be
sent, sent at most once (`Transmit`); given back or cancelled only while unsent, and a
cancelled action is never taken again; recorded outcomes are true (`Learn`).  TAKEN stands for
DISPATCHING and UNKNOWN, the states in which the call may have been made.  That `Learn` also
leads from a confirmed outcome back to TAKEN is what `badoutcome` shows of the code.

`Once` says what a command log owes its callers: under a key an
operation is done at most once (`Do`), and whoever is told of a success is told of that
one (`Tell`).  `DeliveryLog` implements it with the mapping that reads the effect of a
key from its idempotency row, the count from the successes of the handler and what was
told from what callers heard.  The assumption is that a message id repeated with the same
payload comes with the same key (`MessageAssumption`): the inbox compares a hash of
operation and payload that does not cover the key.

## 4. Where the code and its documents disagree

Each of these runs checks one sentence of a document or a comment, and ends in
a counterexample.  `PROJECT.json` quotes the sentence and names the line.

| Run | What the counterexample does |
|---|---|
| `badcontainer` | crash during a shell call; a stop before reconcile is answered "not alive" by the empty adapter, and `_ack_stop` frees the workspace under the container |
| `badshellgate` | a gate ends the run while its agent waits for a container; the container's exit frees the workspace and a second agent enters |
| `badoutcome` | `reconcile_side_effect` confirms SUCCEEDED, the late receipt overwrites it |
| `badlate` | a unit is DONE and its agent stopped, acceptance is prepared and a human asked; a second report of the agent arrives and replaces the selected result, whose digests are no longer those of the snapshot, and the question stands |

Other disagreements that can be followed in the model and have no run of their
own:

* A container left behind is forgotten when the next shell call of the same run
  ends well: `LoseShell`, then `BeginShell` and `EndShell`, clear the run's only
  flag (SPEC line 657).
* Rejecting the first contract puts the task in EXECUTING, where `contract.submitted` is
  refused, so that no contract can follow (`CloseGate`; SPEC line 195: it can be modified
  and submitted again).
* A quarantine is never lifted by a later confirmed stop of a run that has ended
  (`StopAckedWorkspace`; SPEC line 701).
* A rejected external action stays WAITING_APPROVAL without a gate (`CloseGate`;
  SPEC line 578).
* Acceptance looks for UNKNOWN actions and not for those being sent
  (`ApproveAcceptance`; SPEC line 297).
* A start claimed while the task is not dispatchable is dropped and its run stays
  CREATED (`ClaimStart`; SPEC line 698).
* A confirmed stop puts the unit of a task being cancelled back to PENDING
  (`StopAckedUnit`), and a plan may be activated in any state (`ActivatePlan`), so
  an ABORTED task may keep PENDING units (SPEC line 679).
* A lost run or an unknown action sends the task to WAITING_HUMAN with no decision
  to resolve (`Reconcile`, `ApplyUnknown`, `FailEffect`; SPEC line 293).
* A PLAN run that is CREATED and has no agent yet does not count as a live writer,
  and a delta proposal revokes no start: the delta is applied and the run then
  starts under the contract version it was created for (`ProposeDelta`,
  `ApplyContractDelta`, `ClaimStart`; SPEC line 254).
* A PLAN run whose start was dropped while the task waited stays CREATED, and
  `dispatch_planner_run` answers "already active" until the generation is replaced
  (`ClaimStart`, `DispatchPlannerRun`).
* The agent of a PLAN run that has ended is neither stopped nor waited for by pause
  and cancel (`StopTask`, `RuntimeQuiescent`; SPEC line 300).
* Reconcile is one transaction for all tasks: a lost run that must block its unit while
  its task is PAUSING or CANCELLING raises, and nothing of any task is reconciled
  (`Reconcile`, service.py 912).
* A decision that has expired is marked EXPIRED and the exception that follows rolls the
  mark back (1289), so it stays PENDING.
* `activate_plan` looks at no task state (1570): it is accepted on terminal tasks, and
  while an acceptance is pending it withdraws the question and leaves the task
  WAITING_HUMAN with nothing to decide (`_activate_plan` of `Delivery`).
* Acceptance reads digests and verdicts and never whether the content is held, although
  `list_unbacked_artifacts` (6083-6086) says that an unbacked hash "must not be treated
  as a delivery"; `DeliveriesCanBeRead` is about what units and runs rely on.
* `_submit_result` applies `run.completed` to the constant RUNNING (2806), whatever the
  unit is by now: a unit cancelled by a plan revision or by cancel becomes DONE when its
  agent's result arrives, although the comment at 1738 says that "terminal Work Units
  never revive" (`SubmitResult` of `Execution`; SPEC line 336).
* The question of `badlate` can then be answered: `_resolve_decision` looks at the evidence
  frozen in the snapshot and not at the digests delivered now (1458-1468), so the task may
  be COMPLETED on a digest that the selected results no longer name (`AcceptResult`).  What
  holds all the same is `AcceptedEvidenceStands`.
* `context_append` of a workspace reference takes the caller's hash for the digest that
  was read; a verifier's own `verified_artifact_refs` count as part of the current
  delivery (`_current_delivery_hashes`).
* `publish_artifact` says that the bytes are written before the transaction; the code
  writes them inside it, so that a rolled-back publication leaves the bytes
  (`PublishArtifact(r, c, FALSE)`), which is harmless.
* The broker writes no row for a duplicate sequence number: the refusal hits the same
  unique key ("Refusals are rows too", `broker.py`).
* A shell command with an empty argument passes `_sandbox_command` and raises in
  `_validate_command` after the claim: the run keeps an unconfirmed exit though no
  container ran (the second disjunct of `BeginShell`).
* One flag stands for all containers of a run (`leaked` in `ShellSandbox` is what it
  forgets), so `ContainerIsClaimed` and `ToldGoneIsGone` speak of the last one.
* `stop()` carried out by the agent's own thread with an unconfirmed container ends in a
  join of the thread with itself, which raises; the stop row is tried again
  (`ConfirmExit`).
* "Never submit a result after revocation" holds up to one step: `StopTakesHold`.
* A text that says COMPLETED and PASS while outputs are missing is submitted as BLOCKED
  with the verdict PASS; the core ignores the verdict of a blocked result.
* The composite adapter of `m2_runner.py` answers a stop of an unknown run with "missing"
  and revokes nothing.

## 5. Proofs

The proofs hold for every value of the constants that satisfies
`RunAssumption`, `PlanAssumption` and `GateAssumption` in `HibikiState`, and
`PlannerAssumption` in `Planner` (TLC evaluates them in every run): any number of units, runs, workspaces, gates and
effects.  They are safety proofs of `Spec`, crash and reconcile included.

* `TypeProofs`: `TypeCorrect`.  One lemma per group of actions; the lemmas about
  the row updates (`ReleaseBy`, `VacateBy`, `InvalidatedUnit`, ...) say that they
  return rows.
* `RunProofs`: that a live agent owns its workspace is not inductive.  Whether
  the workspace may be freed is decided from the outbox row and the adapter's
  record, whether an agent comes up from the dispatcher's place and the set of
  revoked ids.  `WorkspaceInv` adds what ties them together: a run
  that is live owns its workspace and the workspace says that it has a writer
  (`LiveRunHolds`), and so does an agent that runs or whose start was let through
  and not revoked (`ComingAgentHolds`); a PENDING start has never been handed to
  anybody (`PendingStartIsUnsent`); a run identity that was never dispatched has
  left no trace (`FreshRunIsUntouched`); only units with a shell grant are ever in
  a shell call (`NoShellWithoutGrant`); the adapter remembers a stop until it is
  acknowledged (`StopIsRemembered`).  From it follow `LiveRunsOwnWorkspaces`,
  `LiveAgentsOwnWorkspaces`, `SingleWriter` (for `ShellUnits = {}`: with shell
  grants the property is false, see `badshellgate`) and `EndedRuns`.
  `WorkspaceInv` was checked with TLC before it was proved.
* `EffectProofs`: `EffectInv` lists, for each place the dispatcher of an action
  can be in, which states, outbox rows and numbers of calls go with it.  The point
  is that an action that was sent, or that a dispatcher holds, is only DISPATCHING,
  UNKNOWN or settled and has no PENDING row, and that a dispatcher that has not
  called yet holds an action that was never sent.  `SentAtMostOnce` and `TrueOutcomes` are
  read off it; with it every step moves every action as `ExternalAction` allows (`Moves`),
  which gives `CoreImplementsActions`.
* `LockProofs`: for agents with shell commands holding the workspace is no
  matter of being alive, so `ShellInv` says when they do: while a shell call that was let
  through may have a container (`ShellHolds`), and whenever they still own the workspace
  (`ComingOwnerHolds`: the writer flag is down only when nobody comes).  To keep it, a
  run must be started once and call no shell before (`StartsOnce`, `NoShellBeforeStart`).
  The steps are split by who gives a workspace away: `Yields` lists the four ways to lose one
  (an unsent start is revoked, a stop is confirmed, the container of an ended run ends, a run
  is lost), every action keeps a held workspace or is one of them, and in none of the four
  is anybody left who may write.  With the converse, that only a first dispatch gives a
  workspace to a run, every step is a `Handover`, an `Enter` or a stutter of the lock
  (`CoreImplementsLock`); `UnconfirmedShells` and `SingleShellWriter` follow, for any set
  of shell units.
* `RestProofs`: `RestingTasksAreQuiet`, from `WorkspaceInv`, `ShellInv` and the fact that no
  start is on its way in a task at rest (`RestInv`).  `RestingUnits` needs that a unit
  that counts as RUNNING has a live run of its own (`UnitInv`), which holds because
  whatever ends a run frees, ends or blocks its unit in the same transaction.
  `StopsReachAgents`: the property speaks of agents that are up, but an agent can come up
  after the pause has looked; `StopInv` therefore covers those whose start was let
  through and not revoked, for whom the acknowledgement of the start enqueues the stop.
  `CancellationIsFinal` is by cases on
  the actions that write the task's state, with `cancelIntent` as the witness
  that a cancellation is under way.
* `PlannerProofs`: `PlannerInv`, with one lemma per group of actions, from which
  `PlannerTypeCorrect`, `OneValidPlanRun`, `SupersededRunsWriteNothing`,
  `ApprovedDeltasInForce` and `PendingIsNewest` follow.  The session half
  (`SessionInv`) is `SessionBindsItsRun` and that the run a session names was
  dispatched; the point of most steps is `NoLiveRun`: a marker on no live run means
  there is none.  The contract half (`ContractInv`) adds what
  the version numbers tell: a pending contract is a fresh submission with the last
  number (`PendingIsFresh`), a delta was written against a version that was active
  (`DeltasLookBack`), the active version is at most the last (`VersionsInOrder`).
  Without them applying a delta could reuse a number, and an APPLIED delta could
  count as part of a contract submitted after it.

* `AgentProofs`: `AgentInv` says what holds at each place of the agent's thread, for
  every set of run specs with natural limits (`AgentAssumption`) and every set of files.
  `ToolInv`, `LoopInv`: the counters have room wherever one is about to grow, and a
  model call is charged before it is made.  `CallInv`: between its ALLOW and its
  effect a call has done nothing, and what its walk holds open lies in the workspace.
  `BoxInv`: a client that may still have a container started has its claim on record;
  an agent that reported the end of its writes has none.  `LateInv`: after one late step
  the thread is on its way out, or at a call that the broker has still to decide; the
  property alone is not inductive, since it says nothing of where the thread is.
  `ResultInv`: a result is made once the loop is over.
* `DeliveryProofs`: for every finite set of units and runs, any plans, results and
  messages.  `LogInv` ties the inbox to the idempotency rows: what a message id remembers
  is a failure, or what its key remembers.  With it every step of the log is a `Do`, a
  `Tell` or a stutter (`LogImplementsOnce`).  `ReadInv`: a row is marked as backed only
  when its bytes are there, and nothing unmarks it.  `AcceptInv`: a run at work owns its
  unit's workspace, so while a question is open (nobody owns one) only results of runs that
  have ended can arrive.  Such a result may change the digests delivered, which is
  `badlate`, but writes no evidence and changes no unit, so that every frozen verdict still
  counts and is the last on its digest (`VerdictsStand`, and with it `AcceptanceStands`).
  `EvidenceIsNumbered`: only runs that have SUCCEEDED gave evidence, in the order in which
  they first reported, one row per criterion (`duplicate_evidence` in the code), so the
  newest applicable row exists and is the only one of its number.
  `PlansCanProceed` is the correctness of the search in `validate_dag`: that the
  recursive search is defined at all (the union of its approximations from below solves its
  equation), that a set of units that wait for each other has a smallest subset of that kind, in
  which everybody is waited for, and that the search can leave no node of it, since from a
  longest path it would have to go on.  Induction is replaced throughout by minimal
  elements (`WFMin` of the library).

The constants' assumptions (`DeliveryAssumption`, `MessageAssumption`,
`AnswerAssumption`) are evaluated by the runs that use them.

Only model-checked: the liveness properties `PauseSettles`, `CancelSettles` and
`AgentEnds`, which are out of TLAPS's reach.

## 6. Mutants

Every property of a passing run has a mutant: an operator marked `mutant` just
before the definition it stands in for (a guard dropped, an owner not compared,
an IN_FLIGHT row treated as unsent, a terminal run looked at again).  With the
mutant in place TLC finds the property violated.

## 7. Plan

1. Core: task control, execution, external actions, crash and reconcile.  Done.
2. `Planner`: sessions, PLAN runs, proposals, the message log and contract deltas.
   Done, without liveness of the planner's start.
3. `CommandLog`, `Once` and the refinement; `Delivery` with plan validation, contents,
   results, evidence, repair plans and acceptance.  Done and proved.
4. `ApiAgent` with `ToolBroker`, `WorkspacePaths` and `ShellSandbox`.  Done and proved,
   but for its liveness.
5. Proofs of the invariants of the core (`RestHasNoRunningUnit`, `StopReachesEveryAgent`,
   `UnconfirmedShellKeepsWorkspace`) and of the workspace lock.  Done.
6. `ExternalAction` and the proof that the core implements it.  Done.
7. The fencing epochs and spec versions of a unit in `Execution`.

## 8. Not modelled

* **Model client** (`runtime/openai_client.py`): HTTP.  In `ApiAgent` the model answers,
  fails or runs into its timeout.
* **Runners and command line** (`interfaces/`): they issue the commands of the modules
  above in some order; here any command may come at any time.
* **Strings**: the parsing of path names, the path mode for systems without directory
  descriptors (`_path_resolve`), prompts, tool schemas, follow-up messages, the docker
  command line and mounts.  `Walk` and `_validate` keep their outcomes.
* **`workspace.py`**: creates the directories of a workspace before a run starts.
* **Who may give a command** (actors, principals, bound runs, credentials of the
  broker); what a contract or a delta says; the caps on concurrent PLAN runs, the byte
  budget of a context and the ceiling of model calls over several runs at their exact
  limits, which are choices in the model.
* **Persistence**: schema, migrations, the instance lock; `heartbeat` (renews a lease),
  `set_writer_alive` (no caller) and `request_spawn` (always refuses).
* **Compositions**: work units and PLAN runs, and the agent of `ApiAgent` inside
  `Execution`, are not composed; together they are beyond TLC.  `Execution` sees the agent as
  working, in a shell call or gone, and relies on what `AgentEnds` and `ToldGoneIsGone`
  show.
