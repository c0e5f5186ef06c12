-------------------------- MODULE HibikiProperties --------------------------
(***************************************************************************)
(* What the orchestrator core promises about one task.  The INV numbers    *)
(* are those of the table in HIBIKI_MVP_SPEC_v0.2.1.md, section 1.1.       *)
(***************************************************************************)
EXTENDS HibikiCore

-----------------------------------------------------------------------------
(* Workspaces and agents (INV-07)                                          *)

\* A run that the database counts as CREATED or RUNNING owns its workspace, so
\* two live runs never share one: dispatch, stop acknowledgement, pause,
\* revocation, plan revision and reconcile hand workspaces over in step with
\* the runs' statuses.
LiveRunOwnsWorkspace == \A r \in Runs : run[r] \in ACTIVE_RUN => Owned(r)

\* An agent without shell commands that is running, or whose start has passed
\* the last check and was not revoked, still owns its workspace: no pause,
\* cancel, gate, plan revision, late stop or crash hands the workspace of a live
\* or still coming agent to another run.
LiveAgentOwnsWorkspace ==
    \A r \in Runs : /\ UnitOf[r] \notin ShellUnits
                    /\ alive[r] \/ (startPc[r] = "allowed" /\ ~revoked[r])
                    => Owned(r)

\* INV-07: two agents never write to one workspace at the same time.
OneAgentPerWorkspace ==
    \A r, s \in Runs : /\ alive[r] /\ alive[s]
                       /\ WorkspaceOfRun(r) = WorkspaceOfRun(s)
                       => r = s

\* An agent whose last container is not known to have ended keeps its workspace,
\* whatever happens to its run.  (After a crash the agent is gone: the property
\* says nothing of the container that a dead core process left behind.)
UnconfirmedShellKeepsWorkspace == \A r \in Runs : alive[r] /\ unconf[r] => Owned(r)

\* An agent that may write: always without shell commands; with them while its
\* run is live (the broker serves no other), or from the moment a shell call is
\* let through until its container is known to have ended.
InShell(r) == unconf[r] \/ agentPc[r] \in {"authorized", "shell", "exited"}
MayWrite(r) ==
    alive[r] /\ (UnitOf[r] \notin ShellUnits \/ run[r] \in ACTIVE_RUN \/ InShell(r))

\* INV-07 with shell commands: the agents of runs that were superseded may live
\* on, but only one of a workspace's agents may write to it.
OneWriterPerWorkspace ==
    \A r, s \in Runs : /\ MayWrite(r) /\ MayWrite(s)
                       /\ WorkspaceOfRun(r) = WorkspaceOfRun(s)
                       => r = s

\* dispatch_ready_runs, the releases of a workspace and the agents' starts
\* implement a lock: whatever is paused, revoked, lost, crashed or reconciled, an
\* agent starts writing only in a workspace that its run owns, a workspace changes
\* hands only while nobody writes to it, and a run that lost its workspace never
\* gets it back.
Lock ==
    INSTANCE WorkspaceLock WITH
        Home <- [r \in Runs |-> WorkspaceOfRun(r)], Nobody <- NoRun,
        holder <- [w \in Workspaces |-> ws[w].owner],
        dispatched <- {r \in Runs : run[r] # "NONE"},
        writing <- {r \in Runs : MayWrite(r)}
WorkspaceIsLocked == Lock!LockSpec

-----------------------------------------------------------------------------
(* Runs and work units (INV-05, SPEC 8.1)                                  *)

\* INV-05: a run that ended stays as it ended, whatever result, stop
\* acknowledgement, gate or reconcile arrives afterwards.
EndedRunsStayEnded ==
    [][\A r \in Runs : run[r] \in TERMINAL_RUN => run'[r] = run[r]]_vars

-----------------------------------------------------------------------------
(* Pause, cancellation and completion (SPEC 7.2, 18)                       *)

\* A task at rest has no live run and nobody who may write to its workspaces:
\* PAUSED, COMPLETED and ABORTED are reached only when every agent is gone, or is
\* served no command any more, and none can come back through a start that was on
\* its way.
RestIsQuiet ==
    state \in {"PAUSED", "COMPLETED", "ABORTED"} =>
        \A r \in Runs : ~MayWrite(r) /\ run[r] \notin ACTIVE_RUN

\* Nor does a task at rest have a unit that counts as RUNNING: stopping a run,
\* revoking its start, or losing it frees or ends its unit.
RestHasNoRunningUnit ==
    state \in {"PAUSED", "COMPLETED", "ABORTED"} => \A u \in Units : wu[u].status # "RUNNING"

\* Until it is at rest, a task that is being stopped has a stop on its way to
\* every agent that can still write to a workspace of its run, or has given up on
\* the agent and quarantined the workspace: also to an agent that came up after
\* the pause had looked, or that delivered its result and lives on.
StopReachesEveryAgent ==
    state \in {"PAUSING", "CANCELLING"} =>
        \A r \in Runs : alive[r] /\ (UnitOf[r] \notin ShellUnits \/ Owned(r)) =>
            \/ stop[r] \in LIVE_OUTBOX
            \/ ws[WorkspaceOfRun(r)].state = "QUARANTINED"

\* A pause comes to its end: no start, stop or agent that was on its way when
\* pause_task committed keeps runtime_quiescent from being accepted for ever,
\* except for an agent whose container is not known to have ended, which only a
\* restart and reconcile can settle.
PauseSettles == state = "PAUSING" ~> state # "PAUSING" \/ \E r \in Runs : unconf[r]

\* So does a cancellation.
CancelSettles == state = "CANCELLING" ~> state = "ABORTED" \/ \E r \in Runs : unconf[r]

\* A cancelled task never leaves CANCELLING except for ABORTED, and terminal
\* states are final.
CancelIsFinal ==
    [][/\ state = "CANCELLING" => state' \in {"CANCELLING", "ABORTED"}
       /\ state \in TERMINAL_TASK_STATES => state' = state]_vars

-----------------------------------------------------------------------------
(* External actions (INV-09, SPEC 14)                                      *)

\* INV-09: an external action is transmitted at most once, however often it is
\* paused, gated, reclaimed after a crash or dispatched again.
AtMostOneSend == \A e \in Effects : sends[e] <= 1

\* What the database says of an action is true of the outside world: an action
\* that is waiting, authorized or cancelled was never transmitted, a succeeded
\* one took place and a failed one did not.
OutcomesAreTrue ==
    \A e \in Effects :
        /\ sends[e] > 0 =>
             eff[e] \in {"DISPATCHING", "UNKNOWN", "SUCCEEDED", "FAILED_CONFIRMED"}
        /\ eff[e] = "SUCCEEDED" => applied[e]
        /\ eff[e] = "FAILED_CONFIRMED" => ~applied[e]

\* The side_effects rows, their outbox rows and dispatchers implement an action
\* that is sent once: nothing is sent without an authorization, an action goes back
\* to AUTHORIZED or is cancelled only while it was not sent, and a cancelled one
\* is never sent, whatever pauses, gates, crashes and reconciles come in between.
\* (A confirmed outcome may fall back into doubt: see ConfirmedOutcomeStands.)
Action ==
    INSTANCE ExternalAction WITH
        Actions <- Effects,
        record <- [e \in Effects |-> IF eff[e] \in {"DISPATCHING", "UNKNOWN"} THEN "TAKEN"
                                     ELSE eff[e]],
        happened <- applied
ActionsAreSentOnce == Action!ActionSpec

-----------------------------------------------------------------------------
(* What the documents say and the code does not keep.  Each of these is    *)
(* the property of a run that ends in a counterexample.                    *)

\* service.py, reconcile: "Never release a workspace while a sandbox exit is
\* unconfirmed."  A container that still runs writes to a workspace that its
\* run owns.
ContainerHoldsWorkspace ==
    \A r \in Runs : stray[r] \/ agentPc[r] = "shell" => Owned(r)

\* transitions.py: no event leads out of SUCCEEDED or FAILED_CONFIRMED.
ConfirmedOutcomeStands ==
    [][\A e \in Effects : eff[e] \in {"SUCCEEDED", "FAILED_CONFIRMED"} => eff'[e] = eff[e]]_vars
=============================================================================
