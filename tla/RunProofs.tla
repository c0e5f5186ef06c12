------------------------------ MODULE RunProofs -----------------------------
(***************************************************************************)
(* Workspaces have one writer: live runs and live agents own their         *)
(* workspaces, and runs that ended stay ended.                             *)
(***************************************************************************)
EXTENDS TypeProofs

\* Ownership with the writer flag, the form in which dispatch_ready_runs and
\* runtime_quiescent look at it.
Holds(r) == Owned(r) /\ ws[WorkspaceOfRun(r)].writer

\* The agent runs, or the adapter is about to be called for it.
Coming(r) == alive[r] \/ (startPc[r] = "allowed" /\ ~revoked[r])

LiveRunHolds == \A r \in Runs : run[r] \in ACTIVE_RUN => Holds(r)
ComingAgentHolds == \A r \in Runs : UnitOf[r] \notin ShellUnits /\ Coming(r) => Holds(r)
\* A start that waits in the outbox has not been given to anybody.
PendingStartIsUnsent == \A r \in Runs : start[r] = "PENDING" => startPc[r] = "idle" /\ ~alive[r]
\* An attempt that was not made has left no trace.
FreshRunIsUntouched ==
    \A r \in Runs : run[r] = "NONE" => start[r] = "NONE" /\ startPc[r] = "idle" /\ ~alive[r]
NoShellWithoutGrant ==
    \A r \in Runs : UnitOf[r] \notin ShellUnits => agentPc[r] \notin {"authorized", "shell", "exited"}
\* The adapter refuses starts of a run whose stop it was given.
StopIsRemembered ==
    \A r \in Runs : /\ stopPc[r] \in {"stopped", "alive"} => revoked[r]
                    /\ stopPc[r] = "stopped" => ~alive[r]

WorkspaceInv ==
    /\ TypeOK
    /\ LiveRunHolds
    /\ ComingAgentHolds
    /\ PendingStartIsUnsent
    /\ FreshRunIsUntouched
    /\ NoShellWithoutGrant
    /\ StopIsRemembered

-----------------------------------------------------------------------------
(* Who keeps a workspace when rows are released.                           *)

LEMMA ReleaseKeeps ==
    ASSUME NEW x, NEW R, x.owner \notin R
    PROVE  ReleaseBy(x, R) = x
BY DEF ReleaseBy

LEMMA KeepKeeps ==
    ASSUME NEW x \in WorkspaceRecords, NEW R
    PROVE  KeepBy(x, R).owner = x.owner /\ (x.writer => KeepBy(x, R).writer)
BY DEF KeepBy, WorkspaceRecords

LEMMA RunWorkspace == ASSUME NEW r \in Runs PROVE WorkspaceOfRun(r) \in Workspaces
BY RunAssumption DEF WorkspaceOfRun

\* Pause, cancel and gates take the workspace of no other run than the revoked.
LEMMA InvalidateHolds ==
    ASSUME TypeOK, ws' = [w \in Workspaces |-> InvalidatedWorkspace(ws[w])],
           NEW r \in Runs, r \notin RevokedRuns, Holds(r)
    PROVE  Holds(r)'
<1> DEFINE w == WorkspaceOfRun(r)
           x == ws[w]
<1>1. w \in Workspaces /\ x \in WorkspaceRecords
  BY RunWorkspace DEF TypeOK
<1>2. x.owner = r /\ x.writer
  BY DEF Holds, Owned
<1> HIDE DEF x
<1>3. ReleaseBy(x, RevokedRuns) = x
  BY <1>2, ReleaseKeeps
<1>4. InvalidatedWorkspace(x).owner = r /\ InvalidatedWorkspace(x).writer
  BY <1>1, <1>2, <1>3, KeepKeeps DEF InvalidatedWorkspace
<1> QED
  BY <1>1, <1>4 DEF Holds, Owned, x

\* A revoked start was never on its way to the adapter.
LEMMA RevokedIsNotComing ==
    ASSUME WorkspaceInv, NEW r \in RevokedRuns
    PROVE  r \in Runs /\ run[r] = "CREATED" /\ ~Coming(r)
BY DEF WorkspaceInv, PendingStartIsUnsent, RevokedRuns, UnsentStarts, Coming

\* An action that writes neither the rows of runs and workspaces nor the
\* positions of starts and agents.
LEMMA Untouched ==
    ASSUME WorkspaceInv, TypeOK',
           UNCHANGED <<run, ws, start, startPc, stopPc, alive, revoked, agentPc>>
    PROVE  WorkspaceInv'
BY DEF WorkspaceInv, LiveRunHolds, ComingAgentHolds, PendingStartIsUnsent, FreshRunIsUntouched,
       NoShellWithoutGrant, StopIsRemembered, Holds, Owned, Coming

\* The shape of pause_task, cancel_task and open_blocking_gate.
LEMMA InvalidatePreserves ==
    ASSUME WorkspaceInv, TypeOK',
           ws' = [w \in Workspaces |-> InvalidatedWorkspace(ws[w])],
           start' = InvalidatedStarts,
           \A r \in Runs : /\ run'[r] = "NONE" <=> run[r] = "NONE"
                           /\ run'[r] \in ACTIVE_RUN =>
                                run[r] \in ACTIVE_RUN /\ r \notin RevokedRuns,
           UNCHANGED <<startPc, stopPc, alive, revoked, agentPc>>
    PROVE  WorkspaceInv'
<1>1. TypeOK
  BY DEF WorkspaceInv
<1>2. LiveRunHolds'
  BY <1>1, InvalidateHolds DEF WorkspaceInv, LiveRunHolds
<1>3. ComingAgentHolds'
  <2> SUFFICES ASSUME NEW r \in Runs, UnitOf[r] \notin ShellUnits, Coming(r)' PROVE Holds(r)'
    BY DEF ComingAgentHolds
  <2>1. Coming(r)
    BY DEF Coming
  <2>2. Holds(r) /\ r \notin RevokedRuns
    BY <2>1, RevokedIsNotComing DEF WorkspaceInv, ComingAgentHolds
  <2> QED
    BY <1>1, <2>2, InvalidateHolds
<1>4. PendingStartIsUnsent' /\ FreshRunIsUntouched'
  BY DEF WorkspaceInv, PendingStartIsUnsent, FreshRunIsUntouched, InvalidatedStarts, UnsentStarts,
         UncertainStarts
<1>5. NoShellWithoutGrant' /\ StopIsRemembered'
  BY DEF WorkspaceInv, NoShellWithoutGrant, StopIsRemembered
<1> QED
  BY <1>2, <1>3, <1>4, <1>5 DEF WorkspaceInv

\* dispatch_ready_runs makes attempts that were not made before, in workspaces
\* that were ready.
LEMMA DispatchedAreFresh ==
    ASSUME NEW S \in SUBSET Units, NEW X, NEW O, DispatchReadyRuns(S, X, O),
           NEW r \in {FreshRun(u) : u \in S}
    PROVE  /\ r \in Runs /\ run[r] = "NONE" /\ UnitOf[r] \in S /\ r = FreshRun(UnitOf[r])
           /\ Ready(UnitOf[r])
<1>1. PICK u \in S : r = FreshRun(u)
  OBVIOUS
<1>2. FreshRuns(u) # {} /\ Ready(u)
  BY DEF DispatchReadyRuns
<1>3. FreshRun(u) \in FreshRuns(u)
  BY <1>2 DEF FreshRun
<1> QED
  BY <1>1, <1>2, <1>3 DEF FreshRuns

-----------------------------------------------------------------------------
LEMMA WorkspaceInit == Init => WorkspaceInv
<1> SUFFICES ASSUME Init PROVE WorkspaceInv
  OBVIOUS
<1>1. TypeOK
  BY InitType
<1>2. LiveRunHolds /\ ComingAgentHolds
  BY DEF Init, LiveRunHolds, ComingAgentHolds, Coming, ACTIVE_RUN
<1>3. PendingStartIsUnsent /\ FreshRunIsUntouched /\ NoShellWithoutGrant /\ StopIsRemembered
  BY DEF Init, PendingStartIsUnsent, FreshRunIsUntouched, NoShellWithoutGrant, StopIsRemembered
<1> QED
  BY <1>1, <1>2, <1>3 DEF WorkspaceInv

LEMMA WorkspaceCommand == WorkspaceInv /\ Command => WorkspaceInv'
<1> SUFFICES ASSUME WorkspaceInv, Command PROVE WorkspaceInv'
  OBVIOUS
<1>type. TypeOK /\ TypeOK'
  BY CommandType DEF WorkspaceInv
<1> USE DEF taskVars, decisionVars, planVars, execVars, agentOutbox, effectRows, dispatchers,
        adapterVars, worldVars
<1>1. CASE \/ SubmitContract \/ ApproveContract \/ ResumeTask \/ PrepareAcceptance
           \/ ApproveAcceptance \/ DispatchOverBudget
           \/ \E g \in Gates : CloseGate(g)
           \/ \E e \in Effects : ApproveSideEffect(e)
  BY <1>1, <1>type, Untouched DEF SubmitContract, ApproveContract, ResumeTask, PrepareAcceptance,
              ApproveAcceptance, DispatchOverBudget, CloseGate, ApproveSideEffect
<1>2. ASSUME NEW g \in Clarifications, NEW q \in Runs \cup {NoRun}, OpenBlockingGate(g, q)
      PROVE  WorkspaceInv'
  <2>1. \A r \in Runs : /\ run'[r] = "NONE" <=> run[r] = "NONE"
                        /\ run'[r] \in ACTIVE_RUN =>
                             run[r] \in ACTIVE_RUN /\ r \notin RevokedRuns
    BY <1>2 DEF OpenBlockingGate, InvalidatedRun, RevokedRuns, ACTIVE_RUN
  <2> QED
    BY <1>2, <1>type, <2>1, InvalidatePreserves DEF OpenBlockingGate
<1>3. ASSUME PauseTask \/ CancelTask PROVE WorkspaceInv'
  <2>1. \A r \in Runs : /\ run'[r] = "NONE" <=> run[r] = "NONE"
                        /\ run'[r] \in ACTIVE_RUN =>
                             run[r] \in ACTIVE_RUN /\ r \notin RevokedRuns
    BY <1>3 DEF PauseTask, CancelTask, InvalidatedRun, RevokedRuns, ACTIVE_RUN
  <2> QED
    BY <1>3, <1>type, <2>1, InvalidatePreserves DEF PauseTask, CancelTask
<1>4. CASE RuntimeQuiescent
  <2>1. LiveRunHolds'
    BY <1>4 DEF RuntimeQuiescent, LiveRunHolds, ActiveRuns, ACTIVE_RUN
  <2>2. ComingAgentHolds'
    <3> SUFFICES ASSUME NEW r \in Runs, UnitOf[r] \notin ShellUnits, Coming(r)'
                 PROVE  FALSE
      BY DEF ComingAgentHolds
    <3>1. Holds(r)
      BY <1>4 DEF RuntimeQuiescent, Coming, WorkspaceInv, ComingAgentHolds
    <3> QED
      BY <1>4, <3>1 DEF RuntimeQuiescent, _task_has_live_writer, Holds
  <2>3. FreshRunIsUntouched'
    BY <1>4 DEF RuntimeQuiescent, FreshRunIsUntouched, WorkspaceInv, ActiveRuns, ACTIVE_RUN
  <2>4. PendingStartIsUnsent' /\ NoShellWithoutGrant' /\ StopIsRemembered'
    BY <1>4 DEF RuntimeQuiescent, WorkspaceInv, PendingStartIsUnsent, NoShellWithoutGrant,
                StopIsRemembered
  <2> QED
    BY <1>type, <2>1, <2>2, <2>3, <2>4 DEF WorkspaceInv
<1>5. ASSUME NEW accept \in BOOLEAN, CancellationSettled(accept) PROVE WorkspaceInv'
  <2>1. LiveRunHolds' /\ FreshRunIsUntouched'
    BY <1>5 DEF CancellationSettled, LiveRunHolds, FreshRunIsUntouched, WorkspaceInv, ActiveRuns,
                ACTIVE_RUN
  <2>2. /\ ComingAgentHolds' /\ PendingStartIsUnsent' /\ NoShellWithoutGrant'
        /\ StopIsRemembered'
    BY <1>5 DEF CancellationSettled, WorkspaceInv, ComingAgentHolds, Coming, Holds, Owned,
                PendingStartIsUnsent, NoShellWithoutGrant, StopIsRemembered
  <2> QED
    BY <1>type, <2>1, <2>2 DEF WorkspaceInv
<1>6. ASSUME NEW p \in Plans, ActivatePlan(p) PROVE WorkspaceInv'
  <2>1. \A r \in TornUnsent(p) : run'[r] = "CANCELLED" /\ ~Coming(r)
    BY <1>6 DEF ActivatePlan, TornUnsent, TornRuns, ActiveRuns, Coming, WorkspaceInv,
                PendingStartIsUnsent
  <2>2. \A r \in Runs : r \notin TornUnsent(p) /\ Holds(r) => Holds(r)'
    BY <1>6, ReleaseKeeps, RunWorkspace DEF ActivatePlan, Holds, Owned
  <2>3. LiveRunHolds'
    BY <1>6, <2>1, <2>2 DEF ActivatePlan, LiveRunHolds, WorkspaceInv, ACTIVE_RUN
  <2>4. ComingAgentHolds'
    BY <1>6, <2>1, <2>2 DEF ActivatePlan, ComingAgentHolds, Coming, WorkspaceInv
  <2>5. PendingStartIsUnsent' /\ FreshRunIsUntouched'
    BY <1>6 DEF ActivatePlan, WorkspaceInv, PendingStartIsUnsent, FreshRunIsUntouched,
                TornUnsent, TornRuns, ActiveRuns
  <2>6. NoShellWithoutGrant' /\ StopIsRemembered'
    BY <1>6 DEF ActivatePlan, WorkspaceInv, NoShellWithoutGrant, StopIsRemembered
  <2> QED
    BY <1>type, <2>3, <2>4, <2>5, <2>6 DEF WorkspaceInv
<1>7. ASSUME NEW S \in SUBSET Units, NEW X \in SUBSET Units, NEW O \in SUBSET Units,
             DispatchReadyRuns(S, X, O)
      PROVE  WorkspaceInv'
  <2> DEFINE New == {FreshRun(u) : u \in S}
  <2>1. \A u \in S : FreshRun(u) \in Runs /\ UnitOf[FreshRun(u)] = u /\ run[FreshRun(u)] = "NONE"
    <3> SUFFICES ASSUME NEW u \in S PROVE FreshRun(u) \in FreshRuns(u)
      BY DEF FreshRuns
    <3>1. FreshRuns(u) # {}
      BY <1>7 DEF DispatchReadyRuns
    <3> QED
      BY <3>1 DEF FreshRun
  <2>2. /\ New \subseteq Runs
        /\ \A r \in New : UnitOf[r] \in S /\ run[r] = "NONE" /\ r = FreshRun(UnitOf[r])
    BY <2>1
  <2>3. /\ run' = [r \in Runs |-> IF r \in New THEN "CREATED" ELSE run[r]]
        /\ start' = [r \in Runs |-> IF r \in New THEN "PENDING" ELSE start[r]]
        /\ ws' = [w \in Workspaces |->
                    IF \E r \in New : WorkspaceOfRun(r) = w
                    THEN [state |-> "LOCKED", writer |-> TRUE,
                          owner |-> CHOOSE r \in New : WorkspaceOfRun(r) = w]
                    ELSE ws[w]]
        /\ UNCHANGED <<startPc, stopPc, alive, revoked, agentPc>>
    BY <1>7 DEF DispatchReadyRuns
  <2> HIDE DEF New
  \* No two units of S share a workspace, so every new run gets its own.
  <2>4. \A r, s \in New : WorkspaceOfRun(r) = WorkspaceOfRun(s) => r = s
    <3> SUFFICES ASSUME NEW r \in New, NEW s \in New, WorkspaceOfRun(r) = WorkspaceOfRun(s)
                 PROVE  UnitOf[r] = UnitOf[s]
      BY <2>2
    <3> QED
      BY <1>7, <2>2 DEF DispatchReadyRuns, WorkspaceOfRun
  <2>5. \A r \in New : Holds(r)'
    <3> SUFFICES ASSUME NEW r \in New PROVE Holds(r)'
      OBVIOUS
    <3> DEFINE w == WorkspaceOfRun(r)
    <3>1. w \in Workspaces
      BY <2>2, RunWorkspace
    <3>2. (CHOOSE q \in New : WorkspaceOfRun(q) = w) = r
      BY <2>4
    <3> QED
      BY <2>3, <3>1, <3>2 DEF Holds, Owned
  \* The workspace of a run that holds one is not ready for another.
  <2>6. \A r \in Runs : Holds(r) => Holds(r)'
    <3> SUFFICES ASSUME NEW r \in Runs, Holds(r),
                        NEW q \in New, WorkspaceOfRun(q) = WorkspaceOfRun(r)
                 PROVE  FALSE
      BY <2>3, RunWorkspace DEF Holds, Owned
    <3>1. Ready(UnitOf[q])
      BY <1>7, <2>2 DEF DispatchReadyRuns
    <3> QED
      BY <3>1, RunAssumption DEF Ready, Holds, Owned, WorkspaceOfRun
  <2>7. LiveRunHolds'
    BY <2>3, <2>5, <2>6 DEF LiveRunHolds, WorkspaceInv
  <2>8. ComingAgentHolds'
    BY <2>3, <2>6 DEF ComingAgentHolds, Coming, WorkspaceInv
  <2>9. PendingStartIsUnsent' /\ FreshRunIsUntouched'
    BY <2>2, <2>3 DEF WorkspaceInv, PendingStartIsUnsent, FreshRunIsUntouched
  <2>10. NoShellWithoutGrant' /\ StopIsRemembered'
    BY <2>3 DEF WorkspaceInv, NoShellWithoutGrant, StopIsRemembered
  <2> QED
    BY <1>type, <2>7, <2>8, <2>9, <2>10 DEF WorkspaceInv
<1>8. ASSUME NEW r \in Runs, ConfirmRunExit(r) PROVE WorkspaceInv'
  <2>1. PendingStartIsUnsent' /\ FreshRunIsUntouched'
    BY <1>8, <1>type DEF ConfirmRunExit, _confirm_run_exit, WorkspaceInv, PendingStartIsUnsent,
                FreshRunIsUntouched, LIVE_OUTBOX, TypeOK
  <2>2. LiveRunHolds' /\ ComingAgentHolds' /\ NoShellWithoutGrant' /\ StopIsRemembered'
    BY <1>8 DEF ConfirmRunExit, _confirm_run_exit, WorkspaceInv, LiveRunHolds, ComingAgentHolds,
                Coming, Holds, Owned, NoShellWithoutGrant, StopIsRemembered
  <2> QED
    BY <1>type, <2>1, <2>2 DEF WorkspaceInv
<1> QED
  BY <1>1, <1>2, <1>3, <1>4, <1>5, <1>6, <1>7, <1>8 DEF Command

LEMMA WorkspaceAgent == ASSUME NEW r \in Runs PROVE WorkspaceInv /\ AgentStep(r) => WorkspaceInv'
<1> SUFFICES ASSUME WorkspaceInv, AgentStep(r) PROVE WorkspaceInv'
  OBVIOUS
<1>type. TypeOK /\ TypeOK'
  BY AgentType DEF WorkspaceInv
<1> USE DEF taskVars, decisionVars, planVars, execVars, agentOutbox, effectRows, dispatchers,
        adapterVars, worldVars
<1>w. WorkspaceOfRun(r) \in Workspaces
  BY RunWorkspace
<1>1. CASE RecordModelUsage(r)
  BY <1>1, <1>type, Untouched DEF RecordModelUsage
<1>2. ASSUME NEW outcome \in {"COMPLETED", "BLOCKED"}, NEW verdict \in Verdicts,
             SubmitResult(r, outcome, verdict)
      PROVE  WorkspaceInv'
  <2>1. LiveRunHolds' /\ FreshRunIsUntouched'
    BY <1>2, <1>type DEF SubmitResult, WorkspaceInv, LiveRunHolds, FreshRunIsUntouched, Holds,
                Owned, ACTIVE_RUN, TypeOK
  <2>2. /\ ComingAgentHolds' /\ PendingStartIsUnsent' /\ NoShellWithoutGrant'
        /\ StopIsRemembered'
    BY <1>2 DEF SubmitResult, WorkspaceInv, ComingAgentHolds, Coming, Holds, Owned,
                PendingStartIsUnsent, NoShellWithoutGrant, StopIsRemembered
  <2> QED
    BY <1>type, <2>1, <2>2 DEF WorkspaceInv
\* Shell commands move agentPc and the writer flag; only a confirmed exit of an
\* ended run gives the workspace away.
<1>3. ASSUME UNCHANGED <<run, start, startPc, stopPc, alive, revoked>>,
             \A q \in Runs : Holds(q) => Holds(q)' \/ (q = r /\ run[r] \in TERMINAL_RUN
                                                            /\ UnitOf[r] \in ShellUnits),
             NoShellWithoutGrant'
      PROVE  WorkspaceInv'
  <2>1. LiveRunHolds' /\ ComingAgentHolds'
    BY <1>3 DEF WorkspaceInv, LiveRunHolds, ComingAgentHolds, Coming, ACTIVE_RUN, TERMINAL_RUN
  <2>2. PendingStartIsUnsent' /\ FreshRunIsUntouched' /\ StopIsRemembered'
    BY <1>3 DEF WorkspaceInv, PendingStartIsUnsent, FreshRunIsUntouched, StopIsRemembered
  <2> QED
    BY <1>3, <1>type, <2>1, <2>2 DEF WorkspaceInv
<1>4. CASE AuthorizeShell(r)
  <2>1. \A q \in Runs : Holds(q) => Holds(q)'
    BY <1>4 DEF AuthorizeShell, Holds, Owned
  <2>2. NoShellWithoutGrant'
    BY <1>4, <1>type DEF AuthorizeShell, NoShellWithoutGrant, WorkspaceInv, TypeOK
  <2> QED
    BY <1>3, <1>4, <2>1, <2>2 DEF AuthorizeShell
<1>5. \A q \in Runs : /\ ws' = [ws EXCEPT ![WorkspaceOfRun(r)].writer = TRUE]
                      /\ Holds(q)
                      => Holds(q)'
  BY <1>type, <1>w, RunWorkspace DEF Holds, Owned, TypeOK, WorkspaceRecords
<1>6. CASE BeginShell(r)
  <2>1. NoShellWithoutGrant'
    BY <1>6, <1>type DEF BeginShell, NoShellWithoutGrant, WorkspaceInv, TypeOK
  <2> QED
    BY <1>3, <1>5, <1>6, <2>1 DEF BeginShell
<1>7. CASE EndShell(r)
  <2>1. UnitOf[r] \in ShellUnits
    BY <1>7 DEF EndShell, WorkspaceInv, NoShellWithoutGrant
  <2>2. \A q \in Runs : Holds(q) => Holds(q)' \/ (q = r /\ run[r] \in TERMINAL_RUN)
    BY <1>7, <1>type, <1>w, RunWorkspace DEF EndShell, Holds, Owned,
                _release_workspace_after_confirmed_exit, TypeOK
  <2>3. NoShellWithoutGrant'
    BY <1>7, <1>type DEF EndShell, NoShellWithoutGrant, WorkspaceInv, TypeOK
  <2> QED
    BY <1>3, <1>7, <2>1, <2>2, <2>3 DEF EndShell
<1>8. CASE LoseShell(r)
  <2>1. NoShellWithoutGrant'
    BY <1>8, <1>type DEF LoseShell, NoShellWithoutGrant, WorkspaceInv, TypeOK
  <2> QED
    BY <1>3, <1>5, <1>8, <2>1 DEF LoseShell
<1>9. CASE LeaveRun(r)
  <2>1. PendingStartIsUnsent' /\ FreshRunIsUntouched'
    BY <1>9, <1>type DEF LeaveRun, _confirm_run_exit, WorkspaceInv, PendingStartIsUnsent,
                FreshRunIsUntouched, LIVE_OUTBOX, TypeOK
  <2>2. LiveRunHolds' /\ ComingAgentHolds' /\ StopIsRemembered'
    BY <1>9 DEF LeaveRun, _confirm_run_exit, WorkspaceInv, LiveRunHolds, ComingAgentHolds, Coming,
                Holds, Owned, StopIsRemembered
  <2>3. NoShellWithoutGrant'
    BY <1>9, <1>type DEF LeaveRun, WorkspaceInv, NoShellWithoutGrant, TypeOK
  <2> QED
    BY <1>type, <2>1, <2>2, <2>3 DEF WorkspaceInv
<1>10. CASE AgentExit(r)
  <2>1. \A q \in Runs : alive'[q] => alive[q]
    BY <1>10, <1>type DEF AgentExit, TypeOK
  <2>2. NoShellWithoutGrant'
    BY <1>10, <1>type DEF AgentExit, WorkspaceInv, NoShellWithoutGrant, TypeOK
  <2>3. LiveRunHolds' /\ ComingAgentHolds'
    BY <1>10, <2>1 DEF AgentExit, WorkspaceInv, LiveRunHolds, ComingAgentHolds, Coming, Holds, Owned
  <2>4. PendingStartIsUnsent' /\ FreshRunIsUntouched' /\ StopIsRemembered'
    BY <1>10, <2>1 DEF AgentExit, WorkspaceInv, PendingStartIsUnsent, FreshRunIsUntouched,
                StopIsRemembered
  <2> QED
    BY <1>type, <2>2, <2>3, <2>4 DEF WorkspaceInv
<1>11. CASE ContainerExit(r)
  <2>1. \A q \in Runs : Holds(q) => Holds(q)'
    BY <1>11 DEF ContainerExit, Holds, Owned
  <2>2. NoShellWithoutGrant'
    BY <1>11, <1>type DEF ContainerExit, NoShellWithoutGrant, WorkspaceInv, TypeOK
  <2> QED
    BY <1>3, <1>11, <2>1, <2>2 DEF ContainerExit
<1> QED
  BY <1>1, <1>2, <1>4, <1>6, <1>7, <1>8, <1>9, <1>10, <1>11 DEF AgentStep

LEMMA WorkspaceStart == ASSUME NEW r \in Runs PROVE WorkspaceInv /\ StartStep(r) => WorkspaceInv'
<1> SUFFICES ASSUME WorkspaceInv, StartStep(r) PROVE WorkspaceInv'
  OBVIOUS
<1>type. TypeOK /\ TypeOK'
  BY StartType DEF WorkspaceInv
<1> USE DEF taskVars, decisionVars, planVars, execVars, agentOutbox, effectRows, dispatchers,
        adapterVars, worldVars
\* No step of a start takes a workspace from anybody.
<1>1. \A q \in Runs : Holds(q) => Holds(q)'
  <2>1. UNCHANGED ws \/ ws' = [w \in Workspaces |-> KeepBy(ws[w], {r})]
    BY DEF StartStep, ClaimStart, CheckStart, AdapterStart, AckStart, AckStartRevoked, FailStart,
           FenceStart
  <2> QED
    BY <1>type, <2>1, KeepKeeps, RunWorkspace DEF Holds, Owned, TypeOK
<1>2. LiveRunHolds'
  <2>1. \A q \in Runs : run'[q] \in ACTIVE_RUN => run[q] \in ACTIVE_RUN
    BY <1>type DEF StartStep, ClaimStart, CheckStart, AdapterStart, AckStart, AckStartRevoked,
           FailStart, ACTIVE_RUN, TypeOK
  <2> QED
    BY <1>1, <2>1 DEF WorkspaceInv, LiveRunHolds
\* A start that passes the last check belongs to an active run.
<1>3. ComingAgentHolds'
  <2>1. \A q \in Runs : Coming(q)' => Coming(q) \/ run[q] \in ACTIVE_RUN
    BY <1>type DEF StartStep, ClaimStart, CheckStart, AdapterStart, AckStart, AckStartRevoked,
           FailStart, SendAllowed, Coming, TypeOK
  <2> QED
    BY <1>1, <2>1 DEF WorkspaceInv, LiveRunHolds, ComingAgentHolds
<1>4. PendingStartIsUnsent' /\ FreshRunIsUntouched'
  <2>1. start[r] # "PENDING" \/ ClaimStart(r)
    BY DEF StartStep, CheckStart, AdapterStart, AckStart, AckStartRevoked, FailStart, WorkspaceInv,
           PendingStartIsUnsent
  <2>2. run[r] # "NONE"
    BY <2>1 DEF StartStep, ClaimStart, CheckStart, AdapterStart, AckStart, AckStartRevoked, FailStart,
           WorkspaceInv, FreshRunIsUntouched
  <2>3. /\ start'[r] # "PENDING" /\ run'[r] # "NONE"
        /\ \A q \in Runs \ {r} : /\ start'[q] = start[q] /\ startPc'[q] = startPc[q]
                                 /\ alive'[q] = alive[q] /\ run'[q] = run[q]
    BY <1>type, <2>1, <2>2 DEF StartStep, ClaimStart, CheckStart, AdapterStart, AckStart,
           AckStartRevoked, FailStart, FenceStart, TypeOK
  <2> QED
    BY <2>3 DEF WorkspaceInv, PendingStartIsUnsent, FreshRunIsUntouched
<1>5. NoShellWithoutGrant'
  BY DEF StartStep, ClaimStart, CheckStart, AdapterStart, AckStart, AckStartRevoked, FailStart,
         WorkspaceInv, NoShellWithoutGrant
<1>6. StopIsRemembered'
  <2>1. UNCHANGED <<stopPc, revoked>> /\ \A q \in Runs : alive'[q] => alive[q] \/ ~revoked[q]
    BY <1>type DEF StartStep, ClaimStart, CheckStart, AdapterStart, AckStart, AckStartRevoked,
           FailStart, TypeOK
  <2> QED
    BY <2>1 DEF WorkspaceInv, StopIsRemembered
<1> QED
  BY <1>type, <1>2, <1>3, <1>4, <1>5, <1>6 DEF WorkspaceInv

LEMMA WorkspaceStop == ASSUME NEW r \in Runs PROVE WorkspaceInv /\ StopStep(r) => WorkspaceInv'
<1> SUFFICES ASSUME WorkspaceInv, StopStep(r) PROVE WorkspaceInv'
  OBVIOUS
<1>type. TypeOK /\ TypeOK'
  BY StopType DEF WorkspaceInv
<1> USE DEF taskVars, decisionVars, planVars, execVars, agentOutbox, effectRows, dispatchers,
        adapterVars, worldVars
<1>1. ASSUME ClaimStop(r) \/ FailStop(r) PROVE WorkspaceInv'
  <2>1. StopIsRemembered'
    BY <1>1, <1>type DEF ClaimStop, FailStop, WorkspaceInv, StopIsRemembered, TypeOK
  <2>2. /\ LiveRunHolds' /\ ComingAgentHolds' /\ PendingStartIsUnsent' /\ FreshRunIsUntouched'
        /\ NoShellWithoutGrant'
    BY <1>1 DEF ClaimStop, FailStop, WorkspaceInv, LiveRunHolds, ComingAgentHolds, Coming, Holds,
                Owned, PendingStartIsUnsent, FreshRunIsUntouched, NoShellWithoutGrant
  <2> QED
    BY <1>type, <2>1, <2>2 DEF WorkspaceInv
<1>2. CASE AdapterStop(r)
  <2>1. \A q \in Runs : (alive'[q] => alive[q]) /\ (revoked[q] => revoked'[q])
    BY <1>2, <1>type DEF AdapterStop, TypeOK
  <2>2. StopIsRemembered'
    BY <1>2, <1>type, <2>1 DEF AdapterStop, WorkspaceInv, StopIsRemembered, TypeOK
  <2>3. NoShellWithoutGrant'
    BY <1>2, <1>type DEF AdapterStop, WorkspaceInv, NoShellWithoutGrant, TypeOK
  <2>4. LiveRunHolds' /\ ComingAgentHolds' /\ PendingStartIsUnsent' /\ FreshRunIsUntouched'
    BY <1>2, <2>1 DEF AdapterStop, WorkspaceInv, LiveRunHolds, ComingAgentHolds, Coming, Holds,
                Owned, PendingStartIsUnsent, FreshRunIsUntouched
  <2> QED
    BY <1>type, <2>2, <2>3, <2>4 DEF WorkspaceInv
<1>3. CASE AckStop(r)
  <2> DEFINE w == WorkspaceOfRun(r)
  <2>1. w \in Workspaces /\ ws[w] \in WorkspaceRecords
    BY <1>type, RunWorkspace DEF TypeOK
  \* Only a stopped run loses its workspace.
  <2>2. \A q \in Runs : Holds(q) => Holds(q)' \/ (q = r /\ stopPc[r] = "stopped")
    <3> SUFFICES ASSUME NEW q \in Runs, Holds(q), q # r \/ stopPc[r] # "stopped"
                 PROVE  Holds(q)'
      OBVIOUS
    <3>1. CASE WorkspaceOfRun(q) # w
      BY <1>3, <1>type, <3>1, RunWorkspace DEF AckStop, Holds, Owned, TypeOK
    <3>2. CASE WorkspaceOfRun(q) = w /\ stopPc[r] # "stopped"
      <4> DEFINE x == ws[w]
      <4>1. x \in WorkspaceRecords /\ x.owner = q /\ x.writer
        BY <2>1, <3>2 DEF Holds, Owned
      <4>2. ws'[w] = IF x.owner = r THEN [x EXCEPT !.state = "QUARANTINED", !.writer = TRUE] ELSE x
        BY <1>3, <1>type, <2>1, <3>2 DEF AckStop, TypeOK
      <4> HIDE DEF x
      <4>3. ws'[w].owner = q /\ ws'[w].writer
        BY <4>1, <4>2 DEF WorkspaceRecords
      <4> QED
        BY <3>2, <4>3 DEF Holds, Owned
    <3>3. CASE WorkspaceOfRun(q) = w /\ q # r
      <4>1. ws[w].owner # r
        BY <3>3 DEF Holds, Owned
      <4>2. ws'[w] = ws[w]
        BY <1>3, <1>type, <2>1, <4>1 DEF AckStop, StopAckedWorkspace, ReleaseBy, TypeOK
      <4> QED
        BY <3>3, <4>2 DEF Holds, Owned
    <3> QED
      BY <3>1, <3>2, <3>3
  <2>3. /\ stopPc[r] = "stopped" => run'[r] \notin ACTIVE_RUN
        /\ \A q \in Runs : run'[q] = run[q] \/ (run[q] # "NONE" /\ run'[q] = "CANCELLED")
    BY <1>3, <1>type DEF AckStop, ACTIVE_RUN, TypeOK
  <2>4. LiveRunHolds'
    BY <2>2, <2>3 DEF WorkspaceInv, LiveRunHolds, ACTIVE_RUN
  <2>5. ComingAgentHolds'
    BY <1>3, <2>2 DEF AckStop, WorkspaceInv, ComingAgentHolds, Coming, StopIsRemembered
  <2>6. PendingStartIsUnsent' /\ FreshRunIsUntouched' /\ NoShellWithoutGrant'
    BY <1>3, <2>3 DEF AckStop, WorkspaceInv, PendingStartIsUnsent, FreshRunIsUntouched,
                NoShellWithoutGrant
  <2>7. StopIsRemembered'
    BY <1>3, <1>type DEF AckStop, WorkspaceInv, StopIsRemembered, TypeOK
  <2> QED
    BY <1>type, <2>4, <2>5, <2>6, <2>7 DEF WorkspaceInv
<1> QED
  BY <1>1, <1>2, <1>3 DEF StopStep

LEMMA WorkspaceEffect ==
    ASSUME NEW e \in Effects PROVE WorkspaceInv /\ EffectStep(e) => WorkspaceInv'
<1> SUFFICES ASSUME WorkspaceInv, EffectStep(e) PROVE WorkspaceInv'
  OBVIOUS
<1>1. TypeOK'
  BY EffectType DEF WorkspaceInv
<1>2. UNCHANGED <<run, ws, start, startPc, stopPc, alive, revoked, agentPc>>
  BY DEF EffectStep, ProposeSideEffect, ApprovalExpires, DispatchSideEffect, ClaimEffect,
         PrecheckEffect, SendEffect, ApplyReceipt, ApplyUnknown, FailEffect, ReconcileSideEffect,
         execVars, agentOutbox, dispatchers, adapterVars
<1> QED
  BY <1>1, <1>2, Untouched

LEMMA WorkspaceRecovery == WorkspaceInv /\ Recovery => WorkspaceInv'
<1> SUFFICES ASSUME WorkspaceInv, Recovery PROVE WorkspaceInv'
  OBVIOUS
<1>type. TypeOK /\ TypeOK'
  BY RecoveryType DEF WorkspaceInv
<1> USE DEF taskVars, decisionVars, planVars, execVars, agentOutbox, effectRows, dispatchers,
        adapterVars, worldVars
<1>1. CASE Crash
  <2>1. LiveRunHolds' /\ ComingAgentHolds'
    BY <1>1 DEF Crash, WorkspaceInv, LiveRunHolds, ComingAgentHolds, Coming, Holds, Owned
  <2>2. PendingStartIsUnsent' /\ FreshRunIsUntouched' /\ NoShellWithoutGrant' /\ StopIsRemembered'
    BY <1>1 DEF Crash, WorkspaceInv, PendingStartIsUnsent, FreshRunIsUntouched,
                NoShellWithoutGrant, StopIsRemembered
  <2> QED
    BY <1>type, <2>1, <2>2 DEF WorkspaceInv
<1>2. ASSUME NEW xStart, NEW xStop, NEW xEff, NEW H, NEW Q,
             Reconcile(xStart, xStop, xEff, H, Q)
      PROVE  WorkspaceInv'
  <2> DEFINE uncertain == \E e \in xEff : eff[e] \in {"DISPATCHING", "UNKNOWN"}
             stateE == IF uncertain /\ state \notin TERMINAL_TASK_STATES
                       THEN "WAITING_HUMAN" ELSE state
             keep == stateE \in {"PAUSED", "WAITING_HUMAN", "CANCELLING"}
             L == IF keep THEN {} ELSE LostRuns
             U == IF keep THEN {} ELSE {r \in ActiveRuns : unconf[r]}
  <2>1. L \subseteq LostRuns
    OBVIOUS
  <2>2. /\ ws' = [w \in Workspaces |->
                    LET x == ReleaseBy(KeepBy(ws[w], xStart), L)
                    IN IF \E r \in U : WorkspaceOfRun(r) = w
                       THEN [x EXCEPT !.state = "QUARANTINED", !.writer = TRUE]
                       ELSE IF \E r \in Q : WorkspaceOfRun(r) = w
                       THEN [x EXCEPT !.state = "QUARANTINED"]
                       ELSE x]
        /\ run' = [r \in Runs |-> IF r \in L THEN "LOST" ELSE run[r]]
    BY <1>2 DEF Reconcile
  <2>3. /\ \A r \in Runs : startPc[r] = "idle" /\ stopPc[r] = "idle"
        /\ UNCHANGED <<startPc, stopPc, alive, revoked, agentPc>>
    BY <1>2 DEF Reconcile
  <2> HIDE DEF uncertain, stateE, keep, L, U
  \* Only lost runs lose their workspace, and their agents are gone.
  <2>4. \A r \in Runs : Holds(r) => Holds(r)' \/ r \in L
    <3> SUFFICES ASSUME NEW r \in Runs, Holds(r), r \notin L PROVE Holds(r)'
      OBVIOUS
    <3> DEFINE w == WorkspaceOfRun(r)
               y == KeepBy(ws[w], xStart)
    <3>1. w \in Workspaces
      BY RunWorkspace
    <3>2. y \in WorkspaceRecords /\ y.owner = r /\ y.writer
      BY <1>type, <3>1, KeepType, KeepKeeps DEF Holds, Owned, TypeOK
    <3>3. ReleaseBy(y, L) = y
      BY <3>2, ReleaseKeeps
    <3>4. ws'[w] \in {y, [y EXCEPT !.state = "QUARANTINED", !.writer = TRUE],
                      [y EXCEPT !.state = "QUARANTINED"]}
      BY <2>2, <3>1, <3>3
    <3> HIDE DEF y
    <3>5. ws'[w].owner = r /\ ws'[w].writer
      BY <3>2, <3>4 DEF WorkspaceRecords
    <3> QED
      BY <3>5 DEF Holds, Owned
  <2>5. LiveRunHolds'
    BY <2>2, <2>4 DEF WorkspaceInv, LiveRunHolds, ACTIVE_RUN
  <2>6. ComingAgentHolds'
    BY <2>1, <2>3, <2>4 DEF WorkspaceInv, ComingAgentHolds, Coming, LostRuns
  <2>7. \A r \in Runs : /\ start'[r] = start[r] \/ (r \in xStart /\ start[r] # "NONE"
                                                               /\ start'[r] = "DEAD")
                        /\ run'[r] = "NONE" => run[r] = "NONE"
    BY <1>2, <2>2 DEF Reconcile, InFlight
  <2>8. PendingStartIsUnsent' /\ FreshRunIsUntouched'
    BY <2>3, <2>7 DEF WorkspaceInv, PendingStartIsUnsent, FreshRunIsUntouched
  <2>9. NoShellWithoutGrant' /\ StopIsRemembered'
    BY <2>3 DEF WorkspaceInv, NoShellWithoutGrant, StopIsRemembered
  <2> QED
    BY <1>type, <2>5, <2>6, <2>8, <2>9 DEF WorkspaceInv
<1> QED
  BY <1>1, <1>2 DEF Recovery

-----------------------------------------------------------------------------
\* WorkspaceInv is the inductive invariant behind the theorems below.
THEOREM WorkspaceInvariance == Spec => []WorkspaceInv
<1>1. Init => WorkspaceInv
  BY WorkspaceInit
<1>2. WorkspaceInv /\ [Next]_vars => WorkspaceInv'
  <2> SUFFICES ASSUME WorkspaceInv, [Next]_vars PROVE WorkspaceInv'
    OBVIOUS
  <2>1. CASE Next
    BY <2>1, WorkspaceCommand, WorkspaceAgent, WorkspaceStart, WorkspaceStop, WorkspaceEffect,
       WorkspaceRecovery DEF Next
  <2>2. CASE UNCHANGED vars
    <3>1. TypeOK'
      BY <2>2, StepType DEF WorkspaceInv
    <3>2. UNCHANGED <<run, ws, start, startPc, stopPc, alive, revoked, agentPc>>
      BY <2>2 DEF vars, execVars, agentOutbox, dispatchers, adapterVars
    <3> QED
      BY <3>1, <3>2, Untouched
  <2> QED
    BY <2>1, <2>2
<1> QED
  BY <1>1, <1>2, PTL DEF Spec

\* A run that the database counts as live owns its workspace: however pauses,
\* cancellations, gates, plan revisions, stops, losses and crashes interleave,
\* service.py hands a workspace on only when its run has ended.
THEOREM LiveRunsOwnWorkspaces == Spec => []LiveRunOwnsWorkspace
<1>1. WorkspaceInv => LiveRunOwnsWorkspace
  BY DEF WorkspaceInv, LiveRunHolds, Holds, LiveRunOwnsWorkspace
<1> QED
  BY <1>1, WorkspaceInvariance, PTL

\* An agent without shell commands that runs or is about to be started owns its
\* workspace.
THEOREM LiveAgentsOwnWorkspaces == Spec => []LiveAgentOwnsWorkspace
<1>1. WorkspaceInv => LiveAgentOwnsWorkspace
  BY DEF WorkspaceInv, ComingAgentHolds, Coming, Holds, LiveAgentOwnsWorkspace
<1> QED
  BY <1>1, WorkspaceInvariance, PTL

\* INV-07: when no unit was granted shell.run, two agents never share a
\* workspace.
THEOREM SingleWriter == ASSUME ShellUnits = {} PROVE Spec => []OneAgentPerWorkspace
<1>1. WorkspaceInv => OneAgentPerWorkspace
  BY DEF WorkspaceInv, ComingAgentHolds, Coming, Holds, Owned, OneAgentPerWorkspace
<1> QED
  BY <1>1, WorkspaceInvariance, PTL

\* INV-05: a run that ended keeps its status for ever.
THEOREM EndedRuns == Spec => EndedRunsStayEnded
<1> DEFINE A == \A r \in Runs : run[r] \in TERMINAL_RUN => run'[r] = run[r]
<1>1. WorkspaceInv /\ [Next]_vars => [A]_vars
  <2> SUFFICES ASSUME WorkspaceInv, Next, NEW q \in Runs, run[q] \in TERMINAL_RUN
               PROVE  run'[q] = run[q]
    BY DEF TERMINAL_RUN
  <2>type. TypeOK
    BY DEF WorkspaceInv
  <2> USE <2>type DEF TypeOK, TERMINAL_RUN, ACTIVE_RUN, taskVars, decisionVars, planVars, execVars,
          agentOutbox, effectRows, dispatchers, adapterVars, worldVars
  <2>1. CASE Command
    <3>1. ASSUME NEW S \in SUBSET Units, NEW X \in SUBSET Units, NEW O \in SUBSET Units,
                 DispatchReadyRuns(S, X, O)
          PROVE  run'[q] = run[q]
      <4>1. \A u \in S : FreshRun(u) # q
        <5> SUFFICES ASSUME NEW u \in S PROVE FreshRun(u) # q
          OBVIOUS
        <5>1. FreshRuns(u) # {}
          BY <3>1 DEF DispatchReadyRuns
        <5>2. FreshRun(u) \in FreshRuns(u)
          BY <5>1 DEF FreshRun
        <5> QED
          BY <5>2 DEF FreshRuns
      <4>2. run' = [r \in Runs |-> IF r \in {FreshRun(u) : u \in S} THEN "CREATED" ELSE run[r]]
        BY <3>1 DEF DispatchReadyRuns
      <4> QED
        BY <4>1, <4>2
    <3>2. ASSUME NEW p \in Plans, ActivatePlan(p) PROVE run'[q] = run[q]
      BY <3>2 DEF ActivatePlan, TornUnsent, TornRuns, ActiveRuns
    <3>3. ASSUME \/ PauseTask \/ CancelTask
                 \/ \E g \in Clarifications, r \in Runs \cup {NoRun} : OpenBlockingGate(g, r)
          PROVE  run'[q] = run[q]
      <4>1. InvalidatedRun(q) = run[q]
        BY DEF InvalidatedRun, RevokedRuns
      <4>2. CASE PauseTask \/ CancelTask
        BY <4>1, <4>2 DEF PauseTask, CancelTask
      <4>3. ASSUME NEW g \in Clarifications, NEW r \in Runs \cup {NoRun}, OpenBlockingGate(g, r)
            PROVE  run'[q] = run[q]
        <5>1. run' = [s \in Runs |-> IF s = r /\ run[s] = "RUNNING" THEN "SUCCEEDED"
                                     ELSE InvalidatedRun(s)]
          BY <4>3 DEF OpenBlockingGate
        <5> QED
          BY <4>1, <5>1
      <4> QED
        BY <3>3, <4>2, <4>3
    <3>4. CASE \/ RuntimeQuiescent
               \/ \E accept \in BOOLEAN : CancellationSettled(accept)
      BY <3>4 DEF RuntimeQuiescent, CancellationSettled, ActiveRuns
    <3>5. CASE \/ SubmitContract \/ ApproveContract \/ ResumeTask \/ PrepareAcceptance
               \/ ApproveAcceptance \/ DispatchOverBudget
               \/ \E g \in Gates : CloseGate(g)
               \/ \E e \in Effects : ApproveSideEffect(e)
               \/ \E r \in Runs : ConfirmRunExit(r)
      BY <3>5 DEF SubmitContract, ApproveContract, ResumeTask, PrepareAcceptance,
              ApproveAcceptance, DispatchOverBudget, CloseGate, ApproveSideEffect, ConfirmRunExit,
              _confirm_run_exit
    <3> QED
      BY <2>1, <3>1, <3>2, <3>3, <3>4, <3>5 DEF Command
  <2>2. ASSUME NEW r \in Runs, AgentStep(r) PROVE run'[q] = run[q]
    BY <2>2 DEF AgentStep, RecordModelUsage, SubmitResult, AuthorizeShell, BeginShell, EndShell,
                LoseShell, LeaveRun, _confirm_run_exit, AgentExit, ContainerExit
  <2>3. ASSUME NEW r \in Runs, StartStep(r) PROVE run'[q] = run[q]
    BY <2>3 DEF StartStep, ClaimStart, CheckStart, AdapterStart, AckStart, AckStartRevoked, FailStart
  <2>4. ASSUME NEW r \in Runs, StopStep(r) PROVE run'[q] = run[q]
    BY <2>4 DEF StopStep, ClaimStop, AdapterStop, AckStop, FailStop
  <2>5. ASSUME NEW e \in Effects, EffectStep(e) PROVE run'[q] = run[q]
    BY <2>5 DEF EffectStep, ProposeSideEffect, ApprovalExpires, DispatchSideEffect, ClaimEffect,
         PrecheckEffect, SendEffect, ApplyReceipt, ApplyUnknown, FailEffect, ReconcileSideEffect
  <2>6. CASE Recovery
    <3>1. CASE Crash
      BY <3>1 DEF Crash
    <3>2. ASSUME NEW xStart, NEW xStop, NEW xEff, NEW H, NEW Q,
                 Reconcile(xStart, xStop, xEff, H, Q)
          PROVE  run'[q] = run[q]
      <4>1. run'[q] = run[q] \/ q \in LostRuns
        BY <3>2 DEF Reconcile
      <4> QED
        BY <4>1 DEF LostRuns
    <3> QED
      BY <2>6, <3>1, <3>2 DEF Recovery
  <2> QED
    BY <2>1, <2>2, <2>3, <2>4, <2>5, <2>6 DEF Next
<1> QED
  BY <1>1, WorkspaceInvariance, PTL DEF Spec, EndedRunsStayEnded
=============================================================================
