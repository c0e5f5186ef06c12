----------------------------- MODULE LockProofs -----------------------------
(***************************************************************************)
(* Who gives a workspace away and who gets it: whoever may write holds its *)
(* workspace, agents with shell commands included, and the core implements *)
(* WorkspaceLock.                                                          *)
(***************************************************************************)
EXTENDS RunProofs

-----------------------------------------------------------------------------
(* Who gives a workspace away, and when.                                   *)

Quarantined(r) == ws[WorkspaceOfRun(r)].state = "QUARANTINED"

\* The run goes on holding its workspace, quarantined if it was.
Keeps(r) == Holds(r)' /\ (Quarantined(r) => Quarantined(r)')

\* The four ways to lose a workspace: a start that nobody was given is revoked,
\* a stop was confirmed, the container of an ended run has ended, a run was lost.
Yields(r) ==
    \/ run[r] = "CREATED" /\ start[r] = "PENDING"
    \/ stopPc[r] = "stopped"
    \/ /\ run[r] \in TERMINAL_RUN /\ agentPc[r] = "exited"
       /\ ~Owned(r)' /\ ~InShell(r)' /\ UNCHANGED run
    \/ run[r] = "RUNNING" /\ ~alive[r] /\ startPc[r] = "idle"

LEMMA SameWorkspacesKeep ==
    ASSUME UNCHANGED ws, NEW q \in Runs, Holds(q)
    PROVE  Keeps(q)
BY DEF Keeps, Holds, Owned, Quarantined

LEMMA KeptWorkspacesKeep ==
    ASSUME TypeOK, NEW R, NEW T, ws' = [w \in Workspaces |-> KeepBy(ReleaseBy(ws[w], R), T)],
           NEW q \in Runs, Holds(q), q \notin R
    PROVE  Keeps(q)
<1> DEFINE w == WorkspaceOfRun(q)
           x == ws[w]
<1>1. w \in Workspaces /\ x \in WorkspaceRecords
  BY RunWorkspace DEF TypeOK
<1>2. x.owner = q /\ x.writer
  BY DEF Holds, Owned
<1>3. ws'[w] = KeepBy(ReleaseBy(x, R), T)
  BY <1>1
<1> HIDE DEF x
<1>4. ReleaseBy(x, R) = x
  BY <1>2, ReleaseKeeps
<1>5. KeepBy(x, T).owner = q /\ KeepBy(x, T).writer /\ KeepBy(x, T).state = x.state
  BY <1>1, <1>2 DEF KeepBy, WorkspaceRecords
<1> QED
  BY <1>3, <1>4, <1>5 DEF Keeps, Holds, Owned, Quarantined, x

LEMMA CommandKeeps ==
    ASSUME WorkspaceInv, Command, NEW q \in Runs, Holds(q)
    PROVE  Keeps(q) \/ Yields(q)
<1>type. TypeOK
  BY DEF WorkspaceInv
<1> USE DEF taskVars, decisionVars, planVars, execVars, agentOutbox, effectRows, dispatchers,
        adapterVars, worldVars
<1>1. CASE \/ SubmitContract \/ ApproveContract \/ ResumeTask \/ PrepareAcceptance
           \/ ApproveAcceptance \/ DispatchOverBudget
           \/ \E g \in Gates : CloseGate(g)
           \/ \E e \in Effects : ApproveSideEffect(e)
           \/ \E accept \in BOOLEAN : CancellationSettled(accept)
           \/ \E r \in Runs : ConfirmRunExit(r)
  BY <1>1, SameWorkspacesKeep DEF SubmitContract, ApproveContract, ResumeTask,
              PrepareAcceptance, ApproveAcceptance, DispatchOverBudget, CloseGate,
              ApproveSideEffect, CancellationSettled, ConfirmRunExit, _confirm_run_exit
<1>2. CASE \/ PauseTask \/ CancelTask
           \/ \E g \in Clarifications, r \in Runs \cup {NoRun} : OpenBlockingGate(g, r)
  <2>1. ws' = [w \in Workspaces |-> KeepBy(ReleaseBy(ws[w], RevokedRuns), UncertainStarts)]
    BY <1>2 DEF PauseTask, CancelTask, OpenBlockingGate, InvalidatedWorkspace
  <2>2. q \in RevokedRuns => Yields(q)
    BY DEF RevokedRuns, UnsentStarts, Yields
  <2> QED
    BY <1>type, <2>1, <2>2, KeptWorkspacesKeep
<1>3. CASE RuntimeQuiescent
  BY <1>3 DEF RuntimeQuiescent, _task_has_live_writer, Holds
<1>4. ASSUME NEW p \in Plans, ActivatePlan(p) PROVE Keeps(q) \/ Yields(q)
  <2>1. q \in TornUnsent(p) => Yields(q)
    BY DEF TornUnsent, Yields
  <2>2. q \notin TornUnsent(p) => Keeps(q)
    BY <1>4, ReleaseKeeps, RunWorkspace DEF ActivatePlan, Keeps, Holds, Owned, Quarantined
  <2> QED
    BY <2>1, <2>2
<1>5. ASSUME NEW S \in SUBSET Units, NEW X \in SUBSET Units, NEW O \in SUBSET Units,
             DispatchReadyRuns(S, X, O)
      PROVE  Keeps(q)
  <2> DEFINE New == {FreshRun(u) : u \in S}
             w == WorkspaceOfRun(q)
  <2>1. ws' = [v \in Workspaces |->
                 IF \E r \in New : WorkspaceOfRun(r) = v
                 THEN [state |-> "LOCKED", writer |-> TRUE,
                       owner |-> CHOOSE r \in New : WorkspaceOfRun(r) = v]
                 ELSE ws[v]]
    BY <1>5 DEF DispatchReadyRuns
  <2>2. ASSUME NEW r \in New PROVE WorkspaceOfRun(r) # w
    <3>1. Ready(UnitOf[r])
      BY <1>5, DispatchedAreFresh
    <3> QED
      BY <3>1, RunAssumption DEF Ready, Holds, Owned, WorkspaceOfRun
  <2> HIDE DEF New
  <2>3. ws'[w] = ws[w]
    BY <2>1, <2>2, RunWorkspace
  <2> QED
    BY <2>3 DEF Keeps, Holds, Owned, Quarantined
<1> QED
  BY <1>1, <1>2, <1>3, <1>4, <1>5 DEF Command

LEMMA AgentKeeps ==
    ASSUME WorkspaceInv, NEW r \in Runs, AgentStep(r), NEW q \in Runs, Holds(q)
    PROVE  Keeps(q) \/ Yields(q)
<1>type. TypeOK
  BY DEF WorkspaceInv
<1> USE DEF taskVars, decisionVars, planVars, execVars, agentOutbox, effectRows, dispatchers,
        adapterVars, worldVars
<1>1. CASE UNCHANGED ws
  BY <1>1, SameWorkspacesKeep
<1>2. CASE ws' = [ws EXCEPT ![WorkspaceOfRun(r)].writer = TRUE]
  BY <1>2, <1>type, RunWorkspace DEF Keeps, Holds, Owned, Quarantined, TypeOK, WorkspaceRecords
<1>3. CASE EndShell(r)
  <2> DEFINE w == WorkspaceOfRun(r)
  <2>1. w \in Workspaces /\ WorkspaceOfRun(q) \in Workspaces
    BY RunWorkspace
  <2>2. ws'[WorkspaceOfRun(q)] = IF WorkspaceOfRun(q) = w
                                 THEN _release_workspace_after_confirmed_exit(ws[w], r)
                                 ELSE ws[WorkspaceOfRun(q)]
    BY <1>3, <1>type, <2>1 DEF EndShell, TypeOK
  <2>3. CASE q = r /\ run[r] \in TERMINAL_RUN
    <3>1. ~Owned(r)'
      BY <2>2, <2>3, RunAssumption DEF Owned, Holds, _release_workspace_after_confirmed_exit
    <3>2. agentPc[r] = "exited" /\ ~InShell(r)' /\ UNCHANGED run
      BY <1>3, <1>type DEF EndShell, InShell, TypeOK
    <3> QED
      BY <2>3, <3>1, <3>2 DEF Yields
  <2>4. CASE ~(q = r /\ run[r] \in TERMINAL_RUN)
    <3>1. ws'[WorkspaceOfRun(q)] = ws[WorkspaceOfRun(q)]
      BY <2>2, <2>4 DEF Holds, Owned, _release_workspace_after_confirmed_exit
    <3> QED
      BY <3>1 DEF Keeps, Holds, Owned, Quarantined
  <2> QED
    BY <2>3, <2>4
<1> QED
  BY <1>1, <1>2, <1>3 DEF AgentStep, RecordModelUsage, SubmitResult, AuthorizeShell, BeginShell,
         LoseShell, LeaveRun, _confirm_run_exit, AgentExit, ContainerExit

LEMMA StartKeeps ==
    ASSUME WorkspaceInv, NEW r \in Runs, StartStep(r), NEW q \in Runs, Holds(q)
    PROVE  Keeps(q)
<1>1. UNCHANGED ws \/ ws' = [w \in Workspaces |-> KeepBy(ws[w], {r})]
  BY DEF StartStep, ClaimStart, CheckStart, AdapterStart, AckStart, AckStartRevoked, FailStart,
         FenceStart, execVars
<1>2. \A w \in Workspaces : ReleaseBy(ws[w], {}) = ws[w]
  BY ReleaseKeeps
<1>3. UNCHANGED ws \/ ws' = [w \in Workspaces |-> KeepBy(ReleaseBy(ws[w], {}), {r})]
  BY <1>1, <1>2
<1> QED
  BY <1>3, SameWorkspacesKeep, KeptWorkspacesKeep DEF WorkspaceInv

LEMMA StopKeeps ==
    ASSUME WorkspaceInv, NEW r \in Runs, StopStep(r), NEW q \in Runs, Holds(q)
    PROVE  Keeps(q) \/ Yields(q)
<1>type. TypeOK
  BY DEF WorkspaceInv
<1>1. CASE UNCHANGED ws
  BY <1>1, SameWorkspacesKeep
<1>2. CASE AckStop(r)
  <2> DEFINE w == WorkspaceOfRun(q)
             x == ws[w]
  <2>1. w \in Workspaces /\ WorkspaceOfRun(r) \in Workspaces /\ x \in WorkspaceRecords
    BY <1>type, RunWorkspace DEF TypeOK
  <2>2. x.owner = q /\ x.writer
    BY DEF Holds, Owned
  <2>3. CASE q = r /\ stopPc[r] = "stopped"
    BY <2>3 DEF Yields
  <2>4. CASE ~(q = r /\ stopPc[r] = "stopped")
    <3>1. CASE WorkspaceOfRun(r) # w
      <4>1. ws'[w] = x
        BY <1>2, <1>type, <2>1, <3>1 DEF AckStop, TypeOK
      <4> QED
        BY <4>1 DEF Keeps, Holds, Owned, Quarantined
    <3>2. CASE WorkspaceOfRun(r) = w /\ stopPc[r] # "stopped"
      <4>1. ws'[w] = IF x.owner = r THEN [x EXCEPT !.state = "QUARANTINED", !.writer = TRUE] ELSE x
        BY <1>2, <1>type, <2>1, <3>2 DEF AckStop, TypeOK
      <4> HIDE DEF x
      <4>2. /\ ws'[w].owner = q /\ ws'[w].writer
            /\ ws'[w].state = x.state \/ ws'[w].state = "QUARANTINED"
        BY <2>1, <2>2, <4>1 DEF WorkspaceRecords
      <4> QED
        BY <4>2 DEF Keeps, Holds, Owned, Quarantined, x
    <3>3. CASE WorkspaceOfRun(r) = w /\ q # r
      <4>1. ws'[w] = x
        BY <1>2, <1>type, <2>1, <2>2, <3>3 DEF AckStop, StopAckedWorkspace, ReleaseBy, TypeOK
      <4> QED
        BY <4>1 DEF Keeps, Holds, Owned, Quarantined
    <3> QED
      BY <2>4, <3>1, <3>2, <3>3
  <2> QED
    BY <2>3, <2>4
<1> QED
  BY <1>1, <1>2 DEF StopStep, ClaimStop, AdapterStop, FailStop, execVars

LEMMA RecoveryKeeps ==
    ASSUME WorkspaceInv, Recovery, NEW q \in Runs, Holds(q)
    PROVE  Keeps(q) \/ Yields(q)
<1>type. TypeOK
  BY DEF WorkspaceInv
<1>1. CASE Crash
  BY <1>1, SameWorkspacesKeep DEF Crash, execVars
<1>2. ASSUME NEW xStart, NEW xStop, NEW xEff, NEW H, NEW Q,
             Reconcile(xStart, xStop, xEff, H, Q)
      PROVE  Keeps(q) \/ Yields(q)
  <2> DEFINE w == WorkspaceOfRun(q)
             y == KeepBy(ws[w], xStart)
  <2>1. w \in Workspaces
    BY RunWorkspace
  <2>2. PICK L \in SUBSET LostRuns :
          ws'[w] \in {ReleaseBy(y, L), [ReleaseBy(y, L) EXCEPT !.state = "QUARANTINED", !.writer = TRUE],
                      [ReleaseBy(y, L) EXCEPT !.state = "QUARANTINED"]}
    <3> DEFINE uncertain == \E e \in xEff : eff[e] \in {"DISPATCHING", "UNKNOWN"}
               stateE == IF uncertain /\ state \notin TERMINAL_TASK_STATES
                         THEN "WAITING_HUMAN" ELSE state
               keep == stateE \in {"PAUSED", "WAITING_HUMAN", "CANCELLING"}
               L == IF keep THEN {} ELSE LostRuns
               U == IF keep THEN {} ELSE {r \in ActiveRuns : unconf[r]}
    <3>1. ws' = [v \in Workspaces |->
                    LET x == ReleaseBy(KeepBy(ws[v], xStart), L)
                    IN IF \E r \in U : WorkspaceOfRun(r) = v
                       THEN [x EXCEPT !.state = "QUARANTINED", !.writer = TRUE]
                       ELSE IF \E r \in Q : WorkspaceOfRun(r) = v
                       THEN [x EXCEPT !.state = "QUARANTINED"]
                       ELSE x]
      BY <1>2 DEF Reconcile
    <3>2. L \in SUBSET LostRuns
      OBVIOUS
    <3> HIDE DEF uncertain, stateE, keep, L, U
    <3> WITNESS L \in SUBSET LostRuns
    <3> QED
      BY <2>1, <3>1
  <2>3. y \in WorkspaceRecords /\ y.owner = q /\ y.writer /\ y.state = ws[w].state
    BY <1>type, <2>1, KeepType, KeepKeeps DEF Holds, Owned, TypeOK, KeepBy, WorkspaceRecords
  <2>4. CASE q \in LostRuns
    BY <1>2, <2>4 DEF LostRuns, Reconcile, Yields
  <2>5. CASE q \notin LostRuns
    <3> HIDE DEF y
    <3>1. ReleaseBy(y, L) = y
      BY <2>2, <2>3, <2>5, ReleaseKeeps
    <3>2. /\ ws'[w].owner = q /\ ws'[w].writer
          /\ ws'[w].state = y.state \/ ws'[w].state = "QUARANTINED"
      BY <2>2, <2>3, <3>1 DEF WorkspaceRecords
    <3> QED
      BY <2>3, <3>2 DEF Keeps, Holds, Owned, Quarantined
  <2> QED
    BY <2>4, <2>5
<1> QED
  BY <1>1, <1>2 DEF Recovery

\* Whatever step is taken, a run that holds its workspace keeps it or is one of
\* the four that give it away.
LEMMA HolderStep ==
    ASSUME WorkspaceInv, Next, NEW q \in Runs, Holds(q)
    PROVE  Keeps(q) \/ Yields(q)
<1>1. ASSUME NEW e \in Effects, EffectStep(e) PROVE UNCHANGED ws
  BY <1>1 DEF EffectStep, ProposeSideEffect, ApprovalExpires, DispatchSideEffect, ClaimEffect,
         PrecheckEffect, SendEffect, ApplyReceipt, ApplyUnknown, FailEffect, ReconcileSideEffect,
         execVars
<1> QED
  BY <1>1, CommandKeeps, AgentKeeps, StartKeeps, StopKeeps, RecoveryKeeps, SameWorkspacesKeep
     DEF Next

\* A run that comes or writes gives its workspace away only when the container
\* of its last shell call has ended.
LEMMA ComingKeeps ==
    ASSUME WorkspaceInv, Next, NEW q \in Runs, Holds(q), Coming(q)
    PROVE  Keeps(q) \/ (/\ run[q] \in TERMINAL_RUN /\ agentPc[q] = "exited"
                        /\ ~Owned(q)' /\ ~InShell(q)' /\ UNCHANGED run)
<1>1. Keeps(q) \/ Yields(q)
  BY HolderStep
<1> QED
  BY <1>1 DEF Yields, Coming, WorkspaceInv, PendingStartIsUnsent, StopIsRemembered

-----------------------------------------------------------------------------
(* Who gets a workspace, and which runs come into being.                   *)

LEMMA ReleaseOwner ==
    ASSUME NEW x \in WorkspaceRecords, NEW R
    PROVE  ReleaseBy(x, R).owner \in {x.owner, NoRun}
BY DEF ReleaseBy, WorkspaceRecords

LEMMA DispatchHands ==
    ASSUME TypeOK, NEW S \in SUBSET Units, NEW X, NEW O, DispatchReadyRuns(S, X, O)
    PROVE  /\ \A r \in Runs : run'[r] = run[r] \/ (run[r] = "NONE" /\ run'[r] = "CREATED" /\ Holds(r)')
           /\ \A w \in Workspaces :
                \/ ws'[w] = ws[w]
                \/ \E r \in Runs : /\ ws'[w].owner = r /\ WorkspaceOfRun(r) = w
                                   /\ run[r] = "NONE" /\ run'[r] # "NONE"
<1> DEFINE New == {FreshRun(u) : u \in S}
<1>1. /\ run' = [r \in Runs |-> IF r \in New THEN "CREATED" ELSE run[r]]
      /\ ws' = [w \in Workspaces |->
                  IF \E r \in New : WorkspaceOfRun(r) = w
                  THEN [state |-> "LOCKED", writer |-> TRUE,
                        owner |-> CHOOSE r \in New : WorkspaceOfRun(r) = w]
                  ELSE ws[w]]
  BY DEF DispatchReadyRuns
<1>2. \A r \in New : r \in Runs /\ run[r] = "NONE" /\ UnitOf[r] \in S /\ r = FreshRun(UnitOf[r])
  BY DispatchedAreFresh
<1> HIDE DEF New
<1>3. \A r, s \in New : WorkspaceOfRun(r) = WorkspaceOfRun(s) => r = s
  <2> SUFFICES ASSUME NEW r \in New, NEW s \in New, WorkspaceOfRun(r) = WorkspaceOfRun(s)
               PROVE  UnitOf[r] = UnitOf[s]
    BY <1>2
  <2> QED
    BY <1>2 DEF DispatchReadyRuns, WorkspaceOfRun
<1>4. ASSUME NEW r \in New
      PROVE  ws'[WorkspaceOfRun(r)].owner = r /\ Holds(r)'
  <2>1. (CHOOSE q \in New : WorkspaceOfRun(q) = WorkspaceOfRun(r)) = r
    BY <1>3
  <2>2. ws'[WorkspaceOfRun(r)] = [state |-> "LOCKED", writer |-> TRUE, owner |-> r]
    BY <1>1, <1>2, <2>1, RunWorkspace
  <2> QED
    BY <2>2 DEF Holds, Owned
<1> QED
  BY <1>1, <1>2, <1>4

\* Runs come into being with their workspace, never go away, and an ended run does
\* not live again.
LEMMA RunStep ==
    ASSUME WorkspaceInv, Next, NEW q \in Runs
    PROVE  /\ run[q] # "NONE" => run'[q] # "NONE"
           /\ run[q] = "NONE" /\ run'[q] # "NONE" => Holds(q)'
           /\ run'[q] \in ACTIVE_RUN => run[q] \in ACTIVE_RUN \cup {"NONE"}
<1>type. TypeOK
  BY DEF WorkspaceInv
<1>fresh. run[q] = "NONE" => start[q] = "NONE" /\ startPc[q] = "idle" /\ ~alive[q]
  BY DEF WorkspaceInv, FreshRunIsUntouched
<1> USE DEF taskVars, decisionVars, planVars, execVars, agentOutbox, effectRows, dispatchers,
        adapterVars, worldVars
<1>1. CASE Command
  <2>1. CASE \/ SubmitContract \/ ApproveContract \/ ResumeTask \/ PrepareAcceptance
             \/ ApproveAcceptance \/ DispatchOverBudget
             \/ \E g \in Gates : CloseGate(g)
             \/ \E e \in Effects : ApproveSideEffect(e)
             \/ \E r \in Runs : ConfirmRunExit(r)
    BY <2>1 DEF SubmitContract, ApproveContract, ResumeTask, PrepareAcceptance,
              ApproveAcceptance, DispatchOverBudget, CloseGate, ApproveSideEffect,
              ConfirmRunExit, _confirm_run_exit
  <2>2. CASE \/ PauseTask \/ CancelTask
             \/ \E g \in Clarifications, r \in Runs \cup {NoRun} : OpenBlockingGate(g, r)
    BY <2>2 DEF PauseTask, CancelTask, OpenBlockingGate, InvalidatedRun, RevokedRuns,
                ACTIVE_RUN
  <2>3. CASE RuntimeQuiescent \/ \E accept \in BOOLEAN : CancellationSettled(accept)
    BY <2>3 DEF RuntimeQuiescent, CancellationSettled, ActiveRuns, ACTIVE_RUN
  <2>4. CASE \E p \in Plans : ActivatePlan(p)
    BY <2>4 DEF ActivatePlan, TornUnsent, ACTIVE_RUN
  <2>5. CASE \E S, X, O \in SUBSET Units : DispatchReadyRuns(S, X, O)
    BY <1>type, <2>5, DispatchHands
  <2> QED
    BY <1>1, <2>1, <2>2, <2>3, <2>4, <2>5 DEF Command
<1>2. ASSUME NEW r \in Runs, AgentStep(r) PROVE run'[q] = run[q] \/ (run[q] = "RUNNING" /\ run'[q] # "NONE")
  BY <1>2, <1>type DEF AgentStep, RecordModelUsage, SubmitResult, AuthorizeShell, BeginShell,
         EndShell, LoseShell, LeaveRun, _confirm_run_exit, AgentExit, ContainerExit, TypeOK
<1>3. ASSUME NEW r \in Runs, StartStep(r) PROVE run'[q] = run[q] \/ (run[q] = "CREATED" /\ run'[q] # "NONE")
  BY <1>3, <1>type DEF StartStep, ClaimStart, CheckStart, AdapterStart, AckStart, AckStartRevoked,
         FailStart, TypeOK
<1>4. ASSUME NEW r \in Runs, StopStep(r) PROVE run'[q] = run[q] \/ (run[q] \in ACTIVE_RUN /\ run'[q] # "NONE")
  BY <1>4, <1>type DEF StopStep, ClaimStop, AdapterStop, AckStop, FailStop, TypeOK
<1>5. ASSUME NEW e \in Effects, EffectStep(e) PROVE UNCHANGED run
  BY <1>5 DEF EffectStep, ProposeSideEffect, ApprovalExpires, DispatchSideEffect, ClaimEffect,
         PrecheckEffect, SendEffect, ApplyReceipt, ApplyUnknown, FailEffect, ReconcileSideEffect
<1>6. CASE Crash
  BY <1>6 DEF Crash
<1>7. ASSUME NEW xStart, NEW xStop, NEW xEff, NEW H, NEW Q,
             Reconcile(xStart, xStop, xEff, H, Q)
      PROVE  run'[q] = run[q] \/ (run[q] = "RUNNING" /\ run'[q] # "NONE")
  BY <1>7 DEF Reconcile, LostRuns
<1> QED
  BY <1>1, <1>2, <1>3, <1>4, <1>5, <1>6, <1>7 DEF Next, Recovery, ACTIVE_RUN

\* A workspace changes hands to nobody, or to a run that is made in the same step.
LEMMA OwnerStep ==
    ASSUME WorkspaceInv, Next, NEW w \in Workspaces
    PROVE  \/ ws'[w].owner \in {ws[w].owner, NoRun}
           \/ \E r \in Runs : /\ ws'[w].owner = r /\ WorkspaceOfRun(r) = w
                              /\ run[r] = "NONE" /\ run'[r] # "NONE"
<1>type. TypeOK /\ ws[w] \in WorkspaceRecords
  BY DEF WorkspaceInv, TypeOK
<1> USE DEF taskVars, decisionVars, planVars, execVars, agentOutbox, effectRows, dispatchers,
        adapterVars, worldVars
<1> DEFINE Same == ws'[w].owner \in {ws[w].owner, NoRun}
<1>keep. \A R, T : KeepBy(ReleaseBy(ws[w], R), T).owner \in {ws[w].owner, NoRun}
  BY <1>type, ReleaseOwner, ReleaseType, KeepKeeps
<1>1. CASE Command
  <2>1. CASE \/ SubmitContract \/ ApproveContract \/ ResumeTask \/ PrepareAcceptance
             \/ ApproveAcceptance \/ DispatchOverBudget
             \/ \E g \in Gates : CloseGate(g)
             \/ \E e \in Effects : ApproveSideEffect(e)
             \/ \E accept \in BOOLEAN : CancellationSettled(accept)
             \/ \E r \in Runs : ConfirmRunExit(r)
    BY <2>1 DEF SubmitContract, ApproveContract, ResumeTask, PrepareAcceptance,
              ApproveAcceptance, DispatchOverBudget, CloseGate, ApproveSideEffect,
              CancellationSettled, ConfirmRunExit, _confirm_run_exit
  <2>2. CASE \/ PauseTask \/ CancelTask
             \/ \E g \in Clarifications, r \in Runs \cup {NoRun} : OpenBlockingGate(g, r)
    <3>1. ws' = [v \in Workspaces |-> KeepBy(ReleaseBy(ws[v], RevokedRuns), UncertainStarts)]
      BY <2>2 DEF PauseTask, CancelTask, OpenBlockingGate, InvalidatedWorkspace
    <3> QED
      BY <1>keep, <3>1
  <2>3. CASE RuntimeQuiescent \/ \E p \in Plans : ActivatePlan(p)
    BY <2>3, <1>type, ReleaseOwner DEF RuntimeQuiescent, ActivatePlan
  <2>4. CASE \E S, X, O \in SUBSET Units : DispatchReadyRuns(S, X, O)
    BY <1>type, <2>4, DispatchHands
  <2> QED
    BY <1>1, <2>1, <2>2, <2>3, <2>4 DEF Command
<1>2. ASSUME NEW r \in Runs, AgentStep(r) PROVE Same
  <2>1. CASE UNCHANGED ws
    BY <2>1
  <2>2. CASE ws' = [ws EXCEPT ![WorkspaceOfRun(r)].writer = TRUE]
    BY <2>2, <1>type, RunWorkspace DEF TypeOK, WorkspaceRecords
  <2>3. CASE EndShell(r)
    BY <2>3, <1>type, RunWorkspace DEF EndShell, _release_workspace_after_confirmed_exit, TypeOK
  <2> QED
    BY <1>2, <2>1, <2>2, <2>3 DEF AgentStep, RecordModelUsage, SubmitResult, AuthorizeShell,
         BeginShell, LoseShell, LeaveRun, _confirm_run_exit, AgentExit, ContainerExit
<1>3. ASSUME NEW r \in Runs, StartStep(r) PROVE Same
  <2>1. UNCHANGED ws \/ ws' = [v \in Workspaces |-> KeepBy(ws[v], {r})]
    BY <1>3 DEF StartStep, ClaimStart, CheckStart, AdapterStart, AckStart, AckStartRevoked,
         FailStart, FenceStart
  <2> QED
    BY <1>type, <2>1, KeepKeeps
<1>4. ASSUME NEW r \in Runs, StopStep(r) PROVE Same
  <2>1. CASE UNCHANGED ws
    BY <2>1
  <2>2. CASE AckStop(r)
    <3> DEFINE x == ws[w]
               y == StopAckedWorkspace(x, r)
    <3>1. ws'[w] \in {x, [x EXCEPT !.state = "QUARANTINED", !.writer = TRUE], y, ReleaseBy(y, {r})}
      BY <2>2, <1>type, RunWorkspace DEF AckStop, TypeOK
    <3>2. x \in WorkspaceRecords
      BY <1>type
    <3> HIDE DEF x
    <3>3. y \in WorkspaceRecords /\ y.owner \in {x.owner, NoRun}
      BY <3>2 DEF StopAckedWorkspace, WorkspaceRecords, WorkspaceStates
    <3> HIDE DEF y
    <3>4. ReleaseBy(y, {r}).owner \in {x.owner, NoRun}
      BY <3>3, ReleaseOwner
    <3> QED
      BY <3>1, <3>2, <3>3, <3>4 DEF WorkspaceRecords, x
  <2> QED
    BY <1>4, <2>1, <2>2 DEF StopStep, ClaimStop, AdapterStop, FailStop
<1>5. ASSUME NEW e \in Effects, EffectStep(e) PROVE UNCHANGED ws
  BY <1>5 DEF EffectStep, ProposeSideEffect, ApprovalExpires, DispatchSideEffect, ClaimEffect,
         PrecheckEffect, SendEffect, ApplyReceipt, ApplyUnknown, FailEffect, ReconcileSideEffect
<1>6. CASE Crash
  BY <1>6 DEF Crash
<1>7. ASSUME NEW xStart, NEW xStop, NEW xEff, NEW H, NEW Q,
             Reconcile(xStart, xStop, xEff, H, Q)
      PROVE  Same
  <2>1. PICK L : LET x == ReleaseBy(KeepBy(ws[w], xStart), L)
                 IN ws'[w] \in {x, [x EXCEPT !.state = "QUARANTINED", !.writer = TRUE],
                                [x EXCEPT !.state = "QUARANTINED"]}
    BY <1>7 DEF Reconcile
  <2> DEFINE k == KeepBy(ws[w], xStart)
             x == ReleaseBy(k, L)
  <2>2. k \in WorkspaceRecords /\ k.owner = ws[w].owner
    BY <1>type, KeepType, KeepKeeps
  <2> HIDE DEF k
  <2>3. x \in WorkspaceRecords /\ x.owner \in {ws[w].owner, NoRun}
    BY <1>type, <2>2, ReleaseType, ReleaseOwner
  <2>4. ws'[w] \in {x, [x EXCEPT !.state = "QUARANTINED", !.writer = TRUE],
                    [x EXCEPT !.state = "QUARANTINED"]}
    BY <2>1 DEF k
  <2> HIDE DEF x
  <2> QED
    BY <2>3, <2>4 DEF WorkspaceRecords
<1> QED
  BY <1>1, <1>2, <1>3, <1>4, <1>5, <1>6, <1>7 DEF Next, Recovery

-----------------------------------------------------------------------------
(* Agents in a shell call.                                                 *)

\* From the moment a shell call is let through until its container is known to
\* have ended the run holds its workspace.
ShellHolds == \A r \in Runs : alive[r] /\ InShell(r) => Holds(r)
\* The writer flag is down only when nobody comes.
ComingOwnerHolds == \A r \in Runs : Coming(r) /\ Owned(r) => Holds(r)
\* The agent of a run is started at most once, and calls no shell before.
StartsOnce == \A r \in Runs : startPc[r] \in {"claimed", "allowed"} => ~alive[r] /\ ~InShell(r)
NoShellBeforeStart == \A r \in Runs : run[r] = "NONE" \/ start[r] = "PENDING" => ~InShell(r)

ShellInv ==
    /\ ShellHolds
    /\ ComingOwnerHolds
    /\ StartsOnce
    /\ NoShellBeforeStart

LEMMA ShellInit == Init => ShellInv
<1> SUFFICES ASSUME Init PROVE ShellInv
  OBVIOUS
<1>1. \A r \in Runs : ~alive[r] /\ ~InShell(r) /\ startPc[r] = "idle"
  BY DEF Init, InShell
<1> QED
  BY <1>1 DEF ShellInv, ShellHolds, ComingOwnerHolds, StartsOnce, NoShellBeforeStart, Coming

\* An agent enters a shell call only with a live run.
EntersShell(r) == alive[r] /\ run[r] = "RUNNING" /\ UNCHANGED ws

LEMMA ShellStep ==
    ASSUME TypeOK, Next, NEW q \in Runs
    PROVE  /\ alive'[q] => alive[q] \/ AdapterStart(q)
           /\ InShell(q)' => InShell(q) \/ EntersShell(q)
<1> USE DEF taskVars, decisionVars, planVars, execVars, agentOutbox, effectRows, dispatchers,
        adapterVars, worldVars
<1>1. CASE UNCHANGED <<alive, agentPc, unconf>>
  BY <1>1 DEF InShell
<1>2. Command => UNCHANGED <<alive, agentPc, unconf>>
  BY DEF Command, SubmitContract, ApproveContract, ResumeTask, PrepareAcceptance,
         ApproveAcceptance, DispatchOverBudget, CloseGate, ApproveSideEffect, OpenBlockingGate,
         PauseTask, CancelTask, RuntimeQuiescent, CancellationSettled, ActivatePlan,
         DispatchReadyRuns, ConfirmRunExit, _confirm_run_exit
<1>3. ASSUME NEW e \in Effects, EffectStep(e) PROVE UNCHANGED <<alive, agentPc, unconf>>
  BY <1>3 DEF EffectStep, ProposeSideEffect, ApprovalExpires, DispatchSideEffect, ClaimEffect,
         PrecheckEffect, SendEffect, ApplyReceipt, ApplyUnknown, FailEffect, ReconcileSideEffect
<1>4. ASSUME NEW r \in Runs, AgentStep(r)
      PROVE  /\ alive'[q] => alive[q]
             /\ InShell(q)' => InShell(q) \/ EntersShell(q)
  BY <1>4 DEF AgentStep, RecordModelUsage, SubmitResult, AuthorizeShell, BeginShell, EndShell,
         LoseShell, LeaveRun, _confirm_run_exit, AgentExit, ContainerExit, TypeOK, InShell,
         EntersShell
<1>5. ASSUME NEW r \in Runs, StartStep(r)
      PROVE  /\ alive'[q] => alive[q] \/ AdapterStart(q)
             /\ InShell(q)' <=> InShell(q)
  <2>1. CASE AdapterStart(r)
    BY <2>1 DEF AdapterStart, TypeOK, InShell
  <2>2. CASE ~AdapterStart(r)
    BY <1>5, <2>2 DEF StartStep, ClaimStart, CheckStart, AckStart, AckStartRevoked, FailStart,
           InShell
  <2> QED
    BY <2>1, <2>2
<1>6. ASSUME NEW r \in Runs, StopStep(r)
      PROVE  /\ alive'[q] => alive[q]
             /\ InShell(q)' => InShell(q)
  BY <1>6 DEF StopStep, ClaimStop, AdapterStop, AckStop, FailStop, InShell, TypeOK
<1>7. CASE Crash
  BY <1>7 DEF Crash, InShell
<1>8. ASSUME NEW xStart, NEW xStop, NEW xEff, NEW H, NEW Q,
             Reconcile(xStart, xStop, xEff, H, Q)
      PROVE  UNCHANGED <<alive, agentPc, unconf>>
  BY <1>8 DEF Reconcile
<1> QED
  BY <1>1, <1>2, <1>3, <1>4, <1>5, <1>6, <1>7, <1>8 DEF Next, Recovery

\* What is left to show of a step: starts come first, and whoever comes came
\* before or holds its workspace.
LEMMA ShellKept ==
    ASSUME WorkspaceInv, ShellInv, Next, StartsOnce', NoShellBeforeStart',
           \A q \in Runs : Coming(q)' => Coming(q) \/ Holds(q)'
    PROVE  ShellInv'
<1>1. ASSUME NEW q \in Runs, alive'[q], InShell(q)' PROVE Holds(q)'
  <2>1. CASE EntersShell(q)
    <3>1. Holds(q)
      BY <2>1 DEF EntersShell, WorkspaceInv, LiveRunHolds, ACTIVE_RUN
    <3> QED
      BY <2>1, <3>1 DEF EntersShell, Holds, Owned
  <2>2. CASE alive[q] /\ InShell(q)
    <3>1. Holds(q) /\ Coming(q)
      BY <2>2 DEF ShellInv, ShellHolds, Coming
    <3> QED
      BY <1>1, <3>1, ComingKeeps DEF Keeps
  <2>3. InShell(q) => ~AdapterStart(q)
    BY DEF ShellInv, StartsOnce, AdapterStart
  <2> QED
    BY <1>1, <2>1, <2>2, <2>3, ShellStep DEF WorkspaceInv, EntersShell
<1>2. ASSUME NEW q \in Runs, Coming(q)', Owned(q)' PROVE Holds(q)'
  <2>1. CASE ~Holds(q)'
    <3>1. Coming(q)
      BY <1>2, <2>1
    <3>2. run[q] # "NONE"
      BY <3>1 DEF WorkspaceInv, FreshRunIsUntouched, Coming
    <3>3. ws'[WorkspaceOfRun(q)].owner = q
      BY <1>2 DEF Owned
    <3>4. Owned(q)
      BY <3>2, <3>3, OwnerStep, RunWorkspace, RunAssumption DEF Owned
    <3>5. Holds(q)
      BY <3>1, <3>4 DEF ShellInv, ComingOwnerHolds
    <3> QED
      BY <1>2, <3>1, <3>5, ComingKeeps DEF Keeps
  <2> QED
    BY <2>1
<1> QED
  BY <1>1, <1>2 DEF ShellInv, ShellHolds, ComingOwnerHolds

\* Steps that touch neither agents nor the places of their starts.
LEMMA ShellUntouched ==
    ASSUME WorkspaceInv, ShellInv, Next,
           UNCHANGED <<startPc, alive, revoked, agentPc, unconf>>,
           \A q \in Runs : start'[q] = "PENDING" => start[q] = "PENDING" \/ run[q] = "NONE"
    PROVE  ShellInv'
<1>1. \A q \in Runs : InShell(q)' <=> InShell(q)
  BY DEF InShell
<1>2. StartsOnce'
  BY <1>1 DEF ShellInv, StartsOnce
<1>3. NoShellBeforeStart'
  BY <1>1, RunStep DEF ShellInv, NoShellBeforeStart
<1> QED
  BY <1>1, <1>2, <1>3, ShellKept DEF Coming

LEMMA ShellCommand == ASSUME WorkspaceInv, ShellInv, Command PROVE ShellInv'
<1> USE DEF taskVars, decisionVars, planVars, execVars, agentOutbox, effectRows, dispatchers,
        adapterVars, worldVars
<1>0. Next
  BY DEF Next
<1>type. TypeOK
  BY DEF WorkspaceInv
<1>1. UNCHANGED <<startPc, alive, revoked, agentPc, unconf>>
  BY DEF Command, SubmitContract, ApproveContract, ResumeTask, PrepareAcceptance,
         ApproveAcceptance, DispatchOverBudget, CloseGate, ApproveSideEffect, OpenBlockingGate,
         PauseTask, CancelTask, RuntimeQuiescent, CancellationSettled, ActivatePlan,
         DispatchReadyRuns, ConfirmRunExit, _confirm_run_exit
<1>2. ASSUME NEW q \in Runs, start'[q] = "PENDING" PROVE start[q] = "PENDING" \/ run[q] = "NONE"
  <2>1. CASE \E S, X, O \in SUBSET Units : DispatchReadyRuns(S, X, O)
    <3>1. PICK S, X, O \in SUBSET Units : DispatchReadyRuns(S, X, O)
      BY <2>1
    <3>2. start' = [r \in Runs |-> IF r \in {FreshRun(u) : u \in S} THEN "PENDING" ELSE start[r]]
      BY <3>1 DEF DispatchReadyRuns
    <3> QED
      BY <1>2, <3>1, <3>2, DispatchedAreFresh
  <2>2. CASE \/ PauseTask \/ CancelTask
             \/ \E g \in Clarifications, r \in Runs \cup {NoRun} : OpenBlockingGate(g, r)
    BY <1>2, <2>2 DEF PauseTask, CancelTask, OpenBlockingGate, InvalidatedStarts
  <2>3. CASE \/ \E p \in Plans : ActivatePlan(p)
             \/ \E r \in Runs : ConfirmRunExit(r)
    BY <1>2, <1>type, <2>3 DEF ActivatePlan, ConfirmRunExit, _confirm_run_exit, TypeOK
  <2>4. CASE UNCHANGED start
    BY <1>2, <2>4
  <2> QED
    BY <2>1, <2>2, <2>3, <2>4 DEF Command, SubmitContract, ApproveContract, ResumeTask,
         PrepareAcceptance, ApproveAcceptance, DispatchOverBudget, CloseGate, ApproveSideEffect,
         RuntimeQuiescent, CancellationSettled
<1> QED
  BY <1>0, <1>1, <1>2, ShellUntouched

LEMMA ShellAgent == ASSUME WorkspaceInv, ShellInv, NEW r \in Runs, AgentStep(r) PROVE ShellInv'
<1>0. Next
  BY DEF Next
<1>type. TypeOK
  BY DEF WorkspaceInv
<1> USE DEF taskVars, decisionVars, planVars, execVars, agentOutbox, effectRows, dispatchers,
        adapterVars, worldVars
<1>1. /\ UNCHANGED <<startPc, revoked>>
      /\ \A q \in Runs : start'[q] = "PENDING" => start[q] = "PENDING"
  BY <1>type DEF AgentStep, RecordModelUsage, SubmitResult, AuthorizeShell, BeginShell, EndShell,
         LoseShell, LeaveRun, _confirm_run_exit, AgentExit, ContainerExit, TypeOK
<1>2. \A q \in Runs : alive'[q] => alive[q]
  BY <1>type DEF AgentStep, RecordModelUsage, SubmitResult, AuthorizeShell, BeginShell, EndShell,
         LoseShell, LeaveRun, _confirm_run_exit, AgentExit, ContainerExit, TypeOK
<1>3. \A q \in Runs : InShell(q)' => InShell(q) \/ EntersShell(q)
  BY <1>0, <1>type, ShellStep
<1>4. StartsOnce'
  BY <1>1, <1>2, <1>3 DEF ShellInv, StartsOnce, EntersShell
<1>5. NoShellBeforeStart'
  BY <1>0, <1>1, <1>3, RunStep DEF ShellInv, NoShellBeforeStart, EntersShell, WorkspaceInv,
         PendingStartIsUnsent
<1> QED
  BY <1>0, <1>1, <1>2, <1>4, <1>5, ShellKept DEF Coming

LEMMA ShellStart == ASSUME WorkspaceInv, ShellInv, NEW r \in Runs, StartStep(r) PROVE ShellInv'
<1>0. Next
  BY DEF Next
<1>type. TypeOK
  BY DEF WorkspaceInv
<1> USE DEF taskVars, decisionVars, planVars, execVars, agentOutbox, effectRows, dispatchers,
        adapterVars, worldVars
<1>1. UNCHANGED <<revoked, agentPc, unconf>>
  BY DEF StartStep, ClaimStart, CheckStart, AdapterStart, AckStart, AckStartRevoked, FailStart
<1>2. \A q \in Runs : InShell(q)' <=> InShell(q)
  BY <1>1 DEF InShell
<1>3. \A q \in Runs : /\ start'[q] = "PENDING" => start[q] = "PENDING"
                      /\ startPc'[q] \in {"claimed", "allowed"} =>
                           /\ startPc[q] \in {"claimed", "allowed"} \/ start[q] = "PENDING"
                           /\ alive'[q] => alive[q]
  BY <1>type DEF StartStep, ClaimStart, CheckStart, AdapterStart, AckStart, AckStartRevoked,
         FailStart, FenceStart, TypeOK
<1>4. StartsOnce'
  BY <1>2, <1>3 DEF ShellInv, StartsOnce, NoShellBeforeStart, WorkspaceInv, PendingStartIsUnsent
<1>5. NoShellBeforeStart'
  BY <1>0, <1>2, <1>3, RunStep DEF ShellInv, NoShellBeforeStart
<1>6. ASSUME NEW q \in Runs, Coming(q)', ~Coming(q) PROVE Holds(q)'
  <2>1. run[q] \in ACTIVE_RUN
    BY <1>6, <1>type DEF StartStep, ClaimStart, CheckStart, AdapterStart, AckStart,
         AckStartRevoked, FailStart, SendAllowed, Coming, TypeOK
  <2>2. Holds(q)
    BY <2>1 DEF WorkspaceInv, LiveRunHolds
  <2> QED
    BY <2>2, StartKeeps DEF Keeps
<1> QED
  BY <1>0, <1>4, <1>5, <1>6, ShellKept

LEMMA ShellStop == ASSUME WorkspaceInv, ShellInv, NEW r \in Runs, StopStep(r) PROVE ShellInv'
<1>0. Next
  BY DEF Next
<1>type. TypeOK
  BY DEF WorkspaceInv
<1> USE DEF taskVars, decisionVars, planVars, execVars, agentOutbox, effectRows, dispatchers,
        adapterVars, worldVars
<1>1. UNCHANGED <<start, startPc, unconf>>
  BY DEF StopStep, ClaimStop, AdapterStop, AckStop, FailStop
<1>2. \A q \in Runs : /\ alive'[q] => alive[q]
                      /\ revoked[q] => revoked'[q]
                      /\ InShell(q)' => InShell(q)
  BY <1>type DEF StopStep, ClaimStop, AdapterStop, AckStop, FailStop, InShell, TypeOK
<1>3. StartsOnce'
  BY <1>1, <1>2 DEF ShellInv, StartsOnce
<1>4. NoShellBeforeStart'
  BY <1>0, <1>1, <1>2, RunStep DEF ShellInv, NoShellBeforeStart
<1> QED
  BY <1>0, <1>1, <1>2, <1>3, <1>4, ShellKept DEF Coming

LEMMA ShellRecovery == ASSUME WorkspaceInv, ShellInv, Recovery PROVE ShellInv'
<1>0. Next
  BY DEF Next
<1> USE DEF taskVars, decisionVars, planVars, execVars, agentOutbox, effectRows, dispatchers,
        adapterVars, worldVars
<1>1. CASE Crash
  <2>1. \A q \in Runs : ~alive'[q] /\ startPc'[q] = "idle" /\ (InShell(q)' => InShell(q))
    BY <1>1 DEF Crash, InShell
  <2>2. UNCHANGED <<run, start>>
    BY <1>1 DEF Crash
  <2> QED
    BY <1>0, <2>1, <2>2, ShellKept DEF ShellInv, StartsOnce, NoShellBeforeStart, Coming
<1>2. ASSUME NEW xStart, NEW xStop, NEW xEff, NEW H, NEW Q,
             Reconcile(xStart, xStop, xEff, H, Q)
      PROVE  ShellInv'
  BY <1>0, <1>2, ShellUntouched DEF Reconcile
<1> QED
  BY <1>1, <1>2 DEF Recovery

LEMMA ShellEffect ==
    ASSUME WorkspaceInv, ShellInv, NEW e \in Effects, EffectStep(e) PROVE ShellInv'
<1>1. UNCHANGED <<start, startPc, alive, revoked, agentPc, unconf>>
  BY DEF EffectStep, ProposeSideEffect, ApprovalExpires, DispatchSideEffect, ClaimEffect,
         PrecheckEffect, SendEffect, ApplyReceipt, ApplyUnknown, FailEffect, ReconcileSideEffect,
         execVars, agentOutbox, dispatchers, adapterVars
<1> QED
  BY <1>1, ShellUntouched DEF Next

-----------------------------------------------------------------------------
LEMMA ShellPreserved == ASSUME WorkspaceInv, ShellInv, [Next]_vars PROVE ShellInv'
<1>1. CASE Next
  BY <1>1, ShellCommand, ShellAgent, ShellStart, ShellStop, ShellEffect, ShellRecovery DEF Next
<1>2. CASE UNCHANGED vars
  BY <1>2 DEF vars, execVars, agentOutbox, dispatchers, adapterVars, ShellInv, ShellHolds,
     ComingOwnerHolds, StartsOnce, NoShellBeforeStart, InShell, Coming, Holds, Owned
<1> QED
  BY <1>1, <1>2

\* The inductive invariant for agents with shell commands.
THEOREM ShellInvariance == Spec => []ShellInv
<1>1. WorkspaceInv /\ ShellInv /\ [Next]_vars => ShellInv'
  BY ShellPreserved
<1> QED
  BY <1>1, ShellInit, WorkspaceInvariance, PTL DEF Spec

\* Whatever becomes of its run, an agent that has not seen its container end keeps
\* the workspace: _clear_run_occupancy quarantines it, a stop that finds the agent
\* alive does, and register_sandbox_identity frees it only when the exit is
\* confirmed.
THEOREM UnconfirmedShells == Spec => []UnconfirmedShellKeepsWorkspace
<1>1. ShellInv => UnconfirmedShellKeepsWorkspace
  BY DEF ShellInv, ShellHolds, InShell, Holds, UnconfirmedShellKeepsWorkspace
<1> QED
  BY <1>1, ShellInvariance, PTL

-----------------------------------------------------------------------------
(* The lock                                                                *)

\* Whoever may write holds its workspace.
LEMMA WriterHolds ==
    ASSUME WorkspaceInv, ShellInv, NEW r \in Runs, MayWrite(r)
    PROVE  Holds(r) /\ Coming(r)
BY DEF WorkspaceInv, LiveRunHolds, ComingAgentHolds, ShellInv, ShellHolds, MayWrite, Coming

\* Nobody begins to write except by being started.
LEMMA WriterStep ==
    ASSUME WorkspaceInv, Next, NEW q \in Runs, MayWrite(q)'
    PROVE  MayWrite(q) \/ AdapterStart(q)
<1>1. alive[q] \/ AdapterStart(q)
  BY ShellStep DEF MayWrite, WorkspaceInv
<1>2. CASE alive[q] /\ run'[q] \in ACTIVE_RUN
  <2>1. run[q] \in ACTIVE_RUN
    BY <1>2, RunStep DEF WorkspaceInv, FreshRunIsUntouched
  <2> QED
    BY <1>2, <2>1 DEF MayWrite
<1>3. CASE alive[q] /\ InShell(q)'
  <2>1. InShell(q) \/ run[q] \in ACTIVE_RUN
    BY <1>3, ShellStep DEF WorkspaceInv, EntersShell, ACTIVE_RUN
  <2> QED
    BY <1>3, <2>1 DEF MayWrite
<1> QED
  BY <1>1, <1>2, <1>3 DEF MayWrite

\* No workspace is taken from somebody who goes on writing.
LEMMA WriterKeeps ==
    ASSUME WorkspaceInv, ShellInv, Next, NEW q \in Runs, MayWrite(q), MayWrite(q)'
    PROVE  Holds(q)'
<1>1. Holds(q) /\ Coming(q)
  BY WriterHolds
<1>2. SUFFICES ASSUME run[q] \in TERMINAL_RUN, agentPc[q] = "exited", ~InShell(q)', UNCHANGED run
               PROVE  FALSE
  BY <1>1, ComingKeeps DEF Keeps
<1>3. UnitOf[q] \in ShellUnits
  BY <1>2 DEF WorkspaceInv, NoShellWithoutGrant
<1> QED
  BY <1>2, <1>3 DEF MayWrite, TERMINAL_RUN, ACTIVE_RUN

LEMMA AdapterStartRefines ==
    ASSUME WorkspaceInv, ShellInv, NEW r \in Runs, AdapterStart(r)
    PROVE  Lock!LockNext
<1>type. TypeOK /\ WorkspaceOfRun(r) \in Workspaces
  BY RunWorkspace DEF WorkspaceInv
<1>1. /\ UNCHANGED <<run, ws, agentPc, unconf>>
      /\ \A q \in Runs \ {r} : alive'[q] = alive[q]
      /\ alive'[r] => startPc[r] = "allowed" /\ ~revoked[r]
  BY <1>type DEF AdapterStart, execVars, TypeOK, ShellInv, StartsOnce
<1>2. ~alive[r] /\ ~InShell(r)
  BY DEF AdapterStart, ShellInv, StartsOnce
<1>3. \A q \in Runs \ {r} : MayWrite(q)' <=> MayWrite(q)
  BY <1>1 DEF MayWrite, InShell
<1>4. ~MayWrite(r)
  BY <1>2 DEF MayWrite
<1>5. CASE MayWrite(r)'
  <2>1. Owned(r)
    BY <1>1, <1>2, <1>5 DEF MayWrite, InShell, Coming, Holds, WorkspaceInv, ComingAgentHolds,
       LiveRunHolds
  <2>2. {q \in Runs : MayWrite(q)}' = {q \in Runs : MayWrite(q)} \cup {r}
    BY <1>3, <1>5
  <2>3. Lock!Enter(r)
    BY <1>type, <1>1, <2>1, <2>2 DEF Lock!Enter, Owned
  <2> QED
    BY <2>3 DEF Lock!LockNext
<1>6. CASE ~MayWrite(r)'
  <2>1. {q \in Runs : MayWrite(q)}' = {q \in Runs : MayWrite(q)}
    BY <1>3, <1>4, <1>6
  <2>2. Lock!Handover
    BY <1>1, <2>1 DEF Lock!Handover
  <2> QED
    BY <2>2 DEF Lock!LockNext
<1> QED
  BY <1>5, <1>6

LEMMA OthersRefine ==
    ASSUME WorkspaceInv, ShellInv, Next, \A r \in Runs : ~AdapterStart(r)
    PROVE  Lock!LockNext
<1> DEFINE new == {r \in Runs : run[r] # "NONE"}' \ {r \in Runs : run[r] # "NONE"}
<1>1. {r \in Runs : MayWrite(r)}' \subseteq {r \in Runs : MayWrite(r)}
  BY WriterStep
<1>2. {r \in Runs : run[r] # "NONE"} \subseteq {r \in Runs : run[r] # "NONE"}'
  BY RunStep
<1>3. ASSUME NEW r \in new PROVE r \in Runs /\ ws'[WorkspaceOfRun(r)].owner = r
  BY RunStep DEF Holds, Owned
<1>4. ASSUME NEW w \in Workspaces, ws'[w].owner # ws[w].owner
      PROVE  /\ ws'[w].owner \in new \cup {NoRun}
             /\ \A r \in Runs : MayWrite(r)' => WorkspaceOfRun(r) # w
  <2>1. ws'[w].owner \in new \cup {NoRun}
    BY <1>4, OwnerStep
  <2>2. ASSUME NEW r \in Runs, MayWrite(r)', WorkspaceOfRun(r) = w PROVE FALSE
    <3>1. MayWrite(r)
      BY <1>1, <2>2
    <3>2. Holds(r) /\ Holds(r)'
      BY <2>2, <3>1, WriterHolds, WriterKeeps
    <3> QED
      BY <1>4, <2>2, <3>2 DEF Holds, Owned
  <2> QED
    BY <2>1, <2>2
<1>5. \A r \in Runs : WorkspaceOfRun(r) \in Workspaces
  BY RunWorkspace
<1>6. Lock!Handover
  BY <1>1, <1>2, <1>3, <1>4, <1>5 DEF Lock!Handover
<1> QED
  BY <1>6 DEF Lock!LockNext

\* Dispatch, revocation, stops, container exits, losses, crashes and the agents'
\* starts implement a lock per workspace: an agent begins to write only in a
\* workspace that its run owns, no workspace is taken from a writer, and a run
\* gets its workspace once.
THEOREM CoreImplementsLock == Spec => WorkspaceIsLocked
<1>1. Init => Lock!LockInit
  BY DEF Init, Lock!LockInit, MayWrite
<1>2. WorkspaceInv /\ ShellInv /\ [Next]_vars => [Lock!LockNext]_(Lock!lockVars)
  <2>1. CASE Next
    BY <2>1, AdapterStartRefines, OthersRefine
  <2>2. CASE UNCHANGED vars
    BY <2>2 DEF vars, execVars, adapterVars, Lock!lockVars, MayWrite, InShell
  <2> QED
    BY <2>1, <2>2
<1> QED
  BY <1>1, <1>2, WorkspaceInvariance, ShellInvariance, PTL
  DEF Spec, WorkspaceIsLocked, Lock!LockSpec

\* INV-07: at most one agent may write to a workspace, shell commands or not,
\* whatever agents of ended runs live on beside it.
THEOREM SingleShellWriter == Spec => []OneWriterPerWorkspace
<1>1. WorkspaceInv /\ ShellInv => OneWriterPerWorkspace
  BY WriterHolds DEF Holds, Owned, OneWriterPerWorkspace
<1> QED
  BY <1>1, WorkspaceInvariance, ShellInvariance, PTL

=============================================================================
