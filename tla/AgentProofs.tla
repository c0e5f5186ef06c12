---------------------------- MODULE AgentProofs -----------------------------
(***************************************************************************)
(* Proofs about the API agent for every set of run specs and files: its    *)
(* bounds, its tool calls, its containers, and what a stop or a freeze     *)
(* means for it.  Each group of properties has a part of the inductive     *)
(* invariant that says what holds at the places of the thread.             *)
(***************************************************************************)
EXTENDS ApiAgent, TLAPS

\* A call that is to be authorized is a call of a known tool.
ToolInv == pc = "authorize" => tool.name \in Tools

\* The bounds hold with room to spare wherever a counter is about to grow.
LoopInv ==
    /\ spec \in Specs
    /\ turn \in Nat /\ calls \in Nat /\ charged \in Nat /\ retries \in Nat /\ todo \in Nat
    /\ turn <= spec.turns /\ calls <= spec.calls /\ retries <= 1 /\ todo <= MaxToolCalls
    /\ calls <= charged
    /\ pc \in {"usage", "chat"} => calls < spec.calls
    /\ pc = "chat" => calls < charged

\* Between its ALLOW and its effect a call has done nothing, and what its walk
\* holds open lies in the workspace.
CallInv ==
    /\ row \in Invocations
    /\ pc \in {"walk", "file", "replace", "shell.run", "artifact.publish"} =>
         row.decision = "ALLOW" /\ did = {}
    /\ pc = "authorize" => did = {}
    /\ pc \in {"file", "replace"} => fd = "inside"
    /\ EffectsAreAllowed

\* A client that may still have a container started has its claim on record, and
\* an agent that reported the end of its writes has none.
BoxInv ==
    /\ ContainerIsClaimed
    /\ client = "waiting" => pc = "client" /\ unconf
    /\ pc = "none" => ~unconf
    /\ finished => pc \in {"confirm", "ended"} /\ ~unconf
    /\ told = "gone" => /\ pc \in {"none", "confirm", "ended"} /\ ~unconf
                        /\ pc = "none" => revoked
    /\ told \in {"nothing", "gone", "alive", "unconfirmed"}

\* After a late step the thread is on its way out, or at a call that the broker
\* has still to decide.
LateInv ==
    /\ late = [stop |-> late.stop, frozen |-> late.frozen]
    /\ late.stop \in {0, 1} /\ late.frozen \in {0, 1}
    /\ late.stop = 1 =>
         /\ stop_event
         /\ pc \in {"chat", "turn", "tools", "record", "client", "probe", "check", "exit",
                    "confirm", "ended"}
    /\ late.frozen = 1 =>
         frozen /\ pc \notin {"walk", "file", "replace", "shell.run", "artifact.publish"}

\* The loop is over when there is a result.
ResultInv ==
    /\ result # NoResult => pc \in {"exit", "confirm", "ended"}
    /\ HonestPass

AgentInv == ToolInv /\ LoopInv /\ CallInv /\ BoxInv /\ LateInv /\ ResultInv

-----------------------------------------------------------------------------
\* Every step of the agent and its surroundings keeps the tool of a call known.
LEMMA ToolStep == ASSUME ToolInv, [Next]_vars PROVE ToolInv'
  <1> USE DEF ToolInv, Tools, FileTools
  <1>1. CASE NextTool
    BY <1>1 DEF NextTool
  <1>2. CASE Start \/ Setup \/ Turn \/ RecordModelUsage \/ Chat \/ Authorize
    BY <1>2 DEF Start, Setup, Turn, RecordModelUsage, AfterRefusal, Chat, Authorize
  <1>3. CASE WalkToFile \/ OpenFile \/ ReplaceFile \/ PublishFile \/ RecordOutcome
    BY <1>3 DEF WalkToFile, OpenFile, ReplaceFile, PublishFile, RecordOutcome
  <1>4. CASE BeginShell \/ PollClient \/ EndShell
    BY <1>4 DEF BeginShell, PollClient, EndShell
  <1>5. CASE CheckStop \/ SubmitResult \/ Exit \/ ConfirmExit
    BY <1>5 DEF CheckStop, SubmitResult, Exit, ConfirmExit
  <1>6. CASE Stop \/ StopReturns \/ CoreMoves \/ DockerMoves \/ UNCHANGED vars
    BY <1>6 DEF Stop, StopReturns, CoreMoves, DockerMoves, vars, loopVars
  <1> QED BY <1>1, <1>2, <1>3, <1>4, <1>5, <1>6 DEF Next, AgentStep

\* Every step keeps the bounds of _loop.
LEMMA LoopStep == ASSUME ToolInv, LoopInv, [Next]_vars PROVE LoopInv'
  <1> USE AgentAssumption DEF LoopInv, coreVars, loopVars
  <1>1. CASE Turn
    BY <1>1 DEF Turn, OverBudget, NoTurnLeft
  <1>2. CASE RecordModelUsage
    BY <1>2 DEF RecordModelUsage, AfterRefusal
  <1>3. CASE Chat
    BY <1>3 DEF Chat
  <1>4. CASE NextTool
    BY <1>4 DEF NextTool
  <1>5. CASE Start \/ Setup \/ Authorize
    BY <1>5 DEF Start, Setup, Authorize, ToolInv, Tools, FileTools
  <1>6. CASE WalkToFile \/ OpenFile \/ ReplaceFile
    BY <1>6 DEF WalkToFile, OpenFile, ReplaceFile
  <1>7. CASE PublishFile \/ RecordOutcome \/ BeginShell \/ PollClient \/ EndShell
    BY <1>7 DEF PublishFile, RecordOutcome, BeginShell, PollClient, EndShell
  <1>8. CASE CheckStop \/ SubmitResult \/ Exit \/ ConfirmExit
    BY <1>8 DEF CheckStop, SubmitResult, Exit, ConfirmExit
  <1>9. CASE Stop \/ StopReturns \/ CoreMoves \/ DockerMoves \/ UNCHANGED vars
    BY <1>9 DEF Stop, StopReturns, CoreMoves, DockerMoves, vars
  <1> QED BY <1>1, <1>2, <1>3, <1>4, <1>5, <1>6, <1>7, <1>8, <1>9 DEF Next, AgentStep

\* Every step keeps the audit row ahead of the tool's effect.
LEMMA CallStep == ASSUME ToolInv, CallInv, [Next]_vars PROVE CallInv'
  <1> USE DEF CallInv, Invocations, EffectsAreAllowed, brokerVars, pathVars
  <1>1. CASE NextTool
    BY <1>1 DEF NextTool, NoInvocation
  <1>2. CASE Authorize
    BY <1>2 DEF Authorize, Decision, ToolInv, Tools, FileTools
  <1>3. CASE WalkToFile
    BY <1>3 DEF WalkToFile, Walk, _open_dir, _record_refusal
  <1>4. CASE OpenFile
    <2>1. pc = "file" /\ row.decision = "ALLOW" /\ did = {} /\ fd = "inside"
      BY <1>4 DEF OpenFile
    <2>2. UNCHANGED fd
      BY <1>4 DEF OpenFile
    <2>3. CASE did' = did
      <3>1. \/ pc' = "tools" /\ (_record_refusal \/ record_outcome("error"))
            \/ pc' = "replace" /\ row' = row
        BY <1>4, <2>1, <2>3, Zenon DEF OpenFile
      <3>2. row' \in Invocations
        BY <3>1 DEF _record_refusal, record_outcome
      <3> QED BY <2>1, <2>2, <2>3, <3>1, <3>2
    <2>4. CASE did' # did
      BY <1>4, <2>1, <2>2, <2>4 DEF OpenFile, _open_final
    <2> QED BY <2>3, <2>4
  <1>5. CASE ReplaceFile
    BY <1>5 DEF ReplaceFile, Replace, record_outcome
  <1>6. CASE PublishFile
    BY <1>6 DEF PublishFile, record_outcome
  <1>7. CASE RecordOutcome
    BY <1>7 DEF RecordOutcome, record_outcome
  <1>8. CASE BeginShell
    BY <1>8 DEF BeginShell, record_outcome
  <1>9. CASE Start \/ Setup \/ Turn \/ RecordModelUsage \/ Chat \/ PollClient \/ EndShell
    BY <1>9 DEF Start, Setup, Turn, RecordModelUsage, AfterRefusal, Chat, PollClient, EndShell
  <1>10. CASE CheckStop \/ SubmitResult \/ Exit \/ ConfirmExit
    BY <1>10 DEF CheckStop, SubmitResult, Exit, ConfirmExit
  <1>11. CASE DockerMoves
    BY <1>11 DEF DockerMoves, Interfere
  <1>12. CASE Stop \/ StopReturns \/ CoreMoves \/ UNCHANGED vars
    BY <1>12 DEF Stop, StopReturns, CoreMoves, vars
  <1> QED BY <1>1, <1>2, <1>3, <1>4, <1>5, <1>6, <1>7, <1>8, <1>9, <1>10, <1>11, <1>12
          DEF Next, AgentStep

\* Every step keeps the claim on a container that may run, and the answers of stop().
LEMMA BoxStep == ASSUME ToolInv, BoxInv, [Next]_vars PROVE BoxInv'
  <1> USE DEF BoxInv, ContainerIsClaimed, sandboxVars, recordVars
  <1>1. CASE Start
    BY <1>1 DEF Start, MayStart
  <1>2. CASE BeginShell
    BY <1>2 DEF BeginShell, LaunchClient, ClaimBeforeExecute
  <1>3. CASE PollClient
    BY <1>3 DEF PollClient, _stop_container
  <1>4. CASE EndShell
    BY <1>4 DEF EndShell, ProbeAnswers, ExitConfirmed
  <1>5. CASE Exit
    BY <1>5 DEF Exit, FinishedWrites
  <1>6. CASE ConfirmExit
    BY <1>6 DEF ConfirmExit
  <1>7. CASE Stop
    BY <1>7 DEF Stop
  <1>8. CASE StopReturns
    BY <1>8 DEF StopReturns, StopAnswer
  <1>9. CASE DockerMoves
    BY <1>9 DEF DockerMoves, ContainerStarts, ContainerExits, ClientExits
  <1>10. CASE \/ Setup \/ Turn \/ RecordModelUsage \/ Chat \/ NextTool
              \/ Authorize \/ WalkToFile \/ OpenFile \/ ReplaceFile \/ PublishFile
              \/ RecordOutcome \/ CheckStop \/ SubmitResult
    <2>1. UNCHANGED <<sandboxVars, recordVars>>
      BY <1>10 DEF Setup, Turn, RecordModelUsage, Chat, NextTool, Authorize, WalkToFile,
                   OpenFile, ReplaceFile, PublishFile, RecordOutcome, CheckStop, SubmitResult
    <2>2. pc \notin {"none", "client", "confirm", "ended"}
      BY <1>10 DEF Setup, Turn, RecordModelUsage, Chat, NextTool, Authorize, WalkToFile,
                   OpenFile, ReplaceFile, PublishFile, RecordOutcome, CheckStop, SubmitResult
    <2>3. pc' # "none"
      BY <1>10 DEF Setup, Turn, RecordModelUsage, AfterRefusal, Chat, NextTool, Authorize, ToolInv,
                   Tools, FileTools, WalkToFile, OpenFile, ReplaceFile, PublishFile, RecordOutcome,
                   CheckStop, SubmitResult
    <2> QED BY <2>1, <2>2, <2>3
  <1>11. CASE CoreMoves \/ UNCHANGED vars
    BY <1>11 DEF CoreMoves, vars
  <1> QED BY <1>1, <1>2, <1>3, <1>4, <1>5, <1>6, <1>7, <1>8, <1>9, <1>10, <1>11
          DEF Next, AgentStep

\* Every step keeps late steps to one: the checks of stop_event in _loop and of the
\* freeze in _authorize_in_tx come often enough.
LEMMA LateStep == ASSUME ToolInv, LateInv, [Next]_vars PROVE LateInv'
  <1> USE DEF LateInv, recordVars, brokerVars
  <1>1. CASE RecordModelUsage
    BY <1>1 DEF RecordModelUsage, AfterRefusal, Late
  <1>2. CASE Authorize
    BY <1>2 DEF Authorize, Decision, Allowed, ToolInv, Tools, FileTools
  <1>3. CASE OpenFile
    BY <1>3 DEF OpenFile, Late
  <1>4. CASE ReplaceFile
    BY <1>4 DEF ReplaceFile, Late
  <1>5. CASE PublishFile
    BY <1>5 DEF PublishFile, Late
  <1>6. CASE BeginShell
    <2>1. late.stop = 0 /\ late.frozen = 0 /\ pc' \in {"tools", "client"}
      BY <1>6 DEF BeginShell
    <2>2. UNCHANGED <<stop_event, frozen>>
      BY <1>6 DEF BeginShell
    <2>3. late' = late \/ Late(TRUE)
      BY <1>6 DEF BeginShell
    <2> QED BY <2>1, <2>2, <2>3 DEF Late
  <1>7. CASE SubmitResult
    BY <1>7 DEF SubmitResult, Late
  <1>8. CASE NextTool
    BY <1>8 DEF NextTool, StopSeen
  <1>9. CASE Start \/ Setup \/ Turn \/ Chat
    BY <1>9 DEF Start, MayStart, Setup, Turn, Chat
  <1>10. CASE WalkToFile \/ RecordOutcome \/ PollClient \/ EndShell
    BY <1>10 DEF WalkToFile, RecordOutcome, PollClient, EndShell
  <1>11. CASE CheckStop \/ Exit \/ ConfirmExit
    BY <1>11 DEF CheckStop, Exit, ConfirmExit
  <1>12. CASE CoreMoves
    BY <1>12 DEF CoreMoves
  <1>13. CASE Stop \/ StopReturns \/ DockerMoves \/ UNCHANGED vars
    BY <1>13 DEF Stop, StopReturns, DockerMoves, vars
  <1> QED BY <1>1, <1>2, <1>3, <1>4, <1>5, <1>6, <1>7, <1>8, <1>9, <1>10, <1>11, <1>12, <1>13
          DEF Next, AgentStep

\* Whatever the model's last text says, a result that claims success is one.
LEMMA ResultIsHonest ==
  ASSUME NEW text \in Texts, Result(text).outcome = "COMPLETED", Result(text).verdict = "PASS"
  PROVE  /\ ~Blocked(text) /\ Result(text).marker = text.marker
         /\ spec.expected # {} /\ spec.criteria => Result(text).evidence # "none"
         /\ spec.verify => Result(text).evidence # "adapter"
  BY DEF Result, Texts

\* Every step keeps the result honest once it is there.
LEMMA ResultStep == ASSUME ToolInv, ResultInv, [Next]_vars PROVE ResultInv'
  <1> USE DEF ResultInv, HonestPass, NoResult, loopVars, coreVars
  <1>1. CASE SubmitResult
    <2>1. CASE UNCHANGED result
      BY <1>1, <2>1 DEF SubmitResult
    <2>2. CASE \E text \in IF final THEN Texts ELSE {NoText} : result' = Result(text)
      <3>1. PICK text \in Texts : result' = Result(text)
        BY <2>2 DEF Texts, NoText
      <3>2. UNCHANGED <<final, error, published, spec>> /\ pc' = "exit"
        BY <1>1 DEF SubmitResult
      <3> QED BY <3>1, <3>2, ResultIsHonest DEF Blocked
    <2> QED BY <1>1, <2>1, <2>2 DEF SubmitResult
  <1>2. CASE Start \/ Setup \/ Turn \/ RecordModelUsage \/ Chat \/ NextTool
    BY <1>2 DEF Start, MayStart, Setup, Turn, RecordModelUsage, Chat, NextTool
  <1>3. CASE Authorize \/ WalkToFile \/ OpenFile \/ ReplaceFile \/ PublishFile
    BY <1>3 DEF Authorize, WalkToFile, OpenFile, ReplaceFile, PublishFile
  <1>4. CASE RecordOutcome \/ BeginShell \/ PollClient \/ EndShell
    BY <1>4 DEF RecordOutcome, BeginShell, PollClient, EndShell
  <1>5. CASE CheckStop \/ Exit \/ ConfirmExit
    BY <1>5 DEF CheckStop, Exit, ConfirmExit
  <1>6. CASE Stop \/ StopReturns \/ CoreMoves \/ DockerMoves \/ UNCHANGED vars
    BY <1>6 DEF Stop, StopReturns, CoreMoves, DockerMoves, vars
  <1> QED BY <1>1, <1>2, <1>3, <1>4, <1>5, <1>6 DEF Next, AgentStep

-----------------------------------------------------------------------------
(* The theorems                                                            *)

\* An agent that was not started satisfies the invariant.
LEMMA AgentInit == Init => AgentInv
  <1> SUFFICES ASSUME Init PROVE AgentInv
    OBVIOUS
  <1>1. ToolInv /\ LoopInv
    BY AgentAssumption DEF Init, ToolInv, LoopInv
  <1>2. CallInv
    BY DEF Init, BrokerInit, CallInv, Invocations, NoInvocation, EffectsAreAllowed
  <1>3. BoxInv
    BY DEF Init, SandboxInit, BoxInv, ContainerIsClaimed
  <1>4. LateInv /\ ResultInv
    BY DEF Init, LateInv, ResultInv, HonestPass
  <1> QED BY <1>1, <1>2, <1>3, <1>4 DEF AgentInv

\* The inductive invariant of the API agent: what holds at each place of the thread
\* in _run_worker, _loop, _dispatch_tool and stop.
THEOREM AgentInvariance == Spec => []AgentInv
  <1>1. AgentInv /\ [Next]_vars => AgentInv'
    BY ToolStep, LoopStep, CallStep, BoxStep, LateStep, ResultStep DEF AgentInv
  <1> QED BY AgentInit, <1>1, PTL DEF Spec

\* _loop never exceeds its turns, its model calls or its one reminder to publish, for
\* any limits of the run spec.
THEOREM AgentTypeCorrect == Spec => []AgentTypeOK
  <1>1. AgentInv => AgentTypeOK
    BY AgentAssumption DEF AgentInv, LoopInv, CallInv, BoxInv, AgentTypeOK
  <1> QED BY AgentInvariance, <1>1, PTL

\* No model call is made before record_model_usage has charged it to the run.
THEOREM ChargedCalls == Spec => []CallsAreCharged
  <1>1. AgentInv => CallsAreCharged
    BY DEF AgentInv, LoopInv, CallsAreCharged
  <1> QED BY AgentInvariance, <1>1, PTL

\* No tool touches anything before the broker's ALLOW is committed, none whose row
\* says DENY ever has, and no file tool leaves the workspace.
THEOREM AllowedEffects == Spec => []EffectsAreAllowed
  <1>1. AgentInv => EffectsAreAllowed
    BY DEF AgentInv, CallInv
  <1> QED BY AgentInvariance, <1>1, PTL

\* The container of the last shell call runs only while the run's record claims it.
THEOREM ClaimedContainers == Spec => []ContainerIsClaimed
  <1>1. AgentInv => ContainerIsClaimed
    BY DEF AgentInv, BoxInv
  <1> QED BY AgentInvariance, <1>1, PTL

\* When stop() says that the agent is gone, its thread, its start and its last
\* container are.
THEOREM GoneIsGone == Spec => []ToldGoneIsGone
  <1>1. AgentInv => ToldGoneIsGone
    BY DEF AgentInv, BoxInv, ToldGoneIsGone, ContainerIsClaimed
  <1> QED BY AgentInvariance, <1>1, PTL

\* At most one model call, tool effect or result is begun after a stop.
THEOREM StopHolds == Spec => []StopTakesHold
  <1>1. AgentInv => StopTakesHold
    BY DEF AgentInv, LateInv, StopTakesHold
  <1> QED BY AgentInvariance, <1>1, PTL

\* At most one tool effect follows a freeze of the task.
THEOREM FreezeHolds == Spec => []FreezeTakesHold
  <1>1. AgentInv => FreezeTakesHold
    BY DEF AgentInv, LateInv, FreezeTakesHold
  <1> QED BY AgentInvariance, <1>1, PTL

\* _submit_result claims success only with every expected file published and with
\* evidence where criteria are given.
THEOREM HonestResults == Spec => []HonestPass
  <1>1. AgentInv => HonestPass
    BY DEF AgentInv, ResultInv
  <1> QED BY AgentInvariance, <1>1, PTL
=============================================================================
