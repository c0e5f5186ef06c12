------------------------------ MODULE ApiAgent ------------------------------
(***************************************************************************)
(* One run of the API agent (runtime/api_agent.py): the thread that asks   *)
(* the model for replies and carries out their tool calls, the stop() that *)
(* another thread may call at any moment, and what both say about it.      *)
(* Execution.tla sees this agent as "working" until it exits; here is what *)
(* it does meanwhile and why it ends.                                      *)
(*                                                                         *)
(* The thread takes one step per call that leaves it (a transaction of the *)
(* Core or the broker, the model, the file system, docker); what it does   *)
(* in memory in between belongs to the step before.  The Core, the task's  *)
(* other runs, docker and the container are the environment.               *)
(***************************************************************************)
EXTENDS ToolBroker, ShellSandbox, Naturals, FiniteSets

CONSTANTS
    Specs,          \* frozen run specs: tools, expected, criteria, verify, turns, calls
    MaxToolCalls    \* bound: tool calls in one reply

ASSUME AgentAssumption ==
    /\ MaxToolCalls \in Nat
    /\ \A s \in Specs : s.turns \in Nat /\ s.calls \in Nat

VARIABLES
    spec, charged,                      \* the run's spec; model calls the Core has charged to the run
    pc, turn, calls, retries, todo,     \* the loop: place, turns, model calls, nudges, calls to do
    tool, error, final, published,      \* tool call in progress; how the loop ended; what it published
    result,                             \* the submitted result
    stop_event, revoked, unconf, finished,    \* the record: revocation, sandbox_exit_unconfirmed, finished_writes
    told,                               \* what stop() last answered
    late                                \* steps begun after the stop, effects since the freeze

loopVars == <<turn, calls, retries, todo, tool, error, final, published>>
recordVars == <<stop_event, revoked, unconf, finished, told>>
coreVars == <<spec, charged>>
vars == <<pathVars, brokerVars, sandboxVars, coreVars, pc, loopVars, result, recordVars, late>>

FileTools == {"fs.read", "fs.write"}    \* fs.list opens a directory the way fs.read opens a file
Tools == FileTools \cup {"shell.run", "artifact.publish"}
NoTool == [name |-> "none", file |-> "none"]
NoResult == [outcome |-> "none"]

Init ==
    /\ PathInit /\ BrokerInit /\ SandboxInit
    /\ spec \in Specs /\ charged = 0
    /\ pc = "none" /\ turn = 0 /\ calls = 0 /\ retries = 0 /\ todo = 0
    /\ tool = NoTool /\ error = FALSE /\ final = FALSE
    /\ published = {} /\ result = NoResult
    /\ stop_event = FALSE /\ revoked = FALSE /\ unconf = FALSE /\ finished = FALSE
    /\ told = "nothing"
    /\ late = [stop |-> 0, frozen |-> 0]

\* The step counts as late when the stop, or the freeze, came before it.
Late(effect) ==
    late' = [stop |-> late.stop + (IF stop_event THEN 1 ELSE 0),
             frozen |-> late.frozen + (IF effect /\ frozen THEN 1 ELSE 0)]

-----------------------------------------------------------------------------
(* Start, the turns of the loop and the model                              *)

StartRevokedToo == pc = "none"    \* mutant: _revoked_ids is not asked
MayStart == pc = "none" /\ ~revoked
\* start: a revoked run gets no thread, a known one no second thread.
Start ==
    /\ MayStart
    /\ pc' = "setup"
    /\ UNCHANGED <<pathVars, brokerVars, sandboxVars, coreVars, loopVars, result, recordVars, late>>

\* get_run_input and _wait_for_running, which gives up after a grace period; a
\* failed setup goes straight to the exit.
Setup ==
    /\ pc = "setup"
    /\ \/ pc' = IF stop_event THEN "exit" ELSE "turn"
       \/ pc' = "exit"
    /\ UNCHANGED <<pathVars, brokerVars, sandboxVars, coreVars, loopVars, result, recordVars, late>>

OverBudgetByOne == calls > spec.calls    \* mutant: off by one
OverBudget == calls >= spec.calls
NoTurnLeft == turn >= spec.turns

\* The head of a turn: stop, wall clock, call budget.
Turn ==
    /\ pc = "turn"
    /\ \/ stop_event /\ pc' = "check" /\ UNCHANGED <<error, turn>>
       \/ ~stop_event /\ pc' = "check" /\ error' = TRUE /\ UNCHANGED turn
       \/ /\ ~stop_event /\ ~NoTurnLeft /\ ~OverBudget
          /\ pc' = "usage" /\ turn' = turn + 1 /\ UNCHANGED error
    /\ UNCHANGED <<pathVars, brokerVars, sandboxVars, coreVars, calls, retries, todo, tool, final,
                   published, result, recordVars, late>>

CallAnyway == {"chat", "check"}    \* mutant: a refusal is ignored
AfterRefusal == {"check"}
\* record_model_usage: the Core refuses at the task's ceiling, which other runs use
\* up too; an answer that is lost counts as a refusal.
RecordModelUsage ==
    /\ pc = "usage"
    /\ Late(FALSE)
    /\ \/ charged' = charged + 1 /\ pc' = "chat" /\ UNCHANGED error
       \/ /\ charged' \in {charged, charged + 1}
          /\ pc' \in AfterRefusal /\ error' = TRUE
    /\ UNCHANGED <<pathVars, brokerVars, sandboxVars, spec, turn, calls, retries, todo, tool, final,
                   published, result, recordVars>>

\* _expected_but_unpublished
_expected_but_unpublished == {f \in spec.expected \ published : leaf[f] # "none"}

\* The model answers, fails or runs into its timeout; then the stop is looked at.
\* A text ends the loop unless it is empty or a written file is still unpublished,
\* which is worth one more turn.
Chat ==
    /\ pc = "chat"
    /\ calls' = calls + 1
    /\ \/ ~stop_event /\ pc' = "tools" /\ todo' \in 1..MaxToolCalls /\ UNCHANGED <<error, final, retries>>
       \/ /\ ~stop_event /\ retries < 1 /\ _expected_but_unpublished # {}
          /\ pc' = "turn" /\ retries' = retries + 1 /\ UNCHANGED <<error, final, todo>>
       \/ /\ ~stop_event /\ (retries >= 1 \/ _expected_but_unpublished = {})
          /\ pc' = "check" /\ final' = TRUE /\ UNCHANGED <<error, retries, todo>>
       \/ pc' = "check" /\ error' = TRUE /\ UNCHANGED <<final, retries, todo>>
    /\ UNCHANGED <<pathVars, brokerVars, sandboxVars, coreVars, turn, tool, published, result,
                   recordVars, late>>

-----------------------------------------------------------------------------
(* Tool calls                                                              *)

NextToolUnchecked == FALSE    \* mutant: the stop is not looked at between two calls
StopSeen == stop_event

\* The next call of the reply, with a row of its own.  Bad arguments and unknown
\* tools cost nothing.
NextTool ==
    /\ pc = "tools"
    /\ row' = NoInvocation /\ did' = {} /\ fd' = "closed"
    /\ \/ todo = 0 /\ pc' = "turn" /\ tool' = NoTool /\ UNCHANGED <<todo, error>>
       \/ /\ todo > 0 /\ pc' = "check" /\ tool' = NoTool /\ todo' = 0
          /\ \/ StopSeen /\ UNCHANGED error
             \/ ~StopSeen /\ error' = TRUE
       \/ /\ todo > 0 /\ ~StopSeen
          /\ todo' = todo - 1
          /\ \/ pc' = "tools" /\ tool' = NoTool
             \/ pc' = "authorize" /\ tool' \in [name : Tools, file : Files]
          /\ UNCHANGED error
    /\ UNCHANGED <<dir, leaf, run, frozen, sandboxVars, coreVars, turn, calls, retries, final,
                   published, result, recordVars, late>>

Authorize ==
    /\ pc = "authorize"
    /\ row' = Decision(tool.name, spec.tools)
    /\ pc' = IF row'.decision = "DENY" THEN "tools"
             ELSE IF tool.name \in FileTools THEN "walk" ELSE tool.name
    /\ UNCHANGED <<pathVars, run, frozen, did, sandboxVars, coreVars, loopVars, result, recordVars, late>>

\* execute_fs_read and execute_fs_write, first step.
WalkToFile ==
    /\ pc = "walk"
    /\ Walk
    /\ \/ fd' = "refused" /\ _record_refusal /\ pc' = "tools"
       \/ fd' # "refused" /\ pc' = "file" /\ UNCHANGED row
    /\ UNCHANGED <<run, frozen, did, sandboxVars, coreVars, loopVars, result, recordVars, late>>

\* A read; or the look at the name that a write is going to replace.
OpenFile ==
    LET got == _open_final(tool.file) IN
    /\ pc = "file"
    /\ \/ got = "refused" /\ _record_refusal /\ pc' = "tools" /\ UNCHANGED <<did, late>>
       \/ /\ tool.name = "fs.read" /\ got = "missing"
          /\ record_outcome("error") /\ pc' = "tools" /\ UNCHANGED <<did, late>>
       \/ /\ tool.name = "fs.read" /\ got \in {"inside", "outside"}
          /\ did' = {got} /\ Late(TRUE) /\ pc' = "record" /\ UNCHANGED row
       \/ /\ tool.name = "fs.write" /\ got # "refused"
          /\ pc' = "replace" /\ UNCHANGED <<row, did, late>>
    /\ UNCHANGED <<pathVars, run, frozen, sandboxVars, coreVars, loopVars, result, recordVars>>

\* atomic_write: all of the new content or, when the disk fails, none of it.
ReplaceFile ==
    /\ pc = "replace"
    /\ \/ /\ Replace(tool.file) /\ did' = {fd} /\ Late(TRUE)
          /\ pc' = "record" /\ UNCHANGED row
       \/ record_outcome("error") /\ pc' = "tools" /\ UNCHANGED <<pathVars, did, late>>
    /\ UNCHANGED <<run, frozen, sandboxVars, coreVars, loopVars, result, recordVars>>

\* The tool's result is there; its row follows, or does not.
RecordOutcome ==
    /\ pc = "record"
    /\ record_outcome("ok") /\ pc' = "tools"
    /\ UNCHANGED <<pathVars, run, frozen, did, sandboxVars, coreVars, loopVars, result, recordVars, late>>

\* publish_artifact reads the file and stores it; the Core may refuse.
PublishFile ==
    /\ pc = "artifact.publish"
    /\ \/ /\ leaf[tool.file] = "file" /\ dir = "dir"
          /\ published' = published \cup {tool.file}
          /\ did' = {"inside"} /\ Late(TRUE) /\ pc' = "record" /\ UNCHANGED row
       \/ record_outcome("error") /\ pc' = "tools" /\ UNCHANGED <<published, did, late>>
    /\ UNCHANGED <<pathVars, run, frozen, sandboxVars, coreVars, turn, calls, retries, todo, tool, error,
                   final, result, recordVars>>

-----------------------------------------------------------------------------
(* shell.run                                                               *)

ClaimAfterExit == unconf    \* mutant: nothing is claimed before the container starts
ClaimBeforeExecute == TRUE

\* _dispatch_shell up to the start of the client.  No sandbox or no time left: no
\* claim.  execute may also raise after the claim, or find no docker.
BeginShell ==
    /\ pc = "shell.run"
    /\ \/ record_outcome("error") /\ pc' = "tools" /\ UNCHANGED <<sandboxVars, did, unconf, late>>
       \/ /\ record_outcome("error") /\ pc' = "tools" /\ unconf' = ClaimBeforeExecute
          /\ UNCHANGED <<sandboxVars, did, late>>
       \/ /\ LaunchClient(FALSE) /\ unconf' = FALSE
          /\ record_outcome("error") /\ pc' = "tools" /\ UNCHANGED <<did, late>>
       \/ /\ LaunchClient(TRUE) /\ unconf' = ClaimBeforeExecute
          /\ did' = {"inside"} /\ Late(TRUE) /\ pc' = "client" /\ UNCHANGED row
    /\ UNCHANGED <<pathVars, run, frozen, coreVars, loopVars, result, stop_event, revoked, finished, told>>

\* execute's polling loop ends: the client is gone, a stop was requested or the
\* time is up.
PollClient ==
    /\ pc = "client"
    /\ pc' = "probe"
    /\ \/ client = "exited" /\ UNCHANGED sandboxVars
       \/ _stop_container
    /\ UNCHANGED <<pathVars, brokerVars, coreVars, loopVars, result, recordVars, late>>

\* The probe, and what it says for the record.
EndShell ==
    /\ pc = "probe"
    /\ \E answer \in ProbeAnswers : unconf' = ~ExitConfirmed(answer)
    /\ pc' = "record"
    /\ UNCHANGED <<pathVars, brokerVars, sandboxVars, coreVars, loopVars, result, stop_event, revoked,
                   finished, told, late>>

-----------------------------------------------------------------------------
(* The result and the exit                                                 *)

\* _parse_explicit_result and _asserted_blocked: what the model's last text says.
Texts == [verdict : {"none", "PASS", "FAIL"}, outcome : {"none", "COMPLETED", "BLOCKED"},
          evidence : {"unsaid", "empty", "listed"}, marker : BOOLEAN]
NoText == [verdict |-> "none", outcome |-> "none", evidence |-> "unsaid", marker |-> FALSE]

MissingOutputsPass(text) == error \/ ~final \/ text.marker    \* mutant: missing outputs do not block
Blocked(text) == error \/ ~final \/ text.marker \/ ~(spec.expected \subseteq published)

\* _submit_result, in the order of the code.
Result(text) ==
    LET blocked0 == Blocked(text)
        verdict0 == IF text.verdict # "none" THEN text.verdict
                    ELSE IF blocked0 THEN "FAIL" ELSE "PASS"
        outcome0 == IF text.outcome # "none" THEN text.outcome
                    ELSE IF blocked0 THEN "BLOCKED" ELSE "COMPLETED"
        blocked1 == blocked0 /\ ~(outcome0 = "COMPLETED" /\ verdict0 = "FAIL")
        evidence == IF text.evidence = "listed" THEN "model"
                    ELSE IF /\ text.evidence = "unsaid" /\ verdict0 = "PASS" /\ ~blocked1
                            /\ ~spec.verify /\ published # {} /\ spec.criteria
                         THEN "adapter" ELSE "none"
        bare == /\ outcome0 = "COMPLETED" /\ verdict0 = "PASS"
                /\ spec.expected # {} /\ spec.criteria /\ evidence = "none"
        blocked == blocked1 \/ bare
        outcome == IF bare THEN "BLOCKED" ELSE outcome0
        verdict == IF bare THEN "FAIL" ELSE verdict0
    IN [outcome |-> IF blocked THEN "BLOCKED" ELSE outcome,
        verdict |-> IF blocked /\ outcome # "COMPLETED" THEN "FAIL" ELSE verdict,
        evidence |-> IF blocked /\ outcome # "COMPLETED" THEN "none" ELSE evidence,
        marker |-> text.marker]

\* _run_worker after the loop: a stopped agent submits nothing.
CheckStop ==
    /\ pc = "check"
    /\ pc' = IF stop_event THEN "exit" ELSE "submit"
    /\ UNCHANGED <<pathVars, brokerVars, sandboxVars, coreVars, loopVars, result, recordVars, late>>

\* submit_result: a run that has ended is not revived.  The Core may refuse; nobody
\* tries again.
SubmitResult ==
    /\ pc = "submit"
    /\ \/ /\ \E text \in IF final THEN Texts ELSE {NoText} : result' = Result(text)
          /\ run' = IF run = "RUNNING" THEN "SUCCEEDED" ELSE run
       \/ UNCHANGED <<result, run>>
    /\ Late(FALSE)
    /\ pc' = "exit"
    /\ UNCHANGED <<pathVars, frozen, row, did, sandboxVars, coreVars, loopVars, recordVars>>

FinishedAlways == TRUE    \* mutant: an unconfirmed container is forgotten
FinishedWrites == ~unconf
\* The finally clause: finished_writes, then confirm_run_exit.
Exit ==
    /\ pc = "exit"
    /\ finished' = FinishedWrites
    /\ pc' = "confirm"
    /\ UNCHANGED <<pathVars, brokerVars, sandboxVars, coreVars, loopVars, result, stop_event, revoked,
                   unconf, told, late>>

\* confirm_run_exit enqueues a stop, which this thread may find itself carrying
\* out: it cannot wait for itself, so stop() answers only when the writes are
\* finished and raises otherwise.
ConfirmExit ==
    /\ pc = "confirm"
    /\ pc' = "ended"
    /\ \/ UNCHANGED recordVars
       \/ /\ stop_event' = TRUE /\ revoked' = TRUE
          /\ told' = IF finished THEN "gone" ELSE told
          /\ UNCHANGED <<unconf, finished>>
    /\ UNCHANGED <<pathVars, brokerVars, sandboxVars, coreVars, loopVars, result, late>>

-----------------------------------------------------------------------------
(* stop() and the environment                                              *)

\* stop, first half: whoever starts the run later is refused.
Stop ==
    /\ ~revoked
    /\ revoked' = TRUE
    /\ IF pc = "none" THEN told' = "gone" /\ UNCHANGED stop_event
       ELSE stop_event' = TRUE /\ UNCHANGED told
    /\ UNCHANGED <<pathVars, brokerVars, sandboxVars, coreVars, pc, loopVars, result, unconf, finished,
                   late>>

StopAnswerOfThread == IF pc = "ended" THEN "gone" ELSE "alive"    \* mutant: the record is not read
\* stop, second half, after the thread ended or the wait was over.
StopAnswer == IF unconf THEN "unconfirmed" ELSE IF pc = "ended" THEN "gone" ELSE "alive"
StopReturns ==
    /\ stop_event
    /\ told' = StopAnswer
    /\ UNCHANGED <<pathVars, brokerVars, sandboxVars, coreVars, pc, loopVars, result, stop_event, revoked,
                   unconf, finished, late>>

\* The Core acknowledges the start or ends the run; the task is frozen or released.
CoreMoves ==
    /\ \/ /\ \/ run = "CREATED" /\ pc # "none" /\ run' = "RUNNING"
             \/ run \in {"CREATED", "RUNNING"} /\ run' = "CANCELLED"
          /\ UNCHANGED <<frozen, late>>
       \/ frozen' = ~frozen /\ late' = [late EXCEPT !.frozen = 0] /\ UNCHANGED run
    /\ UNCHANGED <<pathVars, row, did, sandboxVars, coreVars, pc, loopVars, result, recordVars>>

\* Docker and the containers.
DockerMoves ==
    /\ \/ (ContainerStarts \/ ContainerExits \/ ClientExits) /\ UNCHANGED pathVars
       \/ (box = "running" \/ leaked) /\ Interfere /\ UNCHANGED sandboxVars
    /\ UNCHANGED <<brokerVars, coreVars, pc, loopVars, result, recordVars, late>>

AgentStep ==
    \/ Setup \/ Turn \/ RecordModelUsage \/ Chat \/ NextTool \/ Authorize
    \/ WalkToFile \/ OpenFile \/ ReplaceFile \/ PublishFile \/ RecordOutcome
    \/ BeginShell \/ PollClient \/ EndShell
    \/ CheckStop \/ SubmitResult \/ Exit \/ ConfirmExit

Next == Start \/ AgentStep \/ Stop \/ StopReturns \/ CoreMoves \/ DockerMoves

\* Every call the thread makes has a time limit (the model's, the shell's, the
\* wait for RUNNING), so the thread goes on.
Spec == Init /\ [][Next]_vars /\ WF_vars(AgentStep)

-----------------------------------------------------------------------------
(* Properties                                                              *)

\* The loop stays within its bounds: turns, model calls, one nudge to publish.
AgentTypeOK ==
    /\ row \in Invocations
    /\ turn \in 0..spec.turns /\ calls \in 0..spec.calls /\ retries \in 0..1
    /\ todo \in 0..MaxToolCalls
    /\ told \in {"nothing", "gone", "alive", "unconfirmed"}

\* No tool reads or changes anything before its ALLOW row is committed, none whose
\* row ends as a DENY has, and what a file tool reaches lies in the workspace, even
\* while a container that was left behind moves directories under its feet.
EffectsAreAllowed == did # {} => row.decision = "ALLOW" /\ did = {"inside"}

\* While the container of the last shell call may run the record says that its exit
\* is unconfirmed, through failed kills, lost probes and exceptions.
ContainerIsClaimed == box = "running" => unconf

\* Whoever was told by stop() that the agent is gone can hand its workspace on: the
\* thread touches nothing any more, is never started later, and the container of
\* its last shell call does not run.
ToldGoneIsGone == told = "gone" => pc \in {"none", "confirm", "ended"} /\ box # "running"

\* A stop takes hold at once: of model calls, tool effects and results at most one
\* is begun after it.
StopTakesHold == late.stop <= 1

\* So does a freeze of the task: of the effects an agent has on its workspace at
\* most one, authorized before, comes after it.
FreezeTakesHold == late.frozen <= 1

\* No model call is made that the Core has not charged to this run.
CallsAreCharged == calls <= charged

\* A result says COMPLETED and PASS only when the loop ended with a text that does
\* not say BLOCKED, every expected file is published and, where criteria are
\* given, something is offered as evidence, never by the adapter for a verifier.
HonestPass ==
    result # NoResult /\ result.outcome = "COMPLETED" /\ result.verdict = "PASS" =>
        /\ final /\ ~error /\ ~result.marker
        /\ spec.expected \subseteq published
        /\ spec.expected # {} /\ spec.criteria => result.evidence # "none"
        /\ spec.verify => result.evidence # "adapter"

\* Every agent ends, whatever the model, docker and the Core do.
AgentEnds == pc # "none" ~> pc = "ended"
=============================================================================
