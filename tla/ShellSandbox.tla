---------------------------- MODULE ShellSandbox ----------------------------
(***************************************************************************)
(* One shell call in a container (tools/sandbox.py, execute): the docker   *)
(* client is started, polled until it exits, a stop is requested or the    *)
(* time is up, and the container is asked for before its exit is called    *)
(* confirmed.  Docker itself is external: the client has the container     *)
(* created, writes its id and only then has it started, so a container     *)
(* that runs has an id.                                                    *)
(***************************************************************************)
VARIABLES client,   \* the docker client: "none", "waiting", "exited"
          box,      \* the container of the last call: "none" (no id yet), "running", "gone"
          killed,   \* the client exited by itself, or docker kill reported success
          leaked    \* a container of an earlier call still runs

sandboxVars == <<client, box, killed, leaked>>

SandboxInit == client = "none" /\ box = "none" /\ killed = FALSE /\ leaked = FALSE

\* Popen, which fails when there is no docker.  A container that an earlier call
\* left running is out of sight from here on.
LaunchClient(started) ==
    /\ client' = IF started THEN "waiting" ELSE "none"
    /\ box' = "none" /\ killed' = FALSE
    /\ leaked' = (leaked \/ box = "running")

ContainerStarts ==
    /\ client = "waiting" /\ box = "none"
    /\ box' = "running"
    /\ UNCHANGED <<client, killed, leaked>>

ContainerExits ==
    \/ box = "running" /\ box' = "gone" /\ UNCHANGED <<client, killed, leaked>>
    \/ leaked /\ leaked' = FALSE /\ UNCHANGED <<client, box, killed>>

\* The client exits: docker refused, the container ended, or the connection was lost.
ClientExits ==
    /\ client = "waiting"
    /\ client' = "exited" /\ killed' = TRUE
    /\ UNCHANGED <<box, leaked>>

StopNeedsId ==    \* mutant: without an id it goes on waiting
    /\ client = "waiting" /\ box # "none"
    /\ client' = "exited" /\ box' = "gone" /\ killed' = TRUE
    /\ UNCHANGED leaked
\* _stop_container: docker kill by id, which fails for a container that has ended;
\* its answer may be lost.  Without an id only the client is killed.
_stop_container ==
    /\ client = "waiting"
    /\ client' = "exited"
    /\ \/ box = "running" /\ box' = "gone" /\ killed' = TRUE
       \/ box = "running" /\ box' \in {"running", "gone"} /\ killed' = FALSE
       \/ box # "running" /\ killed' = FALSE /\ UNCHANGED box
    /\ UNCHANGED leaked

\* _container_running: the truth, or no answer.
ProbeAnswers == {IF box = "running" THEN "running" ELSE "gone", "unknown"}

ConfirmedUnlessRunning(answer) == killed /\ answer # "running"    \* mutant: no answer confirms
\* exit_confirmed.  A client that exits without an id had no container started.
ExitConfirmed(answer) == killed /\ (box = "none" \/ answer = "gone")
=============================================================================
