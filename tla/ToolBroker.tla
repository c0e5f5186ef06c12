----------------------------- MODULE ToolBroker -----------------------------
(***************************************************************************)
(* The tool broker (tools/broker.py): every tool call of a run has an      *)
(* audit row, decided in one transaction before the tool does anything.    *)
(* The calls of a run come one after the other under growing sequence      *)
(* numbers, so one row is kept here, the row of the call in progress or of *)
(* the last one: no operation ever returns to an older row.  The           *)
(* credential of the run is its own and is not modelled.                   *)
(***************************************************************************)
EXTENDS WorkspacePaths

VARIABLES run,      \* the run's status in the Core
          frozen,   \* _task_frozen: a pause, a cancellation or a gate holds the task
          row,      \* the audit row: decision and outcome
          did       \* where the call has read or changed something so far

brokerVars == <<run, frozen, row, did>>

NoInvocation == [decision |-> "none", outcome |-> "none"]
Invocations == [decision : {"none", "ALLOW", "DENY"}, outcome : {"none", "ok", "error", "denied"}]

BrokerInit ==
    /\ run = "CREATED" /\ frozen = FALSE
    /\ row = NoInvocation /\ did = {}

AllowedWhenRunning(tool, granted) == run = "RUNNING" /\ tool \in granted    \* mutant: no freeze
\* The conditions of _authorize_in_tx that a run with its own credential can fail.
Allowed(tool, granted) == run = "RUNNING" /\ ~frozen /\ tool \in granted

\* authorize: a refusal is a row too.
Decision(tool, granted) ==
    IF Allowed(tool, granted) THEN [decision |-> "ALLOW", outcome |-> "none"]
    ELSE [decision |-> "DENY", outcome |-> "denied"]

\* record_outcome in its own transaction, after the fact: it may fail, and another
\* outcome is never written over.
record_outcome(outcome) ==
    \/ row.outcome \in {"none", outcome} /\ row' = [row EXCEPT !.outcome = outcome]
    \/ UNCHANGED row

\* _record_refusal: an allowed call whose path leaves the workspace becomes a DENY,
\* in a transaction that may fail too.
_record_refusal ==
    \/ row' = [decision |-> "DENY", outcome |-> "denied"]
    \/ UNCHANGED row
=============================================================================
