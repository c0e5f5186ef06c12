--------------------------- MODULE ExternalAction ---------------------------
(***************************************************************************)
(* What the core promises of external actions (INV-09, SPEC 14): an action *)
(* is authorized, then taken to be sent, then sent at most once.  It goes  *)
(* back, or is cancelled, only as long as it has not been sent, and what   *)
(* is recorded of its outcome is what happened.                            *)
(***************************************************************************)
EXTENDS Naturals

CONSTANT Actions

VARIABLES record,    \* record[e]: what the core says of action e
          sends,     \* sends[e]: how often it was transmitted
          happened   \* happened[e]: it took effect outside

actionVars == <<record, sends, happened>>

ActionInit ==
    /\ record = [e \in Actions |-> "NONE"]
    /\ sends = [e \in Actions |-> 0]
    /\ happened = [e \in Actions |-> FALSE]

\* The outside world sees nothing of a change of records.
Internal(e) == sends'[e] = sends[e] /\ happened'[e] = happened[e]

Wait(e) == record[e] = "NONE" /\ record'[e] = "WAITING_APPROVAL"

Authorize(e) == record[e] \in {"NONE", "WAITING_APPROVAL"} /\ record'[e] = "AUTHORIZED"

Take(e) == record[e] = "AUTHORIZED" /\ record'[e] = "TAKEN"

\* An action that was taken and not sent may wait for another occasion.
GiveBack(e) == record[e] = "TAKEN" /\ sends[e] = 0 /\ record'[e] = "AUTHORIZED"

Cancel(e) ==
    /\ record[e] \in {"WAITING_APPROVAL", "AUTHORIZED", "TAKEN"} /\ sends[e] = 0
    /\ record'[e] = "CANCELLED"

\* An outcome is recorded, or is in doubt again.
Learn(e) ==
    /\ record[e] \in {"TAKEN", "SUCCEEDED", "FAILED_CONFIRMED"}
    /\ \/ record'[e] = "SUCCEEDED" /\ happened[e]
       \/ record'[e] = "FAILED_CONFIRMED" /\ sends[e] = 1 /\ ~happened[e]
       \/ record'[e] = "TAKEN"

\* The transmission, whether it takes effect or not.
Transmit(e) ==
    /\ record[e] = "TAKEN" /\ sends[e] = 0
    /\ sends'[e] = 1 /\ happened'[e] \in BOOLEAN
    /\ record'[e] = "TAKEN"

Same(e) == record'[e] = record[e] /\ Internal(e)

\* One command may move several actions.
ActionNext ==
    \A e \in Actions :
        \/ Same(e) \/ Transmit(e)
        \/ /\ Internal(e)
           /\ Wait(e) \/ Authorize(e) \/ Take(e) \/ GiveBack(e) \/ Cancel(e) \/ Learn(e)

ActionSpec == ActionInit /\ [][ActionNext]_actionVars
=============================================================================
