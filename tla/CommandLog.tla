----------------------------- MODULE CommandLog -----------------------------
(***************************************************************************)
(* The inbox and the idempotency keys through which every command passes   *)
(* (application/service.py, execute and _execute_in_tx).  Both are written *)
(* in the command's own transaction: a handler that raises leaves no row,  *)
(* and a process that dies after the commit has stored the answer that its *)
(* caller never saw.                                                       *)
(*                                                                         *)
(* A message is one delivery of a command by one actor: its message_id,    *)
(* its idempotency key, its operation and the rest of its payload.  The    *)
(* messages of the model concern one task and come from one principal.  A  *)
(* command given without a message_id gets a fresh one and is never seen   *)
(* again by the log: it has no message here.                               *)
(***************************************************************************)
EXTENDS Naturals

CONSTANTS Messages,    \* records with fields id, key, op and body
          NoAnswer,    \* no row
          Failure      \* the answer of a handler that returned a failure

VARIABLES inbox,   \* inbox[i]: the payload and the answer stored under message_id i
          idem,    \* idem[k]: the payload and the data stored under operation and key
          ran,     \* ran[k]: how often the handler succeeded under k
          heard    \* heard[k]: the successful answers that reached a caller

logVars == <<inbox, idem, ran, heard>>

MessageIds == {m.id : m \in Messages}
Namespace(m) == <<m.op, m.key>>
Namespaces == {Namespace(m) : m \in Messages}
payload_hash(m) == <<m.op, m.body>>

\* The payload hash does not cover the key: a caller that repeats a message_id with
\* the same payload gives the key it gave before.
ASSUME MessageAssumption ==
    \A m, n \in Messages : m.id = n.id /\ payload_hash(m) = payload_hash(n) => m.key = n.key

NoRow == [payload |-> <<>>, answer |-> NoAnswer]

LogInit ==
    /\ inbox = [i \in MessageIds |-> NoRow]
    /\ idem = [k \in Namespaces |-> NoRow]
    /\ ran = [k \in Namespaces |-> 0]
    /\ heard = [k \in Namespaces |-> {}]

\* The answer reaches the caller, or the process dies after the commit.
Hear(m, answer) ==
    \/ heard' = [heard EXCEPT ![Namespace(m)] = @ \cup ({answer} \ {Failure})]
    \/ UNCHANGED heard

InboxRow(m, answer) ==
    inbox' = [inbox EXCEPT ![m.id] = [payload |-> payload_hash(m), answer |-> answer]]

\* _check_inbox: the stored answer, failures included.  A reused message_id with
\* another payload raises inbox_conflict.
InboxHitAnyPayload(m) == inbox[m.id] # NoRow    \* mutant: payloads are not compared
InboxHit(m) == inbox[m.id] # NoRow /\ inbox[m.id].payload = payload_hash(m)
AnswerFromInbox(m) ==
    /\ InboxHit(m)
    /\ Hear(m, inbox[m.id].answer)
    /\ UNCHANGED <<inbox, idem, ran>>

\* _check_idempotency: the stored data of a success, under a new message_id.  A
\* key that is used again with another payload raises idempotency_conflict.
AnswerFromKey(m) ==
    /\ inbox[m.id] = NoRow
    /\ idem[Namespace(m)] # NoRow
    /\ idem[Namespace(m)].payload = payload_hash(m)
    /\ InboxRow(m, idem[Namespace(m)].answer)
    /\ Hear(m, idem[Namespace(m)].answer)
    /\ UNCHANGED <<idem, ran>>

\* Neither table knows the command: its handler runs.
FirstSeen(m) == inbox[m.id] = NoRow /\ idem[Namespace(m)] = NoRow

StoredUnderMessage(m, answer) == idem    \* mutant: only the inbox remembers
\* _store_idempotency
_store_idempotency(m, answer) ==
    [idem EXCEPT ![Namespace(m)] = [payload |-> payload_hash(m), answer |-> answer]]

\* The handler's success, in the same transaction.
Store(m, answer) ==
    /\ idem' = _store_idempotency(m, answer)
    /\ InboxRow(m, answer)
    /\ ran' = [ran EXCEPT ![Namespace(m)] = @ + 1]
    /\ Hear(m, answer)

\* A handler that returns a failure instead of raising it: the key stays free, the
\* message does not.
StoreFailure(m) ==
    /\ InboxRow(m, Failure)
    /\ UNCHANGED <<idem, ran, heard>>
=============================================================================
