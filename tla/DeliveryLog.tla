---------------------------- MODULE DeliveryLog -----------------------------
(***************************************************************************)
(* Delivery with its commands given through the command log: a command is  *)
(* given once, without a message_id, or as a message that may be delivered *)
(* again, in any order and as often as one likes.                          *)
(***************************************************************************)
EXTENDS Delivery, CommandLog

vars == <<deliveryVars, logVars>>

\* The data of a success, as far as it says what was done.
AnswerRecords == [plan : 0..MaxPlans, runs : SUBSET Runs]
ASSUME AnswerAssumption ==
    /\ NoAnswer \notin AnswerRecords /\ Failure \notin AnswerRecords
    /\ NoAnswer # Failure
    /\ \A m \in Messages : m.op = "activate_plan" => m.body \in PlanNames
AnswerTo(m) ==
    [plan |-> IF m.op = "activate_plan" THEN planNo + 1 ELSE 0,
     runs |-> IF m.op = "dispatch_ready_runs" THEN Dispatched ELSE {}]

\* The handler of a message.  The other commands of this module return their
\* answers the same way and are only given once here.
Handle(m) ==
    \/ m.op = "activate_plan" /\ ActivatePlan(m.body)
    \/ m.op = "dispatch_ready_runs" /\ DispatchReadyRuns

\* execute: the inbox is asked first, then the idempotency key, then the handler.
\* A handler that raises leaves nothing behind and is no step.
Execute(m) ==
    \/ AnswerFromInbox(m) /\ UNCHANGED deliveryVars
    \/ AnswerFromKey(m) /\ UNCHANGED deliveryVars
    \/ FirstSeen(m) /\ Handle(m) /\ Store(m, AnswerTo(m))
    \/ /\ FirstSeen(m)
       /\ m.op = "dispatch_ready_runs" /\ DispatchRefused
       /\ StoreFailure(m)
       /\ UNCHANGED deliveryVars

LogNext ==
    \/ \E m \in Messages : Execute(m)
    \/ (HumanCommand \/ Environment) /\ UNCHANGED logVars

Fresh == Init /\ LogInit

LogSpec == Fresh /\ [][LogNext]_vars

-----------------------------------------------------------------------------
(* Properties                                                              *)

\* The tables hold rows of their kinds.
DeliveryTypeOK ==
    /\ state \in TaskStates
    /\ plan \in PlanRecords /\ planNo \in 0..MaxPlans
    /\ wu \in [Units -> [status : WorkUnitStatuses, active : Runs \cup {NoRun},
                         selected : Runs \cup {NoRun}, verdict : Verdicts, verified : Digests]]
    /\ run \in [Runs -> RunStatuses]
    /\ agent \in [Runs -> {"none", "working", "stopped", "gone"}]
    /\ owner \in [Units -> Runs \cup {NoRun}]
    /\ \A r \in Runs : result[r] \in ResultsOf[UnitOf[r]] \cup {NoResult}
    /\ art \in [Contents -> {"none", "named", "backed"}]
    /\ store \subseteq Contents
    /\ evid \subseteq [no : 1..Cardinality(Runs), crit : Criteria, hash : Contents,
                       verdict : {"PASS", "FAIL"}, unit : Units, run : Runs]
    /\ inputs \in [Runs -> SUBSET Contents]
    /\ \A d \in DOMAIN decisions :
          decisions[d] \in {"PENDING", "APPROVED", "REJECTED", "SUPERSEDED"}

\* Of any set of units of the active plan some unit waits for none of the others:
\* validate_dag lets no plan in whose units wait for each other for ever.
SomeUnitCanGoFirst ==
    \A S \in (SUBSET plan.nodes) \ {{}} :
        \E u \in S : \A e \in plan.edges : e.to = u => e.from \notin S

\* Whatever an agent is told to rely on can be read: the digest a unit is recorded
\* to have delivered, and every digest in the context of a run, has its bytes in
\* the store, although results may name digests nobody ever published, publishing
\* may be rolled back halfway and the process may die in between.
DeliveriesCanBeRead ==
    /\ \A u \in Units : wu[u].verified # NoContent => _read_task_artifact_bytes(wu[u].verified)
    /\ \A r \in Runs : \A c \in inputs[r] : _read_task_artifact_bytes(c)

\* An evidence row counts while the run that gave it is the one its unit has selected.
Counts(e) == e \in evid /\ e.unit \in plan.nodes /\ wu[e.unit].selected = e.run
\* The last word of the plan's units on a criterion of one digest is that it passes.
LastWordIsPass(e) ==
    /\ Counts(e) /\ e.verdict = "PASS"
    /\ \A f \in evid : Counts(f) /\ f.crit = e.crit /\ f.hash = e.hash => f = e \/ f.no < e.no

\* While a human looks at a snapshot, every verdict in it stands: it belongs to the
\* active plan, its runs are still those the units have selected, and no unit of the
\* plan has said anything later of the same digest.  No plan revision, new run,
\* verdict or reconcile changes this without withdrawing the question.  (The digests
\* themselves may change under it: see PendingSnapshotIsCurrent.)
PendingVerdictsStand ==
    PendingAcceptance # {} =>
        /\ snap.plan = planNo
        /\ \A c \in Criteria :
              /\ c \in DOMAIN snap.evidence /\ snap.evidence[c].crit = c
              /\ LastWordIsPass(snap.evidence[c])

\* A task is completed only when every unit of its plan is DONE and, for each criterion,
\* there is a digest of which the plan's last word is that it passes, whatever results
\* arrived, late or twice, since the question was asked.
AcceptedEvidenceStands ==
    [][state # "COMPLETED" /\ state' = "COMPLETED" =>
         /\ \A u \in plan.nodes : wu[u].status = "DONE"
         /\ \A c \in Criteria : \E e \in evid : e.crit = c /\ LastWordIsPass(e)]_vars

\* SPEC 4.4: when the candidate result or the evidence changes, the question is withdrawn
\* and asked anew, so that a snapshot that waits for acceptance is what would be frozen
\* now.  service.py, _submit_result: a late result is recorded and changes nothing else.
\* The property of a run that ends in a counterexample.
PendingSnapshotIsCurrent ==
    PendingAcceptance # {} => snap = [plan |-> planNo, evidence |-> _build_acceptance_evidence]

\* The command log implements Once: however often a message is delivered, under
\* whatever message_id, in whatever order and across crashes, a command takes effect
\* once per idempotency key and every success that is reported is that one.
OnceLog ==
    INSTANCE Once WITH Keys <- Namespaces, Answers <- AnswerRecords,
                       effect <- [k \in Namespaces |-> idem[k].answer],
                       times <- ran, told <- heard
CommandsTakeEffectOnce == OnceLog!OnceSpec
=============================================================================
