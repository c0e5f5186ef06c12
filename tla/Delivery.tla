------------------------------ MODULE Delivery ------------------------------
(***************************************************************************)
(* What a task delivers: plans and their pinned dependencies, the contents *)
(* agents publish, the results they submit, the evidence for the contract's *)
(* criteria, and the snapshot a human accepts (application/service.py,     *)
(* runtime/artifacts.py, domain/plan.py).                                  *)
(*                                                                         *)
(* One approved contract, one workspace per unit.  How starts and stops    *)
(* travel through the outbox is the subject of Execution: here a run is    *)
(* started in one step and stopped in one step.  Gates other than final    *)
(* acceptance, pause and cancellation are left to TaskControl.             *)
(***************************************************************************)
EXTENDS HibikiDomain, Naturals, FiniteSets, Sequences

CONSTANTS
    Units,        \* work units that plans may name
    VerifyUnits,  \* those with work_type VERIFY
    Runs,         \* run identities
    UnitOf,       \* UnitOf[r]: the unit that run r executes
    Contents,     \* contents, each named by its SHA-256 digest
    NoContent,    \* no digest: an edge without artifact_hash, nothing verified
    Criteria,     \* the required acceptance criteria of the contract
    PlanNames,    \* plans a human or a planner may activate
    PlanOf,       \* PlanOf[n]: the nodes and edges of plan n
    WritesOf,     \* WritesOf[u]: the contents an agent of u may write to its workspace
    ResultsOf,    \* ResultsOf[u]: the results an agent of u may submit
    MaxPlans,     \* max_plan_revisions
    MaxDecisions, \* bound on the acceptance decisions that are asked for
    Appending,    \* bound of the exploration: the runs whose agents append to their context
    NoRun, NoResult

Digests == Contents \cup {NoContent}
EdgeRecords ==
    [from : Units, to : Units, pred : {"DONE", "VERDICT_PASS"}, hash : Digests]
PlanRecords == [nodes : SUBSET Units, edges : SUBSET EdgeRecords]
\* verified and refs are the lists verified_artifact_refs and artifact_refs.
EvidenceItems == [crit : Criteria, hash : Contents, verdict : {"PASS", "FAIL"}]
IsResult(x) ==
    /\ DOMAIN x = {"outcome", "verdict", "refs", "verified", "evidence"}
    /\ x.outcome \in {"COMPLETED", "BLOCKED"}
    /\ x.verdict \in Verdicts
    /\ x.refs \in Seq(Contents) /\ x.verified \in Seq(Contents)
    /\ x.evidence \subseteq EvidenceItems

ASSUME DeliveryAssumption ==
    /\ VerifyUnits \subseteq Units
    /\ IsFiniteSet(Units) /\ IsFiniteSet(Runs) /\ UnitOf \in [Runs -> Units]
    /\ PlanOf \in [PlanNames -> PlanRecords]
    /\ \A u \in Units : \A x \in ResultsOf[u] : IsResult(x)
    /\ WritesOf \in [Units -> SUBSET Contents]
    /\ MaxPlans \in Nat /\ MaxDecisions \in Nat
    /\ NoRun \notin Runs /\ NoContent \notin Contents
    /\ \A u \in Units : NoResult \notin ResultsOf[u]

VARIABLES
    state,     \* tasks.state
    plan,      \* the ACTIVE plan
    planNo,    \* its version; 0: none yet
    wu,        \* work_unit_executions
    run,       \* agent_runs.status
    agent,     \* where each agent is
    owner,     \* owner[u]: owner_run_id of the unit's workspace
    result,    \* agent_runs.result_json: what the run reported last
    art,       \* artifacts: a digest is unknown, named by a result, or backed
    store,     \* files of the content store
    evid,      \* acceptance_evidence rows
    inputs,    \* inputs[r]: digests of the manifest and of context_appends
    decisions, \* status of the FINAL_ACCEPTANCE decisions, in their order
    snap       \* result_snapshots: what the last of them froze

taskVars == <<state, decisions, snap>>
planVars == <<plan, planNo>>
runVars  == <<wu, run, agent, owner>>
artVars  == <<result, art, store, evid, inputs>>
deliveryVars == <<taskVars, planVars, runVars, artVars>>

NoEvidence == [c \in {} |-> c]
Init ==
    /\ state \in {"PLANNING", "EXECUTING"}      \* contract.approved, approved_simple
    /\ plan = [nodes |-> {}, edges |-> {}] /\ planNo = 0
    /\ wu = [u \in Units |-> [status |-> "NONE", active |-> NoRun, selected |-> NoRun,
                              verdict |-> "NONE", verified |-> NoContent]]
    /\ run = [r \in Runs |-> "NONE"]
    /\ agent = [r \in Runs |-> "none"]
    /\ owner = [u \in Units |-> NoRun]
    /\ result = [r \in Runs |-> NoResult]
    /\ art = [c \in Contents |-> "none"]
    /\ store = {}
    /\ evid = {}
    /\ inputs = [r \in Runs |-> {}]
    /\ decisions = <<>>
    /\ snap = [plan |-> 0, evidence |-> NoEvidence]

-----------------------------------------------------------------------------
(* Plans                                                                   *)

NoSelfLoop(p) == \A e \in p.edges : e.from # e.to    \* mutant: only direct cycles are seen
\* The depth-first search of validate_dag: dfs[path] are the nodes it leaves without
\* having met a node of the path that led to them.
CycleFree(p) ==
    LET dfs[path \in SUBSET p.nodes] ==
          {u \in p.nodes \ path : \A e \in p.edges : e.from = u => e.to \in dfs[path \cup {u}]}
    IN dfs[{}] = p.nodes
validate_dag(p) ==
    /\ p.nodes # {}
    /\ \A e \in p.edges :
          /\ e.from \in p.nodes /\ e.to \in p.nodes
          /\ e.pred = "VERDICT_PASS" => e.hash # NoContent
    /\ CycleFree(p)

PendingAcceptance == {d \in DOMAIN decisions : decisions[d] = "PENDING"}
AcceptanceLeftPending == decisions    \* mutant
_supersede_pending_acceptance ==
    [d \in DOMAIN decisions |-> IF decisions[d] = "PENDING" THEN "SUPERSEDED" ELSE decisions[d]]

\* activate_plan.  Units the plan drops are cancelled: a run that was not started
\* yet with them, a run that is at work is only asked to stop.
Dropped(p) == {u \in Units \ p.nodes : wu[u].status \in {"PENDING", "RUNNING", "BLOCKED"}}
RevisionAllowedOnceMore == planNo <= MaxPlans    \* mutant: off by one
RevisionAllowed == planNo < MaxPlans
_activate_plan(p) ==
    LET unsent == {r \in Runs : /\ run[r] = "CREATED"
                                /\ UnitOf[r] \in Dropped(p) /\ wu[UnitOf[r]].active = r}
    IN
    /\ validate_dag(p)
    /\ RevisionAllowed
    /\ plan' = p
    /\ planNo' = planNo + 1
    /\ decisions' = _supersede_pending_acceptance
    /\ wu' = [u \in Units |->
                IF u \in p.nodes /\ wu[u].status = "NONE" THEN [wu[u] EXCEPT !.status = "PENDING"]
                ELSE IF u \in Dropped(p)
                THEN [wu[u] EXCEPT !.status = "CANCELLED", !.active = NoRun]
                ELSE wu[u]]
    /\ run' = [r \in Runs |-> IF r \in unsent THEN "CANCELLED" ELSE run[r]]
    /\ owner' = [u \in Units |-> IF owner[u] \in unsent THEN NoRun ELSE owner[u]]
    /\ state' = IF state \in PlanActivated.from THEN PlanActivated.to ELSE state
    /\ UNCHANGED <<snap, agent, artVars>>

ActivatePlan(n) == _activate_plan(PlanOf[n])

\* request_repair_plan: a revision without the VERIFY unit f that failed.
RequestRepairPlan(f, n) ==
    /\ wu[f].verdict = "FAIL"
    /\ f \notin PlanOf[n].nodes
    /\ _activate_plan(PlanOf[n])

-----------------------------------------------------------------------------
(* Runs                                                                    *)

_deps_satisfied(u) ==
    \A e \in plan.edges : e.to = u =>
        /\ wu[e.from].status = "DONE"
        /\ e.pred = "VERDICT_PASS" =>
             /\ wu[e.from].verdict = "PASS"
             /\ wu[e.from].verified = e.hash

Ready(u) ==
    /\ u \in plan.nodes /\ wu[u].status = "PENDING"
    /\ _deps_satisfied(u)
    /\ owner[u] = NoRun

FreshRuns(u) == {r \in Runs : UnitOf[r] = u /\ run[r] = "NONE"}
\* The attempts of a unit are used in an order.
NextRun(u) == CHOOSE r \in FreshRuns(u) : TRUE

\* _build_context_manifest: the dependency results a run may rely on.
_build_context_manifest(u) ==
    {wu[e.from].verified : e \in {x \in plan.edges : x.to = u /\ wu[x.from].selected # NoRun}}
        \ {NoContent}

\* dispatch_ready_runs, with room for every ready unit.
DispatchRefused ==
    \/ state \notin DISPATCHABLE_TASK_STATES
    \/ PendingAcceptance # {}
    \/ planNo = 0
Dispatched == {NextRun(u) : u \in {v \in Units : Ready(v) /\ FreshRuns(v) # {}}}
DispatchReadyRuns ==
    /\ ~DispatchRefused
    /\ wu' = [u \in Units |->
                IF ~Ready(u) THEN wu[u]
                ELSE IF FreshRuns(u) = {} THEN [wu[u] EXCEPT !.status = "BLOCKED"]
                ELSE [wu[u] EXCEPT !.status = "RUNNING", !.active = NextRun(u)]]
    /\ run' = [r \in Runs |-> IF r \in Dispatched THEN "CREATED" ELSE run[r]]
    /\ owner' = [u \in Units |->
                   IF \E r \in Dispatched : UnitOf[r] = u
                   THEN CHOOSE r \in Dispatched : UnitOf[r] = u ELSE owner[u]]
    /\ inputs' = [r \in Runs |->
                    IF r \in Dispatched THEN _build_context_manifest(UnitOf[r]) ELSE inputs[r]]
    /\ UNCHANGED <<taskVars, planVars, agent, result, art, store, evid>>

\* The start is served and acknowledged.
StartRun(r) ==
    /\ run[r] = "CREATED"
    /\ state \in DISPATCHABLE_TASK_STATES /\ PendingAcceptance = {}
    /\ run' = [run EXCEPT ![r] = "RUNNING"]
    /\ agent' = [agent EXCEPT ![r] = "working"]
    /\ UNCHANGED <<taskVars, planVars, wu, owner, artVars>>

\* A stop is served and acknowledged: asked for by the agent at its end, by a
\* human (confirm_run_exit), or by the plan that dropped the unit.  What a stopped
\* agent had sent may still arrive.
StopRun(r) ==
    LET u == UnitOf[r] IN
    /\ run[r] # "NONE"
    /\ owner[u] = r \/ agent[r] = "working"
    /\ agent' = [agent EXCEPT ![r] = IF @ = "working" THEN "stopped" ELSE @]
    /\ owner' = [owner EXCEPT ![u] = IF @ = r THEN NoRun ELSE @]
    /\ run' = [run EXCEPT ![r] = IF @ \in ACTIVE_RUN THEN "CANCELLED" ELSE @]
    /\ wu' = IF wu[u].active # r \/ run[r] \notin ACTIVE_RUN THEN wu
             ELSE [wu EXCEPT ![u].active = NoRun,
                             ![u].status = IF @ = "RUNNING" THEN "PENDING" ELSE @]
    /\ UNCHANGED <<taskVars, planVars, artVars>>

\* The core process dies: agents are gone, rows and files are not.
Crash ==
    /\ \E r \in Runs : agent[r] \in {"working", "stopped"}
    /\ agent' = [r \in Runs |-> IF agent[r] = "none" THEN "none" ELSE "gone"]
    /\ UNCHANGED <<taskVars, planVars, wu, run, owner, artVars>>

\* reconcile: runs whose agent is gone are LOST; H are those that used a tool.
Reconcile(H) ==
    LET lost == {r \in Runs : run[r] = "RUNNING" /\ agent[r] = "gone"}
        policy(u) == lost_run_recovery_policy(\E r \in H : UnitOf[r] = u, FreshRuns(u) = {})
        hit(u) == wu[u].status = "RUNNING" /\ \E r \in lost : UnitOf[r] = u
    IN
    /\ state # "WAITING_HUMAN"
    /\ lost # {} /\ H \subseteq lost
    /\ run' = [r \in Runs |-> IF r \in lost THEN "LOST" ELSE run[r]]
    /\ owner' = [u \in Units |-> IF owner[u] \in lost THEN NoRun ELSE owner[u]]
    /\ wu' = [u \in Units |->
                LET x == [wu[u] EXCEPT !.active = IF @ \in lost THEN NoRun ELSE @] IN
                IF ~hit(u) THEN x
                ELSE [x EXCEPT !.status = IF policy(u) = "BLOCKED" THEN "BLOCKED" ELSE "PENDING"]]
    /\ state' = IF (\E u \in Units : hit(u) /\ policy(u) = "BLOCKED")
                   /\ state \notin TERMINAL_TASK_STATES
                THEN BlockingGateOpened.to ELSE state
    /\ UNCHANGED <<decisions, snap, planVars, agent, artVars>>

-----------------------------------------------------------------------------
(* Contents                                                                *)

\* An agent may give commands while it is at work; one that was stopped may have
\* given one before.
_assert_workspace_accessible_by_run(r) ==
    /\ owner[UnitOf[r]] \in {NoRun, r}
    /\ run[r] # "CANCELLED"

\* publish_artifact: the bytes go to the store under their digest, then the row is
\* committed or the transaction is rolled back.
PublishedRow(c, committed) == IF committed THEN "backed" ELSE art[c]
PublishArtifact(r, c, committed) ==
    /\ agent[r] \in {"working", "stopped"}
    /\ c \in WritesOf[UnitOf[r]]
    /\ state \notin {"WAITING_HUMAN"} \cup TERMINAL_TASK_STATES
    /\ _assert_workspace_accessible_by_run(r)
    /\ store' = store \cup {c}
    /\ art' = [art EXCEPT ![c] = PublishedRow(c, committed)]
    /\ UNCHANGED <<taskVars, planVars, runVars, result, evid, inputs>>

\* _read_task_artifact_bytes
_read_task_artifact_bytes(c) == art[c] = "backed" /\ c \in store

\* context_append of an artifact:// reference.
ContextAppend(r, c) ==
    /\ agent[r] \in {"working", "stopped"}
    /\ state \notin TERMINAL_TASK_STATES
    /\ _read_task_artifact_bytes(c)
    /\ inputs' = [inputs EXCEPT ![r] = @ \cup {c}]
    /\ UNCHANGED <<taskVars, planVars, runVars, result, art, store, evid>>

-----------------------------------------------------------------------------
(* Results                                                                 *)

ListedRefs(x) == IF x.verified # <<>> THEN x.verified ELSE x.refs

\* _register_result_artifacts: digests a result names get a row without content,
\* and its verdicts on criteria become evidence.
NamedDigests(x) == {ListedRefs(x)[i] : i \in DOMAIN ListedRefs(x)} \cup {e.hash : e \in x.evidence}
NamedRowBacked(c, x) ==    \* mutant: a name counts as content
    IF art[c] = "none" /\ c \in NamedDigests(x) THEN "backed" ELSE art[c]
NamedRow(c, x) == IF art[c] = "none" /\ c \in NamedDigests(x) THEN "named" ELSE art[c]
\* Two verdicts on one criterion raise duplicate_evidence.
DistinctCriteria(x) == \A e, f \in x.evidence : e.crit = f.crit => e = f
_next_event_seq == Cardinality({e.run : e \in evid}) + 1
EvidenceRows(r, x) ==
    {[no |-> _next_event_seq, crit |-> e.crit, hash |-> e.hash, verdict |-> e.verdict,
      unit |-> UnitOf[r], run |-> r] : e \in x.evidence}

\* The first listed digest whose content the core holds.
HeldRefs(x, rows) == {i \in DOMAIN ListedRefs(x) : rows[ListedRefs(x)[i]] = "backed"}
VerifiedDigest(old, x, rows) ==
    IF HeldRefs(x, rows) = {} THEN old
    ELSE ListedRefs(x)[CHOOSE i \in HeldRefs(x, rows) : \A j \in HeldRefs(x, rows) : i <= j]

_maybe_advance_verify_task_state(u, x) ==
    IF x.outcome = "BLOCKED" \/ u \notin VerifyUnits \/ state \notin {"EXECUTING", "VERIFYING"}
    THEN state
    ELSE IF x.verdict = "FAIL" THEN VerificationFailed.to ELSE RequiredOutputsReady.to

\* An agent may report more than once: what it says last is what is recorded.
Reports(r, x) ==
    /\ agent[r] \in {"working", "stopped"}
    /\ x \in ResultsOf[UnitOf[r]]
    /\ result' = [result EXCEPT ![r] = x]

\* submit_result of a run that has ended, or whose unit has another run, is recorded
\* over what the run said before, which a unit may have selected; nothing else is
\* written.
SubmitLateResult(r, x) ==
    /\ Reports(r, x)
    /\ run[r] \in TERMINAL_RUN \/ wu[UnitOf[r]].active \notin {NoRun, r}
    /\ UNCHANGED <<taskVars, planVars, runVars, art, store, evid, inputs>>

\* submit_result of a run whose unit is not in the active plan any more.
SubmitSupersededResult(r, x) ==
    LET u == UnitOf[r] IN
    /\ Reports(r, x)
    /\ run[r] = "RUNNING" /\ wu[u].active \in {NoRun, r}
    /\ u \notin plan.nodes
    /\ run' = [run EXCEPT ![r] = "SUCCEEDED"]
    /\ wu' = [wu EXCEPT ![u].active = NoRun]
    /\ art' = [c \in Contents |-> NamedRow(c, x)]
    /\ UNCHANGED <<taskVars, planVars, agent, owner, store, evid, inputs>>

\* submit_result of the run that is assigned to its unit.
SubmitResult(r, x) ==
    LET u == UnitOf[r]
        rows == [c \in Contents |-> NamedRow(c, x)]
    IN
    /\ Reports(r, x)
    /\ run[r] = "RUNNING" /\ wu[u].active \in {NoRun, r}
    /\ u \in plan.nodes
    /\ x.outcome = "BLOCKED" \/ DistinctCriteria(x)
    /\ run' = [run EXCEPT ![r] = "SUCCEEDED"]
    /\ art' = rows
    /\ wu' = [wu EXCEPT ![u] =
                IF x.outcome = "BLOCKED"
                THEN [@ EXCEPT !.status = "BLOCKED", !.active = NoRun]
                ELSE [status |-> "DONE", active |-> NoRun, selected |-> r, verdict |-> x.verdict,
                      verified |-> VerifiedDigest(@.verified, x, rows)]]
    /\ evid' = IF x.outcome = "BLOCKED" THEN evid ELSE evid \cup EvidenceRows(r, x)
    /\ state' = _maybe_advance_verify_task_state(u, x)
    /\ UNCHANGED <<decisions, snap, planVars, agent, owner, store, inputs>>

-----------------------------------------------------------------------------
(* Final acceptance                                                        *)

_current_delivery_hashes ==
    UNION {LET x == result[wu[u].selected]
           IN {x.refs[i] : i \in DOMAIN x.refs} \cup {x.verified[i] : i \in DOMAIN x.verified} :
           u \in {v \in plan.nodes : wu[v].status = "DONE" /\ wu[v].selected # NoRun}}

ApplicableEvidence(c) ==
    {e \in evid : /\ e.crit = c
                  /\ e.unit \in plan.nodes
                  /\ e.hash \in _current_delivery_hashes
                  /\ wu[e.unit].selected = e.run}
FirstCriterionEvidence(c) ==    \* mutant: rows are read in the wrong order
    CHOOSE e \in ApplicableEvidence(c) : \A f \in ApplicableEvidence(c) : e.no <= f.no
_latest_criterion_evidence(c) ==
    CHOOSE e \in ApplicableEvidence(c) : \A f \in ApplicableEvidence(c) : f.no <= e.no

_build_acceptance_evidence ==
    [c \in {d \in Criteria : ApplicableEvidence(d) # {}} |-> _latest_criterion_evidence(c)]

_assert_acceptance_evidence(evidence) ==
    \A c \in Criteria : c \in DOMAIN evidence /\ evidence[c].verdict = "PASS"

\* A workspace is released when its run's exit has been confirmed.
_assert_no_live_writers == \A u \in Units : owner[u] = NoRun

PrepareAcceptance ==
    /\ PendingAcceptance = {}
    /\ _assert_no_live_writers
    /\ planNo > 0
    /\ \A u \in plan.nodes : wu[u].status = "DONE" /\ wu[u].selected # NoRun
    /\ _assert_acceptance_evidence(_build_acceptance_evidence)
    /\ state \in AcceptanceReady.from \cup {"WAITING_HUMAN"}
    /\ Cardinality(DOMAIN decisions) < MaxDecisions
    /\ state' = AcceptanceReady.to
    /\ decisions' = [d \in 1..(Cardinality(DOMAIN decisions) + 1) |->
                       IF d \in DOMAIN decisions THEN decisions[d] ELSE "PENDING"]
    /\ snap' = [plan |-> planNo, evidence |-> _build_acceptance_evidence]
    /\ UNCHANGED <<planVars, runVars, artVars>>

\* resolve_decision, APPROVE.
AcceptResult(d) ==
    /\ d \in PendingAcceptance
    /\ snap.plan = planNo
    /\ \A u \in plan.nodes : wu[u].status \notin {"PENDING", "RUNNING", "BLOCKED"}
    /\ _assert_no_live_writers
    /\ _assert_acceptance_evidence(snap.evidence)
    /\ \A r \in Runs : run[r] \notin ACTIVE_RUN
    /\ state \in FinalAccepted.from
    /\ state' = FinalAccepted.to
    /\ decisions' = [decisions EXCEPT ![d] = "APPROVED"]
    /\ UNCHANGED <<snap, planVars, runVars, artVars>>

\* resolve_decision, REJECT: _recompute_runnable_state finds no unit to unblock, since
\* every unit of the plan is DONE and the others were cancelled.
RejectResult(d) ==
    /\ d \in PendingAcceptance
    /\ decisions' = [decisions EXCEPT ![d] = "REJECTED"]
    /\ state \in DecisionResolved.from
    /\ state' = DecisionResolved.to
    /\ UNCHANGED <<snap, planVars, runVars, artVars>>

-----------------------------------------------------------------------------
AgentStep(r) ==
    \/ \E c \in Contents, committed \in BOOLEAN : PublishArtifact(r, c, committed)
    \/ r \in Appending /\ \E c \in Contents : ContextAppend(r, c)
    \/ \E x \in ResultsOf[UnitOf[r]] :
          SubmitResult(r, x) \/ SubmitSupersededResult(r, x) \/ SubmitLateResult(r, x)

Environment ==
    \/ \E r \in Runs : AgentStep(r) \/ StartRun(r) \/ StopRun(r)
    \/ Crash
    \/ \E H \in SUBSET Runs : Reconcile(H)

HumanCommand ==
    \/ \E n \in PlanNames : ActivatePlan(n) \/ \E f \in VerifyUnits : RequestRepairPlan(f, n)
    \/ DispatchReadyRuns
    \/ PrepareAcceptance
    \/ \E d \in DOMAIN decisions : AcceptResult(d) \/ RejectResult(d)
=============================================================================
