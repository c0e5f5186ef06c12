----------------------------- MODULE MCDelivery -----------------------------
(***************************************************************************)
(* A small instance of DeliveryLog for TLC: a producer p with two attempts *)
(* and a verifier v.                                                       *)
(***************************************************************************)
EXTENDS DeliveryLog

TwoUnits == {"p", "v"}
ThreeRuns == {"p1", "p2", "v1"}
ThreeRunsOf == [r \in ThreeRuns |-> IF r = "v1" THEN "v" ELSE "p"]

Edge(a, b, pred, hash) == [from |-> a, to |-> b, pred |-> pred, hash |-> hash]
\* The producer alone, then its verifier pinned to one content; two plans that
\* validate_dag refuses.
NamedPlans ==
    [n \in {"produce", "verify", "circle", "unpinned"} |->
        IF n = "produce" THEN [nodes |-> {"p"}, edges |-> {}]
        ELSE [nodes |-> TwoUnits,
              edges |-> {Edge("p", "v", "VERDICT_PASS",
                              IF n = "unpinned" THEN NoContent ELSE "c1")}
                        \cup IF n = "circle" THEN {Edge("v", "p", "DONE", NoContent)} ELSE {}]]
PlanNameSet == DOMAIN NamedPlans

Report(outcome, verdict, refs, verified, evidence) ==
    [outcome |-> outcome, verdict |-> verdict, refs |-> refs, verified |-> verified,
     evidence |-> evidence]
Says(hash, verdict) == {[crit |-> "k", hash |-> hash, verdict |-> verdict]}
NamedResults ==
    [u \in TwoUnits |->
        IF u = "p" THEN {Report("COMPLETED", "PASS", <<"c2", "c1">>, <<>>, Says("c1", "PASS")),
                         Report("BLOCKED", "NONE", <<"c2">>, <<>>, {})}
        ELSE {Report("COMPLETED", "PASS", <<>>, <<"c1">>, Says("c1", "PASS")),
              Report("COMPLETED", "FAIL", <<>>, <<"c1">>, Says("c1", "FAIL"))}]

\* Only c1 is ever written; c2 is a digest nobody holds the content of.
OneWriter == [u \in TwoUnits |-> IF u = "p" THEN {"c1"} ELSE {}]

\* The same plan under one key in two messages, another command under the message_id
\* of the first.
Message(id, key, op, body) == [id |-> id, key |-> key, op |-> op, body |-> body]
Deliveries ==
    {Message("m1", "k1", "activate_plan", "verify"),
     Message("m2", "k1", "activate_plan", "verify"),
     Message("m1", "k2", "dispatch_ready_runs", "-")}
=============================================================================
