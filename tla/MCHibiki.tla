------------------------------ MODULE MCHibiki ------------------------------
(***************************************************************************)
(* Small instances of HibikiCore for TLC.                                  *)
(***************************************************************************)
EXTENDS HibikiProperties

\* One unit with one or two attempts.
OneUnit == {"a"}
OneAttempt == {"a1"}
OneAttemptOf == [r \in OneAttempt |-> "a"]
TwoAttempts == {"a1", "a2"}
TwoAttemptsOf == [r \in TwoAttempts |-> "a"]
OneWorkspaceOf == [u \in OneUnit |-> "w"]
OnePlan == {[nodes |-> OneUnit, edges |-> {}]}

\* Two units that share a workspace, one attempt each.
TwoUnits == {"a", "b"}
TwoRuns == {"a1", "b1"}
TwoRunsOf == [r \in TwoRuns |-> IF r = "a1" THEN "a" ELSE "b"]
SharedWorkspaceOf == [u \in TwoUnits |-> "w"]

\* b waits for a's verdict; a later revision drops a and the wait.
AfterVerdict == [from |-> "a", to |-> "b", pred |-> "VERDICT_PASS"]
RevisedPlans == {[nodes |-> TwoUnits, edges |-> {AfterVerdict}],
                 [nodes |-> {"b"}, edges |-> {}]}

\* No units: external actions alone.
NoUnitOf == [r \in {} |-> r]
EmptyPlan == {[nodes |-> {}, edges |-> {}]}
=============================================================================
