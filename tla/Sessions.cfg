CONSTANTS
    r1 = r1
    r2 = r2
    d1 = d1
    d2 = d2
    PlanRuns <- TwoRuns
    Deltas = {}
    NoRun = NoRun
    Clarifications = {"g"}
    MaxVersions = 1
    MaxGen = 2
    MaxPosts = 0
SYMMETRY InterchangeableRuns
SPECIFICATION Spec
INVARIANTS
    SessionBindsItsRun
PROPERTIES
    SupersededPlannersAreSilent
