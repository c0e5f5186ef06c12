CONSTANTS
    r1 = r1
    r2 = r2
    d1 = d1
    d2 = d2
    PlanRuns <- OneRun
    Deltas <- TwoDeltas
    NoRun = NoRun
    Clarifications = {}
    MaxVersions = 2
    MaxGen = 1
    MaxPosts = 1
SYMMETRY InterchangeableDeltas
SPECIFICATION Spec
INVARIANTS
    TypeOK
    AppliedDeltasAreInForce
    PendingContractIsNewest
