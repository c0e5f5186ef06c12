CONSTANTS
    Units <- TwoUnits
    VerifyUnits = {"v"}
    Runs <- ThreeRuns
    UnitOf <- ThreeRunsOf
    Contents = {"c1", "c2"}
    NoContent = NoContent
    Criteria = {"k"}
    PlanNames <- PlanNameSet
    PlanOf <- NamedPlans
    WritesOf <- OneWriter
    ResultsOf <- NamedResults
    MaxPlans = 2
    MaxDecisions = 1
    Appending = {"v1"}
    NoRun = NoRun
    NoResult = NoResult
    Messages <- Deliveries
    NoAnswer = NoAnswer
    Failure = Failure
SPECIFICATION LogSpec
INVARIANTS PendingSnapshotIsCurrent
CHECK_DEADLOCK FALSE
