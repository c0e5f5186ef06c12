CONSTANTS
    Units <- OneUnit
    Runs <- OneAttempt
    UnitOf <- OneAttemptOf
    Workspaces = {"w"}
    WorkspaceOf <- OneWorkspaceOf
    ShellUnits = {"a"}
    VerifyUnits = {}
    Plans <- OnePlan
    MaxPlans = 1
    MaxActive = 2
    CallLimit = 1
    MaxUsage = 0
    MaxContracts = 1
    Clarifications = {}
    Effects = {}
    Queryable = {}
    NoRun = "none"
SPECIFICATION Spec
INVARIANTS
    ContainerHoldsWorkspace
