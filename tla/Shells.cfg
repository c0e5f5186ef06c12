CONSTANTS
    Units <- OneUnit
    Runs <- TwoAttempts
    UnitOf <- TwoAttemptsOf
    Workspaces = {"w"}
    WorkspaceOf <- OneWorkspaceOf
    ShellUnits = {"a"}
    VerifyUnits = {}
    Plans <- OnePlan
    MaxPlans = 1
    MaxActive = 1
    CallLimit = 1
    MaxUsage = 0
    MaxContracts = 1
    Clarifications = {"g"}
    Effects = {}
    Queryable = {}
    NoRun = "none"
SPECIFICATION LiveSpec
INVARIANTS
    UnconfirmedShellKeepsWorkspace
    OneWriterPerWorkspace
    StopReachesEveryAgent
PROPERTIES
    WorkspaceIsLocked
\* A task that is ABORTED or COMPLETED may stop for good.
CHECK_DEADLOCK FALSE
