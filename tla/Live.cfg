CONSTANTS
    Units <- OneUnit
    Runs <- OneAttempt
    UnitOf <- OneAttemptOf
    Workspaces = {"w"}
    WorkspaceOf <- OneWorkspaceOf
    ShellUnits = {"a"}
    VerifyUnits = {}
    Plans <- OnePlan
    MaxPlans = 1
    MaxActive = 2
    CallLimit = 1
    MaxUsage = 1
    MaxContracts = 1
    Clarifications = {"g"}
    Effects = {}
    Queryable = {}
    NoRun = "none"
SPECIFICATION LiveSpec
PROPERTIES
    PauseSettles
    CancelSettles
    CancelIsFinal
\* A task that is ABORTED or COMPLETED may stop for good.
CHECK_DEADLOCK FALSE
