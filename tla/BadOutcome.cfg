CONSTANTS
    Units = {}
    Runs = {}
    UnitOf <- NoUnitOf
    Workspaces = {}
    WorkspaceOf <- NoUnitOf
    ShellUnits = {}
    VerifyUnits = {}
    Plans <- EmptyPlan
    MaxPlans = 1
    MaxActive = 2
    CallLimit = 1
    MaxUsage = 0
    MaxContracts = 1
    Clarifications = {}
    Effects = {"e"}
    Queryable = {"e"}
    NoRun = "none"
SPECIFICATION Spec
PROPERTIES
    ConfirmedOutcomeStands
