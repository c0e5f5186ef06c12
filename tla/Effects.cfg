CONSTANTS
    Units = {}
    Runs = {}
    UnitOf <- NoUnitOf
    Workspaces = {}
    WorkspaceOf <- NoUnitOf
    ShellUnits = {}
    VerifyUnits = {}
    Plans <- EmptyPlan
    MaxPlans = 1
    MaxActive = 2
    CallLimit = 1
    MaxUsage = 0
    MaxContracts = 2
    Clarifications = {}
    Effects = {"q", "n"}
    Queryable = {"q"}
    NoRun = "none"
SPECIFICATION Spec
INVARIANTS
    AtMostOneSend
    OutcomesAreTrue
PROPERTIES
    ActionsAreSentOnce
