CONSTANTS
    Units <- TwoUnits
    Runs <- TwoRuns
    UnitOf <- TwoRunsOf
    Workspaces = {"w"}
    WorkspaceOf <- SharedWorkspaceOf
    ShellUnits = {}
    VerifyUnits = {"a"}
    Plans <- RevisedPlans
    MaxPlans = 2
    MaxActive = 1
    CallLimit = 1
    MaxUsage = 0
    MaxContracts = 1
    Clarifications = {}
    Effects = {}
    Queryable = {}
    NoRun = "none"
SPECIFICATION Spec
INVARIANTS
    TypeOK
    LiveRunOwnsWorkspace
    LiveAgentOwnsWorkspace
    OneAgentPerWorkspace
    RestIsQuiet
    RestHasNoRunningUnit
    StopReachesEveryAgent
PROPERTIES
    EndedRunsStayEnded
    WorkspaceIsLocked
