SPECIFICATION FairSpec
CONSTANTS
    Setups <- MCSetups
    MaxRevision = 3
    MaxChanges = 2
    None = None
    NeonProjects = {"p1", "p2"}
    VaultPaths <- MCVaultPaths
    BranchNames = {"main", "dev"}
    MaxBranches = 3
    NoObject = NoObject
    VaultSecrets <- MCVaultSecrets
    SecretNames = {"hello", "other", "missing"}
    MaxTimers = 2
    Labels = {"hello-1/user-container", "hello-1/queue-proxy"}
    MaxTime = 4
    Window = 2
    Limit = 3
    Resolution = 2
    Presets = {"order", "publish"}
INVARIANTS
    TypeOK
    TrafficAccounted
    GraphWellFormed
    NothingHidden
    AbsenceExplained
    VaultPathsStayInProject
    NewestFirst
    OnePresetSent
PROPERTIES
    MarkClears
CHECK_DEADLOCK FALSE
