SPECIFICATION Spec
CONSTANTS
    Buyers = {1, 2}
    BulkJobs = {1, 2}
    Manifests = {1, 2}
    Sources = {1}
    Edited = {1}
    Exclusions = {{}}
    Operations = {"assignBuyerOwners"}
    ChunkSize = 1
    SyncLimit = 1
    MaxVersion = 4
    Scopes = {"A", "B"}
    Bodies = {"b1", "b2"}
    Surfaces = {"run", "conversation"}
    MaxSends = 2
    MaxMoves = 1
    LastStep = 2
    MaxOperations = 8
    MaxFailures = 2
    MaxUnits = 3
    MaxBackoff = 2
    Users = {"u", "v"}
    MaxGeneration = 3
    MaxLoads = 3
    Sections = {"a", "b"}
    ToolCount = 2
    MaxIntake = 2
    Members = {"m1", "m2"}
    Horizon = 1
    Ends = {1}
    MaxChanges = 2
    MaxAuthorities = 2
    MaxRequests = 1
    MaxDecisions = 2
    Hosts = {"h1", "h2"}
    Plans = {1, 2}
    ReviewedPlans = {1}
    Concurrency = 1
    MaxDeliveries = 2
INVARIANTS
    TypeOK
    BulkCountsAreTrue
    ActionRunsOnce
    RunIsCarriedThrough
    NoBlindRepeat
    KeepsPolling
    LiabilityIsHeld
    ApprovedCopySentOnce
    InFlightCoversOpenWork
    ScreensAreCurrent
    ApprovalsHold
PROPERTIES
    TerminalRunsFinal
    RightsEndForGood
CHECK_DEADLOCK FALSE
