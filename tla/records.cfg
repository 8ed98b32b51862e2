SPECIFICATION Spec
CONSTANTS
    ChargeKeys = {"key"}
    Amounts = {1, 2}
    MonthlyLimit = 2
    MaxOperations = 2
    MaxPilotVersion = 3
    LastMonth = 2
    EditTabs = {"t1", "t2"}
    EditSessions <- EditsAndFaults
    MaxEdits = 2
    Actors = {"a", "b"}
    Files = {"f"}
    LastChunk = 2
    ActorLimit = 2
    TotalLimit = 8
    MaxUploads = 3
    MaxLapses = 2
    SourceKinds = {"upload", "url"}
    Backends = {"r2", "postgres"}
    MaxObjects = 2
    MaxClaims = 2
    MaxFaults = 1
    Runs = {"r1", "r2"}
    Hits <- FoundBy
    ReviewPages = {"pg"}
    Imports = {"i1", "i2"}
    CandidateFiles <- ImportFiles
    Home <- HomeOf
    Projects = {"p", "q"}
    MaxAttempts = 2
    MaxReviews = 1
    DraftClaims = {"e1", "e2"}
    DraftJobs = {"j1"}
    MaxRevision = 3
    MaxUpheavals = 2
    Typists = {"a", "b"}
    DraftLists <- ListsOfDrafts
    MaxTexts = 2
    MaxOthers = 1
    MaxSessions = 2
    MaxTrouble = 2
    QuoteWorkspaces <- BuyersRead
    MaxQuotes = 2
    MaxLookups = 3
    MaxQuoteChanges = 1
    ConnectionSets <- SetsOfConnections
    AssignedProjects = {"p", "q"}
    Admins = {"a", "b"}
    Callers = {"k"}
    MaxConnectionVersion = 4
    MaxMishaps = 2
    BindingOrder <- LockOrder
    Tools = {"a", "b"}
    Manifests <- BindingManifests
    MaxBatches = 3
    MaxTurns = 1
    Sittings <- OwnersAndVerdicts
    MaxBuyerVersion = 3
    MaxConfirmed = 2
    MaxTableMoves = 1
    MaxManifests = 2
    MaxRowVersion = 3
    MaxRequests = 4
    MaxPanelMoves = 1
    MaxUpsets = 1
INVARIANTS
    TypeOK
    LeadDecisionsAreInformed
    EditsAreReported
    StoredBytesAreOwned
    IdentitiesAreKept
    DraftsAreKept
PROPERTIES
    SpendingIsAdmitted
    ReviewsHold
    DiscussionsAreKept
CHECK_DEADLOCK FALSE
