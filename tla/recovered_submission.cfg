SPECIFICATION JobSpec
CONSTANTS
    Operations = {o1, o2}
    Workers = {w1, w2}
    ProviderEvents = {e1, e2}
    MaxClaims = 3
    MaxCost = 1
    Polls = {"auto", "manual"}
    Backends = {"celery", "cloudflare"}
SYMMETRY JobSymmetry
INVARIANTS
    RecoveredSubmissionIsUnknown
CHECK_DEADLOCK FALSE
