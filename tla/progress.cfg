SPECIFICATION ProgressSpec
CONSTANTS
    Jobs = {}
    Ops = {o1}
    Workers = {w1}
    MaxGen = 3
    MaxEpoch = 1
    MaxSteps = 3
    Backends = {"celery", "cloudflare"}
PROPERTIES
    LostClaimsAreReplaced
    WorkGoesOn
CHECK_DEADLOCK FALSE
