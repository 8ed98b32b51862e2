SPECIFICATION FairSpec
CONSTANTS
    Jobs = {j1}
    Ops = {}
    Workers = {w1}
    MaxGen = 2
    MaxEpoch = 3
    MaxSteps = 2
    Backends = {"celery"}
PROPERTIES
    LostClaimsAreReplaced
CHECK_DEADLOCK FALSE
