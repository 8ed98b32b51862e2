SPECIFICATION Spec
CONSTANTS
    Jobs = {}
    Ops = {o1}
    Workers = {w1}
    MaxGen = 2
    MaxEpoch = 1
    MaxSteps = 2
    Backends = {"cloudflare"}
INVARIANTS
    ReferenceIsPolled
CHECK_DEADLOCK FALSE
