SPECIFICATION Spec
CONSTANTS
    Jobs = {j1}
    Ops = {o1}
    Workers = {w1, w2}
    MaxGen = 2
    MaxEpoch = 1
    MaxSteps = 2
    Backends = {"celery", "cloudflare"}
SYMMETRY WorkerSymmetry
INVARIANTS
    SlotIsExclusive
    EffectsOnce
PROPERTIES
    DoubtIsFollowed
CHECK_DEADLOCK FALSE
