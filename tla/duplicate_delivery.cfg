SPECIFICATION HealthySpec
CONSTANTS
    Jobs = {}
    Ops = {o1}
    Workers = {w1, w2}
    MaxGen = 1
    MaxEpoch = 1
    MaxSteps = 1
    Backends = {"celery"}
PROPERTIES
    AcceptedReferenceIsStored
CHECK_DEADLOCK FALSE
