SPECIFICATION Spec
CONSTANTS
    Jobs = {}
    Ops = {o1}
    Workers = {w1, w2}
    MaxGen = 2
    MaxEpoch = 3
    MaxSteps = 2
    Backends = {"celery", "cloudflare"}
SYMMETRY WorkerSymmetry
INVARIANTS
    TypeOK
    SettledClosesIntents
    AtMostOneSubmission
    CallsAgree
PROPERTIES
    TerminalRowsFinal
    ImplementsPaidOperation
CHECK_DEADLOCK FALSE
