SPECIFICATION Spec
CONSTANTS
    Ops = {sales, lookup}
    Portioned = {sales}
    Scopes = {workspace, north, south}
    ScopesOf <- SmallWorkspace
    EventIds = {e1, e2, e3}
    MaxPeriod = 2
    MaxAmount = 2
    Limits = {0, 2, 3}
SYMMETRY EventSymmetry
INVARIANTS
    WithinLimit
    LedgerBalances
    ChargeWithinBound
PROPERTIES
    RefundMintsNoCapacity
CHECK_DEADLOCK FALSE
