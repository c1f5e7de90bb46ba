\* Two clients and two calls each are enough for one call to fall between the
\* two halves of the other.
CONSTANTS
    Clients = {c1, c2}
    Keys = {k1}
    MinI64 = 0
    MaxI64 = 1
    Deltas = {1}
    SetValues <- MCOther
    MaxCalls = 2
    Names = {b1}
    Parties = {2}

SPECIFICATION BarrierSpec

INVARIANTS
    IncrReturnsNewValue

CHECK_DEADLOCK FALSE
