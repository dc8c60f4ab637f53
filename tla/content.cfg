SPECIFICATION Spec
CONSTANTS
    r1 = r1
    r2 = r2
    r3 = r3
    k1 = k1
    Requests <- MCRequests
    Keys <- MCKeys
    None = None
    Limit = 2
    Window = 4
    Second = 2
    TTL = 2
    MaxLag = 1
    MaxNow = 6
    MaxArrivals = 4
    MaxFaults = 1
SYMMETRY MCSymmetry
INVARIANTS
    TypeOK
    QuotaHolds
    GaugeCoversRequests
PROPERTY RetryAfterSuffices
CHECK_DEADLOCK FALSE
