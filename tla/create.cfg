SPECIFICATION Spec
CONSTANTS
    q1 = q1
    q2 = q2
    q3 = q3
    k1 = k1
    k2 = k2
    short = short
    p1 = p1
    p2 = p2
    Keys <- MCKeys
    ShortKeys <- MCShortKeys
    Payloads <- MCPayloads
    Requests <- MCRequests
    NoBatch = NoBatch
    Limit = 2
    MaxRequests = 4
    MaxLost = 1
SYMMETRY CreateSymmetry
CHECK_DEADLOCK FALSE
INVARIANTS
    TypeOK
    CallersAgree
    QuotaCoversBatches
