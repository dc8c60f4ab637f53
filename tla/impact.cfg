SPECIFICATION Spec
CONSTANTS
    j1 = j1
    j2 = j2
    q1 = q1
    q2 = q2
    front = front
    back = back
    NoJob = NoJob
    Jobs <- MCJobs
    Slots <- MCSlots
    Requests <- MCRequests
    LastDay = 2
    MaxEdits = 1
    MaxRequests = 3
    MaxLost = 1
SYMMETRY ImpactSymmetry
CONSTRAINTS
    OneDisturbance
    FirstDayFree
CHECK_DEADLOCK FALSE
INVARIANTS
    TypeOK
    CoverSessionsMarked
    ReportsMatchProduct
PROPERTIES
    SecondaryKeepsSession
    ClosedWindowsStay
