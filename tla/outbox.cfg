SPECIFICATION FairSpec
CONSTANTS
    r1 = r1
    r2 = r2
    Events <- MCEvents
    Relays <- MCRelays
    NoRelay = NoRelay
    GoneRelay = GoneRelay
    NoEvent = NoEvent
    MaxAttempts = 2
    LockTTL = 1
    DelayCap = 2
    BatchSize = 2
    MaxFailures = 3
    MaxCrashes = 1
INVARIANTS
    TypeOK
    Inv
    AttemptsAreSends
PROPERTIES
    EveryEventSettles
    HandOffRefined
