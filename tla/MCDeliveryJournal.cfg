SPECIFICATION Spec
CONSTANTS
    c1 = c1
    c2 = c2
    Event = {1, 2}
    Consumer = {c1, c2}
    NoLease = NoLease
    Lease = 1
    CompactAt = 2
    ClockStepsBack = TRUE
    HostCrashes = FALSE
    MaxGrants = 3
    MaxClock = 2
SYMMETRY ConsumerSymmetry
INVARIANTS
    TypeOK
    DeliveriesHold
    FencesAgree
PROPERTIES
    LiveLeaseHonoured
    FloorIsFinal
    ImplementsRegister
