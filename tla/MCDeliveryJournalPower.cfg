SPECIFICATION Spec
CONSTANTS
    c1 = c1
    c2 = c2
    Event = {1}
    Consumer = {c1, c2}
    NoLease = NoLease
    Lease = 1
    CompactAt = 2
    ClockStepsBack = TRUE
    HostCrashes = TRUE
    MaxGrants = 3
    MaxClock = 3
SYMMETRY ConsumerSymmetry
INVARIANT JournalsReplay
