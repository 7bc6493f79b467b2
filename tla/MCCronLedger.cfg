SPECIFICATION Spec
CONSTANTS
    j1 = j1
    main = main
    isolated = isolated
    c1 = c1
    c2 = c2
    Job = {j1}
    Slot = {1, 2}
    Target <- OneTarget
    NoTarget = NoTarget
    Consumer = {c1, c2}
    Serves <- BothServeMain
    LegacyKey <- FirstIsLegacy
    Lease = 1
    DeadLetterThreshold = 1
    ClockStepsBack = TRUE
    MaxFence = 2
SYMMETRY ConsumerSymmetry
INVARIANTS
    TypeOK
    LeasesAccountedFor
    ResultsAgree
    ZombiesAreFenced
    AdvancedOncePerFire
PROPERTIES
    HistoryIsKept
    LiveLeaseIsKept
    ImplementsLifecycle
    DeadLetterHolds
