SPECIFICATION FreshSpec
CONSTANTS
    j1 = j1
    main = main
    c1 = c1
    Job = {j1}
    Slot = {1}
    Target = {main}
    NoTarget = NoTarget
    Consumer = {c1}
    Serves <- OnlyMain
    LegacyKey = {}
    Lease = 1
    DeadLetterThreshold = 2
    ClockStepsBack = FALSE
    MaxFence = 1
    Continuation = {}
    MaxCrashes = 2
PROPERTIES
    DaemonComesUp
CHECK_DEADLOCK FALSE
