SPECIFICATION Spec
CONSTANTS
    Keep = 2
    RotateAt = 2
    MaxEventId = 7
    MaxFires = 8
    MaxEpochs = 2
INVARIANTS
    TypeOK
    NeverAliased
    CursorSkipsNothing
    IndexIsWindow
PROPERTIES
    EvictedStayEvicted
    ImplementsLog
\* A marker or epoch file that was cut short, or an exhausted id space, stops
\* the daemon for good.
CHECK_DEADLOCK FALSE
