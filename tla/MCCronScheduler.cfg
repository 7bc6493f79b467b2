SPECIFICATION Spec
CONSTANTS
    OneShots = {o1}
    Recurring = {r1}
    Period = 2
    MaxAge = 3
    Instants = {1, 3}
    Capacity = 1
    MayCrash = TRUE
    MaxTime = 4
    MaxLives = 2
    MaxFailures = 2
    MaxMisreads = 1
    MaxCommands = 2
INVARIANTS
    TypeOK
    AddedIsKept
    FiringsAccountedFor
PROPERTIES
    SilentStaysSilent
    OncePerInstant
    FiringsAreRecorded
    DueIsFired
CHECK_DEADLOCK FALSE
