SPECIFICATION Spec
CONSTANTS
    OneShots = {o1}
    Recurring = {r1}
    Period = 2
    MaxAge = 3
    Instants = {1, 3}
    Capacity = 1
    MayCrash = FALSE
    MaxTime = 4
    MaxLives = 2
    MaxFailures = 1
    MaxMisreads = 1
    MaxCommands = 3
INVARIANT DeletedIsRecorded
CHECK_DEADLOCK FALSE
