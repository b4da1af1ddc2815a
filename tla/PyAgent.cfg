SPECIFICATION Spec
CONSTANTS
    Apps = {a1, a2}
    NoApp = NoApp
    MinuteLength = 1
    FlushInterval = 1
    IdleThreshold = 1
    SyncInterval = 1
    BatchLimit = 1
    MaxTime = 2
    MaxInputs = 2
SYMMETRY Symmetry
INVARIANTS
    TypeOK
    CountsKept
    SessionsTrue
    LastPush
PROPERTY TodayIsTrue
CHECK_DEADLOCK FALSE
