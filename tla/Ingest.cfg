SPECIFICATION Spec
CONSTANTS
    d1 = d1
    d2 = d2
    Handlers = {h1, h2}
    Devices = {d1, d2}
    Recorded <- MCRecorded
    MinutesPerDay = 2
    None = None
INVARIANTS
    TypeOK
    RollupsExact
    MinutesCounted
    StreakHappened
PROPERTY WholeBatches
