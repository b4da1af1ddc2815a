SPECIFICATION LimitSpec
CONSTANTS
    Callers = {d1, d2}
    Capacity = 2
    Interval = 2
    MaxTime = 7
    MaxStarts = 2
INVARIANT FloodIsStopped
PROPERTY NormalUsePasses
