SPECIFICATION Spec
CONSTANTS
    Devices = {d1, d2}
    NoDevice = NoDevice
    Workers = {w1, w2}
    Periodic = w1
    Apps = {a1, a2}
    MaxMinute = 1
    MaxRows = 2
    BatchLimit = 2
SYMMETRY Symmetry
INVARIANTS
    TypeOK
    RollupsMatchBuckets
    SyncedIsSafe
    CountedOnce
PROPERTY LedgerSpec
CHECK_DEADLOCK FALSE
