SPECIFICATION FairSpec
CONSTANTS
    Devices = {d1}
    NoDevice = NoDevice
    Workers = {w1, w2}
    Periodic = w1
    Apps = {a1}
    MaxMinute = 1
    MaxRows = 2
    BatchLimit = 1
PROPERTY EventuallySynced
CHECK_DEADLOCK FALSE
