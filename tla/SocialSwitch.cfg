SPECIFICATION Spec
CONSTANTS
    Users = {"ann", "bob"}
    typed <- MCTyped
    BoardLimit = 50
    Earlier <- MCEarlier
    None = None
    MaxClicks = 6
    MaxFetches = 1
    MaxMutations = 0
    MaxOthers = 0
INVARIANT ShownIsYours
CHECK_DEADLOCK FALSE
