SPECIFICATION Spec
CONSTANTS
    Users = {"ann", "bob"}
    typed <- MCTyped
    BoardLimit = 50
    Earlier <- MCEarlier
    None = None
    MaxClicks = 3
    MaxFetches = 2
    MaxMutations = 1
    MaxOthers = 2
INVARIANTS TypeOK Consent TabsTrue
CHECK_DEADLOCK FALSE
