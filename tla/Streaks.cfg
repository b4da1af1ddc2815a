SPECIFICATION StreaksSpec
CONSTANT MaxDay = 6
INVARIANTS
    StreaksTypeOK
    StreaksTrue
