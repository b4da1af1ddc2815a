SPECIFICATION Spec
CONSTANTS
    HoursPerDay = 24
    DaysPerWeek = 7
    Codes = {"p", "q"}
    WrongCodes = {"x"}
    Keys = {"a", "f1"}
    Apps = {"editor", "browser", "mail"}
    Layout = {"a"}
    TopKeys = 1
    None = None
    today = 5
    Pressed <- MCPressed
    MaxClicks = 3
    MaxAnswers = 3
    MaxPresses = 1
    MaxOther = 1
INVARIANTS TypeOK PageTrue NoticesAsked
CHECK_DEADLOCK FALSE
