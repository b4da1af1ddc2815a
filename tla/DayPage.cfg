SPECIFICATION FairSpec
CONSTANTS
    HoursPerDay = 2
    DaysPerWeek = 3
    Apps = {"a", "b"}
    NoDay = NoDay
    Window = 4
    WeekDays = 2
    MonthBars = 3
    MonthBack = 3
    Zones <- MCZones
    Start = 11
    Past <- MCPast
    Deliveries <- MCDeliveries
    MaxHours = 1
    MaxPosts = 1
    MaxClicks = 2
INVARIANTS DayPageTypeOK PageAddsUp CalendarAgrees
PROPERTY TodayCatchesUp
