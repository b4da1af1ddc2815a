--------------------------------- MODULE Days ---------------------------------
(***************************************************************************)
(* The dashboard's arithmetic on days, hours and counts: the helpers of    *)
(* web/src/utils.ts and what its charts draw from them.                    *)
(*                                                                         *)
(* A calendar day is its number, so adding days is addition.  An instant   *)
(* is a number of hours since the UTC midnight of day 0; a viewer's clock  *)
(* is offset hours ahead of UTC.  A day's numbers are a DayStat; what the  *)
(* backend sends for a range of days has no entry for a day without rows.  *)
(***************************************************************************)
EXTENDS Integers, Sequences, FiniteSetsExt, Sums

CONSTANTS
    HoursPerDay,     \* 24
    DaysPerWeek      \* 7; day 0 is a Sunday

ASSUME CalendarAssumption ==
    /\ HoursPerDay \in Nat \ {0}
    /\ DaysPerWeek \in Nat \ {0}

Metrics == {"keys", "clicks", "minutes"}
DayStat == [date : Int, keys : Nat, clicks : Nat, minutes : Nat]

-----------------------------------------------------------------------------
\* The local calendar: toLocalISODate and getHours of an instant, and the
\* instants of one local day (localDayBoundsUnix; until is not in it).
toLocalISODate(t, offset) == (t + offset) \div HoursPerDay
getHours(t, offset)       == (t + offset) % HoursPerDay

shiftLocalDate(d, delta) == d + delta
getDay(d) == d % DaysPerWeek

\* Fault: the bounds are UTC midnights.
localDayBounds_Utc(d, offset) ==
    [since |-> d * HoursPerDay, until |-> (d + 1) * HoursPerDay]

localDayBounds(d, offset) ==
    [since |-> d * HoursPerDay - offset,
     until |-> (d + 1) * HoursPerDay - offset]

formatDayLabel(d, today) ==
    IF d = today THEN "Today"
    ELSE IF d = shiftLocalDate(today, -1) THEN "Yesterday"
    ELSE "weekday and date"

-----------------------------------------------------------------------------
NoActivity(d) == [date |-> d, keys |-> 0, clicks |-> 0, minutes |-> 0]
Quiet(stat)   == stat.keys = 0 /\ stat.clicks = 0 /\ stat.minutes = 0

\* One entry per day of the count days that end today, oldest first.
fillDays(sparse, today, count) ==
    [i \in 1..count |->
        LET d == shiftLocalDate(today, i - count)
        IN  IF d \in DOMAIN sparse THEN sparse[d] ELSE NoActivity(d)]

\* slice(-n) of a filled window.
LastDays(days, n) ==
    IF Len(days) <= n THEN days ELSE SubSeq(days, Len(days) - n + 1, Len(days))

\* The points of one local day, summed into its hours.
bucketByLocalHour(points, offset) ==
    [h \in 0..(HoursPerDay - 1) |->
        LET here == {t \in DOMAIN points : getHours(t, offset) = h}
            sum(m) == SumOn([t \in DOMAIN points |-> points[t][m]], here)
        IN  [keys |-> sum("keys"), clicks |-> sum("clicks")]]

-----------------------------------------------------------------------------
\* Math.round(a / b) for b > 0: halves go up.
Rounded(a, b) == (2 * a + b) \div (2 * b)

\* formatShare: a share in whole percent; below says "<1%".
formatShare(value, total) ==
    LET pct == IF total <= 0 THEN 0 ELSE Rounded(100 * value, total)
    IN  IF total > 0 /\ pct = 0 /\ value > 0
        THEN [pct |-> 1, below |-> TRUE]
        ELSE [pct |-> pct, below |-> FALSE]

NoComparison == [tone |-> "none", pct |-> 0]

\* Percent change against a baseline; there is none against 0 or nothing.
compareToBaseline(current, baseline) ==
    IF baseline = 0 THEN NoComparison
    ELSE LET pct == Rounded(100 * (current - baseline), baseline)
         IN  CASE pct = 0 -> [tone |-> "flat", pct |-> 0]
               [] pct > 0 -> [tone |-> "up", pct |-> pct]
               [] pct < 0 -> [tone |-> "down", pct |-> -pct]

-----------------------------------------------------------------------------
\* The height of a bar: to scale, but never so low that activity disappears,
\* and a sliver when there was none.
BarHeight(value, max, full, least, none) ==
    IF value > 0 THEN Max({least, (value * full) \div max}) ELSE none

Largest(values) == Max(values \cup {1})

DayBars(days, today, label(_)) ==
    LET max == Largest({days[i].keys : i \in DOMAIN days})
    IN  [i \in DOMAIN days |->
            [date    |-> days[i].date,
             height  |-> BarHeight(days[i].keys, max, 150, 10, 4),
             isToday |-> days[i].date = today,
             label   |-> label(days[i].date)]]

WeekChart(days, today) == DayBars(days, today, getDay)

\* A bar of a month is labelled with its day of the month.
MonthChart(days, today) == DayBars(days, today, LAMBDA d : d)

DayTimeline(hours) ==
    LET max == Largest({hours[h].keys : h \in DOMAIN hours})
    IN  [h \in DOMAIN hours |->
            [height   |-> BarHeight(hours[h].keys, max, 100, 6, 3),
             labelled |-> h % 3 = 0]]

\* A ranked bar list; the shares are of the list's own total.  An empty list
\* says that there was no activity.
AppsBreakdown(apps) ==
    LET max   == Largest({apps[i].keys : i \in DOMAIN apps})
        total == SumOver([i \in DOMAIN apps |-> apps[i].keys])
    IN  [i \in DOMAIN apps |->
            [name  |-> apps[i].name,
             keys  |-> apps[i].keys,
             share |-> formatShare(apps[i].keys, total),
             width |-> Max({2, (100 * apps[i].keys) \div max})]]

\* The line over the window, or the note that there is nothing in it.
HistoryChart(days, metric) ==
    IF \A i \in DOMAIN days : days[i][metric] = 0 THEN <<>>
    ELSE [i \in DOMAIN days |-> [date |-> days[i].date, value |-> days[i][metric]]]

\* A cell's colour, 0 to 5.
stepFor(value, max) ==
    IF value = 0 THEN 0
    ELSE Min({5, Max({1, (5 * value + max - 1) \div max})})

\* Fault: the grid starts at the window's first day, whatever weekday it is.
CalendarStart_NoSunday(today, count) == today - (count - 1)

\* The Sunday on or before the first of the count days that end today.
CalendarStart(today, count) ==
    LET first == today - (count - 1)
    IN  first - getDay(first)

\* The calendar of a metric: a column per week, a cell per day from Sunday on;
\* the last column ends today.  A day that is not in days counts as 0.
Heatmap(days, metric, today, count) ==
    LET start      == CalendarStart(today, count)
        valueOn(d) == IF \E i \in DOMAIN days : days[i].date = d
                      THEN days[CHOOSE i \in DOMAIN days : days[i].date = d][metric]
                      ELSE 0
        max        == Largest({valueOn(d) : d \in start..today})
        cell(d)    == [date |-> d, value |-> valueOn(d), step |-> stepFor(valueOn(d), max)]
    IN  [w \in 1..((today - start) \div DaysPerWeek + 1) |->
            LET sunday == start + (w - 1) * DaysPerWeek
            IN  [k \in 1..Min({DaysPerWeek, today - sunday + 1}) |-> cell(sunday + k - 1)]]
=============================================================================
