-------------------------------- MODULE DayPage --------------------------------
(***************************************************************************)
(* One browser tab on the Today and History tabs of the dashboard          *)
(* (TodayView, DayView, HistoryView), the query cache they share, and the  *)
(* backend they read while agents go on delivering rows, some of them for  *)
(* days that are over.                                                     *)
(*                                                                         *)
(* A fetch is one step: a query has one request in flight at a time, so    *)
(* delaying its answer only delays what this module lets happen later.  A  *)
(* fetch that fails leaves the cache as it was; the line that says so is   *)
(* left out.                                                               *)
(* The page computes "today" when it renders; seen is the day it computed  *)
(* last.  Every answer and every click renders.                            *)
(***************************************************************************)
EXTENDS Days, StreakRule, Ranking, Sums, SequencesExt

CONSTANTS
    Apps,
    NoDay,
    Window,          \* HISTORY_WINDOW_DAYS, 90
    WeekDays,        \* 7
    MonthBars,       \* 30
    MonthBack,       \* days from today back to the same day last month
    Zones,           \* offsets of the viewer's clock from UTC
    Start,           \* the instant at which the page is opened
    Past,            \* the rows the backend has by then
    Deliveries,      \* rows an agent may deliver: how late, of which app, its counts
    MaxHours,        \* bound: hours the page stays open
    MaxPosts,        \* bound: rows delivered meanwhile
    MaxClicks        \* bound: clicks that change what is on the page

ASSUME DayPageAssumption ==
    /\ WeekDays \in Nat \ {0} /\ MonthBars \in Nat \ {0} /\ MonthBack \in Nat
    /\ Window \in Nat /\ Window > WeekDays /\ Window >= MonthBars
    /\ Zones \subseteq (1 - HoursPerDay)..(HoursPerDay - 1)
    /\ Start \in Nat /\ MaxHours \in Nat
    /\ NoDay \notin Int
    /\ MaxPosts \in Nat /\ MaxClicks \in Nat
    /\ Deliveries \subseteq [late : 0..Start, app : Apps, counts : [keys : Nat, clicks : Nat]]
    /\ IsFiniteSet(DOMAIN Past) /\ DOMAIN Past \subseteq (0..Start) \X Apps
    /\ Past \in [DOMAIN Past -> [keys : Nat, clicks : Nat]]

VARIABLES
    now,         \* the instant
    offset,      \* the viewer's offset from UTC; it stays the same
    rows,        \* activity_buckets of the user: per minute and app its counts
    streak,      \* the user's row in streaks
    page,        \* the range tab of TodayView, "history" or "profile"
    selected,    \* DayView's selectedDate, NoDay when it is not mounted
    metric,      \* HistoryView's metric
    seen,        \* the day the last render took for today
    cache,       \* query cache: query key -> what its last good fetch returned
    clicks       \* counts MaxClicks

serverVars == <<rows, streak>>
viewVars   == <<page, selected, metric>>
dayPageVars == <<now, offset, serverVars, viewVars, seen, cache, clicks>>

\* f with a value for key, new or in place of the old one.
With(f, key, value) == [k \in DOMAIN f \cup {key} |-> IF k = key THEN value ELSE f[k]]

Ranges  == {"today", "week", "month", "all"}
Pages   == Ranges \cup {"history", "profile"}
Today   == toLocalISODate(now, offset)
UtcDate == toLocalISODate(now, 0)

-----------------------------------------------------------------------------
\* Queries and what the backend answers them now.
HistoryKey == <<"history", Window>>
StatsKey(range) == <<"stats", range>>
BucketsKey(d) == <<"day-buckets", d>>
AppsKey(d)    == <<"day-apps", d>>

\* SUM of a column over some of the rows.
Counted(m, of) == SumOn([r \in DOMAIN rows |-> rows[r][m]], of)

\* A row of mouse travel alone has none.
HasActivity(counts) == counts.keys > 0 \/ counts.clicks > 0

\* The days that count for the streak.
ActiveDays == {toLocalISODate(r[1], offset) : r \in {x \in DOMAIN rows : HasActivity(rows[x])}}

\* daily_rollups: rows are filed under the local date of the device, whose
\* clock agrees with the viewer's; a minute with active rows of two apps is one.
RollupDays == {toLocalISODate(r[1], offset) : r \in DOMAIN rows}

Rollup(d) ==
    LET mine == {r \in DOMAIN rows : toLocalISODate(r[1], offset) = d}
    IN  [date    |-> d,
         keys    |-> Counted("keys", mine),
         clicks  |-> Counted("clicks", mine),
         minutes |-> Cardinality({r[1] : r \in {x \in mine : HasActivity(rows[x])}})]

\* Fault: a week is today and the seven days before it.
rangeStart_EightDays(range) ==
    CASE range = "today" -> UtcDate
      [] range = "week"  -> UtcDate - WeekDays
      [] range = "month" -> UtcDate - MonthBack
      [] range = "all"   -> -1

\* The first day of a range; days are cut in UTC.
rangeStart(range) ==
    CASE range = "today" -> UtcDate
      [] range = "week"  -> UtcDate - (WeekDays - 1)
      [] range = "month" -> UtcDate - MonthBack
      [] range = "all"   -> -1

\* GET /v1/me/stats; the averages are over the active days.
Stats(range) ==
    LET since == {d \in RollupDays : d >= rangeStart(range)}
        sum(m) == SumOn([d \in since |-> Rollup(d)[m]], since)
    IN  [keys    |-> sum("keys"), clicks |-> sum("clicks"), minutes |-> sum("minutes"),
         days    |-> Cardinality({d \in since : ~Quiet(Rollup(d))}),
         current |-> streak.current, longest |-> streak.longest]

\* GET /v1/me/history
History ==
    [d \in {r \in RollupDays : r >= UtcDate - (Window - 1)} |-> Rollup(d)]

\* Rows in the window the page computed for day d.
RowsOfDay(d) ==
    LET bounds == localDayBounds(d, offset)
    IN  {r \in DOMAIN rows : r[1] >= bounds.since /\ r[1] < bounds.until}

\* GET /v1/me/day-buckets: a point per minute.
DayBuckets(d) ==
    [t \in {r[1] : r \in RowsOfDay(d)} |->
        LET minute == {r \in RowsOfDay(d) : r[1] = t}
        IN  [keys |-> Counted("keys", minute), clicks |-> Counted("clicks", minute)]]

\* GET /v1/me/day-apps: the apps of the day, most keystrokes first.
DayApps(d) ==
    LET names == {r[2] : r \in RowsOfDay(d)}
        keys(a) == Counted("keys", {r \in RowsOfDay(d) : r[2] = a})
        order == Ranking([a \in names |-> keys(a)])
    IN  [i \in DOMAIN order |-> [name |-> order[i], keys |-> keys(order[i])]]

Answer(q) ==
    CASE q[1] = "history"     -> History
      [] q[1] = "stats"       -> Stats(q[2])
      [] q[1] = "day-buckets" -> DayBuckets(q[2])
      [] q[1] = "day-apps"    -> DayApps(q[2])

Loaded(q) == q \in DOMAIN cache

-----------------------------------------------------------------------------
\* What DayView shows of the selected day.
Filled == IF Loaded(HistoryKey) THEN fillDays(cache[HistoryKey], seen, Window) ELSE <<>>

\* The position of the selected day in the window; 0 when it is not there.
selectedIndex ==
    IF \E i \in DOMAIN Filled : Filled[i].date = selected
    THEN CHOOSE i \in DOMAIN Filled : Filled[i].date = selected
    ELSE 0

\* The stat tiles' numbers: the day's entry, if the window has it.
day == {Filled[i] : i \in {selectedIndex} \ {0}}

canGoPrev == Filled # <<>> => selected > Filled[1].date

\* Fault: the day after today can be opened.
canGoNext_Tomorrow == selected <= seen

canGoNext == selected < seen

previousDay == {Filled[i] : i \in {selectedIndex - 1} \cap (DOMAIN Filled)}

\* A metric summed over some entries of the window.
FilledSum(m, of) == SumOn([i \in DOMAIN Filled |-> Filled[i][m]], of)

\* Fault: days without activity count as days.
trailingWeekAvg_AllDays ==
    LET week == {i \in DOMAIN Filled : i < selectedIndex /\ i >= selectedIndex - WeekDays}
    IN  IF week = {} THEN 0
        ELSE Rounded(FilledSum("keys", week), Cardinality(week))

\* The average of the active ones of the seven days before the selected one.
trailingWeekAvg ==
    LET week   == {i \in DOMAIN Filled : i < selectedIndex /\ i >= selectedIndex - WeekDays}
        active == {i \in week : ~Quiet(Filled[i])}
    IN  IF active = {} THEN 0
        ELSE Rounded(FilledSum("keys", active), Cardinality(active))

vsYesterday == {compareToBaseline(d.keys, p.keys) : d \in day, p \in previousDay} \ {NoComparison}
vsWeekAvg   == {compareToBaseline(d.keys, trailingWeekAvg) : d \in day} \ {NoComparison}

\* The "Best day" badge.
isBestDay ==
    LET max == Max({Filled[i].keys : i \in DOMAIN Filled} \cup {0})
    IN  \E d \in day : max > 0 /\ d.keys = max

hourly == bucketByLocalHour(cache[BucketsKey(selected)], offset)

\* The sections of DayView; one that is not there is empty.
Heading ==
    [label |-> formatDayLabel(selected, seen), best |-> isBestDay, toToday |-> selected # seen]

Timeline == IF Loaded(BucketsKey(selected)) THEN {DayTimeline(hourly)} ELSE {}

\* The two chips; there is none without a baseline.
Compared == <<vsYesterday, vsWeekAvg>>

\* The day's numbers, the streak on today's, and "No activity".
Tiles ==
    [day    |-> day,
     streak |-> IF day # {} /\ selected = seen /\ Loaded(StatsKey("today"))
                THEN {cache[StatsKey("today")].current} ELSE {},
     quiet  |-> \E d \in day : Quiet(d)]

ByApp ==
    IF Loaded(AppsKey(selected)) THEN {AppsBreakdown(cache[AppsKey(selected)])} ELSE {}

\* In the order of the page.
DayShown ==
    [heading |-> Heading, timeline |-> Timeline, compared |-> Compared, tiles |-> Tiles, apps |-> ByApp]

\* The days of the week's and of the month's chart.
ChartDays ==
    CASE page = "week"  -> LastDays(Filled, WeekDays)
      [] page = "month" -> LastDays(Filled, MonthBars)
      [] OTHER          -> <<>>

\* The range tabs: a chart over the last days of the window, the totals and,
\* only for all time, the longest streak; averages over the active days.
RangeShown ==
    LET stats  == {cache[q] : q \in {StatsKey(page)} \cap DOMAIN cache}
    IN  [chart   |-> IF page = "week" THEN WeekChart(ChartDays, seen) ELSE MonthChart(ChartDays, seen),
         tiles   |-> stats,
         longest |-> IF page = "all" THEN {s.longest : s \in stats} ELSE {},
         average |-> {[metric |-> m, value |-> IF s.days = 0 THEN 0 ELSE Rounded(s[m], s.days)] :
                        m \in Metrics, s \in stats}]

\* HistoryView: the line and the calendar of the chosen metric.
HistoryShown ==
    [line     |-> HistoryChart(Filled, metric),
     calendar |-> IF Loaded(HistoryKey) THEN Heatmap(Filled, metric, seen, Window) ELSE <<>>]

\* MyProfileView: the calendar of keystrokes over the tiles for all time.
ProfileShown ==
    [calendar |-> IF Loaded(HistoryKey) THEN Heatmap(Filled, "keys", seen, Window) ELSE <<>>,
     tiles    |-> {cache[q] : q \in {StatsKey("all")} \cap DOMAIN cache}]

-----------------------------------------------------------------------------
\* The queries of the mounted view, and those it refetches every 30 seconds.
Observed ==
    CASE page = "today"            -> {HistoryKey, StatsKey("today"),
                                       BucketsKey(selected), AppsKey(selected)}
      [] page \in {"week", "month"} -> {HistoryKey, StatsKey(page)}
      [] page = "all"              -> {StatsKey("all")}
      [] page = "history"          -> {HistoryKey}
      [] page = "profile"          -> {HistoryKey, StatsKey("all")}

\* Fault: a day's own queries are not refetched.
Polled_NoDetails ==
    CASE page = "history" -> {}
      [] page = "today"   -> Observed \ {BucketsKey(selected), AppsKey(selected)}
      [] OTHER            -> Observed

Polled ==
    CASE page = "history" -> {}
      [] page = "today" /\ selected # seen -> Observed \ {BucketsKey(selected), AppsKey(selected)}
      [] OTHER -> Observed

\* The row in streaks after the batches of some days, ingested in their order.
StreakOf(days) ==
    MapThenFoldSet(LAMBDA d, s : UpdatedStreak(s, d), NoStreak, LAMBDA d : d, Max, days)

DayPageInit ==
    /\ now = Start
    /\ offset \in Zones
    /\ rows = Past
    /\ streak = StreakOf(ActiveDays)
    /\ page = "today"
    /\ selected = Today
    /\ metric = "keys"
    /\ seen = Today
    /\ cache = <<>>
    /\ clicks = 0

\* A query's request is answered; its observers render.
Fetch(q) ==
    /\ cache' = With(cache, q, Answer(q))
    /\ seen' = Today
    /\ UNCHANGED <<now, offset, serverVars, viewVars, clicks>>

\* A mounted query is fetched at any time: on the interval, by "Check for
\* updates", when the window gets the focus, when a view mounts on data older
\* than 30 seconds.
Refetch(q) ==
    /\ q \in Observed
    /\ Fetch(q)

\* What has to happen: the first fetch of an endpoint's query that has come on
\* the page, and the fetches on the interval.
Due(endpoint) ==
    \E q \in Observed :
        /\ q[1] = endpoint
        /\ q \in Polled \/ ~Loaded(q)
        /\ Fetch(q)

\* Five minutes after its last observer has gone.
Evict(q) ==
    /\ q \in DOMAIN cache \ Observed
    /\ cache' = [k \in DOMAIN cache \ {q} |-> cache[k]]
    /\ UNCHANGED <<now, offset, serverVars, viewVars, seen, clicks>>

-----------------------------------------------------------------------------
\* A click: what it does was set up by the last render; then it renders.
Click ==
    /\ clicks < MaxClicks
    /\ clicks' = clicks + 1
    /\ seen' = Today
    /\ UNCHANGED <<now, offset, serverVars, cache>>

\* DayView mounts on the day it is handed, else on today.  Its effect takes the
\* hand-off (dayViewJumpDate) back at once, so a later mount is not handed it.
MountDay(initialDate) ==
    /\ page' = "today"
    /\ selected' = IF initialDate = NoDay THEN Today ELSE initialDate

Unmounted(p) ==
    /\ page' = p
    /\ selected' = NoDay

PrevDay ==
    /\ page = "today" /\ canGoPrev
    /\ selected' = shiftLocalDate(selected, -1)
    /\ UNCHANGED <<page, metric>>
    /\ Click

NextDay ==
    /\ page = "today" /\ canGoNext
    /\ selected' = shiftLocalDate(selected, 1)
    /\ UNCHANGED <<page, metric>>
    /\ Click

JumpToToday ==
    /\ page = "today" /\ selected # seen
    /\ selected' = seen
    /\ UNCHANGED <<page, metric>>
    /\ Click

\* A tab of RangeTabs.
SelectRange(range) ==
    /\ page \in Ranges \ {range}
    /\ IF range = "today" THEN MountDay(NoDay) ELSE Unmounted(range)
    /\ UNCHANGED metric
    /\ Click

\* A bar of WeekChart or MonthChart.
SelectDay(d) ==
    /\ page \in {"week", "month"}
    /\ \E i \in DOMAIN ChartDays : ChartDays[i].date = d
    /\ MountDay(d)
    /\ UNCHANGED metric
    /\ Click

\* Tabs of the Dashboard.
OpenTab(p) ==
    /\ p \in {"history", "profile"} \ {page}
    /\ Unmounted(p)
    /\ metric' = "keys"
    /\ Click

OpenToday ==
    /\ page \in {"history", "profile"}
    /\ MountDay(NoDay)
    /\ UNCHANGED metric
    /\ Click

SetMetric(m) ==
    /\ page = "history" /\ metric # m
    /\ metric' = m
    /\ UNCHANGED <<page, selected>>
    /\ Click

-----------------------------------------------------------------------------
\* An agent's row arrives; the backend keeps the first row of a minute and app.
Post(row) ==
    LET minute == <<now - row.late, row.app>>
    IN  /\ Cardinality(DOMAIN rows \ DOMAIN Past) < MaxPosts
        /\ minute \notin DOMAIN rows
        /\ rows' = With(rows, minute, row.counts)
        /\ streak' = IF HasActivity(row.counts)
                     THEN UpdatedStreak(streak, toLocalISODate(minute[1], offset))
                     ELSE streak
        /\ UNCHANGED <<now, offset, viewVars, seen, cache, clicks>>

Tick ==
    /\ now < Start + MaxHours
    /\ now' = now + 1
    /\ UNCHANGED <<offset, serverVars, viewVars, seen, cache, clicks>>

Instants  == 0..(Start + MaxHours)
Dates     == (Start \div HoursPerDay - Window - MaxClicks)..((Start + MaxHours) \div HoursPerDay + 1)
QueryKeys ==
    {HistoryKey} \cup {StatsKey(r) : r \in Ranges}
        \cup {BucketsKey(d) : d \in Dates} \cup {AppsKey(d) : d \in Dates}

User ==
    \/ PrevDay \/ NextDay \/ JumpToToday \/ OpenToday
    \/ \E range \in Ranges : SelectRange(range)
    \/ \E p \in Pages : OpenTab(p)
    \/ \E i \in DOMAIN ChartDays : SelectDay(ChartDays[i].date)
    \/ \E m \in Metrics : SetMetric(m)

DayPageNext ==
    \/ \E q \in Observed : Refetch(q)
    \/ \E q \in DOMAIN cache : Evict(q)
    \/ User
    \/ \E row \in Deliveries : Post(row)
    \/ Tick

DayPageSpec == DayPageInit /\ [][DayPageNext]_dayPageVars

\* Mounted queries load, and refetch on their interval; the backend answers
\* them again and again.
FairSpec ==
    DayPageSpec /\ \A endpoint \in {"history", "stats", "day-buckets", "day-apps"} : WF_dayPageVars(Due(endpoint))

-----------------------------------------------------------------------------
StatOf(d) == [date : {d}, keys : Nat, clicks : Nat, minutes : Nat]

\* Types; and the page shows a day if and only if its Today tab is open, never
\* one after the day its last render took for today.
DayPageTypeOK ==
    /\ now \in Instants /\ offset \in Zones
    /\ rows \in [DOMAIN rows -> [keys : Nat, clicks : Nat]]
    /\ DOMAIN rows \subseteq Instants \X Apps
    /\ streak \in StreakRow(ActiveDays)
    /\ page \in Pages /\ metric \in Metrics
    /\ selected \in Dates \cup {NoDay} /\ (selected = NoDay <=> page # "today")
    /\ seen \in Dates /\ seen <= Today
    /\ page = "today" => selected <= seen
    /\ DOMAIN cache \subseteq QueryKeys
    /\ \A d \in (IF Loaded(HistoryKey) THEN DOMAIN cache[HistoryKey] ELSE {}) :
          cache[HistoryKey][d] \in StatOf(d)
    /\ clicks \in 0..MaxClicks

\* What is on the page of a query is what the backend has now.
Fresh(q) == Loaded(q) /\ cache[q] = Answer(q) /\ seen = Today

Total(f, m) == SumOver([i \in DOMAIN f |-> f[i][m]])

\* DayView's three sections come from three endpoints: a tile is the sum of the
\* hours under it and of the apps below it, and "No activity" is said of exactly
\* the days whose hours are empty, among them every day without an app in its
\* list.  (history.go cuts its window in UTC: where UTC is a day ahead, the oldest
\* day of the window has no tile of its own.)
DayAddsUp ==
    (/\ page = "today"
     /\ Fresh(HistoryKey) /\ Fresh(BucketsKey(selected)) /\ Fresh(AppsKey(selected))
     /\ selected >= UtcDate - (Window - 1))
    => \A tile \in DayShown.tiles.day, bars \in DayShown.timeline, list \in DayShown.apps :
          /\ tile.keys   = Total(hourly, "keys")
          /\ tile.clicks = Total(hourly, "clicks")
          /\ tile.keys   = Total(list, "keys")
          /\ \A h \in DOMAIN bars : bars[h].height > 3 <=> hourly[h].keys > 0
          /\ DayShown.tiles.quiet <=> Total(hourly, "keys") = 0 /\ Total(hourly, "clicks") = 0
          /\ list = <<>> => DayShown.tiles.quiet

\* "the chart's bars visually add up to the number in the stat tile above them"
\* (TodayView.tsx:77-78): so they do while the viewer's date is the UTC date.
WeekAddsUp ==
    (/\ page = "week" /\ UtcDate = Today
     /\ Fresh(HistoryKey) /\ Fresh(StatsKey("week")))
    => \A tile \in RangeShown.tiles, m \in Metrics :
          tile[m] = Total(ChartDays, m)

\* The average a day is compared with is over the active days among the seven
\* before it, as the backend's own averages are.
TrailingAddsUp ==
    (page = "today" /\ Fresh(HistoryKey) /\ day # {})
    => LET active == {d \in RollupDays : /\ d < selected /\ d >= selected - WeekDays
                                         /\ d > seen - Window /\ d > UtcDate - Window
                                         /\ ~Quiet(Rollup(d))}
           total  == SumOn([d \in active |-> Rollup(d).keys], active)
       IN  trailingWeekAvg = IF active = {} THEN 0 ELSE Rounded(total, Cardinality(active))

\* The Profile tab's calendar has no more than its tiles account for, and its
\* streaks, kept in a row of their own, are not longer than its active days.
ProfileAddsUp ==
    (page = "profile" /\ Fresh(HistoryKey) /\ Fresh(StatsKey("all")))
    => \A tile \in ProfileShown.tiles :
          /\ \A m \in Metrics : Total(Filled, m) <= tile[m]
          /\ Cardinality({i \in DOMAIN Filled : ~Quiet(Filled[i])}) <= tile.days
          /\ tile.current <= tile.longest /\ tile.longest <= tile.days

\* Numbers of one page that come from different queries agree whenever each of
\* them is up to date.
PageAddsUp == DayAddsUp /\ WeekAddsUp /\ TrailingAddsUp /\ ProfileAddsUp

\* The calendar has one cell for each day of the window, in the row of its
\* weekday and with its number; a busier day is never lighter than a quieter
\* one, a day without activity is the only one without colour, and the busiest
\* has the darkest.
CalendarAgrees ==
    LET calendar == HistoryShown.calendar
        cells    == {c \in (1..Window) \X (1..DaysPerWeek) :
                        c[1] \in DOMAIN calendar /\ c[2] \in DOMAIN calendar[c[1]]}
        at(c)    == calendar[c[1]][c[2]]
        most     == Max({at(c).value : c \in cells} \cup {0})
    IN  (page = "history" /\ Loaded(HistoryKey))
        => /\ \A i \in DOMAIN Filled :
                LET here == {c \in cells : at(c).date = Filled[i].date}
                IN  /\ Cardinality(here) = 1
                    /\ \A c \in here : /\ at(c).value = Filled[i][metric]
                                       /\ c[2] = getDay(Filled[i].date) + 1
           /\ \A c \in cells : /\ at(c).date <= seen
                               /\ at(c).step = 0 <=> at(c).value = 0
                               /\ at(c).value = most /\ most > 0 => at(c).step = 5
           /\ \A b, c \in cells : at(b).value < at(c).value => at(b).step <= at(c).step

\* A viewer who stays on the Today tab's today ends up with the tiles, the
\* timeline, the streak and the app list the backend has, whatever was posted,
\* browsed and thrown out of the cache before.
TodayCatchesUp ==
    <>[](page = "today" /\ selected = seen)
    => <>[](\A q \in {HistoryKey, StatsKey("today"), BucketsKey(Today), AppsKey(Today)} : Fresh(q))
=============================================================================
