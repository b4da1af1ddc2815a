-------------------------------- MODULE KeysPage --------------------------------
(***************************************************************************)
(* The Keys tab: the page (KeysView) asks the KeyCount app on the same     *)
(* computer (keys_server.rs) for per-key counts, with the access code the  *)
(* browser keeps in localStorage, which another tab may change.  A         *)
(* computer may have more than one such program, each with its own code    *)
(* and counts, but only one of them can hold the port.                     *)
(*                                                                         *)
(* Requests are sent and answered in separate steps, and the page goes on  *)
(* meanwhile.  What the page caches stays cached for as long as this       *)
(* module runs.                                                            *)
(***************************************************************************)
EXTENDS Days, RefreshStatus, Ranking, Sums, SequencesExt

CONSTANTS
    Codes,           \* the programs, by their access codes
    WrongCodes,      \* what else may be pasted
    Keys, Apps,
    Layout,          \* the keys of the drawn keyboard, ROWS
    TopKeys,         \* how many keys the page asks for, 100
    None,
    today,           \* todayIso; the tab does not stay open past midnight here
    Pressed,         \* the counts the programs have stored at the start
    MaxClicks,       \* bound: clicks on the page
    MaxAnswers,      \* bound: answered requests
    MaxPresses,      \* bound: key presses stored
    MaxOther         \* bound: programs started or stopped, codes changed elsewhere, reads
                     \* of a program's store that fail

ASSUME KeysPageAssumption ==
    /\ Layout \subseteq Keys /\ TopKeys \in Nat \ {0} /\ today \in Nat
    /\ None \notin Codes \cup WrongCodes \cup Apps
    /\ IsFiniteSet(DOMAIN Pressed) /\ DOMAIN Pressed \subseteq Codes \X Keys \X Apps \X Int
    /\ \A r \in DOMAIN Pressed : Pressed[r] \in Nat \ {0}
    /\ MaxClicks \in Nat /\ MaxAnswers \in Nat /\ MaxPresses \in Nat /\ MaxOther \in Nat

VARIABLES
    running,       \* the program that holds the port, or None
    counts,        \* key_counts: <<code, key, app, date>> -> presses, of all programs
    saved,         \* the code in localStorage, or None
    token, viewMode, appFilter, selectedDate,   \* the page's state
    cache,         \* query -> [data, at, error]: its last good answer and its last error
    fetching,      \* query -> the code its request in flight carries
    status,        \* its RefreshStatus
    answers, clicks, presses, others,           \* count to their bounds
    checks,        \* clicks on "Check for updates"
    notices,       \* times that "No new sync yet" came on
    filterOf,      \* the code of the program whose list appFilter was picked from
    unlisted,      \* <<code, app>>: filters that a Connect took along to another program, or
                   \* whose list of apps the program could not read
    moved          \* another tab has changed the code in localStorage

agentVars  == <<running, counts>>
viewVars   == <<token, viewMode, appFilter, selectedDate>>
statusVars == <<status, notices>>
vars == <<agentVars, saved, viewVars, cache, fetching, statusVars,
          answers, clicks, presses, others, checks, filterOf, unlisted, moved>>

Modes == {"list", "keyboard", "apps"}
Dates == (today - MaxClicks)..today
Tokens == Codes \cup WrongCodes

\* f with a value for key, new or in place of the old one.
With(f, key, value) == [k \in DOMAIN f \cup {key} |-> IF k = key THEN value ELSE f[k]]

-----------------------------------------------------------------------------
\* The program's side.  Rows of program c, narrowed to an app and a day unless
\* these are None.
Rows(c, app, date) ==
    {r \in DOMAIN counts : /\ r[1] = c
                           /\ app = None \/ r[3] = app
                           /\ date = None \/ r[4] = date}

TotalOf(rows) == SumOn(counts, rows)

\* Names with their totals, largest first.
Ranked(names, total(_)) ==
    LET order == Ranking([n \in names |-> total(n)])
    IN  [i \in DOMAIN order |-> [name |-> order[i], keys |-> total(order[i])]]

top_keys(c, n, app, date) ==
    LET rows == Rows(c, app, date)
        all  == Ranked({r[2] : r \in rows}, LAMBDA k : TotalOf({r \in rows : r[2] = k}))
    IN  SubSeq(all, 1, Min({n, Len(all)}))

app_totals(c, date) ==
    LET rows == Rows(c, None, date)
    IN  Ranked({r[3] : r \in rows}, LAMBDA a : TotalOf({r \in rows : r[3] = a}))

known_apps(c, date) ==
    LET totals == app_totals(c, None) IN [i \in DOMAIN totals |-> totals[i].name]

-----------------------------------------------------------------------------
\* Fault: a query is not keyed on the day.
keysKey_NoDate(t, app, date) == [kind |-> "local-keys", token |-> t, app |-> app, date |-> None]

keysKey(t, app, date) == [kind |-> "local-keys", token |-> t, app |-> app, date |-> date]
appsKey(t, date)      == [kind |-> "local-apps", token |-> t, app |-> None, date |-> date]

QueryOf(t, mode, app, date) ==
    IF mode = "apps" THEN appsKey(t, date) ELSE keysKey(t, app, date)

activeQuery == QueryOf(token, viewMode, appFilter, selectedDate)

\* The 200 that the request for the page's filters gets from program c.
Body(c, mode, app, date) ==
    IF mode = "apps"
    THEN [apps |-> <<>>, items |-> app_totals(c, date)]
    ELSE [apps |-> known_apps(c, date), items |-> top_keys(c, TopKeys, app, date)]

NoEntry == [data |-> [apps |-> <<>>, items |-> <<>>], at |-> 0, error |-> None]
EntryIn(c, q) == IF q \in DOMAIN c THEN c[q] ELSE NoEntry
Entry == EntryIn(cache, activeQuery)

-----------------------------------------------------------------------------
\* What the page shows once it has a code.
KeysBarList(items) == AppsBreakdown(items)

\* Each key of the drawn keyboard: its count, 0 when it is not listed, and its
\* shade against the most pressed of the listed keys.
KeyboardHeatmap(items) ==
    LET max == Largest({items[i].keys : i \in DOMAIN items})
        countOf(k) == LET here == {i \in DOMAIN items : items[i].name = k}
                      IN  SumOn([i \in DOMAIN items |-> items[i].keys], here)
    IN  [k \in Layout |-> [count |-> countOf(k), step |-> stepFor(countOf(k), max)]]

dayLabel == IF selectedDate = None THEN "All time" ELSE formatDayLabel(selectedDate, today)

\* The options of the app filter; it is there only for two apps or more.
picker ==
    IF viewMode # "apps" /\ Len(Entry.data.apps) > 1 THEN ToSet(Entry.data.apps) ELSE {}

LocalApiErrorNotice(error) ==
    CASE error = "unreachable"  -> "Couldn't reach the KeyCount app on this device"
      [] error = "unauthorized" -> "That code doesn't match this device's KeyCount app"
      [] OTHER                  -> ""

\* The device's name comes with the answer.
title == IF Entry.at = 0 THEN "this device" ELSE "the device's name"

PageShown ==
    [title    |-> title,
     day      |-> dayLabel,
     apps     |-> picker,
     status   |-> label(status, activeQuery \in DOMAIN fetching),
     error    |-> LocalApiErrorNotice(Entry.error),
     empty    |-> Entry.at # 0 /\ Entry.data.items = <<>>,
     bars     |-> IF viewMode # "keyboard" THEN KeysBarList(Entry.data.items) ELSE <<>>,
     keyboard |-> IF viewMode = "keyboard" /\ Entry.data.items # <<>>
                  THEN KeyboardHeatmap(Entry.data.items) ELSE <<>>]

-----------------------------------------------------------------------------
Init ==
    /\ running \in Codes
    /\ counts = Pressed
    /\ saved \in Codes \cup {None}
    /\ token = saved
    /\ viewMode = "list" /\ appFilter = None /\ selectedDate = None
    /\ cache = [q \in {} |-> NoEntry]
    /\ fetching = [q \in {} |-> None]
    /\ status = Mounted
    /\ answers = 0 /\ clicks = 0 /\ presses = 0 /\ others = 0
    /\ checks = 0 /\ notices = 0
    /\ filterOf = None
    /\ unlisted = {}
    /\ moved = FALSE

\* The readout after a step.
Readout(s) ==
    /\ status' = s
    /\ notices' = IF s.notice /\ ~status.notice THEN notices + 1 ELSE notices

\* Its effect runs if what is now on the page was fetched at another time.
Rendered(entry) ==
    Readout(IF entry.at = Entry.at THEN status ELSE Settled(status, entry.data, entry.at))

Send ==
    /\ token # None
    /\ activeQuery \notin DOMAIN fetching
    /\ answers + Cardinality(DOMAIN fetching) < MaxAnswers
    /\ fetching' = With(fetching, activeQuery, saved)
    /\ cache' = IF Entry.at = 0 THEN [q \in DOMAIN cache \ {activeQuery} |-> cache[q]] ELSE cache

\* A fetch nobody clicked for: a new query, or the window got the focus.
Fetch ==
    /\ Send
    /\ UNCHANGED <<agentVars, saved, viewVars, statusVars, answers, clicks, presses,
                   others, checks, filterOf, unlisted, moved>>

\* "Check for updates"; the button is disabled while a fetch is under way.
CheckForUpdates ==
    /\ clicks < MaxClicks
    /\ Send
    /\ Readout(handleClick(status))
    /\ clicks' = clicks + 1
    /\ checks' = checks + 1
    /\ UNCHANGED <<agentVars, saved, viewVars, answers, presses, others, filterOf, unlisted,
                   moved>>

\* A read of the store that fails leaves its list empty: unwrap_or_default.
Read(body, lost) == [part \in DOMAIN body |-> IF part \in lost THEN <<>> ELSE body[part]]

\* localGet's outcome; without a new answer the old one stays.  (No program
\* answers what would be its error "other".)
Outcome(q, code, lost) ==
    LET old == EntryIn(cache, q)
        mode == IF q.kind = "local-apps" THEN "apps" ELSE "list"
    IN  IF code = None THEN [old EXCEPT !.error = "unauthorized"]
        ELSE IF running = None THEN [old EXCEPT !.error = "unreachable"]
        ELSE IF code # running THEN [old EXCEPT !.error = "unauthorized"]
        ELSE [data  |-> Read(Body(running, mode, q.app, q.date), lost),
              at    |-> answers + 1,
              error |-> None]

\* The request is answered; the reads in lost fail.
Answer(q, lost) ==
    /\ q \in DOMAIN fetching
    /\ lost # {} => others < MaxOther /\ fetching[q] = running /\ running # None
    /\ LET entry == Outcome(q, fetching[q], lost)
       IN  /\ cache' = With(cache, q, entry)
           /\ IF token # None /\ q = activeQuery THEN Rendered(entry) ELSE UNCHANGED statusVars
    /\ fetching' = [k \in DOMAIN fetching \ {q} |-> fetching[k]]
    /\ answers' = answers + 1
    /\ others' = IF lost = {} THEN others ELSE others + 1
    /\ unlisted' = IF "apps" \in lost /\ q.app # None THEN unlisted \cup {<<q.token, q.app>>}
                   ELSE unlisted
    /\ UNCHANGED <<agentVars, saved, viewVars, clicks, presses, checks, filterOf, moved>>

NoticeTimer ==
    /\ status.notice
    /\ Readout(NoticeOver(status))
    /\ UNCHANGED <<agentVars, saved, viewVars, cache, fetching, answers, clicks, presses,
                   others, checks, filterOf, unlisted, moved>>

-----------------------------------------------------------------------------
\* A click on the page's controls, which stay what they are from one render to
\* the next; the query changes with them.
Click ==
    /\ token # None
    /\ clicks < MaxClicks
    /\ clicks' = clicks + 1
    /\ Rendered(EntryIn(cache, QueryOf(token, viewMode', appFilter', selectedDate')))
    /\ UNCHANGED <<agentVars, saved, token, cache, fetching, answers, presses, others, checks,
                   unlisted, moved>>

SelectMode(mode) ==
    /\ mode # viewMode
    /\ viewMode' = mode
    /\ UNCHANGED <<appFilter, selectedDate, filterOf>>
    /\ Click

\* From "All time" the first step back is today.
PrevDay ==
    /\ selectedDate' = IF selectedDate = None THEN today ELSE shiftLocalDate(selectedDate, -1)
    /\ UNCHANGED <<viewMode, appFilter, filterOf>>
    /\ Click

\* Fault: the day after today can be chosen.
NextDay_Tomorrow ==
    /\ selectedDate # None /\ selectedDate <= today
    /\ selectedDate' = shiftLocalDate(selectedDate, 1)
    /\ UNCHANGED <<viewMode, appFilter, filterOf>>
    /\ Click

NextDay ==
    /\ selectedDate # None /\ selectedDate < today
    /\ selectedDate' = shiftLocalDate(selectedDate, 1)
    /\ UNCHANGED <<viewMode, appFilter, filterOf>>
    /\ Click

AllTime ==
    /\ selectedDate # None
    /\ selectedDate' = None
    /\ UNCHANGED <<viewMode, appFilter, filterOf>>
    /\ Click

SelectApp(app) ==
    /\ app \in picker \cup {None} /\ picker # {}
    /\ app # appFilter
    /\ appFilter' = app
    /\ filterOf' = token
    /\ UNCHANGED <<viewMode, selectedDate>>
    /\ Click

\* handleConnect: the page mounts its readout on what is cached for the code.
Connect(code) ==
    /\ token = None
    /\ clicks < MaxClicks
    /\ saved' = code
    /\ token' = code
    /\ LET entry == EntryIn(cache, QueryOf(code, viewMode, appFilter, selectedDate))
       IN  Readout(Settled(Mounted, entry.data, entry.at))
    /\ unlisted' = IF appFilter # None /\ filterOf # code THEN unlisted \cup {<<code, appFilter>>}
                  ELSE unlisted
    /\ clicks' = clicks + 1
    /\ UNCHANGED <<agentVars, viewMode, appFilter, selectedDate, cache, fetching, answers,
                   presses, others, checks, filterOf, moved>>

\* handleForget: the filters stay what they were.
Forget ==
    /\ token # None
    /\ clicks < MaxClicks
    /\ saved' = None
    /\ token' = None
    /\ Readout(Mounted)
    /\ clicks' = clicks + 1
    /\ UNCHANGED <<agentVars, viewMode, appFilter, selectedDate, cache, fetching, answers,
                   presses, others, checks, filterOf, unlisted, moved>>

\* The user leaves the Keys tab and comes back to it.
Reopen ==
    /\ clicks < MaxClicks
    /\ token' = saved
    /\ viewMode' = "list" /\ appFilter' = None /\ selectedDate' = None
    /\ LET entry == EntryIn(cache, keysKey(saved, None, None))
       IN  Readout(IF saved = None THEN Mounted ELSE Settled(Mounted, entry.data, entry.at))
    /\ clicks' = clicks + 1
    /\ UNCHANGED <<agentVars, saved, cache, fetching, answers, presses, others, checks,
                   filterOf, unlisted, moved>>

-----------------------------------------------------------------------------
\* The running program stores presses of today.
Press(key, app) ==
    /\ running # None
    /\ presses < MaxPresses
    /\ LET row == <<running, key, app, today>>
       IN  counts' = With(counts, row, IF row \in DOMAIN counts THEN counts[row] + 1 ELSE 1)
    /\ presses' = presses + 1
    /\ UNCHANGED <<running, saved, viewVars, cache, fetching, statusVars, answers, clicks,
                   others, checks, filterOf, unlisted, moved>>

\* A program quits, or one starts on the free port (a second one is refused it).
ProgramRuns(code) ==
    /\ running = None \/ code = None
    /\ code # running
    /\ running' = code
    /\ UNCHANGED <<saved, moved>>

\* Another tab of the dashboard connects or forgets.
OtherTab(code) ==
    /\ code # saved
    /\ saved' = code
    /\ moved' = TRUE
    /\ UNCHANGED running

Elsewhere ==
    /\ others < MaxOther
    /\ others' = others + 1
    /\ \E code \in Codes \cup {None} : ProgramRuns(code) \/ OtherTab(code)
    /\ UNCHANGED <<counts, viewVars, cache, fetching, statusVars, answers, clicks, presses,
                   checks, filterOf, unlisted>>

User ==
    \/ CheckForUpdates \/ PrevDay \/ NextDay \/ AllTime \/ Forget \/ Reopen
    \/ \E mode \in Modes : SelectMode(mode)
    \/ \E app \in Apps \cup {None} : SelectApp(app)
    \/ \E code \in Tokens : Connect(code)

Next ==
    \/ Fetch
    \/ \E q \in DOMAIN fetching, lost \in SUBSET {"apps", "items"} : Answer(q, lost)
    \/ NoticeTimer
    \/ User
    \/ \E key \in Keys, app \in Apps : Press(key, app)
    \/ Elsewhere

Spec == Init /\ [][Next]_vars

-----------------------------------------------------------------------------
\* A ranked list as an answer carries it.
Listed == Seq([name : Keys \cup Apps, keys : Nat])

\* Types.  The page has a query in flight only under a code it was given, and no
\* filter that was not on a list.
TypeOK ==
    /\ running \in Codes \cup {None}
    /\ DOMAIN counts \subseteq Codes \X Keys \X Apps \X Int
    /\ \A r \in DOMAIN counts : counts[r] \in Nat \ {0}
    /\ saved \in Tokens \cup {None} /\ token \in Tokens \cup {None}
    /\ viewMode \in Modes /\ appFilter \in Apps \cup {None}
    /\ selectedDate \in Dates \cup {None}
    /\ \A q \in DOMAIN cache :
          /\ q.kind \in {"local-keys", "local-apps"} /\ q.token \in Tokens
          /\ cache[q].data.apps \in Seq(Apps) /\ cache[q].data.items \in Listed
          /\ cache[q].at \in 0..answers
          /\ cache[q].error \in {None, "unreachable", "unauthorized"}
    /\ \A q \in DOMAIN fetching : q.token \in Tokens /\ fetching[q] \in Tokens \cup {None}
    /\ status.synced \in 0..answers /\ status.notice \in BOOLEAN /\ status.pending \in BOOLEAN
    /\ status.synced = 0 <=> status.prev = {}
    /\ appFilter # None => filterOf # None

\* While only this tab uses the code in localStorage: the numbers on the page
\* are those of the program whose code the page has, for the app and the day it
\* is set to, though perhaps not the latest (counts only grow); they are never
\* an answer to what the page was set to before, nor to another code
\* (KeysView.tsx:65-72).
ShownIsAsked ==
    (token # None /\ ~moved)
    => LET rows == Rows(token, IF viewMode = "apps" THEN None ELSE appFilter, selectedDate)
           part(name) == {r \in rows : name = IF viewMode = "apps" THEN r[3] ELSE r[2]}
       IN  \A i \in DOMAIN Entry.data.items :
              Entry.data.items[i].keys <= TotalOf(part(Entry.data.items[i].name))

\* A filter that was picked can be seen and taken off again: the list it was
\* picked from is still offered, with it, whatever day is chosen since
\* (localApi.ts:29-32).  A filter that a Connect took along is excepted, or whose
\* list could not be read, and so is the same app picked later, for what is cached
\* may be from then.
FilterListed ==
    (token # None /\ ~moved /\ appFilter # None /\ <<token, appFilter>> \notin unlisted
        /\ viewMode # "apps" /\ Entry.at # 0)
    => appFilter \in picker

\* The drawn keyboard misses no key: with an up-to-date answer that the limit
\* has not cut, a key of the layout has colour if and only if it was pressed.
KeyboardComplete ==
    LET rows == Rows(token, appFilter, selectedDate)
    IN  (/\ token # None /\ viewMode = "keyboard" /\ Entry.at # 0
         /\ Entry.data.items = top_keys(token, TopKeys, appFilter, selectedDate)
         /\ Cardinality({r[2] : r \in rows}) <= TopKeys)
        => \A k \in Layout :
              KeyboardHeatmap(Entry.data.items)[k].step > 0 <=> \E r \in rows : r[2] = k

\* The page tells the truth about what it was asked to show.
PageTrue == ShownIsAsked /\ FilterListed /\ KeyboardComplete

\* "No new sync yet" is said at most once for each click on "Check for updates"
\* ("Only a click the person actually made gets called out", RefreshStatus.tsx:36-41).
\* (A click whose fetch fails may get its answer from a later silent fetch.)
NoticesAsked == notices <= checks
=============================================================================
