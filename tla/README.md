# KeyCount in TLA+

KeyCount counts keystrokes and clicks on a user's computers, per minute and per
application, and shows the totals on a web dashboard. This directory is a
specification of the parts of it where counts, sessions and tokens can go wrong:
the agents that count and deliver, the backend that adds up, and the dashboard
with its sessions, its caches and what it computes from what it is sent. Paths below are relative to the root of the repository.

- `tlc -config AgentSync.cfg MCAgentSync.tla` checks a run (the table below
  names module and configuration of each);
- `tlapm AgentSync_proofs.tla` checks the proofs of a module.

`PROJECT.json` maps every definition to the source lines it stands for, and lists
the runs, the faults each property was tried against, the hazards and the theorems.

## 1. The system

### Desktop agent (Rust, `tauri/src-tauri/src`)

| Part | State | Operations | Talks to |
|---|---|---|---|
| Input hooks, foreground watcher (`hooks/`, `appdetect.rs`) | name of the app in focus | a callback per key, click, move | Tracker |
| Tracker (`tracker.rs`) | counts since the last flush per app, the minute they belong to, the session fields, behind one mutex | `on_key`, `on_click`, `on_move`, `tick` each second, `today`, `shutdown` | Store |
| Store (`store.rs`) | SQLite: `events_buffer`, `key_counts`, `sessions`, `settings` | one statement or transaction per method, one mutex | - |
| Sync (`sync.rs`, `lib.rs`) | device token, and where each pass is | `register_device`, `sync_once`, `sign_out`; called by a periodic thread, by a button, and after a sign-in | Store, backend |
| Local keys server (`keys_server.rs`) | access code | read-only HTTP for the dashboard's keys page | Store |
| Window and tray (`lib.rs`, `index.html`) | last sync, last error | show numbers, sign in and out, quit | all of these |

Hard: four threads share the tracker while no lock is held during a store call;
several sync passes work on the same rows with no lock between them; every
request can be lost, time out, or be handled after its client gave up; the process
can die anywhere and starts again from SQLite; signing in again is a new device.

It is correct if every input that was counted gets to disk once, in the minute
and app it belongs to; if every row gets to the backend once; if a row is marked
synced only when the backend has it; and if sessions cover the inputs.

### Python agent (`agent.py`)

| Part | State | Operations |
|---|---|---|
| `Agent` | counts since the last flush, the bucket, the session fields; `bucket_lock` over some of it | `on_press`, `on_click`, `on_move` in two listener threads; `run`, a loop that ends sessions, flushes and delivers by turns |
| `Store` | the same SQLite tables | one statement or transaction per method, one lock |
| `AgentGUI` | a label per number | `_refresh` each second, close, sign in, sync now, on a thread of its own |

Hard: a flush holds the lock during its store calls, but `check_idle` and the
window take none; an insert that fails leaves the counts in memory after some rows
have been written; the network is waited for in the loop itself, and what raises
there ends it; the window waits for the loop five seconds and then ends the process.

It makes the same promises, over the same tables, with other means.

### Backend (Go, `backend/`), PostgreSQL

| Part | State | Operations |
|---|---|---|
| Ingest (`ingest.go`) | `activity_buckets`, `daily_rollups` | one transaction per batch: dedup, insert, roll up, streak |
| Streaks (`streaks.go`) | `streaks` | `updateStreak` within that transaction |
| Rate limiter (`ratelimit.go`) | a token bucket per device, in memory | `allow` |
| Devices (`devices.go`) | `devices` | register, authenticate, list |
| Accounts (`auth.go`) | `users`, `refresh_tokens` | sign-up, login, refresh with rotation |
| Friends (`friends.go`) | `friendships` | send, accept, decline, remove, list |
| Leaderboards, settings, stats, history, day views | - | single queries over the above |

Hard: transactions run on READ COMMITTED and some read first, without a lock, and
write what they computed later; batches are retried; days come in late.

It is correct if totals equal the sum of the stored rows, if a day's active
minutes are its minutes, if streaks are runs of active days, if nobody exceeds
the rate limit and nobody at the normal pace is refused, if a login has one live
refresh token, and if a pair of users has one friendship.

### Dashboard (React, `web/`)

| Part | State | Operations | Talks to |
|---|---|---|---|
| Session (`api.ts`) | a pair of tokens in localStorage, shared by all tabs; one refresh promise per tab | `request`, `refreshAccessToken`, sign-in, sign-out | backend |
| Query cache (TanStack Query, set up in `main.tsx`) | per key what was last fetched, and whether it is out of date | fetch when shown and stale, poll, invalidate, throw away | all pages |
| Today, History, Profile (`TodayView`, `DayView`, `HistoryView`, `MyProfileView`) | tab, day, metric | click through days and ranges | stats, history, day endpoints |
| Keys (`KeysView`, `localApi.ts`, `RefreshStatus`) | access code, mode, app, day | connect, forget, filter, check for updates | the agent's local server |
| Friends, Leaderboards, Settings, public profiles | tab, scope | ask, accept, decline, remove, switch | friends, leaderboard, settings endpoints |
| Date helpers (`utils.ts`) and charts | - | pure: windows, hours, shares, calendars | - |

Hard: several queries of different age are on one page; days are cut on three
clocks (the viewer's, the device's, UTC); answers arrive after the click that
made them unwanted; the cache outlives a sign-out; a mutation and a fetch of what
it changes cross, and the backend reads a list in three statements.

It is correct if a page shows what it was asked to show and for whom, if numbers
that mean the same agree once they are up to date, if what was done on a page is
seen there, and if a page that stays open catches up.

## 2. The modules

```
Ledger <--implements-- AgentSync       <-- AgentSync_proofs   ^ MCAgentSync
Sums <-- Tracker                       <-- Tracker_proofs     ^ MCTracker
Sums <-- PyAgent                       <-- PyAgent_proofs     ^ MCPyAgent
StreakRule <-- Streaks  \
StreakRule <-- Ingest    }             <-- Ingest_proofs      ^ MCIngest
RateLimit               /
Session                \                                      ^ MCSession
Days, StreakRule, Ranking, Sums        <-- Dashboard_proofs
              <-- DayPage  /                                  ^ MCDayPage
Days, RefreshStatus, Ranking, Sums
                          <-- KeysPage <-- KeysPage_proofs    ^ MCKeysPage
Ranking <-- Friendships <--implements--
                            Social     <-- Social_proofs      ^ MCSocial
Sums, Ranking, Days, StreakRule        <-- Numbers_proofs
```

(`<--` is EXTENDS; an MC module extends its module with instances and symmetry. The
proof modules other than that of `AgentSync` extend `Numbers_proofs`.)

The modules meet at their seams. `Tracker` and `PyAgent` end where a row is in
`events_buffer`; `AgentSync` begins there (`FlushRow`) and takes an ingest
request for one atomic step; `Ingest` opens that step up into SQL statements and
its property `WholeBatches` is what makes the step of `AgentSync` legitimate;
`Ingest` and `Streaks` share the operator `UpdatedStreak` of `StreakRule`, once
inside concurrent transactions and once over every order of days, and `DayPage`
reads the row it leaves; `Social` drives the steps of `Friendships`, its own
requests and those of others alike, and is proved to implement it. A definition
whose name ends in `_Something` and whose comment begins with "Fault:" is a
deliberately wrong variant of the one that follows it; it belongs to no
specification and shows that the property named with it in `PROJECT.json` can fail.

### AgentSync: from SQLite to the totals

`buffer` is `events_buffer` (the index is the row id), `bucket`/`written` the
minute being flushed and the apps already written for it, `token` the setting
`device_token`, `registering` a registration whose answer is on its way, `worker`
where each thread is inside `sync_once`, `strays` requests whose client is gone.
On the backend, `issued` is `devices`, `buckets` is `activity_buckets` and
`credits` counts how often a row was added to `daily_rollups`. A row's counts are
abstracted to the row's identity.

| Action | Code |
|---|---|
| `FlushRow`, `OpenBucket` | the loop of `flush` over apps, and the next flush (`tracker.rs:188-224`) |
| `Stop`, `Start` | quit or crash, `Tracker::new` on the current minute |
| `RegisterDevice`, `StoreToken`, `RegistrationLost` | `register_device`: its backend half, its local half, and the lost answer |
| `SignOut` | `sign_out` blanks the token and stops no pass under way |
| `ReadToken`, `PostBatch`, `MarkSynced` | the steps of a pass, `sync_once` |
| `ReadFails` | a pass that cannot read its batch |
| `Handle`, `Refuse`, `TimeOut`, `AnswerLost` | the outcomes of its request |
| `HandleStray`, `DropStray` | a request nobody waits for any more |

Two facts about the code are kept as history variables because properties depend
on them: `tainted`, a sign-out happened while rows were in flight or
unacknowledged; `reopened`, a restart reopened a minute already flushed.
`Ledger` is the abstract promise: entries are recorded, counted per registration,
and settled only once counted; nothing is taken back.

### Tracker: counting

An action is what happens under the state lock at one go, or one call of the
store. `TickBegin`, `StartSession`/`EndSession`, `OpenSession`, `Due`, `FlushTick` and
`Write` are the parts of `tick` between its locks: the row of a session is written by one
and its id put into the state by another. `Quit`, `Write`, `CloseAndExit` are those of
`shutdown` on the main thread, of which the last joins its lock, its call of the store and
the exit; `ReadDisk` and `AddPending` are those of `today`, whose read of the disk counts
as zero when it fails.
`Taken` is what a flush takes out of the state; until `InsertBucket` and
`BumpKeys` are through, the counts are in `flush[t]` and nowhere else. A store
call may fail (`Answer`), at most once per behaviour. Mouse travel behaves like
clicks and backspaces like keystrokes, so they are not told apart; the app in
focus is any app at any time.

### PyAgent: the same in one loop

`pc` is where `Agent.run` is: asleep, in `check_idle` (`ending`, `ended`), in a
flush (`rows`, `keys`, `bumped`), on the network (`wire`), in its `finally` block
(`final`). `Locked` is the time a flush holds `bucket_lock`; `Touch` with `on_press`
or `on_click` is a callback, which waits for the lock. `InsertBucket` is one
`insert_bucket`, `ClearCounts` and `FlushDone` the rest of the flush. `Raise` is an
exception in the loop: of the store (`ReadFails` of what it reads for a pass or to
print), of the network (`Unanswered`: a timeout or a
broken connection is no `URLError` and passes `http_post_json`), or Ctrl+C
(`Interrupt`). `Close` and `Destroy` are the window's close button and what happens
when the five seconds are over; `ReadDisk` and `AddPending` its refresh.

History variables say what happened: `repeated`, a flush was left after it had
written something; `slow`, the clock moved during a flush; `late`, inputs after
the last flush; `raised`, `failed`. What the backend makes of the rows, and a second
pass beside the loop's (the window's "Sync now", `--sync-now`), are in `AgentSync`.

### Ingest: one batch, statement by statement

`tx[h]` is the transaction of the request h is handling. `CheckActive` is the
query for minutes that were active before, `InsertRow`/`SkipRow` the INSERT with
its conflict clause, `RollUp` the upsert of `daily_rollups`, `ReadStreak` and
`WriteStreak` the two statements of `updateStreak`, `Commit` and `Rollback` the
end. Every statement sees what is committed plus its own writes; an INSERT waits
for an uncommitted row with its key, an UPDATE for a row that is locked. A request
begins with a batch the device may have sent (`Begin`): two of one device at a time are
the shorter and the longer beginning of what it has recorded, in either order. A
failing statement, a restart and the victim of a deadlock are all `Rollback`.

### Streaks and StreakRule

`UpdatedStreak(s, day)` is `updateStreak` as an operator. `Streaks` applies it to
the days a user is active on, in any order a second device may deliver them.

### RateLimit

Tokens are counted in ticks, `Interval` to a token, where the code keeps a
float64; `Refilled`, `Admit` and `Refuse` are `allow`. `OpenWindow` starts to
watch at any moment, so that an invariant over `spent` speaks of every window.

### Session: tokens and tabs

A pair of tokens is named by its row in `refresh_tokens`. A call's `pc` follows
`request` through `refreshAccessToken` (`refresh`, `looked`, `rotated` while the
backend's transaction runs, `wait` while another call's refresh is awaited).
`Look` is the SELECT of `handleRefresh`, which locks nothing; `Rotate` its UPDATE,
INSERT and COMMIT. `Refreshed` is the answer stored by `setSession`,
`RefreshDenied` any error answer, `RefreshUnreachable` a fetch that fails,
`Reload` a tab that goes away; the backend goes on with what it was given
(`strays`). A sign-in goes through `request` too, and a form may be on the page since
before another tab signed in: `handleLogin` asks nothing of the session, and a call in
`Refused` brings a wrong password, so that its 401 starts a refresh and its retry clears
the session that other tab has. The form is not followed from render to render, so a
few sign-ins are possible here that no page offers. What is checked of a password and the
uniqueness of users are not modelled: one account.

### Days: what the dashboard computes

Operators for `utils.ts` and for what the charts draw from their data. An instant is
an hour since an epoch and a date the number of a day; `HoursPerDay` and
`DaysPerWeek` are parameters, so that TLC can use short days. `fillDays`,
`localDayBounds`, `bucketByLocalHour`, `formatShare`, `compareToBaseline`, and
`WeekChart`, `MonthChart`, `DayTimeline`, `AppsBreakdown`, `HistoryChart`, `Heatmap` are
named as in the code; a chart is the sequence of its bars or cells with height or
step, label and tooltip.

### DayPage: three tabs and their queries

`rows` is `activity_buckets` of one user, from which `Rollup` derives a day as the
device filed it, taking the device's clock to be the viewer's, with a constant distance
from UTC, and keying rows without the device, as if there were one (a row of mouse travel alone, without `HasActivity`, makes no minute
active and no day count for the streak); `Stats`, `History`, `DayBuckets` and `DayApps` are the answers of the
four endpoints. `cache` holds per query key what the last good fetch brought. A fetch
is one step (`Fetch`; `Due` when it is the page's own doing), because a query has one
request in flight at a time and its delay only delays the step. `DayShown`,
`RangeShown`, `HistoryShown`, `ProfileShown` are what the page computes: the day's
tiles, its comparison with yesterday and the week before, its hours and its apps.
The clicks are actions (`PrevDay`, `NextDay`, `JumpToToday`, `SelectRange`, `SelectDay`,
`OpenTab`, `OpenToday`, `SetMetric`); `Post` is a row that arrives, perhaps for a day
that is over, `Tick` an hour, `Evict` the cache throwing an unused entry away.

### KeysPage and RefreshStatus

The page asks a program on the same computer; `running` is who holds the port, and
each program has its own code and counts. `Fetch` sends a request and `Answer` ends it,
with everything else in between; `Body` is `route` of `keys_server.rs`, `Read` the lists
it leaves empty when the store cannot be read, `Outcome` what `localGet` makes of it. `Connect` and `Forget` change the stored code, as
another tab may (`OtherTab`). Connecting to another program keeps the picked app
(`handleConnect` resets nothing but the code), which the history variable `unlisted`
remembers, for then the list of the new program need not offer it, as it remembers a
filter whose list of apps could not be read. `RefreshStatus` is the line beside the button as a
function of its last state and the data it is given, which `KeysPage` applies
whenever the query settles.

### Friendships and Social

`Friendships` is `friends.go` by its statements: `CheckRequest` is the SELECT of
`handleSendFriendRequest` and `InsertRequest` its INSERT, with the index over the
unordered pair; the other handlers are one statement each. `Listed` is
`handleListFriends`, `Leaderboard` a board, `PublicProfile` the public page. `wants` is
a history: who has asked or accepted whom since they were last strangers.

`Social` is a browser on top of it: `route`, `tab` and `scope` say which queries are
shown (`Observed`), `fetching` and `mutating` what is under way, each in steps: sent,
served by the backend (the lists in three reads), answered. `Invalidated` is what
`invalidateQueries` does to an entry, `Toggled` the checkbox whose answer is put in the
cache. `Elsewhere` is every request of another browser.

The session is not the page's: `user` is what localStorage holds, and the routes look at
it as a page is entered (`Routed`), not while it is there. So a refused refresh or a
retry answered 401 (`FetchFails`, `MutationFails`, `SignInFails`) and another tab
(`OtherTab`) leave the dashboard up without a session or with another's; what it asks for
then is answered for whoever the token is of, and `SentAgain` and `MutationSentAgain` are
the retry of `request`, which carries the token there is by then.

Of each entry the module
remembers for whom it was fetched (`owner`) and whether it has become old by
something else than the tab's own answered mutation (`behind`); only properties read them.

## 3. What is checked

Every module has one type invariant, which also says which ids, tokens and rows
may occur where. The other properties:

| Run | Properties | What they rule out |
|---|---|---|
| `AgentSync` (MCAgentSync, 790,047 states) | `RollupsMatchBuckets` | a row sent again, by whichever pass, added to the totals twice or not at all |
| | `SyncedIsSafe` | a row marked synced that the backend does not have: its minute never (`SyncedIsCounted`), its own counts only if a restart reopened a flushed minute (`SyncedIsKept`) |
| | `CountedOnce` | a row counted under two devices, unless a sign-out met rows in flight |
| | `LedgerSpec` | any step that is not a step of the abstract ledger |
| `AgentSyncLive` (AgentSync, 13,872) | `EventuallySynced` | a row that no pass ever reaches |
| `Tracker` (MCTracker, 1,307,324) | `CountsKept` | an input doubled, ever; one lost between hook, tick, shutdown and disk, unless a store call failed or the process has ended; `key_counts` and `events_buffer` drifting apart |
| | `OneRowPerMinute` | two rows of one minute and app in one run, of which the backend would drop one |
| | `SessionsTrue` | an input in no session, sessions that overlap |
| | `TodayIsTrue` | the window showing more than was typed, or less when no flush is under way and its read of the disk does not fail |
| `PyAgent` (MCPyAgent, 1,734,471) | `CountsKept` | an input lost while the process lives, whatever fails; one doubled, or split over two rows of a minute, unless a flush was left midway or lasted into its next minute |
| | `SessionsTrue` | an input in no session, except in the moments between the end of a session's row and its flag |
| | `LastPush` | counts, an open session or undelivered rows left behind by a loop that came to its end, however it ended |
| | `TodayIsTrue` | the window's number outside of what was typed before and after it asked, unless a flush was writing |
| `Ingest` (MCIngest, 1,592,580) | `RollupsExact` | totals that differ from the stored rows, with two requests interleaved |
| | `MinutesCounted` | an active minute missed; one counted twice while no two requests of a device overlap |
| | `StreakHappened` | a streak over a day without activity, from stale reads |
| | `WholeBatches` | half a batch becoming visible |
| `Streaks` (3,318) | `StreaksTrue` | a streak that never happened (`NothingInvented`); a wrong one while days come in in order (`ExactInOrder`) |
| `RateLimit` (960,714) | `FloodIsStopped`, `NormalUsePasses` | more requests in some window than bursts and refill allow; a refusal of a device at its pace |
| `Session` (MCSession, 2,621,077) | `HoldsCurrentToken` | the browser holding a revoked token though no refresh failed or was given up |
| | `OneLiveToken` | two live tokens of one login without overlapping refreshes |
| | `SignedOutStays` | the answer to a call made before a sign-out signing the user in again (the answer to a refresh or a sign-in that was under way by then does, `api.ts:80`, and is excepted) |
| | `ExpiryIsInvisible` | calls of a tab that fail together signing the user out (two tabs that refresh at the same time may, and are excepted) |
| `DayPage` (MCDayPage, 85,596) | `PageAddsUp` | tiles, hours, apps, charts and averages of one page, from four endpoints, that disagree once each is up to date |
| | `CalendarAgrees` | a day that is missing, doubled, on the wrong weekday or in the wrong shade of the calendar |
| | `TodayCatchesUp` | a page left on today that never shows what the backend has |
| `KeysPage` (MCKeysPage, 4,083,858) | `PageTrue` | an answer shown for another day, app, mode or code than it was asked for; a filter that cannot be taken off, unless a Connect took it along or its list could not be read; a pressed key without colour |
| | `NoticesAsked` | "No new sync yet" without a click that asked |
| `Social` (MCSocial, 3,528,248) | `Consent` | two users friends, or one asking, without having said so since they were last strangers |
| | `TabsTrue` | a tab that goes on showing what its own confirmed change has made untrue (`OwnWritesSeen`), or a board of friends that disagrees with the list of friends (`BoardAgrees`) |
| `SocialSwitch` | `ShownIsYours` | violated, see below |

### Bounds

- `AgentSync`: two devices, two threads, two apps, two minutes, two rows. Two
  passes, two registrations and two rows of one minute are what the conflicts
  need; a batch holds both rows, and `AgentSyncLive` has batches of one row so
  that the limit leaves something over. What the bound on rows cuts off is covered by
  the proofs, which bound nothing.
- `Tracker`: two apps, two inputs, a clock of three instants with minute, flush
  interval and idle threshold of one. Two inputs suffice to fall on both
  sides of a flush, of an idle gap and of a shutdown. One failing store call.
- `PyAgent`: the same two apps and two inputs, a clock of three instants, batches of
  one row. Two instants are enough for a flush, an idle gap and a slow flush; the
  batch limit leaves a row behind as soon as there are two. One failing store call.
- `Ingest`: two requests; a device with a minute of three rows (two active, one
  with mouse travel alone) and a second day; another device that shares that day
  and has one after a gap.
- `Streaks`: seven days; a run, a gap and a longer run fit with room to spare.
- `RateLimit`: two devices, two tokens of two ticks, eight instants, one restart: a
  full refill takes four ticks, so every window up to nearly two refills is seen.
- `Session`: two tabs, of which one has two calls; three tokens: a login and two
  rotations, or two logins and one rotation; one refresh whose tab gave up on it;
  one refresh token that reaches its 30 days; one sign-in form at a time; the call of
  the second tab can be a sign-in with a wrong password.
- `DayPage`: days of two hours, weeks of three days, a window of four days, so that
  the window has a part of a week on either side; six rows of two apps with a day of
  only a click, a day of only mouse travel and a day of nothing; one row
  delivered an hour late, of the same day or of the day before; two clocks, one ahead of
  and one behind UTC; two clicks. Midnight passes.
- `KeysPage`: two programs and a wrong code, two keys of which the keyboard has one, a
  limit of one key, which cuts the answers for some filters and not for others, three
  clicks, three answers, one key press, one event elsewhere or failed read: enough to
  click, be answered late, click again and be answered for either.
- `Social`: two users with none, a pending or an accepted row; three moves, two fetches,
  one mutation, two steps from elsewhere, of other browsers or of other tabs. A fetch and a mutation that cross need
  one of each, and the second fetch is the one that must put it right.

Symmetry is used over interchangeable devices, apps and calls, and only in runs without
liveness. Deadlock is checked except where the bounds (rows, time) or the end of
the process stop the system: `AgentSync` and `AgentSyncLive`, `Tracker`, `PyAgent`, `KeysPage`, `Social`.

### Fairness

`AgentSyncLive` and `DayPage` assume some. `keycount-sync` sleeps and calls `sync_once`
for ever (`lib.rs:238-254`), which is weak fairness of `ReadToken(Periodic)`; the
button and sign-in passes are not assumed to run. Strong fairness of
`PostBatch(Periodic)`, `Handle(Periodic)` and `MarkSynced(Periodic)` says that the store,
the backend and the network do not fail each attempt of that thread for ever; every
attempt does end, because the HTTP client has a global timeout (`sync.rs:26`).
The property only promises something to an agent that ends up running and signed in.

`FairSpec` of `DayPage` is weak fairness of `Due` for each of the four endpoints: a query
that is shown and has no data is fetched, and one with a `refetchInterval` is fetched
again (30 s, `DayView.tsx:129-147`, `TodayView.tsx:52-57`), for as long as it is shown;
nothing is assumed of clicks, of rows or of the cache, and a fetch that fails is retried
by the same timer. `TodayCatchesUp` speaks of a viewer who ends up on today's page.

### Disagreements with the documentation

`SocialSwitch` has a counterexample for what `MyProfileView.tsx:27-28` says of the
Profile tab: `handleLogout` clears the session and keeps the query cache, whose keys do
not name the user, so that whoever signs in next in that tab is shown the name, the
friends and the boards of the account before until a fetch has replaced them.

The other disagreements met are the exceptions in properties that hold:

| Documentation | What happens | Where it is the exception |
|---|---|---|
| "anything under /app needs a valid token or it bounces to /login" (`RequireAuth.tsx:5-6`) | it asks when it renders: a session that ends or changes while the dashboard is up leaves it there | `Social` (`Routed`), whose `TypeOK` asks for a session of what was answered, not of the page |
| an expired access token is invisible (`api.ts:49-51`), calls share one refresh (`api.ts:53-58`) | so it is within a tab: two tabs spend the same refresh token, and the one that loses clears the session of both; so does one whose answer is lost | `ExpiryIsInvisible` and `HoldsCurrentToken` (`raced`, `failed`) |
| rotation invalidates the token it is given (`api.ts:55-56`) | two refreshes that overlap both find it valid, and the login has two successors | `OneLiveToken` (`raced`) |
| re-sending an ingested bucket is a no-op (`README.md:259`) | after signing out and in, the rows of an unacknowledged batch are sent under a new device and counted again | `CountedOnce` (`tainted`) |
| a row is the count for its minute (`backend/README.md:114`) | a restart within a flushed minute writes a second row for it, which the backend drops and the agent marks synced | `SyncedIsKept` (`reopened`) |
| active minutes are minutes (`backend/README.md:135`) | overlapping requests of a device with rows of one minute count it twice | `MinutesCounted` (`overlapped`) |
| best streak ever recorded (`backend/README.md:145`) | a transaction writes back the longest streak it read before another one raised it | `StreakHappened` says no more than that it happened |
| ending today or yesterday (`backend/README.md:144`) | nothing expires a current streak; a late day resets it | `StreaksTrue` (`ordered`) |
| auto-syncs every 60 seconds, safe to lose network (`README.md:256-259`) | a timeout or a connection that breaks while the answer is awaited raises through `sync_pass` and ends the Python agent's loop; in the window, whose label goes on saying "Tracking", nothing is counted any more | `LastPush` says what such an end leaves behind (`raised`) |
| one last push so nothing sits unsynced (`agent.py:1090`) | it is one batch of at most 500 rows | `LastPush` |
| at worst this skips one refresh tick (`agent.py:1209`) | a refresh during a flush shows counts twice | `TodayIsTrue` of `PyAgent` (`torn`) |
| bars add up to the tile above them (`TodayView.tsx:77-78`) | `rangeStart` cuts in UTC: on the hours when the viewer's date is another one they cover different days | `PageAddsUp` (`UtcDate = Today`) |
| only a click gets called out (`RefreshStatus.tsx:36-41`) | a click whose fetch failed stays pending, and a silent fetch later answers it | `NoticesAsked` counts clicks only |

An exception is as wide as the failure, and no wider: a hazard of `PROJECT.json` whose own
failure is excepted says so in its note. Those are the sign-out with rows in flight
(`tainted`), `shutdown` against `tick` (`OneRowPerMinute` ends where it begins), requests
of a device that overlap (`overlapped`), the longest streak written back lower, refreshes
that overlap or lose their answer (`raced`, `failed`), an answer after a sign-out,
the days of UTC (`UtcDate = Today`), and of the Python agent the input in the midst of
`check_idle` (`Leaving`), rows written twice (`repeated`, `slow`) and a refresh during a
flush (`torn`). What the properties say there is what is left: nothing lost, nothing
invented, nobody else affected.

## 4. What is proved

The theorems hold for every value of the constants that satisfies the named
assumptions: any number of devices, threads, apps, inputs, rows, users and days, any
capacity, interval and batch. They state every invariant that the passing runs check
and every action property.

**Numbers_proofs** is what the others cite about operators without state. What a
sum over a finite set (`Sums`) is, without the order in which it is added up, how it
changes with one term, how two of them compare, and that it stays the same when its
terms are renamed (`SumRenamed`) or added up in groups (`SumFibres`); that a ranking
(`Ranking`) of a finite set exists and names everything once, in order; quotients;
least elements; that `UpdatedStreak` keeps what was true of a streaks row
(`StreakRule`). Of the operators of `Days`, for any length of a day and a week:
`WindowIsTheDay` (the window of instants a page asks for is exactly its local day),
`WindowIsComplete` (`fillDays`), `SharesAreSeen` (`formatShare`), `ColoursFollowCounts`
(`stepFor`), `CalendarStartsOnSunday`. The library's induction needs an operator as a parameter,
so these facts are proved by smallest counterexample: a subset-minimal set on which the
statement fails is not empty, and without one of its elements the statement holds.

**AgentSync_proofs.** `TypeCorrect` is inductive as it stands, since `TypeOK`
says where ids and tokens come from. `TotalsCorrect` (`RollupsMatchBuckets`) is
inductive together with it: an ingest credits the rows it inserts, these have keys
the device does not have, and keys of rows never change. `NothingForgotten`
(`SyncedIsCounted`) needs `AckedIsCounted`: a pass that got its 200 has all its
keys on the backend, whose rows are never removed. `NothingLost`
(`SyncedIsKept`) and with it `SyncedRowsAreSafe` (`SyncedIsSafe`) need `FlushInv`: without a reopened minute, the rows of the
buffer have distinct keys, so that the row stored for a key is the row itself.
`NoDoubleCount` (`CountedOnce`) needs `ExposureInv`: without a tainted sign-out,
all requests, passes and stored but unsynced rows belong to one device.
`ImplementsLedger` maps each step to a step of `Ledger` or a stutter.

**Tracker_proofs.** `NothingLost` (`CountsKept`) by conservation: what was typed is the
sum of what the state holds, what flushes have in their hands and what the tables hold,
and every step moves it from one to the next. `NoSecondRow` (`OneRowPerMinute`) by
`MinutesOnce`: while the app is not quitting a flush comes a minute or more after the one
before, so the minute it takes is behind the state's and has no row yet.
`HistoryOfUse` (`SessionsTrue`) by following the one session that is open, or about to
be, through the locks of `tick`: its id is in the state, or in the hands of `tick` (`Id`). `WindowIsTrue` (`TodayIsTrue`) relates what
`today` read from disk to what the disk can hold by the time it adds what is pending.

**PyAgent_proofs.** The same promises in another order of steps. The lemma `Steps` sorts
the disjuncts of Next into those that touch the counts, those that write, those that only
move `pc`, and so on, so that each invariant looks at few of them. `NothingLost` and
`WindowIsTrue` need `CountInv` and `MinuteInv`: a flush works through a list of apps
that are all in memory until it clears them, so an exception midway leaves them there,
and a row is repeated only by a flush that was left or outlasted its minute. `HistoryOfUse`
needs `SessionInv`, which admits the moment between the end written and the flag
switched off. `SafeToInterrupt` (`LastPush`) by `LastInv`, which follows the `finally`
block: what is left in memory after its flush was typed late, after its end of the session
no session is open, and the last batch is as large as a batch may be.

**Ingest_proofs**, of `Ingest`, `Streaks` and `RateLimit`. `IngestTypeCorrect`,
`RollupsStayExact` (`RollupsExact`), `MinutesAreCounted` (`MinutesCounted`),
`StreakNeverInvented` (`StreakHappened`) and the action property `BatchesAreAtomic`
(`WholeBatches`) by `IngestInv`: what an open transaction has inserted is unseen by
others and will be added up as it is; a minute that it found without activity has none
but its own, unless another request of the device overlapped; and the streaks row it has
read is made of days that were, whatever has been committed since.
`StreaksTypeCorrect`; `StreaksHappened` (`NothingInvented`): a day
that follows the last one extends its run by that day, any other starts a run
of one; `InOrderIsExact` (`ExactInOrder`): a run that ends before the new day was
bounded before, and one that ends with it starts where the current streak does;
`StreaksAreTrue` (`StreaksTrue`) joins the two; `LongestNeverLowered` (`LongestKept`):
one transaction at a time, no day lowers the longest streak. `LimitTypeCorrect`;
`FloodBound` (`FloodIsStopped`), by `WindowInv`:
what was spent in a window, plus what is in the bucket, is bounded by
bursts and the time since it opened; `NoEarlyRefusal` (`NormalUsePasses`) by the
same invariant's other side and `WholeTokens`: tokens are spent whole.

**Dashboard_proofs**, of `Session` and `DayPage`. `TypeCorrect` needs both of its halves at once: `PairTypes`
says which pairs may be where, `PromisesMatch` that a refresh under way is the
`refreshPromise` of its tab. `SignedOutForGood` (`SignedOutStays`) by
`SignedOutInv`: signed out with nothing under way, no refresh can start, so none
can end. `OneTokenPerLogin` (`OneLiveToken`) by `SoleSpender`: until a token is
refreshed twice at a time, everybody who spends a token spends a different one and
has found it alive, so a rotation revokes the live token of its login before it
issues the next. `BrowserGoesOn` (`HoldsCurrentToken`) by `FreshPairs`: until a
refresh fails, a pair on its way to the browser is alive, new, and spent by nobody.
`ExpiryIsNeverSeen` (the action property `ExpiryIsInvisible`) by `FoundAlive`: a refresh
that found its token will be answered with a pair of the same login, and by the two
invariants before it one that is denied though nothing failed was of an expired token.

`DayPageTypeCorrect`, `PagesAddUp` (`PageAddsUp`) and `CalendarIsRight` (`CalendarAgrees`)
all follow from one invariant, `DayInv`. `DayPageTypeOK` bounds the day on the page by
`Dates`, which no step alone respects: `ViewOK` counts the clicks that may have turned
days back and says that today never falls more than a day behind the day the page was
opened on. `StreakOK` says that the streaks row is of runs of days with activity, at
the start because the fold that makes it is one `updateStreak` per day (`StreakOfIsTrue`,
by smallest counterexample); `CacheOK` that any history in the cache, however old, is of
well-formed days. What the pages show then needs no history of its own, only what the
operators compute. The numbers of a day are one sum over its rows, and so are its hours
and its apps, in other groups (`MinutesAddUp`, `AppsAddUp`, `HoursAddUp`,
`ListAddsUp`); that they are the same rows is `WindowIsTheDay`. A chart or a total is
the same sum over the days of a window, renamed from positions to dates (`WindowSum`).
A streak is not longer than there are active days because a run of n days has n
members (`StreakLength`). In the calendar the cells and the days from its first Sunday
to today correspond one to one (`CellDates`), and it has no more weeks than the window
has days (`CalendarSpan`), so that no cell is out of sight of the property.

**Social_proofs**, of `Friendships` and `Social`. `FriendshipNeedsConsent` (`Consent`) by
`FriendshipsInv`: types, a request that has been checked is one of two different users,
and `Consent` itself. `wants` records what the invariant speaks of: an INSERT adds the
wish of the one who asks, an acceptance the wish of the one who accepts, and whatever
deletes a row takes both wishes of its pair away. The check made before the INSERT is
what keeps the two users apart, so without `CheckedApart` the row just inserted could be
of one user twice. `SocialIsFriendships`: every step of the dashboard is a step of
`FriendshipsSpec` or leaves the friendships alone, so `SocialNeedsConsent` is inherited
and not proved again.

`SocialTypeCorrect` by `TabTypes`. `TabsTellTheTruth` (`TabsTrue`) is not inductive, for it
says nothing of an answer that is half read. `FriendsTrue`, `FlagTrue` and `BoardTrue` do:
what is held of a query that has not grown old equals what the backend would say
now, except for the users that a mutation under way is about, and of a request in
flight this holds for the lists already read. A change of the row of two users
changes only what is listed of the one for the other; and the scope of the board and the
list of friends are the same relation read from two sides.

**KeysPage_proofs.** `KeysTypeCorrect` by `PageTypes`.
`PageTellsTheTruth` (`PageTrue`) by `PageInv`. `PageTrue` speaks of what is on the page now;
but the next click may bring up an answer that came before, or one yet to come. So
the invariant speaks of the whole cache and of every request: what is stored under
a key is an answer to that key, from the program whose code it has, with counts that
program has or exceeds by now (`EntryTrue`, `RequestTrue`), and a filter is an app of
the program it was picked from (`FilterKnown`, `FilterOwn`). That the drawn keyboard
misses no key then follows from what rankings are, from `ColoursFollowCounts` and from
the limit on keys. `NoticesAreAskedFor` (`NoticesAsked`) by `NoticesInv`: notices shown plus
the click that is still waiting for its fetch are at most the clicks made.

Each proof module is checked from the assumptions named in the modules it is
about and nothing else: `ConstantsAssumption`, `TrackerAssumption`, `PyAgentAssumption`,
`IngestAssumption`, `MaxDayAssumption`, `RateLimitAssumption`, `SessionAssumption`,
`FriendshipsAssumption`, `SocialAssumption`, `KeysPageAssumption`, `DayPageAssumption`,
`CalendarAssumption`. They give constants their types, and say that what a program has at
the start and what is added up (apps, users, a device's recorded rows, the rows the
backend has when a page is opened) is finite, that `NoDay` is not a number, and that the
window of the history is longer than the charts, as 90 is than 7 and 30.

## 5. What is only model-checked

- `EventuallySynced` and `TodayCatchesUp`: liveness under fairness is out of the
  prover's reach.
- `ShownIsYours`, which `SocialSwitch` refutes.

## 6. What is not modelled

Components without a module: operating system hooks, app detection, window and
tray, HTTP routing and CORS, the landing, download and features pages, the release
workflow: input and output around the state that is modelled. (The preflight answer
of `main.go:136` does not list DELETE, so that a browser on another origin never sends
the call that removes a friend; one constant decides it, and no module reaches it.)

Within the modelled components:

- mouse travel and backspaces, counted by the same code as clicks and keystrokes;
- the settings other than `device_token`: a pass that runs while
  `register_device` has stored the new `backend_url` and not yet the token
  (`sync.rs:135`) would send the rows to the new server with the old token;
- `last_sync` and `last_error`, which only feed the window;
- what is checked of a password, and that emails and usernames are unique: `Session` has
  one account;
- what `shutdown` lets go of. The counts that `tick` has taken and not written
  when the process exits are lost (`lib.rs:304`); a session whose row no tick has
  written yet is missing, and one whose id a tick holds stays open; and a tick that
  flushes after the flush of `shutdown` can add a second row of the minute.
  `CountsKept`, `SessionsTrue` and `OneRowPerMinute` say up to where they hold;
- a pass under way during a sign-out stores its result in `last_sync` after it was
  cleared (`lib.rs:245`), and two threads that find no access code each make one
  (`store.rs:230`);
- of the Python agent: migrations, its keys server (the routes of `KeysPage`), the
  throttle of the app sample, mouse travel, a second Ctrl+C during the exit, a second
  process on the same database, and a registration over an existing one;
- of the Today page: loading and error lines, the formatting of times and numbers, a
  cell of padding in the calendar that is drawn like a quiet day although it may have
  had activity, and the previous-day button while the history has not loaded. A day
  is called final (`DayView.tsx:153-154`) though late rows may follow: such a row is a
  `Post`, and `PageAddsUp` asks for entries that are up to date;
- of the Keys page: midnight with the page open, entries thrown out of the cache, and an
  answer cached under a code that another tab had exchanged before it was sent (`moved`);
  filters survive a Forget and a Connect, as in the code, and `FilterListed` excepts those
  that a Connect took along to another program, or whose list of apps the program could not
  read, and the same app picked there later (`unlisted`); the error "other" of `localGet`
  (`localApi.ts:83-85`), which no route of either server gives to these requests;
- of the social pages: the text in the input (the success line names what is typed there
  by then, `FriendsView.tsx:45`), the metric and window of the boards, entries thrown out
  of the cache, two mutations of one kind at a time, two sign-ins at a time, and whether a
  name on a board is a link. A lost answer leaves the list old until the next fetch;
  a first load in flight is not cancelled by an invalidation; leaving the tab with a
  fetch in flight loses the invalidation; a fetch of the settings in flight overwrites
  the checkbox: `OwnWritesSeen` names each of these.

## 7. Plan

Theorems: the two refinements named below, step by step as `ImplementsLedger` is.

Modules: `LocalStore` (`_migrate`, `local_token`); the registration of `auth.go` with its
unique names. Compositions: `Tracker` with the write side of `AgentSync` as a refinement
(the tracker's disk implements `FlushRow`), and `Ingest` as a refinement of the atomic
`Handle` of `AgentSync`, for requests of different devices.
