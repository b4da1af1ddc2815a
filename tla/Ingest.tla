-------------------------------- MODULE Ingest --------------------------------
(***************************************************************************)
(* handleIngestBatch, one SQL statement per step, for the requests of one  *)
(* user's devices running at the same time on PostgreSQL's READ COMMITTED. *)
(*                                                                         *)
(* Every statement sees what is committed when it starts, plus its own     *)
(* transaction's writes.  An INSERT that meets an uncommitted row with the *)
(* same key waits for that transaction; so does an update of a row it has  *)
(* locked.  A failing statement, a dropped connection, a deadlock victim   *)
(* and a backend restart all roll the whole transaction back.              *)
(*                                                                         *)
(* A row's counts are abstracted to whether it has activity (keystrokes or *)
(* clicks, and not just mouse travel); totals count rows.                  *)
(***************************************************************************)
EXTENDS Integers, FiniteSets, StreakRule

CONSTANTS
    Handlers,        \* requests being served at the same time
    Devices,         \* the user's devices
    Recorded,        \* per device, the rows its agent has to deliver
    MinutesPerDay,   \* minutes of a local day
    None

Row == [min : Nat, app : STRING, active : BOOLEAN]

ASSUME IngestAssumption ==
    /\ Recorded \in [Devices -> SUBSET Row]
    /\ \A d \in Devices : IsFiniteSet(Recorded[d])
    /\ MinutesPerDay \in Nat \ {0}
    /\ None \notin Row

VARIABLES
    stored,          \* activity_buckets: the (device, row) pairs committed
    rollups,         \* daily_rollups: rows summed up, and active_minutes
    streak,          \* the user's row in streaks
    tx,              \* per handler: its transaction
    overlapped       \* history: two requests of one device ran at once

vars == <<stored, rollups, streak, tx, overlapped>>

\* The agent computes local_date from the minute.
DayOf(min) == min \div MinutesPerDay

Days == UNION {{DayOf(r.min) : r \in Recorded[d]} : d \in Devices}

\* pc: check, rows, rollup, read, write are the statements of the handler.
NoTx ==
    [pc |-> "idle", dev |-> None, batch |-> {}, todo |-> {}, row |-> None,
     already |-> {}, counted |-> {}, fresh |-> {}, read |-> NoStreak,
     wrote |-> NoStreak]

Serving(h)   == tx[h].pc # "idle"
Others(h)    == {u \in Handlers \ {h} : Serving(u)}
StoredOf(d)  == {r \in Recorded[d] : <<d, r>> \in stored}
Minutes(R)   == {r.min : r \in R}
ActiveOf(R)  == {r \in R : r.active}
OnDay(R, day) == {r \in R : DayOf(r.min) = day}

\* Rows this transaction has added to daily_rollups.
Rolled(h) == IF tx[h].pc = "rollup" THEN tx[h].fresh \ {tx[h].row} ELSE tx[h].fresh

Init ==
    /\ stored = {}
    /\ rollups = [day \in Days |-> [rows |-> 0, minutes |-> 0]]
    /\ streak = NoStreak
    /\ tx = [h \in Handlers |-> NoTx]
    /\ overlapped = FALSE

-----------------------------------------------------------------------------
\* A request arrives.  Its device sends all its unsynced rows, oldest first: the
\* rows of earlier minutes are among them, unless they are committed by now.  Of
\* two requests of a device that are served at the same time one, not always the
\* one that began first, was sent later and has the rows of the other too.
Begin(h, d, B) ==
    /\ ~Serving(h)
    /\ B # {}
    /\ \A r \in B, q \in Recorded[d] \ StoredOf(d) : q.min < r.min => q \in B
    /\ \A u \in Others(h) : tx[u].dev = d =>
         \/ tx[u].batch \ StoredOf(d) \subseteq B
         \/ B \ StoredOf(d) \subseteq tx[u].batch
    /\ tx' = [tx EXCEPT ![h] = [NoTx EXCEPT !.pc = "check", !.dev = d,
                                            !.batch = B, !.todo = B]]
    /\ overlapped' = (overlapped \/ \E u \in Others(h) : tx[u].dev = d)
    /\ UNCHANGED <<stored, rollups, streak>>

\* Fault: any stored row makes its minute an active one.
CheckActive_AnyRow(h) ==
    /\ tx[h].pc = "check"
    /\ tx' = [tx EXCEPT ![h].pc = "rows",
                        ![h].already = Minutes(StoredOf(tx[h].dev))
                                         \cap Minutes(tx[h].batch)]
    /\ UNCHANGED <<stored, rollups, streak, overlapped>>

\* Which minutes of the batch already have an active row of this device.
CheckActive(h) ==
    /\ tx[h].pc = "check"
    /\ tx' = [tx EXCEPT ![h].pc = "rows",
                        ![h].already = Minutes(ActiveOf(StoredOf(tx[h].dev)))
                                         \cap Minutes(tx[h].batch)]
    /\ UNCHANGED <<stored, rollups, streak, overlapped>>

\* The batch is in order of minutes; rows of one minute in no special order.
NextRows(h) == {r \in tx[h].todo : \A q \in tx[h].todo : r.min <= q.min}

\* INSERT ... ON CONFLICT DO NOTHING meets a committed row: a duplicate.
SkipRow(h, r) ==
    /\ tx[h].pc = "rows"
    /\ r \in NextRows(h)
    /\ <<tx[h].dev, r>> \in stored
    /\ tx' = [tx EXCEPT ![h].todo = @ \ {r}]
    /\ UNCHANGED <<stored, rollups, streak, overlapped>>

\* Fault: a lookup before the INSERT instead of the uniqueness rule.
InsertRow_Lookup(h, r) ==
    /\ tx[h].pc = "rows"
    /\ r \in NextRows(h)
    /\ <<tx[h].dev, r>> \notin stored
    /\ tx' = [tx EXCEPT ![h].pc = "rollup", ![h].row = r, ![h].todo = @ \ {r},
                        ![h].fresh = @ \cup {r}]
    /\ UNCHANGED <<stored, rollups, streak, overlapped>>

\* It inserts the row, once no other transaction holds an uncommitted one.
InsertRow(h, r) ==
    /\ tx[h].pc = "rows"
    /\ r \in NextRows(h)
    /\ <<tx[h].dev, r>> \notin stored
    /\ \A u \in Others(h) : tx[u].dev = tx[h].dev => r \notin tx[u].fresh
    /\ tx' = [tx EXCEPT ![h].pc = "rollup", ![h].row = r, ![h].todo = @ \ {r},
                        ![h].fresh = @ \cup {r}]
    /\ UNCHANGED <<stored, rollups, streak, overlapped>>

\* Some other transaction has an uncommitted write of this day's rollup.
DayLocked(h, day) == \E u \in Others(h) : OnDay(Rolled(u), day) # {}

\* Fault: a row of mouse travel alone counts as an active minute.
RollUp_AnyRow(h) ==
    /\ tx[h].pc = "rollup"
    /\ ~DayLocked(h, DayOf(tx[h].row.min))
    /\ tx' = [tx EXCEPT
         ![h].pc = IF tx[h].row.active THEN "read" ELSE "rows",
         ![h].counted = IF tx[h].row.min \notin tx[h].already \cup Minutes(@)
                        THEN @ \cup {tx[h].row} ELSE @]
    /\ UNCHANGED <<stored, rollups, streak, overlapped>>

\* Add the row to its day's rollup.  It is a new active minute unless the
\* minute was active before this request or earlier in it; the rows that were
\* the first of theirs are kept in counted.
RollUp(h) ==
    /\ tx[h].pc = "rollup"
    /\ ~DayLocked(h, DayOf(tx[h].row.min))
    /\ tx' = [tx EXCEPT
         ![h].pc = IF tx[h].row.active THEN "read" ELSE "rows",
         ![h].counted =
            IF tx[h].row.active /\ tx[h].row.min \notin tx[h].already \cup Minutes(@)
            THEN @ \cup {tx[h].row} ELSE @]
    /\ UNCHANGED <<stored, rollups, streak, overlapped>>

\* updateStreak, the SELECT: own write or the last committed row; no lock.
ReadStreak(h) ==
    LET row == IF tx[h].wrote # NoStreak THEN tx[h].wrote ELSE streak
    IN
    /\ tx[h].pc = "read"
    /\ tx' = [tx EXCEPT
         ![h].pc = IF row # NoStreak /\ row.last = DayOf(tx[h].row.min)
                   THEN "rows" ELSE "write",
         ![h].read = row]
    /\ UNCHANGED <<stored, rollups, streak, overlapped>>

\* updateStreak, the INSERT or UPDATE, computed from what the SELECT saw.
WriteStreak(h) ==
    /\ tx[h].pc = "write"
    /\ \A u \in Others(h) : tx[u].wrote = NoStreak
    /\ ~(tx[h].read = NoStreak /\ streak # NoStreak)
    /\ tx' = [tx EXCEPT
         ![h].pc = "rows",
         ![h].wrote = UpdatedStreak(tx[h].read, DayOf(tx[h].row.min))]
    /\ UNCHANGED <<stored, rollups, streak, overlapped>>

\* Fault: the transaction is committed after each row.
Commit_EachRow(h) ==
    /\ tx[h].pc = "rows"
    /\ stored' = stored \cup ({tx[h].dev} \X tx[h].fresh)
    /\ rollups' = [day \in Days |->
         [rows    |-> rollups[day].rows + Cardinality(OnDay(tx[h].fresh, day)),
          minutes |-> rollups[day].minutes + Cardinality(OnDay(tx[h].counted, day))]]
    /\ streak' = IF tx[h].wrote # NoStreak THEN tx[h].wrote ELSE streak
    /\ tx' = [tx EXCEPT ![h] = NoTx]
    /\ UNCHANGED overlapped

\* COMMIT makes the whole batch visible at once; the handler answers 200.
Commit(h) ==
    /\ tx[h].pc = "rows"
    /\ tx[h].todo = {}
    /\ stored' = stored \cup ({tx[h].dev} \X tx[h].fresh)
    /\ rollups' = [day \in Days |->
         [rows    |-> rollups[day].rows + Cardinality(OnDay(tx[h].fresh, day)),
          minutes |-> rollups[day].minutes + Cardinality(OnDay(tx[h].counted, day))]]
    /\ streak' = IF tx[h].wrote # NoStreak THEN tx[h].wrote ELSE streak
    /\ tx' = [tx EXCEPT ![h] = NoTx]
    /\ UNCHANGED overlapped

\* Anything goes wrong, an INSERT into streaks that meets a row included.
Rollback(h) ==
    /\ Serving(h)
    /\ tx' = [tx EXCEPT ![h] = NoTx]
    /\ UNCHANGED <<stored, rollups, streak, overlapped>>

Serve(h) ==
    \/ \E d \in Devices : \E B \in SUBSET Recorded[d] : Begin(h, d, B)
    \/ CheckActive(h)
    \/ \E r \in tx[h].todo : SkipRow(h, r) \/ InsertRow(h, r)
    \/ RollUp(h)
    \/ ReadStreak(h)
    \/ WriteStreak(h)
    \/ Commit(h)
    \/ Rollback(h)

Next == \E h \in Handlers : Serve(h)

Spec == Init /\ [][Next]_vars

-----------------------------------------------------------------------------
StoredOn(day) == {x \in stored : DayOf(x[2].min) = day}

\* The (device, minute) pairs of a day with stored activity.
ActiveMinutes(day) == {<<x[1], x[2].min>> : x \in {y \in StoredOn(day) : y[2].active}}

Transaction ==
    [pc : {"idle", "check", "rows", "rollup", "read", "write"}, dev : Devices \cup {None},
     batch : SUBSET Row, todo : SUBSET Row, row : Row \cup {None},
     already : SUBSET Nat, counted : SUBSET Row, fresh : SUBSET Row,
     read : StreakRow(Days), wrote : StreakRow(Days)]

TypeOK ==
    /\ stored \subseteq UNION {{d} \X Recorded[d] : d \in Devices}
    /\ rollups \in [Days -> [rows : Nat, minutes : Nat]]
    /\ streak \in StreakRow(Days)
    /\ overlapped \in BOOLEAN
    /\ tx \in [Handlers -> Transaction]
    /\ \A h \in Handlers :
         IF Serving(h)
         THEN /\ tx[h].dev \in Devices
              /\ tx[h].batch \subseteq Recorded[tx[h].dev]
              /\ tx[h].todo \cup tx[h].fresh \subseteq tx[h].batch
              /\ tx[h].row \in tx[h].fresh \cup {None}
              /\ tx[h].already \subseteq Minutes(tx[h].batch)
              /\ tx[h].counted \subseteq ActiveOf(tx[h].fresh)
         ELSE tx[h] = NoTx

\* A day's total is the sum of exactly the stored rows of the day, however the
\* requests that brought them, twice or at the same time, were interleaved.
RollupsExact ==
    \A day \in Days : rollups[day].rows = Cardinality(StoredOn(day))

\* Every active minute is in active_minutes: the dedup of the minutes that
\* arrive as several rows, and the race of several requests, never loses one.
NoMinuteMissed ==
    \A day \in Days : rollups[day].minutes >= Cardinality(ActiveMinutes(day))

\* It is exact as long as no two requests of one device ran at the same time:
\* sibling rows of a minute, split over requests or not, count once.
MinutesExactAlone ==
    ~overlapped => \A day \in Days :
        rollups[day].minutes = Cardinality(ActiveMinutes(day))

\* active_minutes is never too low, and right without overlapping requests.
MinutesCounted == NoMinuteMissed /\ MinutesExactAlone

\* The days of the streaks the user is shown did have activity, though several
\* transactions update the row from what they read before the others wrote.
StreakHappened == Happened(streak, {DayOf(x[2].min) : x \in {y \in stored : y[2].active}})

\* A request becomes visible as a whole or not at all: this is the one atomic
\* step that the model of the agents takes a request for (AgentSync).
WholeBatches ==
    [][stored' # stored =>
         \E h \in Handlers : stored' = stored \cup ({tx[h].dev} \X tx[h].batch)]_vars
=============================================================================
