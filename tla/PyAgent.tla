-------------------------------- MODULE PyAgent --------------------------------
(***************************************************************************)
(* One life of the Python agent: the loop of Agent.run, the input          *)
(* callbacks, the window around it or the terminal, and the SQLite file.   *)
(*                                                                         *)
(* The loop does everything itself, one thing after the other: it ends     *)
(* sessions, flushes, delivers.  A flush holds bucket_lock from its first  *)
(* row to its end, so that no input is counted meanwhile; check_idle and   *)
(* the window take no lock.  What raises in the loop ends it: it goes to   *)
(* the finally block, which flushes and delivers once more.                *)
(*                                                                         *)
(* Ctrl+C is taken where the loop spends its time: asleep, in a call of    *)
(* the store, on the network.  At most one call of the store fails.  What  *)
(* the backend makes of the rows is in AgentSync.                          *)
(***************************************************************************)
EXTENDS Integers, Sequences, FiniteSetsExt, Sums

CONSTANTS
    Apps,
    NoApp,
    MinuteLength,    \* 60
    FlushInterval,   \* FLUSH_INTERVAL_S, 60
    IdleThreshold,   \* IDLE_THRESHOLD_S, 60
    SyncInterval,    \* SYNC_INTERVAL_S, 60
    BatchLimit,      \* 500
    MaxTime,         \* bound: the clock stops there
    MaxInputs        \* bound: keystrokes and clicks

ASSUME PyAgentAssumption ==
    /\ NoApp \notin Apps /\ IsFiniteSet(Apps)
    /\ MinuteLength \in Nat \ {0} /\ FlushInterval \in Nat /\ FlushInterval >= MinuteLength
    /\ IdleThreshold \in Nat /\ SyncInterval \in Nat /\ BatchLimit \in Nat \ {0}
    /\ MaxTime \in Nat /\ MaxInputs \in Nat

VARIABLES
    now,
    ui,              \* "cli"; or the window is "open", "closing", "closed"
    pc,              \* where the loop is
    final,           \* it is in the finally block
    at,              \* the time it took for this round
    last,            \* its last_flush and last_sync
    counts,          \* the bucket, keystrokes per app, clicks; keys: key_counts in memory
    flush,           \* the app in focus, rows to write, rows written
    batch,           \* ids of the rows on the wire
    session,         \* session_active, session_id, last_event_ts
    listening,       \* listeners that run
    registered,      \* backend_url and device_token are set
    rows,            \* events_buffer; the index is the id
    keyCounts,       \* key_counts, summed up per app
    sessions,        \* the sessions table
    today,           \* the window's refresh
    typed, clicked,  \* history: keystrokes by bucket and app, clicks by bucket
    inputs,          \* history: times of the inputs while their session was on
    late,            \* history: inputs after the last flush
    pushed,          \* history: the last pass went through
    failed,          \* history: a call of the store failed
    raised,          \* history: the network raised
    repeated,        \* history: a flush was left after rows of it were written
    slow             \* history: the clock moved while a flush was writing

loopVars    == <<pc, final, at, last, flush, batch>>
storeVars   == <<rows, keyCounts, sessions>>
historyVars == <<typed, clicked, inputs, late, pushed, failed, raised, repeated, slow>>
vars == <<now, ui, loopVars, counts, session, listening, registered, storeVars, today, historyVars>>

Never == -1
minute_start(t) == t \div MinuteLength
Minutes == 0..minute_start(MaxTime)

NoKeys  == [a \in Apps |-> 0]
NoFlush == [app |-> NoApp, todo |-> {}, done |-> {}]
NoCall  == [pc |-> "idle", disk |-> 0, from |-> 0, torn |-> FALSE]
Empty(m, keys) == [bucket |-> m, apps |-> NoKeys, clicks |-> 0, keys |-> keys]

KeysTyped  == SumOver([m \in Minutes |-> SumOver(typed[m])])
RowKeys    == [i \in DOMAIN rows |-> rows[i].keys]
RowClicks  == [i \in DOMAIN rows |-> rows[i].clicks]
Unsynced   == {i \in DOMAIN rows : ~rows[i].synced}
\* Fault: only what is still to be delivered.
KeysOnDisk_Unsynced == SumOn(RowKeys, Unsynced)
KeysOnDisk == SumOver(RowKeys)

\* bucket_lock is held.
Locked == pc \in {"rows", "keys", "bumped"}
Ended  == pc \in {"gone", "killed"}

Init ==
    /\ now = 0
    /\ ui \in {"cli", "open"}
    /\ pc = "top" /\ final = FALSE /\ at = 0
    /\ last = [flush |-> 0, sync |-> 0]
    /\ counts = Empty(minute_start(0), NoKeys)
    /\ flush = NoFlush /\ batch = {}
    /\ session = [active |-> FALSE, id |-> 0, last_event |-> 0]
    /\ listening = {"keyboard", "mouse"}
    /\ registered \in BOOLEAN
    /\ rows = <<>> /\ keyCounts = NoKeys /\ sessions = <<>>
    /\ today = NoCall
    /\ typed = [m \in Minutes |-> NoKeys] /\ clicked = [m \in Minutes |-> 0]
    /\ inputs = {} /\ late = 0 /\ pushed = FALSE
    /\ failed = FALSE /\ raised = FALSE /\ repeated = FALSE /\ slow = FALSE

Clock ==
    /\ now < MaxTime /\ ~Ended
    /\ now' = now + 1
    /\ UNCHANGED <<ui, loopVars, counts, session, listening, registered, storeVars, today, historyVars>>

\* A call of the store succeeds or fails, the latter once.
Stored(ok) ==
    /\ ~ok => ~failed
    /\ failed' = (failed \/ ~ok)

-----------------------------------------------------------------------------
\* _touch, in the callback of a listener: an input is recent input, and starts a
\* session if none is on.  If that fails the input is not counted, and pynput
\* stops the listener.  Nobody notices an input after its session was closed.
Touch(listener, ok) ==
    /\ listener \in listening /\ ~Locked
    /\ KeysTyped + SumOver(clicked) < MaxInputs
    /\ Stored(session.active \/ ok)
    /\ IF session.active THEN UNCHANGED sessions /\ session' = [session EXCEPT !.last_event = now]
       ELSE IF ok
       THEN /\ sessions' = Append(sessions, [start |-> now, end |-> Never])
            /\ session' = [active |-> TRUE, id |-> Len(sessions) + 1, last_event |-> now]
       ELSE UNCHANGED sessions /\ session' = [session EXCEPT !.last_event = now]
    /\ listening' = IF session.active \/ ok THEN listening ELSE listening \ {listener}
    /\ UNCHANGED <<now, ui, loopVars, registered, rows, keyCounts, today, pushed, raised, repeated, slow>>

\* The session is still on although the end of its row is written: check_idle is about
\* to switch it off, or the loop comes to its end.
Leaving == (pc = "ended" \/ final) /\ session.active /\ sessions[session.id].end # Never

\* The input is counted.
Counted ==
    /\ inputs' = IF Leaving THEN inputs ELSE inputs \cup {now}
    /\ late' = IF final /\ pc # "finally" THEN late + 1 ELSE late

on_press(app, ok) ==
    /\ Touch("keyboard", ok)
    /\ IF session.active \/ ok
       THEN /\ counts' = [counts EXCEPT !.apps[app] = @ + 1, !.keys[app] = @ + 1]
            /\ typed' = [typed EXCEPT ![counts.bucket][app] = @ + 1]
            /\ Counted
       ELSE UNCHANGED <<counts, typed, inputs, late>>
    /\ UNCHANGED clicked

on_click(ok) ==
    /\ Touch("mouse", ok)
    /\ IF session.active \/ ok
       THEN /\ counts' = [counts EXCEPT !.clicks = @ + 1]
            /\ clicked' = [clicked EXCEPT ![counts.bucket] = @ + 1]
            /\ Counted
       ELSE UNCHANGED <<counts, clicked, inputs, late>>
    /\ UNCHANGED typed

-----------------------------------------------------------------------------
Goto(label) ==
    /\ pc' = label
    /\ listening' = IF label = "gone" /\ ui = "cli" THEN {} ELSE listening

\* Something raises, or Ctrl+C: the loop goes to its finally block, or leaves it.
\* A flush gives up its lock; what it has written stays.
Raise ==
    /\ Goto(IF final THEN "gone" ELSE "finally")
    /\ final' = TRUE
    /\ repeated' = (repeated \/ flush.done # {} \/ pc = "bumped")
    /\ flush' = NoFlush /\ batch' = {}

\* The condition of the while; the window's close button sets _stop.
Top ==
    /\ pc = "top"
    /\ Goto(IF ui = "closing" THEN "finally" ELSE "sleep")
    /\ final' = (ui = "closing")
    /\ UNCHANGED <<now, ui, at, last, counts, flush, batch, session, registered, storeVars, today,
                   historyVars>>

\* The test of check_idle, after a second of sleep; without a lock.
check_idle ==
    /\ pc = "sleep"
    /\ IF session.active /\ now - session.last_event > IdleThreshold
       THEN Goto("ending") /\ UNCHANGED at
       ELSE Goto("due") /\ at' = now
    /\ UNCHANGED <<now, ui, final, last, counts, flush, batch, session, registered, storeVars, today,
                   historyVars>>

\* Its end_session, for the last event there is by now.
EndSession(ok) ==
    /\ pc = "ending"
    /\ Stored(ok)
    /\ IF ok
       THEN /\ sessions' = [sessions EXCEPT ![session.id].end = session.last_event]
            /\ Goto("ended")
            /\ UNCHANGED <<final, repeated, flush, batch>>
       ELSE Raise /\ UNCHANGED sessions
    /\ UNCHANGED <<now, ui, at, last, counts, session, registered, rows, keyCounts, today, typed,
                   clicked, inputs, late, pushed, raised, slow>>

\* Fault: the flag stays on.
SessionOff_Stays ==
    /\ pc = "ended"
    /\ Goto("due")
    /\ at' = now
    /\ UNCHANGED <<now, ui, final, last, counts, flush, batch, session, registered, storeVars, today,
                   historyVars>>

\* session_active = False.
SessionOff ==
    /\ pc = "ended"
    /\ session' = [session EXCEPT !.active = FALSE]
    /\ Goto("due")
    /\ at' = now
    /\ UNCHANGED <<now, ui, final, last, counts, flush, batch, registered, storeVars, today,
                   historyVars>>

-----------------------------------------------------------------------------
\* flush_bucket takes the lock: a row per app with keystrokes and one for the app
\* in focus, which gets the clicks.
BeginFlush(app) ==
    /\ flush' = [app |-> app, todo |-> {a \in Apps : counts.apps[a] > 0} \cup {app}, done |-> {}]
    /\ Goto("rows")
    /\ UNCHANGED <<now, ui, final, at, last, counts, batch, session, registered, storeVars, today,
                   historyVars>>

FlushDue(app) ==
    /\ pc = "due"
    /\ at - last.flush >= FlushInterval
    /\ BeginFlush(app)

FlushNotDue ==
    /\ pc = "due"
    /\ at - last.flush < FlushInterval
    /\ Goto("sync")
    /\ UNCHANGED <<now, ui, final, at, last, counts, flush, batch, session, registered, storeVars,
                   today, historyVars>>

\* Fault: what was counted since the last flush is dropped.
FinalFlush_Dropped(app) ==
    /\ pc = "finally"
    /\ flush' = NoFlush
    /\ Goto("exit")
    /\ UNCHANGED <<now, ui, final, at, last, counts, batch, session, registered, storeVars, today,
                   historyVars>>

FinalFlush(app) ==
    /\ pc = "finally"
    /\ BeginFlush(app)

\* insert_bucket for one of the apps; a row of zeros is not written.
InsertBucket(a, ok) ==
    LET row   == [min |-> counts.bucket, app |-> a, keys |-> counts.apps[a],
                  clicks |-> IF a = flush.app THEN counts.clicks ELSE 0, synced |-> FALSE]
        write == row.keys + row.clicks > 0
    IN  /\ pc = "rows" /\ a \in flush.todo
        /\ Stored(~write \/ ok)
        /\ IF write /\ ~ok
           THEN Raise /\ UNCHANGED <<rows, today>>
           ELSE /\ rows' = IF write THEN Append(rows, row) ELSE rows
                /\ flush' = [flush EXCEPT !.todo = @ \ {a},
                                          !.done = IF write THEN @ \cup {a} ELSE @]
                /\ today' = [today EXCEPT !.torn = @ \/ (write /\ today.pc = "disk")]
                /\ UNCHANGED <<pc, final, repeated, batch, listening>>
        /\ UNCHANGED <<now, ui, at, last, counts, session, registered, keyCounts, sessions, typed,
                       clicked, inputs, late, pushed, raised, slow>>

\* Fault: only the totals are cleared, not those per app.
ClearCounts_Totals ==
    /\ pc = "rows" /\ flush.todo = {}
    /\ counts' = [counts EXCEPT !.bucket = minute_start(now), !.clicks = 0]
    /\ flush' = NoFlush
    /\ slow' = (slow \/ (~final /\ now > at))
    /\ today' = [today EXCEPT !.torn = @ \/ today.pc = "disk"]
    /\ pc' = "keys"
    /\ UNCHANGED <<now, ui, final, at, last, batch, session, listening, registered, storeVars, typed,
                   clicked, inputs, late, pushed, failed, raised, repeated>>

\* The counts are cleared; the next bucket is the minute it is by now.
ClearCounts ==
    /\ pc = "rows" /\ flush.todo = {}
    /\ counts' = Empty(minute_start(now), counts.keys)
    /\ flush' = NoFlush
    /\ slow' = (slow \/ (~final /\ now > at))
    /\ today' = [today EXCEPT !.torn = @ \/ today.pc = "disk"]
    /\ pc' = "keys"
    /\ UNCHANGED <<now, ui, final, at, last, batch, session, listening, registered, storeVars, typed,
                   clicked, inputs, late, pushed, failed, raised, repeated>>

\* bump_keys, one transaction.
BumpKeys(ok) ==
    LET any == \E a \in Apps : counts.keys[a] > 0
    IN  /\ pc = "keys"
        /\ Stored(~any \/ ok)
        /\ IF any /\ ~ok
           THEN Raise /\ UNCHANGED keyCounts
           ELSE /\ keyCounts' = [a \in Apps |-> keyCounts[a] + counts.keys[a]]
                /\ Goto("bumped")
                /\ UNCHANGED <<final, repeated, flush, batch>>
        /\ UNCHANGED <<now, ui, at, last, counts, session, registered, rows, sessions, today, typed,
                       clicked, inputs, late, pushed, raised, slow>>

\* key_counts is cleared and the lock given up.
FlushDone ==
    /\ pc = "bumped"
    /\ counts' = [counts EXCEPT !.keys = NoKeys]
    /\ last' = IF final THEN last ELSE [last EXCEPT !.flush = at]
    /\ Goto(IF final THEN "exit" ELSE "sync")
    /\ UNCHANGED <<now, ui, final, at, flush, batch, session, registered, storeVars, today, historyVars>>

-----------------------------------------------------------------------------
\* The finally block after its flush: the session ends now, the listeners stop.
EndAtExit(ok) ==
    /\ pc = "exit"
    /\ Stored(~session.active \/ ok)
    /\ IF session.active /\ ~ok
       THEN Raise /\ UNCHANGED sessions
       ELSE /\ sessions' = IF session.active THEN [sessions EXCEPT ![session.id].end = now] ELSE sessions
            /\ Goto("stop")
            /\ UNCHANGED <<final, repeated, flush, batch>>
    /\ UNCHANGED <<now, ui, at, last, counts, session, registered, rows, keyCounts, today, typed,
                   clicked, inputs, late, pushed, raised, slow>>

StopListeners ==
    /\ pc = "stop"
    /\ listening' = {}
    /\ pc' = "sync"
    /\ UNCHANGED <<now, ui, final, at, last, counts, flush, batch, session, registered, storeVars,
                   today, historyVars>>

-----------------------------------------------------------------------------
\* The end of a pass.
PassOver(ok) ==
    /\ Goto(IF final THEN "gone" ELSE "top")
    /\ batch' = {}
    /\ last' = IF final THEN last ELSE [last EXCEPT !.sync = at]
    /\ pushed' = (final /\ ok)

\* Fault: rows that are synced are selected, too.
Send_AllRows(ids) ==
    /\ pc = "sync" /\ registered
    /\ final \/ at - last.sync >= SyncInterval
    /\ rows # <<>>
    /\ Cardinality(ids) = Min({BatchLimit, Len(rows)})
    /\ batch' = ids
    /\ pc' = "wire"
    /\ UNCHANGED <<now, ui, final, at, last, counts, flush, session, listening, registered, storeVars,
                   today, historyVars>>

\* sync_pass is due, and there are rows: the oldest are sent.
Send(ids) ==
    /\ pc = "sync" /\ registered
    /\ final \/ at - last.sync >= SyncInterval
    /\ Unsynced # {}
    /\ ids \subseteq Unsynced
    /\ Cardinality(ids) = Min({BatchLimit, Cardinality(Unsynced)})
    /\ \A i \in ids, j \in Unsynced \ ids : rows[i].min <= rows[j].min
    /\ batch' = ids
    /\ pc' = "wire"
    /\ UNCHANGED <<now, ui, final, at, last, counts, flush, session, listening, registered, storeVars,
                   today, historyVars>>

\* There is nothing to send, nobody to send it to, or it is not time.
NoPass ==
    LET due == final \/ at - last.sync >= SyncInterval
    IN  /\ pc = "sync"
        /\ ~(registered /\ due /\ Unsynced # {})
        /\ Goto(IF final THEN "gone" ELSE "top")
        /\ last' = IF due /\ ~final THEN [last EXCEPT !.sync = at] ELSE last
        /\ pushed' = (final /\ registered)
        /\ UNCHANGED <<now, ui, final, at, counts, flush, batch, session, registered, storeVars, today,
                       typed, clicked, inputs, late, failed, raised, repeated, slow>>

\* A 200 marks the rows.
Synced(ok) ==
    /\ pc = "wire"
    /\ Stored(ok)
    /\ IF ok
       THEN /\ rows' = [i \in DOMAIN rows |-> IF i \in batch THEN [rows[i] EXCEPT !.synced = TRUE]
                                              ELSE rows[i]]
            /\ PassOver(TRUE)
            /\ UNCHANGED <<final, repeated, flush>>
       ELSE Raise /\ UNCHANGED <<rows, last, pushed>>
    /\ UNCHANGED <<now, ui, at, counts, session, registered, keyCounts, sessions, today, typed,
                   clicked, inputs, late, raised, slow>>

\* Any other answer, and a backend that cannot be reached, are printed.
Refused ==
    /\ pc = "wire"
    /\ PassOver(FALSE)
    /\ UNCHANGED <<now, ui, final, at, counts, flush, session, registered, storeVars, today, typed,
                   clicked, inputs, late, failed, raised, repeated, slow>>

\* An answer that does not come within the timeout, or breaks off, is none of the
\* errors http_post_json catches.
Unanswered ==
    /\ pc = "wire"
    /\ Raise
    /\ raised' = TRUE
    /\ UNCHANGED <<now, ui, at, last, counts, session, registered, storeVars, today, typed, clicked,
                   inputs, late, pushed, failed, slow>>

\* A read fails, of the rows to send or, in the loop, of the totals it prints.
ReadFails ==
    /\ pc = "sync"
    /\ ~final \/ registered
    /\ Stored(FALSE)
    /\ Raise
    /\ UNCHANGED <<now, ui, at, last, counts, session, registered, storeVars, today, typed, clicked,
                   inputs, late, pushed, raised, slow>>

-----------------------------------------------------------------------------
\* Ctrl+C.
Interrupt ==
    /\ ui = "cli" /\ ~final
    /\ pc \in {"sleep", "ending", "ended", "rows", "keys", "bumped", "wire"}
    /\ Raise
    /\ UNCHANGED <<now, ui, at, last, counts, session, registered, storeVars, today, typed, clicked,
                   inputs, late, pushed, failed, raised, slow>>

\* _on_close sets _stop and waits for the loop, five seconds at most.
Close ==
    /\ ui = "open"
    /\ ui' = "closing"
    /\ UNCHANGED <<now, loopVars, counts, session, listening, registered, storeVars, today, historyVars>>

\* The window is gone, and the process with it.
Destroy ==
    /\ ui = "closing"
    /\ ui' = "closed"
    /\ pc' = IF pc = "gone" THEN "gone" ELSE "killed"
    /\ listening' = {} /\ today' = NoCall
    /\ UNCHANGED <<now, final, at, last, counts, flush, batch, session, registered, storeVars, historyVars>>

\* The dialog's registration has come through.
Register ==
    /\ ui = "open" /\ ~registered
    /\ registered' = TRUE
    /\ UNCHANGED <<now, ui, loopVars, counts, session, listening, storeVars, today, historyVars>>

\* _refresh, on the window's thread: the totals on disk, then what is pending.
ReadDisk ==
    /\ ui = "open" /\ today.pc = "idle"
    /\ today' = [pc |-> "disk", disk |-> KeysOnDisk, from |-> KeysTyped, torn |-> flush.done # {}]
    /\ UNCHANGED <<now, ui, loopVars, counts, session, listening, registered, storeVars, historyVars>>

Shown == today.disk + SumOver(counts.apps)

AddPending ==
    /\ ui = "open" /\ today.pc = "disk"
    /\ today' = NoCall
    /\ UNCHANGED <<now, ui, loopVars, counts, session, listening, registered, storeVars, historyVars>>

Store(ok) ==
    \/ \E app \in Apps : on_press(app, ok) \/ InsertBucket(app, ok)
    \/ on_click(ok)
    \/ EndSession(ok) \/ BumpKeys(ok) \/ EndAtExit(ok) \/ Synced(ok)

Next ==
    \/ Clock
    \/ \E ok \in BOOLEAN : Store(ok)
    \/ Top \/ check_idle \/ SessionOff
    \/ \E app \in Apps : FlushDue(app) \/ FinalFlush(app)
    \/ FlushNotDue \/ ClearCounts \/ FlushDone
    \/ StopListeners
    \/ \E ids \in SUBSET DOMAIN rows : Send(ids)
    \/ NoPass \/ Refused \/ Unanswered \/ ReadFails
    \/ Interrupt \/ Close \/ Destroy \/ Register
    \/ ReadDisk \/ AddPending

Spec == Init /\ [][Next]_vars

-----------------------------------------------------------------------------
TypeOK ==
    /\ now \in 0..MaxTime /\ at \in 0..MaxTime
    /\ ui \in {"cli", "open", "closing", "closed"}
    /\ pc \in {"top", "sleep", "ending", "ended", "due", "rows", "keys", "bumped", "sync", "wire",
               "finally", "exit", "stop", "gone", "killed"}
    /\ final \in BOOLEAN /\ registered \in BOOLEAN
    /\ last \in [flush : 0..MaxTime, sync : 0..MaxTime]
    /\ counts \in [bucket : Minutes, apps : [Apps -> Nat], clicks : Nat, keys : [Apps -> Nat]]
    /\ flush \in [app : Apps \cup {NoApp}, todo : SUBSET Apps, done : SUBSET Apps]
    /\ batch \subseteq Unsynced
    /\ session \in [active : BOOLEAN, id : 0..Len(sessions), last_event : 0..MaxTime]
    /\ listening \subseteq {"keyboard", "mouse"}
    /\ \A i \in DOMAIN rows : rows[i] \in [min : Minutes, app : Apps, keys : Nat, clicks : Nat,
                                           synced : BOOLEAN]
    /\ keyCounts \in [Apps -> Nat]
    /\ \A i \in DOMAIN sessions : sessions[i] \in [start : 0..MaxTime, end : 0..MaxTime \cup {Never}]
    /\ flush.done # {} => pc \in {"rows", "killed"}

RowsOf(m, a) == {i \in DOMAIN rows : rows[i].min = m /\ rows[i].app = a}
SavedKeys(m, a) == SumOn(RowKeys, RowsOf(m, a))
SavedClicks(m)  == SumOn(RowClicks, {i \in DOMAIN rows : rows[i].min = m})

\* What has become of counts: all are there, or there twice if a flush was left
\* midway and begun again, never lost.
Kept(rest, all) == rest >= all /\ (repeated \/ rest = all)

\* Every input counted is in memory or on disk, and a minute's count of an app is
\* one row of events_buffer, of which the backend keeps the first only: unless a
\* flush failed or was interrupted after its first row, or took so long that the
\* bucket it opened is the one the next flush opens as well (agent.py:974-1005).
CountsKept ==
  pc # "killed" =>
    /\ \A m \in Minutes, a \in Apps :
          /\ Kept((IF counts.bucket = m /\ a \notin flush.done THEN counts.apps[a] ELSE 0)
                     + SavedKeys(m, a),
                  typed[m][a])
          /\ repeated \/ slow \/ Cardinality(RowsOf(m, a)) <= 1
    /\ \A m \in Minutes :
          Kept((IF counts.bucket = m /\ flush.app \notin flush.done THEN counts.clicks ELSE 0)
                  + SavedClicks(m),
               clicked[m])
    /\ \A a \in Apps :
          Kept((IF pc = "bumped" THEN 0 ELSE counts.keys[a]) + keyCounts[a],
               SumOver([m \in Minutes |-> typed[m][a]]))

\* Sessions follow each other, and every input lies in one, but for the inputs that
\* come after check_idle or the exit has written the end of theirs.
SessionsTrue ==
    /\ \A i, j \in DOMAIN sessions : i < j =>
          /\ sessions[i].end # Never
          /\ sessions[i].start <= sessions[i].end
          /\ sessions[i].end <= sessions[j].start
    /\ \A t \in inputs : \E i \in DOMAIN sessions :
          /\ sessions[i].start <= t
          /\ sessions[i].end = Never \/ t <= sessions[i].end

\* "It's safe to interrupt or lose network" (README.md:258-259), as far as it goes: a
\* loop that came to its end, asked or not, has left nothing in memory but inputs
\* that came during its exit, and no session open; and if its last pass got through,
\* nothing unsynced that one batch could hold.
LastPush ==
    pc = "gone" /\ ~failed =>
        /\ SumOver(counts.apps) + counts.clicks <= late
        /\ late > 0 \/ \A i \in DOMAIN sessions : sessions[i].end # Never
        /\ pushed => Cardinality(Unsynced) <= Max({0, Len(rows) - BatchLimit})

\* The window's number is between what had been typed when it asked and what has
\* been typed when it shows it, unless a flush was writing meanwhile, which it takes
\* no lock against (agent.py:1197-1211).
TodayIsTrue ==
    [][AddPending => today.torn \/ repeated \/ (today.from <= Shown /\ Shown <= KeysTyped)]_vars
=============================================================================
