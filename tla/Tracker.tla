-------------------------------- MODULE Tracker --------------------------------
(***************************************************************************)
(* The counting core of the desktop agent (tracker.rs).  Four threads      *)
(* share its state behind one mutex: the input hook; the one-second tick;  *)
(* the window, which asks for today's numbers; and the main thread, which  *)
(* runs shutdown when the app quits and then ends the process.             *)
(*                                                                         *)
(* An action is what happens under the lock at one go, or one call of the  *)
(* store.  The state lock is never held during a store call, so counts a   *)
(* flush has taken are for a while neither in memory nor on disk.          *)
(*                                                                         *)
(* Mouse travel behaves like clicks and backspaces like keystrokes, and    *)
(* all of a run is one local day, so none of these is told apart here.     *)
(***************************************************************************)
EXTENDS Integers, Sequences, Sums

CONSTANTS
    Apps,            \* names the foreground watcher can report
    NoApp,
    MinuteLength,    \* 60 s
    FlushInterval,   \* FLUSH_INTERVAL_S
    IdleThreshold,   \* IDLE_THRESHOLD_S
    MaxTime,         \* bound: the clock stops here
    MaxInputs        \* bound: input events

ASSUME TrackerAssumption ==
    /\ NoApp \notin Apps
    /\ IsFiniteSet(Apps)
    /\ MinuteLength \in Nat \ {0}
    /\ FlushInterval \in Nat /\ FlushInterval >= MinuteLength
    /\ IdleThreshold \in Nat
    /\ MaxTime \in Nat
    /\ MaxInputs \in Nat

VARIABLES
    now,             \* the clock
    state,           \* State: the counts since the last flush
    session,         \* State: the session fields
    pc,              \* per flushing thread: where it is in tick or shutdown
    at,              \* the now that tick was called with
    flush,           \* per flushing thread: the counts it has taken
    todo,            \* the session row tick is about to write or close
    saved,           \* events_buffer: rows and sums per minute and app
    keyCounts,       \* key_counts, summed up per app
    sessions,        \* the sessions table
    today,           \* the window's call of today
    typed,           \* history: keystrokes, by bucket and app
    clicked,         \* history: clicks, by bucket
    inputs,          \* history: times of the inputs that were counted
    failed           \* history: some call of the store failed

countVars   == <<state, flush, saved, keyCounts>>
sessionVars == <<session, todo, sessions>>
historyVars == <<typed, clicked, inputs, failed>>
vars == <<now, pc, at, today, countVars, sessionVars, historyVars>>

-----------------------------------------------------------------------------
Threads == {"tick", "main"}
Never   == -1

minute_start(t) == t \div MinuteLength
Minutes == 0..minute_start(MaxTime)

NoCall  == [pc |-> "idle", disk |-> 0, from |-> 0, torn |-> FALSE]
NoTodo  == [id |-> 0, time |-> Never]

NoKeys == [a \in Apps |-> 0]
Nothing ==
    [bucket |-> 0, apps |-> NoKeys, clicks |-> 0, app |-> NoApp,
     rows |-> {}, keys |-> FALSE]

\* s.keystrokes + rows on disk, and all that was typed.
KeysOnDisk == SumOver([m \in Minutes |-> SumOver([a \in Apps |-> saved[m][a].keys])])
KeysTyped  == SumOver([m \in Minutes |-> SumOver(typed[m])])

\* Counts t has taken and not handed to the store yet.
KeysHeld(t, m, a) ==
    IF flush[t].bucket = m /\ a \in flush[t].rows THEN flush[t].apps[a] ELSE 0
ClicksHeld(t, m) ==
    IF flush[t].bucket = m /\ flush[t].app \in flush[t].rows THEN flush[t].clicks ELSE 0

Init ==
    /\ now = 0
    /\ state = [bucket |-> minute_start(0), keystrokes |-> 0, apps |-> NoKeys,
                clicks |-> 0, last_flush |-> 0]
    /\ session = [active |-> FALSE, id |-> 0, pending |-> Never, last_event |-> 0]
    /\ pc = [t \in Threads |-> IF t = "tick" THEN "sleep" ELSE "run"]
    /\ at = 0
    /\ flush = [t \in Threads |-> Nothing]
    /\ todo = NoTodo
    /\ saved = [m \in Minutes |-> [a \in Apps |-> [rows |-> 0, keys |-> 0, clicks |-> 0]]]
    /\ keyCounts = NoKeys
    /\ sessions = <<>>
    /\ today = NoCall
    /\ typed = [m \in Minutes |-> NoKeys]
    /\ clicked = [m \in Minutes |-> 0]
    /\ inputs = {}
    /\ failed = FALSE

Alive == pc["main"] # "gone"

Clock ==
    /\ Alive
    /\ now < MaxTime
    /\ now' = now + 1
    /\ UNCHANGED <<pc, at, today, countVars, sessionVars, historyVars>>

-----------------------------------------------------------------------------
\* Fault: last_event_ts is only set by the event that starts a session.
Touched_OnlyStart ==
    [session EXCEPT !.last_event = IF session.active THEN @ ELSE now,
                    !.active = TRUE,
                    !.pending = IF session.active THEN @ ELSE now]

\* touch: the event is recent input, and starts a session if none is on.
Touched ==
    [session EXCEPT !.last_event = now,
                    !.active = TRUE,
                    !.pending = IF session.active THEN @ ELSE now]

Input ==
    /\ Alive
    /\ KeysTyped + SumOver(clicked) < MaxInputs
    /\ session' = Touched
    /\ inputs' = inputs \cup {now}

on_key(app) ==
    /\ Input
    /\ state' = [state EXCEPT !.keystrokes = @ + 1, !.apps[app] = @ + 1]
    /\ typed' = [typed EXCEPT ![state.bucket][app] = @ + 1]
    /\ UNCHANGED <<now, pc, at, today, flush, saved, keyCounts, todo, sessions, clicked,
                   failed>>

on_click ==
    /\ Input
    /\ state' = [state EXCEPT !.clicks = @ + 1]
    /\ clicked' = [clicked EXCEPT ![state.bucket] = @ + 1]
    /\ UNCHANGED <<now, pc, at, today, flush, saved, keyCounts, todo, sessions, typed,
                   failed>>

-----------------------------------------------------------------------------
\* tick, first look at the state: take a session row to be written, or else
\* end the session if input went quiet.
TickBegin ==
    LET quiet == /\ session.active
                 /\ session.pending = Never
                 /\ now - session.last_event > IdleThreshold
    IN
    /\ Alive
    /\ pc["tick"] = "sleep"
    /\ at' = now
    /\ session' = [session EXCEPT !.pending = Never,
                                  !.active = @ /\ ~quiet,
                                  !.id = IF quiet THEN 0 ELSE @]
    /\ \/ /\ session.pending # Never
          /\ todo' = [id |-> 0, time |-> session.pending]
          /\ pc' = [pc EXCEPT !["tick"] = "start"]
       \/ /\ quiet /\ session.id # 0
          /\ todo' = [id |-> session.id, time |-> session.last_event]
          /\ pc' = [pc EXCEPT !["tick"] = "end"]
       \/ /\ session.pending = Never
          /\ ~(quiet /\ session.id # 0)
          /\ pc' = [pc EXCEPT !["tick"] = "due"]
          /\ UNCHANGED todo
    /\ UNCHANGED <<now, today, countVars, sessions, historyVars>>

\* A call of the store succeeds or fails; at most one call of a run fails.
Answer(ok) ==
    /\ ~ok => ~failed
    /\ failed' = (failed \/ ~ok)

\* Fault: the state gets an id although the row was not written.
StartSession_Anyway(ok) ==
    /\ Alive
    /\ pc["tick"] = "start"
    /\ sessions' = IF ok THEN Append(sessions, [start |-> todo.time, end |-> Never])
                         ELSE sessions
    /\ Answer(ok)
    /\ pc' = [pc EXCEPT !["tick"] = "open"]
    /\ todo' = [todo EXCEPT !.id = Len(sessions) + 1]
    /\ UNCHANGED <<now, at, today, session, countVars, typed, clicked, inputs>>

\* store.start_session, which gives the id of the new row.
StartSession(ok) ==
    /\ Alive
    /\ pc["tick"] = "start"
    /\ sessions' = IF ok THEN Append(sessions, [start |-> todo.time, end |-> Never])
                         ELSE sessions
    /\ Answer(ok)
    /\ pc' = [pc EXCEPT !["tick"] = IF ok THEN "open" ELSE "due"]
    /\ todo' = IF ok THEN [todo EXCEPT !.id = Len(sessions) + 1] ELSE NoTodo
    /\ UNCHANGED <<now, at, today, session, countVars, typed, clicked, inputs>>

\* The lock again: the row's id goes into the state.  Until then shutdown finds
\* no session to close.
OpenSession ==
    /\ Alive
    /\ pc["tick"] = "open"
    /\ session' = [session EXCEPT !.id = todo.id]
    /\ pc' = [pc EXCEPT !["tick"] = "due"]
    /\ todo' = NoTodo
    /\ UNCHANGED <<now, at, today, sessions, countVars, historyVars>>

\* store.end_session.
EndSession(ok) ==
    /\ Alive
    /\ pc["tick"] = "end"
    /\ sessions' = IF ok THEN [sessions EXCEPT ![todo.id].end = todo.time] ELSE sessions
    /\ Answer(ok)
    /\ pc' = [pc EXCEPT !["tick"] = "due"]
    /\ todo' = NoTodo
    /\ UNCHANGED <<now, at, today, session, countVars, typed, clicked, inputs>>

\* Is a flush due?  If not, the tick is over.
Due ==
    /\ Alive
    /\ pc["tick"] = "due"
    /\ pc' = [pc EXCEPT !["tick"] =
                IF at - state.last_flush >= FlushInterval THEN "take" ELSE "sleep"]
    /\ UNCHANGED <<now, at, today, countVars, sessionVars, historyVars>>

-----------------------------------------------------------------------------
\* Fault: one row per minute, for the app in focus at flush time.
Taken_FocusOnly(app) ==
    [bucket |-> state.bucket, apps |-> state.apps, clicks |-> state.clicks, app |-> app,
     rows |-> {app},
     keys |-> \E a \in Apps : state.apps[a] > 0]

\* What a flush takes out of the state: a row per app that had keystrokes, and
\* one for the app in focus now, which gets the clicks.
Taken(app) ==
    [bucket |-> state.bucket, apps |-> state.apps, clicks |-> state.clicks, app |-> app,
     rows |-> {a \in Apps : state.apps[a] > 0} \cup {app},
     keys |-> \E a \in Apps : state.apps[a] > 0]

\* Fault: the shown counter is not reset.
Take_Shown(t, n, app) ==
    /\ flush' = [flush EXCEPT ![t] = Taken(app)]
    /\ state' = [bucket |-> minute_start(n), keystrokes |-> state.keystrokes,
                 apps |-> NoKeys, clicks |-> 0, last_flush |-> n]
    /\ pc' = [pc EXCEPT ![t] = "rows"]
    /\ today' = [today EXCEPT !.torn = today.pc = "disk"]
    /\ UNCHANGED <<now, at, saved, keyCounts, sessionVars, historyVars>>

\* Fault: the bucket keeps its minute.
Take_SameBucket(t, n, app) ==
    /\ flush' = [flush EXCEPT ![t] = Taken(app)]
    /\ state' = [bucket |-> state.bucket, keystrokes |-> 0,
                 apps |-> NoKeys, clicks |-> 0, last_flush |-> n]
    /\ pc' = [pc EXCEPT ![t] = "rows"]
    /\ today' = [today EXCEPT !.torn = today.pc = "disk"]
    /\ UNCHANGED <<now, at, saved, keyCounts, sessionVars, historyVars>>

\* flush, under the lock: take the counts and open the bucket of now.
Take(t, n, app) ==
    /\ flush' = [flush EXCEPT ![t] = Taken(app)]
    /\ state' = [bucket |-> minute_start(n), keystrokes |-> 0,
                 apps |-> NoKeys, clicks |-> 0, last_flush |-> n]
    /\ pc' = [pc EXCEPT ![t] = "rows"]
    /\ today' = [today EXCEPT !.torn = today.pc = "disk"]
    /\ UNCHANGED <<now, at, saved, keyCounts, sessionVars, historyVars>>

FlushTick(app) ==
    /\ Alive
    /\ pc["tick"] = "take"
    /\ Take("tick", at, app)

\* The app quits: shutdown starts with a flush.
Quit(app) ==
    /\ pc["main"] = "run"
    /\ Take("main", now, app)

\* store.insert_bucket for one of the apps; a row of zeros is not written, and
\* a failure is recorded for the window and otherwise ignored.
InsertBucket(t, a, ok) ==
    LET m      == flush[t].bucket
        keys   == flush[t].apps[a]
        clicks == IF a = flush[t].app THEN flush[t].clicks ELSE 0
        row    == saved[m][a]
    IN
    /\ Alive
    /\ pc[t] = "rows"
    /\ a \in flush[t].rows
    /\ flush' = [flush EXCEPT ![t].rows = @ \ {a}]
    /\ IF keys + clicks > 0 /\ ok
       THEN saved' = [saved EXCEPT ![m][a] =
                        [rows |-> row.rows + 1, keys |-> row.keys + keys,
                         clicks |-> row.clicks + clicks]]
       ELSE UNCHANGED saved
    /\ Answer(keys + clicks = 0 \/ ok)
    /\ UNCHANGED <<now, state, pc, at, today, keyCounts, sessionVars, typed,
                   clicked, inputs>>

\* store.bump_keys, one transaction, ends the flush.
BumpKeys(t, ok) ==
    /\ Alive
    /\ pc[t] = "rows"
    /\ flush[t].rows = {}
    /\ IF flush[t].keys /\ ok
       THEN keyCounts' = [a \in Apps |-> keyCounts[a] + flush[t].apps[a]]
       ELSE UNCHANGED keyCounts
    /\ flush' = [flush EXCEPT ![t] = Nothing]
    /\ Answer(~flush[t].keys \/ ok)
    /\ pc' = [pc EXCEPT ![t] = IF t = "tick" THEN "sleep" ELSE "close"]
    /\ UNCHANGED <<now, state, at, today, saved, sessionVars, typed, clicked, inputs>>

\* shutdown closes the session row, and the process is gone with all its threads:
\* the lock, the call and the exit, a moment of the main thread, are one step.
CloseAndExit(ok) ==
    /\ pc["main"] = "close"
    /\ sessions' = IF ok /\ session.id # 0
                   THEN [sessions EXCEPT ![session.id].end = session.last_event]
                   ELSE sessions
    /\ session' = [session EXCEPT !.active = FALSE, !.id = 0]
    /\ Answer(session.id = 0 \/ ok)
    /\ pc' = [pc EXCEPT !["main"] = "gone"]
    /\ UNCHANGED <<now, at, today, todo, countVars, typed, clicked, inputs>>

-----------------------------------------------------------------------------
\* today_totals: the sum on disk, or zero when it cannot be read; a flush under
\* way, like a failing read, leaves it short of what was typed.
ReadDisk(ok) ==
    /\ Alive
    /\ today.pc = "idle"
    /\ today' = [pc |-> "disk", disk |-> IF ok THEN KeysOnDisk ELSE 0,
                 from |-> KeysTyped,
                 torn |-> ~ok \/ \E t \in Threads : flush[t].rows # {}]
    /\ UNCHANGED <<now, pc, at, countVars, sessionVars, historyVars>>

\* today: what is on disk plus what is still waiting for the next flush.
Shown == today.disk + state.keystrokes

AddPending ==
    /\ Alive
    /\ today.pc = "disk"
    /\ today' = NoCall
    /\ UNCHANGED <<now, pc, at, countVars, sessionVars, historyVars>>

Write(t) ==
    \/ \E a \in Apps, ok \in BOOLEAN : InsertBucket(t, a, ok)
    \/ \E ok \in BOOLEAN : BumpKeys(t, ok)

Next ==
    \/ Clock
    \/ \E app \in Apps : on_key(app)
    \/ on_click
    \/ TickBegin
    \/ \E ok \in BOOLEAN : StartSession(ok) \/ EndSession(ok)
    \/ OpenSession
    \/ Due
    \/ \E app \in Apps : FlushTick(app) \/ Quit(app)
    \/ \E t \in Threads : Write(t)
    \/ \E ok \in BOOLEAN : CloseAndExit(ok)
    \/ \E ok \in BOOLEAN : ReadDisk(ok)
    \/ AddPending

Spec == Init /\ [][Next]_vars

-----------------------------------------------------------------------------
TypeOK ==
    /\ now \in 0..MaxTime
    /\ state \in [bucket : Minutes, keystrokes : Nat, apps : [Apps -> Nat],
                  clicks : Nat, last_flush : 0..MaxTime]
    /\ session \in [active : BOOLEAN, id : Nat, pending : 0..MaxTime \cup {Never},
                    last_event : 0..MaxTime]
    /\ session.id <= Len(sessions)
    /\ pc["tick"] \in {"sleep", "start", "open", "end", "due", "take", "rows"}
    /\ pc["main"] \in {"run", "rows", "close", "gone"}
    /\ at \in 0..MaxTime
    /\ flush \in [Threads -> [bucket : Minutes, apps : [Apps -> Nat], clicks : Nat,
                              app : Apps \cup {NoApp}, rows : SUBSET Apps, keys : BOOLEAN]]
    /\ saved \in [Minutes -> [Apps -> [rows : Nat, keys : Nat, clicks : Nat]]]
    /\ keyCounts \in [Apps -> Nat]
    /\ typed \in [Minutes -> [Apps -> Nat]]
    /\ clicked \in [Minutes -> Nat]
    /\ inputs \subseteq 0..MaxTime

\* What has become of a count: all of it is there, or less if a call of the store
\* failed, never more.
Kept(rest, all) == rest <= all /\ (failed \/ rest = all)

\* Whatever was typed in a bucket is in the state, in the hands of a flush, or in
\* the rows on disk.
KeysKept ==
    \A m \in Minutes, a \in Apps :
        Kept((IF state.bucket = m THEN state.apps[a] ELSE 0)
                + KeysHeld("tick", m, a) + KeysHeld("main", m, a) + saved[m][a].keys,
             typed[m][a])

\* The same of clicks, which follow the app in focus at flush time.
ClicksKept ==
    \A m \in Minutes :
        Kept((IF state.bucket = m THEN state.clicks ELSE 0)
                + ClicksHeld("tick", m) + ClicksHeld("main", m)
                + SumOver([a \in Apps |-> saved[m][a].clicks]),
             clicked[m])

\* The per-key table counts the same keystrokes as the rows that are synced.
KeyTableAgrees ==
    \A a \in Apps :
        Kept(state.apps[a] + flush["tick"].apps[a] + flush["main"].apps[a] + keyCounts[a],
             SumOver([m \in Minutes |-> typed[m][a]]))

\* Nothing that was counted is lost or doubled between hook, tick, shutdown and
\* disk, in either table; a failing call of the store loses what it was given and
\* doubles nothing (tracker.rs:188-224).
CountsKept == KeysKept /\ ClicksKept /\ KeyTableAgrees

\* Until the app quits it writes one row per minute and app: a second one would
\* be taken for a duplicate by the backend.  AgentSync assumes this of a process.
OneRowPerMinute ==
    pc["main"] = "run" => \A m \in Minutes, a \in Apps : saved[m][a].rows <= 1

\* While the process lives, every input lies in a session: one in the table,
\* or one whose row is about to be written.
InputsInSessions ==
    Alive /\ ~failed => \A t \in inputs :
        \/ \E i \in DOMAIN sessions :
             /\ sessions[i].start <= t
             /\ sessions[i].end = Never \/ t <= sessions[i].end
        \/ session.pending # Never /\ session.pending <= t
        \/ pc["tick"] = "start" /\ todo.time <= t

\* Sessions do not overlap, and only the last one can be open.
SessionsInOrder ==
    ~failed => \A i, j \in DOMAIN sessions : i < j =>
        /\ sessions[i].end # Never
        /\ sessions[i].start <= sessions[i].end
        /\ sessions[i].end <= sessions[j].start

\* The sessions table is a history of use: in order, and nothing left out.
SessionsTrue == InputsInSessions /\ SessionsInOrder

\* The window never shows a keystroke that was not typed, and shows all those
\* typed before it asked unless a flush was under way meanwhile, or the disk
\* could not be read (tracker.rs:244-252).
TodayIsTrue ==
    [][AddPending => /\ Shown <= KeysTyped
                     /\ today.torn \/ failed \/ Shown >= today.from]_vars
=============================================================================
