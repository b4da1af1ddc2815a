---------------------------- MODULE PyAgent_proofs -----------------------------
(***************************************************************************)
(* The Python agent for any number of apps, any lengths of a minute, of    *)
(* the intervals and of a batch, and every interleaving of loop, listeners *)
(* and window, with the store failing once or Ctrl+C anywhere.             *)
(*                                                                         *)
(* The actions fall into the classes of steps defined below (lemma Steps); *)
(* every invariant is proved for the classes.                              *)
(***************************************************************************)
EXTENDS PyAgent, Numbers_proofs, TLAPS

Counts     == [bucket : Minutes, apps : [Apps -> Nat], clicks : Nat, keys : [Apps -> Nat]]
Hand       == [app : Apps \cup {NoApp}, todo : SUBSET Apps, done : SUBSET Apps]
Row        == [min : Minutes, app : Apps, keys : Nat, clicks : Nat, synced : BOOLEAN]
SessionRow == [start : 0..MaxTime, end : 0..MaxTime \cup {Never}]

\* What TypeOK leaves open: the types of the history, where the loop is when it is in
\* its finally block, and that its hands are empty when it is not flushing.
Shape ==
    /\ rows \in Seq(Row) /\ sessions \in Seq(SessionRow)
    /\ typed \in [Minutes -> [Apps -> Nat]] /\ clicked \in [Minutes -> Nat]
    /\ inputs \subseteq 0..MaxTime /\ late \in Nat
    /\ pushed \in BOOLEAN /\ failed \in BOOLEAN /\ raised \in BOOLEAN
    /\ repeated \in BOOLEAN /\ slow \in BOOLEAN
    /\ today \in [pc : {"idle", "disk"}, disk : Nat, from : Nat, torn : BOOLEAN]
    /\ at <= now
    /\ pc \notin {"rows", "killed"} => flush = NoFlush
    /\ pc = "rows" => flush.app \in Apps
    /\ pc \in {"top", "sleep", "ending", "ended", "due"} => ~final
    /\ pc \in {"finally", "exit", "stop", "gone"} => final
    /\ pc \in {"ending", "ended"} => session.active
    /\ pc = "killed" => listening = {} /\ ui = "closed"

Types == TypeOK /\ Shape

-----------------------------------------------------------------------------
\* Clock and window, next to the loop.
Aside ==
    /\ now' \in 0..MaxTime /\ now <= now'
    /\ UNCHANGED <<loopVars, counts, session, listening, storeVars, historyVars>>

\* The loop goes on, and takes nothing along but the time or the rows to send.
Moved ==
    /\ \/ pc = "top" /\ pc' \in {"sleep", "finally"}
       \/ pc = "sleep" /\ pc' = "due"
       \/ pc = "sleep" /\ pc' = "ending" /\ session.active
       \/ pc = "due" /\ pc' = "sync"
       \/ pc = "stop" /\ pc' = "sync"
       \/ pc \in {"sync", "wire"} /\ pc' = (IF final THEN "gone" ELSE "top")
       \/ pc = "sync" /\ pc' = "wire"
    /\ final' = (final \/ pc' = "finally")
    /\ at' = (IF pc' = "due" THEN now ELSE at)
    /\ last' \in [flush : 0..MaxTime, sync : 0..MaxTime] /\ last'.flush = last.flush
    /\ batch' \subseteq Unsynced /\ listening' \subseteq listening /\ pushed' \in BOOLEAN
    /\ pc' = "wire" => Cardinality(batch') = Min({BatchLimit, Cardinality(Unsynced)})
    /\ pushed' => pushed \/ (pc' = "gone" /\ Unsynced = {})
    /\ UNCHANGED <<now, ui, counts, flush, session, registered, storeVars, today, typed, clicked,
                   inputs, late, failed, raised, repeated, slow>>

\* Something raises; in the finally block without the store's fault only on the wire.
Thrown ==
    /\ pc \in {"sleep", "ending", "ended", "rows", "keys", "bumped", "sync", "wire", "exit"}
    /\ Raise
    /\ failed' \in BOOLEAN /\ raised' \in BOOLEAN /\ (failed => failed')
    /\ failed' \/ ~final \/ pc = "wire"
    /\ UNCHANGED <<now, ui, at, last, counts, session, registered, storeVars, today, typed, clicked,
                   inputs, late, pushed, slow>>

\* An input that no session could be started for.
Missed ==
    /\ pc # "killed" /\ ~Locked /\ ~session.active /\ failed'
    /\ session' = [active |-> FALSE, id |-> session.id, last_event |-> now]
    /\ listening' \subseteq listening
    /\ UNCHANGED <<now, ui, loopVars, counts, registered, storeVars, today, typed, clicked, inputs,
                   late, pushed, raised, repeated, slow>>

\* An input that counts.
Noticed ==
    /\ pc # "killed" /\ ~Locked
    /\ session' = [active |-> TRUE, last_event |-> now,
                   id |-> IF session.active THEN session.id ELSE Len(sessions) + 1]
    /\ sessions' = (IF session.active THEN sessions
                    ELSE Append(sessions, [start |-> now, end |-> Never]))
    /\ Counted
    /\ UNCHANGED <<now, ui, loopVars, listening, registered, rows, keyCounts, today, pushed, failed,
                   raised, repeated, slow>>

Pressed(app) ==
    /\ Noticed
    /\ counts' = [bucket |-> counts.bucket, apps |-> [counts.apps EXCEPT ![app] = @ + 1],
                  clicks |-> counts.clicks, keys |-> [counts.keys EXCEPT ![app] = @ + 1]]
    /\ typed' = [typed EXCEPT ![counts.bucket][app] = @ + 1]
    /\ UNCHANGED clicked

Clicked ==
    /\ Noticed
    /\ counts' = [bucket |-> counts.bucket, apps |-> counts.apps,
                  clicks |-> counts.clicks + 1, keys |-> counts.keys]
    /\ clicked' = [clicked EXCEPT ![counts.bucket] = @ + 1]
    /\ UNCHANGED typed

\* The end of a session is written.
Closed ==
    /\ \/ pc = "ending" /\ pc' = "ended"
          /\ sessions' = [sessions EXCEPT ![session.id].end = session.last_event]
       \/ pc = "exit" /\ pc' = "stop" /\ session.active
          /\ sessions' = [sessions EXCEPT ![session.id].end = now]
       \/ pc = "exit" /\ pc' = "stop" /\ ~session.active /\ UNCHANGED sessions
    /\ UNCHANGED <<now, ui, final, at, last, counts, flush, batch, session, listening, registered,
                   rows, keyCounts, today, historyVars>>

Begun(app) ==
    /\ \/ pc = "due" /\ at - last.flush >= FlushInterval
       \/ pc = "finally"
    /\ pc' = "rows"
    /\ flush' = [app |-> app, todo |-> {a \in Apps : counts.apps[a] > 0} \cup {app}, done |-> {}]
    /\ UNCHANGED <<now, ui, final, at, last, counts, batch, session, listening, registered,
                   storeVars, today, historyVars>>

RowOf(a) == [min |-> counts.bucket, app |-> a, keys |-> counts.apps[a],
             clicks |-> IF a = flush.app THEN counts.clicks ELSE 0, synced |-> FALSE]

Wrote(a) ==
    /\ pc = "rows" /\ a \in flush.todo
    /\ rows' = Append(rows, RowOf(a))
    /\ flush' = [app |-> flush.app, todo |-> flush.todo \ {a}, done |-> flush.done \cup {a}]
    /\ today' = [pc |-> today.pc, disk |-> today.disk, from |-> today.from,
                 torn |-> today.torn \/ today.pc = "disk"]
    /\ UNCHANGED <<now, ui, pc, final, at, last, counts, batch, session, listening, registered,
                   keyCounts, sessions, historyVars>>

Skipped(a) ==
    /\ pc = "rows" /\ a \in flush.todo
    /\ counts.apps[a] = 0 /\ (a = flush.app => counts.clicks = 0)
    /\ flush' = [app |-> flush.app, todo |-> flush.todo \ {a}, done |-> flush.done]
    /\ UNCHANGED <<now, ui, pc, final, at, last, counts, batch, session, listening, registered,
                   storeVars, today, historyVars>>

Bumped ==
    /\ pc = "keys" /\ pc' = "bumped"
    /\ keyCounts' = [a \in Apps |-> keyCounts[a] + counts.keys[a]]
    /\ UNCHANGED <<now, ui, final, at, last, counts, flush, batch, session, listening, registered,
                   rows, sessions, today, historyVars>>

Flushed ==
    /\ pc = "bumped" /\ pc' = (IF final THEN "exit" ELSE "sync")
    /\ counts' = [bucket |-> counts.bucket, apps |-> counts.apps, clicks |-> counts.clicks,
                  keys |-> NoKeys]
    /\ last' = [flush |-> IF final THEN last.flush ELSE at, sync |-> last.sync]
    /\ UNCHANGED <<now, ui, final, at, flush, batch, session, listening, registered, storeVars,
                   today, historyVars>>

Marked ==
    /\ pc = "wire" /\ pc' = (IF final THEN "gone" ELSE "top") /\ batch' = {}
    /\ rows' = [i \in DOMAIN rows |-> IF i \in batch THEN [rows[i] EXCEPT !.synced = TRUE] ELSE rows[i]]
    /\ last' \in [flush : 0..MaxTime, sync : 0..MaxTime] /\ last'.flush = last.flush
    /\ listening' \subseteq listening /\ pushed' = final
    /\ UNCHANGED <<now, ui, final, at, counts, flush, session, registered, keyCounts, sessions, today,
                   typed, clicked, inputs, late, failed, raised, repeated, slow>>

-----------------------------------------------------------------------------
LEMMA Fields ==
    ASSUME Types
    PROVE  /\ counts.bucket \in Minutes /\ counts.apps \in [Apps -> Nat]
           /\ counts.clicks \in Nat /\ counts.keys \in [Apps -> Nat]
           /\ counts = [bucket |-> counts.bucket, apps |-> counts.apps, clicks |-> counts.clicks,
                        keys |-> counts.keys]
           /\ flush.app \in Apps \cup {NoApp} /\ flush.todo \subseteq Apps /\ flush.done \subseteq Apps
           /\ flush = [app |-> flush.app, todo |-> flush.todo, done |-> flush.done]
           /\ last.flush \in 0..MaxTime /\ last.sync \in 0..MaxTime
           /\ last = [flush |-> last.flush, sync |-> last.sync]
           /\ session.active \in BOOLEAN /\ session.id \in 0..Len(sessions)
           /\ session.last_event \in 0..MaxTime
           /\ session = [active |-> session.active, id |-> session.id,
                         last_event |-> session.last_event]
           /\ today.pc \in {"idle", "disk"} /\ today.disk \in Nat /\ today.from \in Nat
           /\ today.torn \in BOOLEAN
           /\ today = [pc |-> today.pc, disk |-> today.disk, from |-> today.from,
                       torn |-> today.torn]
  BY DEF Types, TypeOK, Shape

\* Every action is a step of one of the classes.
LEMMA InputSteps ==
    ASSUME Types, NEW ok \in BOOLEAN
    PROVE  /\ \A app \in Apps : on_press(app, ok) => Missed \/ Pressed(app)
           /\ on_click(ok) => Missed \/ Clicked
  <1>1. ASSUME NEW l, Touch(l, ok)
        PROVE  /\ l \in listening /\ ~Locked /\ pc # "killed" /\ listening' \subseteq listening
               /\ UNCHANGED <<now, ui, loopVars, registered, rows, keyCounts, today, pushed, raised,
                              repeated, slow>>
               /\ session.active \/ ok =>
                    /\ failed' = failed /\ listening' = listening
                    /\ session' = [active |-> TRUE, last_event |-> now,
                                   id |-> IF session.active THEN session.id ELSE Len(sessions) + 1]
                    /\ sessions' = IF session.active THEN sessions
                                   ELSE Append(sessions, [start |-> now, end |-> Never])
               /\ ~(session.active \/ ok) =>
                    /\ failed' /\ UNCHANGED sessions
                    /\ session' = [active |-> FALSE, id |-> session.id, last_event |-> now]
    <2>1. /\ l \in listening /\ ~Locked /\ listening' \subseteq listening
          /\ UNCHANGED <<now, ui, loopVars, registered, rows, keyCounts, today, pushed, raised,
                         repeated, slow>>
      BY <1>1 DEF Touch
    <2>2. pc # "killed"
      BY <2>1 DEF Types, Shape
    <2>3. CASE session.active
      <3>1. failed' = failed /\ listening' = listening /\ sessions' = sessions
            /\ session' = [session EXCEPT !.last_event = now]
        BY <1>1, <2>3 DEF Touch, Stored, Types, Shape
      <3>2. QED
        BY <2>1, <2>2, <2>3, <3>1, Fields
    <2>4. CASE ~session.active /\ ok
      <3>1. /\ failed' = failed /\ listening' = listening
            /\ sessions' = Append(sessions, [start |-> now, end |-> Never])
            /\ session' = [active |-> TRUE, id |-> Len(sessions) + 1, last_event |-> now]
        BY <1>1, <2>4 DEF Touch, Stored, Types, Shape
      <3>2. QED
        BY <2>1, <2>2, <2>4, <3>1
    <2>5. CASE ~session.active /\ ~ok
      <3>1. failed' /\ UNCHANGED sessions /\ session' = [session EXCEPT !.last_event = now]
        BY <1>1, <2>5 DEF Touch, Stored
      <3>2. QED
        BY <2>1, <2>2, <2>5, <3>1, Fields
    <2>6. QED
      BY <2>3, <2>4, <2>5
  <1>2. ASSUME NEW app \in Apps, on_press(app, ok)
        PROVE  Missed \/ Pressed(app)
    <2>1. Touch("keyboard", ok) /\ UNCHANGED clicked
      BY <1>2 DEF on_press
    <2>2. CASE session.active \/ ok
      <3>1. /\ Counted /\ typed' = [typed EXCEPT ![counts.bucket][app] = @ + 1]
            /\ counts' = [counts EXCEPT !.apps[app] = @ + 1, !.keys[app] = @ + 1]
        BY <1>2, <2>2 DEF on_press
      <3>2. counts' = [bucket |-> counts.bucket, apps |-> [counts.apps EXCEPT ![app] = @ + 1],
                       clicks |-> counts.clicks, keys |-> [counts.keys EXCEPT ![app] = @ + 1]]
        BY <3>1, Fields
      <3>3. QED
        BY <1>1, <2>1, <2>2, <3>1, <3>2 DEF Pressed, Noticed
    <2>3. CASE ~(session.active \/ ok)
      BY <1>1, <1>2, <2>1, <2>3 DEF on_press, Missed, storeVars
    <2>4. QED
      BY <2>2, <2>3
  <1>3. ASSUME on_click(ok)
        PROVE  Missed \/ Clicked
    <2>1. Touch("mouse", ok) /\ UNCHANGED typed
      BY <1>3 DEF on_click
    <2>2. CASE session.active \/ ok
      <3>1. /\ Counted /\ clicked' = [clicked EXCEPT ![counts.bucket] = @ + 1]
            /\ counts' = [counts EXCEPT !.clicks = @ + 1]
        BY <1>3, <2>2 DEF on_click
      <3>2. counts' = [bucket |-> counts.bucket, apps |-> counts.apps,
                       clicks |-> counts.clicks + 1, keys |-> counts.keys]
        BY <3>1, Fields
      <3>3. QED
        BY <1>1, <2>1, <2>2, <3>1, <3>2 DEF Clicked, Noticed
    <2>3. CASE ~(session.active \/ ok)
      BY <1>1, <1>3, <2>1, <2>3 DEF on_click, Missed, storeVars
    <2>4. QED
      BY <2>2, <2>3
  <1>4. QED
    BY <1>2, <1>3

LEMMA StoreSteps ==
    ASSUME Types, NEW ok \in BOOLEAN
    PROVE  /\ EndSession(ok) => Closed \/ Thrown
           /\ \A a \in Apps : InsertBucket(a, ok) => Wrote(a) \/ Skipped(a) \/ Thrown
           /\ BumpKeys(ok) => Bumped \/ Thrown
           /\ EndAtExit(ok) => Closed \/ Thrown
           /\ Synced(ok) => Marked \/ Thrown
  <1>1. ASSUME EndSession(ok)
        PROVE  Closed \/ Thrown
    <2>1. CASE ok
      <3>1. failed' = failed
        BY <1>1, <2>1 DEF EndSession, Stored, Types, Shape
      <3>2. QED
        BY <1>1, <2>1, <3>1 DEF EndSession, Closed, Goto, historyVars
    <2>2. CASE ~ok
      <3>1. failed' = TRUE
        BY <1>1, <2>2 DEF EndSession, Stored
      <3>2. raised' \in BOOLEAN
        BY <1>1 DEF EndSession, Types, Shape
      <3>3. QED
        BY <1>1, <2>2, <3>1, <3>2 DEF EndSession, Thrown, storeVars
    <2>3. QED
      BY <2>1, <2>2
  <1>2. ASSUME NEW a \in Apps, InsertBucket(a, ok)
        PROVE  Wrote(a) \/ Skipped(a) \/ Thrown
    <2> DEFINE write == RowOf(a).keys + RowOf(a).clicks > 0
    <2>1. /\ pc = "rows" /\ a \in flush.todo /\ Stored(~write \/ ok)
          /\ UNCHANGED <<now, ui, at, last, counts, session, registered, keyCounts, sessions, typed,
                         clicked, inputs, late, pushed, raised, slow>>
          /\ IF write /\ ~ok
             THEN Raise /\ UNCHANGED <<rows, today>>
             ELSE /\ rows' = IF write THEN Append(rows, RowOf(a)) ELSE rows
                  /\ flush' = [flush EXCEPT !.todo = @ \ {a},
                                            !.done = IF write THEN @ \cup {a} ELSE @]
                  /\ today' = [today EXCEPT !.torn = @ \/ (write /\ today.pc = "disk")]
                  /\ UNCHANGED <<pc, final, repeated, batch, listening>>
      BY <1>2 DEF InsertBucket, RowOf
    <2>2. counts.apps[a] \in Nat /\ counts.clicks \in Nat
      BY Fields
    <2>3. CASE write /\ ok
      <3>1. /\ rows' = Append(rows, RowOf(a))
            /\ flush' = [flush EXCEPT !.todo = @ \ {a}, !.done = @ \cup {a}]
            /\ today' = [today EXCEPT !.torn = @ \/ today.pc = "disk"]
            /\ UNCHANGED <<pc, final, repeated, batch, listening>>
        BY <2>1, <2>3
      <3>2. failed' = failed
        BY <2>1, <2>3 DEF Stored, Types, Shape
      <3>3. /\ flush' = [app |-> flush.app, todo |-> flush.todo \ {a}, done |-> flush.done \cup {a}]
            /\ today' = [pc |-> today.pc, disk |-> today.disk, from |-> today.from,
                         torn |-> today.torn \/ today.pc = "disk"]
        BY <3>1, Fields
      <3>4. QED
        BY <2>1, <3>1, <3>2, <3>3 DEF Wrote, historyVars
    <2>4. CASE write /\ ~ok
      <3>1. failed' = TRUE /\ raised' \in BOOLEAN
        BY <2>1, <2>4 DEF Stored, Types, Shape
      <3>2. Thrown
        BY <2>1, <2>4, <3>1 DEF Thrown, storeVars
      <3>3. QED
        BY <3>2
    <2>5. CASE ~write
      <3>1. /\ rows' = rows
            /\ flush' = [flush EXCEPT !.todo = @ \ {a}]
            /\ today' = [today EXCEPT !.torn = @ \/ FALSE]
            /\ UNCHANGED <<pc, final, repeated, batch, listening>>
        <4>1. [flush EXCEPT !.todo = @ \ {a}, !.done = IF write THEN @ \cup {a} ELSE @]
                = [flush EXCEPT !.todo = @ \ {a}]
          BY <2>5, Fields
        <4> HIDE DEF write
        <4>2. QED
          BY <2>1, <2>5, <4>1
      <3>2. failed' = failed
        BY <2>1, <2>5 DEF Stored, Types, Shape
      <3>3. /\ flush' = [app |-> flush.app, todo |-> flush.todo \ {a}, done |-> flush.done]
            /\ today' = today
        BY <3>1, Fields
      <3>4. counts.apps[a] = 0 /\ (a = flush.app => counts.clicks = 0)
        BY <2>2, <2>5 DEF RowOf
      <3>5. QED
        BY <2>1, <3>1, <3>2, <3>3, <3>4 DEF Skipped, storeVars, historyVars
    <2>6. QED
      BY <2>3, <2>4, <2>5
  <1>3. ASSUME BumpKeys(ok)
        PROVE  Bumped \/ Thrown
    <2> DEFINE any == \E a \in Apps : counts.keys[a] > 0
    <2>1. /\ pc = "keys" /\ Stored(~any \/ ok)
          /\ UNCHANGED <<now, ui, at, last, counts, session, registered, rows, sessions, today, typed,
                         clicked, inputs, late, pushed, raised, slow>>
          /\ IF any /\ ~ok
             THEN Raise /\ UNCHANGED keyCounts
             ELSE /\ keyCounts' = [a \in Apps |-> keyCounts[a] + counts.keys[a]]
                  /\ Goto("bumped")
                  /\ UNCHANGED <<final, repeated, flush, batch>>
      BY <1>3 DEF BumpKeys
    <2> HIDE DEF any
    <2>2. CASE any /\ ~ok
      <3>1. failed' = TRUE /\ raised' \in BOOLEAN
        BY <2>1, <2>2 DEF Stored, Types, Shape
      <3>2. QED
        BY <2>1, <2>2, <3>1 DEF Thrown, storeVars
    <2>3. CASE ~any \/ ok
      <3>1. failed' = failed
        BY <2>1, <2>3 DEF Stored, Types, Shape
      <3>2. QED
        BY <2>1, <2>3, <3>1 DEF Bumped, Goto, historyVars
    <2>4. QED
      BY <2>2, <2>3
  <1>4. ASSUME EndAtExit(ok)
        PROVE  Closed \/ Thrown
    <2>1. CASE session.active /\ ~ok
      <3>1. failed' = TRUE /\ raised' \in BOOLEAN
        BY <1>4, <2>1 DEF EndAtExit, Stored, Types, Shape
      <3>2. QED
        BY <1>4, <2>1, <3>1 DEF EndAtExit, Thrown, storeVars
    <2>2. CASE ~session.active \/ ok
      <3>1. failed' = failed
        BY <1>4, <2>2 DEF EndAtExit, Stored, Types, Shape
      <3>2. QED
        BY <1>4, <2>2, <3>1 DEF EndAtExit, Closed, Goto, historyVars
    <2>3. QED
      BY <2>1, <2>2
  <1>5. ASSUME Synced(ok)
        PROVE  Marked \/ Thrown
    <2>1. CASE ok
      <3>1. failed' = failed
        BY <1>5, <2>1 DEF Synced, Stored, Types, Shape
      <3>2. /\ last' \in [flush : 0..MaxTime, sync : 0..MaxTime] /\ last'.flush = last.flush
        <4>1. at \in 0..MaxTime
          BY DEF Types, TypeOK
        <4>2. [last EXCEPT !.sync = at] = [flush |-> last.flush, sync |-> at]
          BY Fields
        <4>3. last' = last \/ last' = [flush |-> last.flush, sync |-> at]
          BY <1>5, <2>1, <4>2 DEF Synced, PassOver
        <4>4. QED
          BY <4>1, <4>3, Fields
      <3>3. pushed' = final
        BY <1>5, <2>1 DEF Synced, PassOver, Types, TypeOK
      <3>4. QED
        BY <1>5, <2>1, <3>1, <3>2, <3>3 DEF Synced, PassOver, Marked, Goto
    <2>2. CASE ~ok
      <3>1. failed' = TRUE /\ raised' \in BOOLEAN
        BY <1>5, <2>2 DEF Synced, Stored, Types, Shape
      <3>2. last' = last /\ pushed' = pushed
        BY <1>5, <2>2 DEF Synced
      <3>3. QED
        BY <1>5, <2>2, <3>1, <3>2 DEF Synced, Thrown, storeVars
    <2>3. QED
      BY <2>1, <2>2
  <1>6. QED
    BY <1>1, <1>2, <1>3, <1>4, <1>5

LEMMA LoopSteps ==
    ASSUME Types
    PROVE  /\ Top \/ check_idle \/ FlushNotDue \/ StopListeners \/ NoPass \/ Refused => Moved
           /\ \A ids : Send(ids) => Moved
           /\ \A app : FlushDue(app) \/ FinalFlush(app) => Begun(app)
           /\ FlushDone => Flushed
           /\ Unanswered \/ ReadFails \/ Interrupt => Thrown
  <1> USE DEF Goto, loopVars, storeVars, historyVars
  <1>1. /\ last \in [flush : 0..MaxTime, sync : 0..MaxTime] /\ at \in 0..MaxTime
        /\ [last EXCEPT !.sync = at] = [flush |-> last.flush, sync |-> at]
        /\ [last EXCEPT !.flush = at] = [flush |-> at, sync |-> last.sync]
        /\ batch \subseteq Unsynced /\ {} \subseteq Unsynced
        /\ pushed \in BOOLEAN /\ final \in BOOLEAN /\ registered \in BOOLEAN
        /\ pc \in {"top", "sleep", "ending", "ended", "due"} => ~final
        /\ pc \in {"finally", "exit", "stop", "gone"} => final
    <2>1. /\ last \in [flush : 0..MaxTime, sync : 0..MaxTime] /\ at \in 0..MaxTime
          /\ batch \subseteq Unsynced /\ {} \subseteq Unsynced
          /\ pushed \in BOOLEAN /\ final \in BOOLEAN /\ registered \in BOOLEAN
      BY DEF Types, TypeOK, Shape
    <2>2. /\ pc \in {"top", "sleep", "ending", "ended", "due"} => ~final
          /\ pc \in {"finally", "exit", "stop", "gone"} => final
      BY DEF Types, Shape
    <2>3. QED
      BY <2>1, <2>2
  <1>2. Top => Moved
    BY <1>1 DEF Top, Moved
  <1>3. check_idle => Moved
    BY <1>1 DEF check_idle, Moved
  <1>4. FlushNotDue => Moved
    BY <1>1 DEF FlushNotDue, Moved
  <1>5. StopListeners => Moved
    <2> SUFFICES ASSUME StopListeners PROVE Moved
      OBVIOUS
    <2>1. /\ pc = "stop" /\ pc' = "sync" /\ listening' = {}
          /\ UNCHANGED <<now, ui, final, at, last, counts, flush, batch, session, registered, storeVars,
                         today, typed, clicked, inputs, late, pushed, failed, raised, repeated, slow>>
      BY DEF StopListeners
    <2>2. last'.flush = last.flush /\ final' = (final \/ pc' = "finally")
          /\ batch' \subseteq Unsynced /\ last' \in [flush : 0..MaxTime, sync : 0..MaxTime]
      BY <1>1, <2>1
    <2>3. QED
      BY <1>1, <2>1, <2>2 DEF Moved
  <1>6. NoPass => Moved
    <2> SUFFICES ASSUME NoPass PROVE Moved
      OBVIOUS
    <2>1. /\ pc = "sync" /\ pc' = (IF final THEN "gone" ELSE "top") /\ listening' \subseteq listening
          /\ final' = final /\ at' = at /\ batch' = batch /\ pushed' \in BOOLEAN
          /\ pushed' => final /\ Unsynced = {}
          /\ UNCHANGED <<now, ui, counts, flush, session, registered, storeVars, today, typed, clicked,
                         inputs, late, failed, raised, repeated, slow>>
      BY <1>1 DEF NoPass
    <2>2. last' = last \/ last' = [last EXCEPT !.sync = at]
      BY DEF NoPass
    <2>3. last' \in [flush : 0..MaxTime, sync : 0..MaxTime] /\ last'.flush = last.flush
      BY <1>1, <2>2
    <2>4. QED
      BY <1>1, <2>1, <2>3 DEF Moved
  <1>7. Refused => Moved
    <2> SUFFICES ASSUME Refused PROVE Moved
      OBVIOUS
    <2>1. /\ pc = "wire" /\ pc' = (IF final THEN "gone" ELSE "top") /\ listening' \subseteq listening
          /\ final' = final /\ at' = at /\ batch' = {} /\ pushed' \in BOOLEAN /\ ~pushed'
          /\ UNCHANGED <<now, ui, counts, flush, session, registered, storeVars, today, typed, clicked,
                         inputs, late, failed, raised, repeated, slow>>
      BY <1>1 DEF Refused, PassOver
    <2>2. last' = last \/ last' = [last EXCEPT !.sync = at]
      BY DEF Refused, PassOver
    <2>3. last' \in [flush : 0..MaxTime, sync : 0..MaxTime] /\ last'.flush = last.flush
      BY <1>1, <2>2
    <2>4. QED
      BY <1>1, <2>1, <2>3 DEF Moved
  <1>8. ASSUME NEW ids, Send(ids) PROVE Moved
    BY <1>1, <1>8 DEF Send, Moved
  <1>9. ASSUME NEW app, FlushDue(app) \/ FinalFlush(app) PROVE Begun(app)
    BY <1>9 DEF FlushDue, FinalFlush, BeginFlush, Begun
  <1>10. FlushDone => Flushed
    <2> SUFFICES ASSUME FlushDone PROVE Flushed
      OBVIOUS
    <2>1. counts' = [bucket |-> counts.bucket, apps |-> counts.apps, clicks |-> counts.clicks,
                     keys |-> NoKeys]
      <3>1. counts' = [counts EXCEPT !.keys = NoKeys]
        BY DEF FlushDone
      <3>2. QED
        BY <3>1, Fields
    <2>2. last' = [flush |-> IF final THEN last.flush ELSE at, sync |-> last.sync]
      <3>1. last' = IF final THEN last ELSE [last EXCEPT !.flush = at]
        BY DEF FlushDone
      <3>2. QED
        BY <1>1, <3>1, Fields
    <2>3. QED
      BY <2>1, <2>2 DEF FlushDone, Flushed
  <1>11. Unanswered => Thrown
    BY DEF Unanswered, Thrown, Types, Shape
  <1>12. Interrupt => Thrown
    BY DEF Interrupt, Thrown, Types, Shape
  <1>13. ReadFails => Thrown
    <2> SUFFICES ASSUME ReadFails PROVE Thrown
      OBVIOUS
    <2>1. failed' = TRUE
      BY DEF ReadFails, Stored
    <2>2. raised' \in BOOLEAN
      BY DEF ReadFails, Types, Shape
    <2>3. QED
      BY <2>1, <2>2 DEF ReadFails, Thrown
  <1>14. QED
    BY <1>2, <1>3, <1>4, <1>5, <1>6, <1>7, <1>8, <1>9, <1>10, <1>11, <1>12, <1>13

LEMMA AsideSteps ==
    ASSUME Types
    PROVE  Clock \/ Close \/ Register \/ ReadDisk \/ AddPending => Aside
  <1> USE DEF loopVars, storeVars, historyVars
  <1>1. now \in 0..MaxTime /\ MaxTime \in Nat
    BY PyAgentAssumption DEF Types, TypeOK
  <1>2. Clock => Aside
    BY <1>1 DEF Clock, Aside
  <1>3. Close \/ Register \/ ReadDisk \/ AddPending => Aside
    BY <1>1 DEF Close, Register, ReadDisk, AddPending, Aside
  <1>4. QED
    BY <1>2, <1>3

\* What the window and the clock change.
Watching ==
    \/ Clock \/ Close \/ Register \/ ReadDisk \/ AddPending

LEMMA Steps ==
    ASSUME Types, Next
    PROVE  \/ Watching /\ Aside
           \/ Moved \/ Thrown \/ Missed \/ Clicked \/ Closed \/ SessionOff \/ ClearCounts
           \/ Bumped \/ Flushed \/ Marked \/ Destroy
           \/ \E app \in Apps : Pressed(app) \/ Begun(app) \/ Wrote(app) \/ Skipped(app)
  <1>1. CASE \E ok \in BOOLEAN : Store(ok)
    BY <1>1, InputSteps, StoreSteps DEF Store
  <1>2. CASE \E ids \in SUBSET DOMAIN rows : Send(ids)
    BY <1>2, LoopSteps
  <1>3. CASE \E app \in Apps : FlushDue(app) \/ FinalFlush(app)
    BY <1>3, LoopSteps
  <1>4. CASE Top \/ check_idle \/ FlushNotDue \/ StopListeners \/ NoPass \/ Refused \/ FlushDone
               \/ Unanswered \/ ReadFails \/ Interrupt
    BY <1>4, LoopSteps
  <1>5. CASE Clock \/ Close \/ Register \/ ReadDisk \/ AddPending
    BY <1>5, AsideSteps DEF Watching
  <1>6. QED
    BY <1>1, <1>2, <1>3, <1>4, <1>5 DEF Next

-----------------------------------------------------------------------------
\* Minutes and totals.
LEMMA MinuteFacts ==
    /\ MaxTime \in Nat /\ minute_start(MaxTime) \in Nat
    /\ \A t \in 0..MaxTime : minute_start(t) \in Minutes
    /\ 0 \in Minutes /\ Minutes \subseteq Nat /\ IsFiniteSet(Minutes) /\ IsFiniteSet(Apps)
  <1>1. MaxTime \in Nat /\ MinuteLength \in Nat \ {0} /\ IsFiniteSet(Apps)
    BY PyAgentAssumption
  <1>2. \A t \in 0..MaxTime : minute_start(t) \in Nat /\ minute_start(t) <= minute_start(MaxTime)
    <2> SUFFICES ASSUME NEW t \in 0..MaxTime
                 PROVE  minute_start(t) \in Nat /\ minute_start(t) <= minute_start(MaxTime)
      OBVIOUS
    <2>1. 0 \div MinuteLength = 0
      BY <1>1, Quotient
    <2>2. t \div MinuteLength \in Int /\ 0 \div MinuteLength <= t \div MinuteLength
      BY <1>1, Division, DivisionOrder
    <2>3. t \div MinuteLength <= MaxTime \div MinuteLength
      BY <1>1, DivisionOrder
    <2>4. QED
      BY <2>1, <2>2, <2>3 DEF minute_start
  <1>3. minute_start(MaxTime) \in Nat
    BY <1>1, <1>2
  <1>4. IsFiniteSet(Minutes)
    BY <1>3, FS_Interval DEF Minutes
  <1>5. QED
    BY <1>1, <1>2, <1>3, <1>4 DEF Minutes

LEMMA RowFields ==
    ASSUME Types
    PROVE  /\ Len(rows) \in Nat /\ DOMAIN rows = 1..Len(rows) /\ IsFiniteSet(DOMAIN rows)
           /\ \A i \in DOMAIN rows : rows[i] \in Row
           /\ RowKeys \in [DOMAIN rows -> Nat] /\ RowClicks \in [DOMAIN rows -> Nat]
           /\ Len(sessions) \in Nat /\ DOMAIN sessions = 1..Len(sessions)
           /\ \A i \in DOMAIN sessions : sessions[i] \in SessionRow
  <1>1. rows \in Seq(Row) /\ sessions \in Seq(SessionRow)
    BY DEF Types, Shape
  <1>2. /\ Len(rows) \in Nat /\ DOMAIN rows = 1..Len(rows)
        /\ \A i \in DOMAIN rows : rows[i] \in Row
        /\ Len(sessions) \in Nat /\ DOMAIN sessions = 1..Len(sessions)
        /\ \A i \in DOMAIN sessions : sessions[i] \in SessionRow
    BY <1>1
  <1>3. IsFiniteSet(DOMAIN rows)
    BY <1>2, FS_Interval
  <1>4. RowKeys \in [DOMAIN rows -> Nat] /\ RowClicks \in [DOMAIN rows -> Nat]
    BY <1>2 DEF RowKeys, RowClicks, Row
  <1>5. QED
    BY <1>2, <1>3, <1>4

LEMMA RowMinutes ==
    ASSUME Types
    PROVE  \A i \in DOMAIN rows : rows[i].min \in Int
  <1>1. \A i \in DOMAIN rows : rows[i] \in Row
    BY RowFields
  <1>2. \A r \in Row : r.min \in Minutes
    BY DEF Row
  <1>3. \A m \in Minutes : m \in Int
    BY MinuteFacts
  <1>4. QED
    BY <1>1, <1>2, <1>3, Zenon

\* The totals of the minutes, and the total of an app over the minutes.
MinuteTotals == [m \in Minutes |-> SumOver(typed[m])]
TypedOf(a)   == [m \in Minutes |-> typed[m][a]]

LEMMA Totals ==
    ASSUME Types
    PROVE  /\ \A m \in Minutes : typed[m] \in [Apps -> Nat]
           /\ MinuteTotals \in [Minutes -> Nat]
           /\ \A a \in Apps : TypedOf(a) \in [Minutes -> Nat]
           /\ KeysTyped = SumOver(MinuteTotals)
           /\ KeysTyped \in Nat /\ KeysOnDisk \in Nat
           /\ SumOver(counts.apps) \in Nat
           /\ \A a \in Apps : SumOver(TypedOf(a)) \in Nat
  <1>1. \A m \in Minutes : typed[m] \in [Apps -> Nat]
    BY DEF Types, Shape
  <1>2. \A m \in Minutes : SumOver(typed[m]) \in Nat
    BY <1>1, MinuteFacts, NatSum
  <1>3. MinuteTotals \in [Minutes -> Nat]
    BY <1>2 DEF MinuteTotals
  <1>4. \A a \in Apps : TypedOf(a) \in [Minutes -> Nat]
    BY <1>1 DEF TypedOf
  <1>5. \A a \in Apps : SumOver(TypedOf(a)) \in Nat
    <2> SUFFICES ASSUME NEW a \in Apps PROVE SumOver(TypedOf(a)) \in Nat
      OBVIOUS
    <2> DEFINE f == TypedOf(a)
    <2>1. f \in [Minutes -> Nat]
      BY <1>4
    <2> HIDE DEF f
    <2>2. SumOver(f) \in Nat
      BY <2>1, MinuteFacts, NatSum
    <2>3. QED
      BY <2>2 DEF f
  <1>6. KeysTyped = SumOver(MinuteTotals)
    BY DEF KeysTyped, MinuteTotals
  <1>7. SumOver(MinuteTotals) \in Nat
    BY <1>3, MinuteFacts, NatSum
  <1>8. KeysOnDisk \in Nat
    BY RowFields, NatSum DEF KeysOnDisk
  <1>9. SumOver(counts.apps) \in Nat
    BY Fields, MinuteFacts, NatSum
  <1>10. QED
    BY <1>1, <1>3, <1>4, <1>5, <1>6, <1>7, <1>8, <1>9

-----------------------------------------------------------------------------
LEMMA InitTypes == Init => Types
  <1> SUFFICES ASSUME Init PROVE Types
    OBVIOUS
  <1>1. minute_start(0) \in Minutes /\ 0 \in Minutes /\ MaxTime \in Nat
    BY MinuteFacts
  <1>2. TypeOK
    <2>1. counts \in Counts /\ keyCounts \in [Apps -> Nat]
      BY <1>1 DEF Init, Empty, NoKeys, Counts
    <2>2. flush = [app |-> NoApp, todo |-> {}, done |-> {}]
      BY DEF Init, NoFlush
    <2>3. Len(sessions) = 0 /\ DOMAIN rows = {} /\ DOMAIN sessions = {}
      BY DEF Init
    <2>4. session \in [active : BOOLEAN, id : 0..Len(sessions), last_event : 0..MaxTime]
      BY <1>1, <2>3 DEF Init
    <2>5. batch \subseteq Unsynced /\ listening \subseteq {"keyboard", "mouse"} /\ 0 \in 0..MaxTime
      BY <1>1 DEF Init
    <2>6. flush \in Hand /\ flush.done = {}
      BY <2>2 DEF Hand
    <2>7. last \in [flush : 0..MaxTime, sync : 0..MaxTime]
      BY <2>5 DEF Init
    <2>8. /\ now = 0 /\ at = 0 /\ ui \in {"cli", "open"} /\ pc = "top" /\ final = FALSE
          /\ registered \in BOOLEAN
      BY DEF Init
    <2>9. QED
      BY <1>1, <2>1, <2>3, <2>4, <2>5, <2>6, <2>7, <2>8 DEF TypeOK, Counts, Hand
  <1>3. Shape
    <2>1. /\ typed \in [Minutes -> [Apps -> Nat]] /\ clicked \in [Minutes -> Nat]
          /\ today \in [pc : {"idle", "disk"}, disk : Nat, from : Nat, torn : BOOLEAN]
      BY DEF Init, NoKeys, NoCall
    <2>2. rows \in Seq(Row) /\ sessions \in Seq(SessionRow)
      BY DEF Init
    <2>3. /\ now = 0 /\ at = 0 /\ ui \in {"cli", "open"} /\ pc = "top" /\ final = FALSE
          /\ flush = NoFlush /\ inputs = {} /\ late = 0
      BY DEF Init
    <2>4. /\ pushed \in BOOLEAN /\ failed \in BOOLEAN /\ raised \in BOOLEAN
          /\ repeated \in BOOLEAN /\ slow \in BOOLEAN
      BY DEF Init
    <2>5. QED
      BY <2>1, <2>2, <2>3, <2>4 DEF Shape
  <1>4. QED
    BY <1>2, <1>3 DEF Types

LEMMA AsideTypes ==
    ASSUME Types, Watching, Aside
    PROVE  Types'
  <1>1. /\ ui' \in {"cli", "open", "closing", "closed"} /\ registered' \in BOOLEAN
        /\ ui = "closed" => ui' = "closed"
    BY DEF Watching, Clock, Close, Register, ReadDisk, AddPending, Types, TypeOK
  <1>2. today' \in [pc : {"idle", "disk"}, disk : Nat, from : Nat, torn : BOOLEAN]
    <2>1. CASE ReadDisk
      <3>1. KeysOnDisk \in Nat /\ KeysTyped \in Nat
        BY Totals
      <3>2. PICK torn \in BOOLEAN :
              today' = [pc |-> "disk", disk |-> KeysOnDisk, from |-> KeysTyped, torn |-> torn]
        BY <2>1 DEF ReadDisk
      <3>3. QED
        BY <3>1, <3>2
    <2>2. CASE ~ReadDisk
      <3>1. today' = today \/ today' = NoCall
        BY <2>2 DEF Watching, Clock, Close, Register, AddPending
      <3>2. today \in [pc : {"idle", "disk"}, disk : Nat, from : Nat, torn : BOOLEAN]
        BY DEF Types, Shape
      <3>3. NoCall \in [pc : {"idle", "disk"}, disk : Nat, from : Nat, torn : BOOLEAN]
        BY DEF NoCall
      <3>4. QED
        BY <3>1, <3>2, <3>3
    <2>3. QED
      BY <2>1, <2>2
  <1>3. /\ now' \in 0..MaxTime /\ now <= now'
        /\ UNCHANGED <<pc, final, at, last, flush, batch, counts, session, listening, rows, keyCounts,
                       sessions, typed, clicked, inputs, late, pushed, failed, raised, repeated, slow>>
    BY DEF Aside, loopVars, storeVars, historyVars
  <1>4. TypeOK'
    BY <1>1, <1>3 DEF Types, TypeOK, Unsynced
  <1>5. Shape'
    <2>1. at <= now'
      BY <1>3 DEF Types, TypeOK, Shape
    <2>2. QED
      BY <1>1, <1>2, <1>3, <2>1 DEF Types, Shape
  <1>6. QED
    BY <1>4, <1>5 DEF Types

LEMMA MovedTypes ==
    ASSUME Types, Moved
    PROVE  Types'
  <1>1. /\ last' \in [flush : 0..MaxTime, sync : 0..MaxTime]
        /\ batch' \subseteq Unsynced /\ listening' \subseteq listening /\ pushed' \in BOOLEAN
        /\ UNCHANGED <<now, ui, counts, flush, session, registered, rows, keyCounts, sessions, today,
                       typed, clicked, inputs, late, failed, raised, repeated, slow>>
        /\ final' = (final \/ pc' = "finally") /\ at' = (IF pc' = "due" THEN now ELSE at)
    BY DEF Moved, storeVars
  <1>2. /\ pc \notin {"rows", "killed"}
        /\ pc' \in {"sleep", "finally", "ending", "due", "sync", "gone", "top", "wire"}
        /\ pc' = "ending" => session.active
        /\ pc' = "gone" => final
        /\ pc' \in {"top", "sleep", "ending", "due"} => ~final'
    BY <1>1 DEF Moved, Types, TypeOK, Shape
  <1>3. at' \in 0..MaxTime /\ at' <= now'
    BY <1>1 DEF Types, TypeOK, Shape
  <1>4. TypeOK'
    BY <1>1, <1>2, <1>3 DEF Types, TypeOK, Unsynced
  <1>5. Shape'
    BY <1>1, <1>2, <1>3 DEF Types, Shape
  <1>6. QED
    BY <1>4, <1>5 DEF Types

LEMMA ThrownTypes ==
    ASSUME Types, Thrown
    PROVE  Types'
  <1>1. /\ pc' = (IF final THEN "gone" ELSE "finally") /\ final' = TRUE /\ flush' = NoFlush
        /\ batch' = {} /\ listening' \subseteq listening /\ repeated' \in BOOLEAN
        /\ failed' \in BOOLEAN /\ raised' \in BOOLEAN
        /\ UNCHANGED <<now, ui, at, last, counts, session, registered, rows, keyCounts, sessions, today,
                       typed, clicked, inputs, late, pushed, slow>>
    BY DEF Thrown, Raise, Goto, storeVars, Types, Shape
  <1>2. NoFlush \in Hand /\ NoFlush.done = {}
    BY DEF NoFlush, Hand
  <1>3. TypeOK'
    BY <1>1, <1>2 DEF Types, TypeOK, Hand
  <1>4. Shape'
    BY <1>1 DEF Types, Shape
  <1>5. QED
    BY <1>3, <1>4 DEF Types

LEMMA MissedTypes ==
    ASSUME Types, Missed
    PROVE  Types'
  <1>1. /\ pc # "killed" /\ ~Locked /\ failed' = TRUE /\ ~session.active
        /\ session' = [active |-> FALSE, id |-> session.id, last_event |-> now]
        /\ listening' \subseteq listening
        /\ UNCHANGED <<now, ui, pc, final, at, last, flush, batch, counts, registered, rows, keyCounts,
                       sessions, today, typed, clicked, inputs, late, pushed, raised, repeated, slow>>
    BY DEF Missed, loopVars, storeVars
  <1>2. TypeOK'
    BY <1>1, Fields DEF Types, TypeOK, Unsynced
  <1>3. Shape'
    BY <1>1 DEF Types, Shape
  <1>4. QED
    BY <1>2, <1>3 DEF Types

LEMMA NoticedTypes ==
    ASSUME Types, Noticed
    PROVE  /\ session' \in [active : BOOLEAN, id : 0..Len(sessions'), last_event : 0..MaxTime]
           /\ sessions' \in Seq(SessionRow) /\ inputs' \subseteq 0..MaxTime /\ late' \in Nat
           /\ session'.active /\ Len(sessions') >= Len(sessions) /\ pc \notin {"rows", "killed"}
           /\ UNCHANGED <<now, ui, pc, final, at, last, flush, batch, listening, registered, rows,
                          keyCounts, today, pushed, failed, raised, repeated, slow>>
  <1>1. now \in 0..MaxTime /\ inputs \subseteq 0..MaxTime /\ late \in Nat
    BY DEF Types, TypeOK, Shape
  <1>2. /\ session' = [active |-> TRUE, last_event |-> now,
                       id |-> IF session.active THEN session.id ELSE Len(sessions) + 1]
        /\ sessions' = (IF session.active THEN sessions
                        ELSE Append(sessions, [start |-> now, end |-> Never]))
    BY DEF Noticed
  <1>3. sessions \in Seq(SessionRow) /\ Len(sessions) \in Nat
    BY RowFields DEF Types, Shape
  <1>4. [start |-> now, end |-> Never] \in SessionRow
    BY <1>1 DEF SessionRow
  <1> DEFINE new == [start |-> now, end |-> Never]
  <1> HIDE DEF new
  <1>5. /\ Append(sessions, new) \in Seq(SessionRow)
        /\ Len(Append(sessions, new)) = Len(sessions) + 1
    BY <1>3, <1>4 DEF new
  <1>6. /\ sessions' \in Seq(SessionRow) /\ Len(sessions') >= Len(sessions)
        /\ session'.id \in 0..Len(sessions') /\ session'.active
        /\ session'.last_event = now
        /\ session' = [active |-> TRUE, id |-> session'.id, last_event |-> now]
    <2>1. CASE session.active
      BY <1>2, <1>3, <2>1, Fields
    <2>2. CASE ~session.active
      BY <1>2, <1>3, <1>5, <2>2 DEF new
    <2>3. QED
      BY <2>1, <2>2
  <1>7. inputs' \subseteq 0..MaxTime /\ late' \in Nat
    BY <1>1 DEF Noticed, Counted
  <1>8. /\ pc \notin {"rows", "killed"}
        /\ UNCHANGED <<now, ui, pc, final, at, last, flush, batch, listening, registered, rows,
                       keyCounts, today, pushed, failed, raised, repeated, slow>>
    BY DEF Noticed, Locked, loopVars
  <1>9. session' \in [active : BOOLEAN, id : 0..Len(sessions'), last_event : 0..MaxTime]
    BY <1>1, <1>6
  <1>10. QED
    BY <1>6, <1>7, <1>8, <1>9

LEMMA PressedTypes ==
    ASSUME Types, NEW app \in Apps, Pressed(app)
    PROVE  Types'
  <1>1. Noticed /\ UNCHANGED clicked
    BY DEF Pressed
  <1>2. counts' \in Counts
    <2>1. /\ [counts.apps EXCEPT ![app] = @ + 1] \in [Apps -> Nat]
          /\ [counts.keys EXCEPT ![app] = @ + 1] \in [Apps -> Nat]
      BY Fields, SMTT(30)
    <2>2. QED
      BY <2>1, Fields DEF Pressed, Counts
  <1>3. typed' \in [Minutes -> [Apps -> Nat]]
    <2>1. /\ typed \in [Minutes -> [Apps -> Nat]] /\ counts.bucket \in Minutes
          /\ typed' = [typed EXCEPT ![counts.bucket][app] = @ + 1]
      BY Fields DEF Pressed, Types, Shape
    <2> DEFINE m == counts.bucket
    <2> HIDE DEF m
    <2>2. /\ typed \in [Minutes -> [Apps -> Nat]] /\ m \in Minutes
          /\ typed' = [typed EXCEPT ![m][app] = @ + 1]
      BY <2>1 DEF m
    <2>3. QED
      BY <2>2
  <1>4. sessions' \in Seq(SessionRow) /\ \A i \in DOMAIN sessions' : sessions'[i] \in SessionRow
    BY <1>1, NoticedTypes
  <1>5. TypeOK'
    BY <1>1, <1>2, <1>4, NoticedTypes, ZenonT(40) DEF Types, TypeOK, Unsynced, Counts, SessionRow
  <1>6. Shape'
    BY <1>1, <1>3, NoticedTypes DEF Types, Shape
  <1>7. QED
    BY <1>5, <1>6 DEF Types

LEMMA ClickedTypes ==
    ASSUME Types, Clicked
    PROVE  Types'
  <1>1. Noticed /\ UNCHANGED typed
    BY DEF Clicked
  <1>2. counts' \in Counts
    BY Fields DEF Clicked, Counts
  <1>3. clicked' \in [Minutes -> Nat]
    <2>1. /\ clicked \in [Minutes -> Nat] /\ counts.bucket \in Minutes
          /\ clicked' = [clicked EXCEPT ![counts.bucket] = @ + 1]
      BY Fields DEF Clicked, Types, Shape
    <2> DEFINE m == counts.bucket
    <2> HIDE DEF m
    <2>2. /\ clicked \in [Minutes -> Nat] /\ m \in Minutes
          /\ clicked' = [clicked EXCEPT ![m] = @ + 1]
      BY <2>1 DEF m
    <2>3. QED
      BY <2>2
  <1>4. sessions' \in Seq(SessionRow) /\ \A i \in DOMAIN sessions' : sessions'[i] \in SessionRow
    BY <1>1, NoticedTypes
  <1>5. TypeOK'
    BY <1>1, <1>2, <1>4, NoticedTypes, ZenonT(40) DEF Types, TypeOK, Unsynced, Counts, SessionRow
  <1>6. Shape'
    BY <1>1, <1>3, NoticedTypes DEF Types, Shape
  <1>7. QED
    BY <1>5, <1>6 DEF Types

LEMMA EndedRows ==
    ASSUME Types, NEW i, NEW t \in 0..MaxTime
    PROVE  /\ [sessions EXCEPT ![i].end = t] \in Seq(SessionRow)
           /\ Len([sessions EXCEPT ![i].end = t]) = Len(sessions)
           /\ \A j \in 1..Len(sessions) :
                [sessions EXCEPT ![i].end = t][j] =
                    [start |-> sessions[j].start, end |-> IF j = i THEN t ELSE sessions[j].end]
  <1> DEFINE new == [sessions EXCEPT ![i].end = t]
  <1>1. new = [j \in 1..Len(sessions) |->
                 IF j = i THEN [sessions[j] EXCEPT !.end = t] ELSE sessions[j]]
    BY RowFields
  <1>2. \A j \in 1..Len(sessions) : sessions[j] \in SessionRow
    BY RowFields
  <1>3. \A j \in 1..Len(sessions) :
          new[j] = [start |-> sessions[j].start, end |-> IF j = i THEN t ELSE sessions[j].end]
    BY <1>1, <1>2 DEF SessionRow
  <1>4. \A j \in 1..Len(sessions) : new[j] \in SessionRow
    BY <1>2, <1>3 DEF SessionRow
  <1>5. new \in [1..Len(sessions) -> SessionRow]
    BY <1>1, <1>4
  <1>6. Len(sessions) \in Nat
    BY RowFields
  <1>7. ASSUME NEW s, s \in [1..Len(sessions) -> SessionRow]
        PROVE  s \in Seq(SessionRow) /\ Len(s) = Len(sessions)
    BY <1>6, <1>7
  <1>8. new \in Seq(SessionRow) /\ Len(new) = Len(sessions)
    BY <1>5, <1>7
  <1>9. QED
    BY <1>3, <1>8

LEMMA ClosedTypes ==
    ASSUME Types, Closed
    PROVE  Types'
  <1>1. /\ UNCHANGED <<now, ui, final, at, last, counts, flush, batch, session, listening, registered,
                       rows, keyCounts, today, typed, clicked, inputs, late, pushed, failed, raised,
                       repeated, slow>>
    BY DEF Closed, historyVars
  <1> (pc = "ending" /\ pc' = "ended") \/ (pc = "exit" /\ pc' = "stop")
    BY DEF Closed
  <1>2. now \in 0..MaxTime /\ session.last_event \in 0..MaxTime
    BY Fields DEF Types, TypeOK
  <1>3. sessions' \in Seq(SessionRow) /\ Len(sessions') = Len(sessions)
    <2>1. \/ \E i, t : t \in 0..MaxTime /\ sessions' = [sessions EXCEPT ![i].end = t]
          \/ sessions' = sessions
      BY <1>2 DEF Closed
    <2>2. sessions \in Seq(SessionRow)
      BY DEF Types, Shape
    <2>3. QED
      BY <2>1, <2>2, EndedRows
  <1>4. \A i \in DOMAIN sessions' : sessions'[i] \in SessionRow
    BY <1>3
  <1>5. TypeOK'
    BY <1>1, <1>3, <1>4 DEF Types, TypeOK, Unsynced, SessionRow
  <1>6. Shape'
    BY <1>1, <1>3 DEF Types, Shape
  <1>7. QED
    BY <1>5, <1>6 DEF Types

LEMMA SessionOffTypes ==
    ASSUME Types, SessionOff
    PROVE  Types'
  <1>1. /\ pc = "ended" /\ pc' = "due" /\ listening' \subseteq listening /\ at' = now
        /\ UNCHANGED <<now, ui, final, last, counts, flush, batch, registered, rows, keyCounts, sessions,
                       today, typed, clicked, inputs, late, pushed, failed, raised, repeated, slow>>
    BY DEF SessionOff, Goto, storeVars, historyVars
  <1>2. session' = [active |-> FALSE, id |-> session.id, last_event |-> session.last_event]
    <2>1. session' = [session EXCEPT !.active = FALSE]
      BY DEF SessionOff
    <2>2. QED
      BY <2>1, Fields
  <1>3. TypeOK'
    BY <1>1, <1>2, Fields DEF Types, TypeOK, Unsynced
  <1>4. Shape'
    BY <1>1, SMTT(30) DEF Types, Shape, TypeOK
  <1>5. QED
    BY <1>3, <1>4 DEF Types

LEMMA BegunTypes ==
    ASSUME Types, NEW app \in Apps, Begun(app)
    PROVE  Types'
  <1>1. /\ pc \in {"due", "finally"} /\ pc' = "rows"
        /\ flush' = [app |-> app, todo |-> {a \in Apps : counts.apps[a] > 0} \cup {app}, done |-> {}]
        /\ UNCHANGED <<now, ui, final, at, last, counts, batch, session, listening, registered, rows,
                       keyCounts, sessions, today, typed, clicked, inputs, late, pushed, failed, raised,
                       repeated, slow>>
    BY DEF Begun, storeVars, historyVars
  <1>2. flush' \in Hand /\ flush'.app = app
    BY <1>1 DEF Hand
  <1>3. TypeOK'
    BY <1>1, <1>2 DEF Types, TypeOK, Unsynced, Hand
  <1>4. Shape'
    BY <1>1, <1>2 DEF Types, Shape
  <1>5. QED
    BY <1>3, <1>4 DEF Types

\* A row to be written is one of the table's; what is unsynced stays so.
LEMMA RowOfType ==
    ASSUME Types, NEW a \in Apps
    PROVE  /\ RowOf(a) \in Row
           /\ Append(rows, RowOf(a)) \in Seq(Row)
           /\ Len(Append(rows, RowOf(a))) = Len(rows) + 1
           /\ DOMAIN Append(rows, RowOf(a)) = 1..(Len(rows) + 1)
           /\ \A i \in 1..Len(rows) : Append(rows, RowOf(a))[i] = rows[i]
           /\ Append(rows, RowOf(a))[Len(rows) + 1] = RowOf(a)
  <1>1. RowOf(a) \in Row
    BY Fields DEF RowOf, Row
  <1>2. rows \in Seq(Row)
    BY DEF Types, Shape
  <1> DEFINE r == RowOf(a)
  <1> HIDE DEF r
  <1>3. r \in Row
    BY <1>1 DEF r
  <1>4. /\ Append(rows, r) \in Seq(Row) /\ Len(Append(rows, r)) = Len(rows) + 1
        /\ DOMAIN Append(rows, r) = 1..(Len(rows) + 1)
        /\ \A i \in 1..Len(rows) : Append(rows, r)[i] = rows[i]
        /\ Append(rows, r)[Len(rows) + 1] = r
    BY <1>2, <1>3
  <1>5. QED
    BY <1>1, <1>4 DEF r

LEMMA WroteTypes ==
    ASSUME Types, NEW a \in Apps, Wrote(a)
    PROVE  Types'
  <1>1. /\ pc = "rows" /\ a \in flush.todo
        /\ UNCHANGED <<now, ui, pc, final, at, last, counts, batch, session, listening, registered,
                       keyCounts, sessions, typed, clicked, inputs, late, pushed, failed, raised,
                       repeated, slow>>
    BY DEF Wrote, historyVars
  <1>2. flush' \in Hand /\ flush'.app = flush.app
    BY Fields DEF Wrote, Hand
  <1>3. today' \in [pc : {"idle", "disk"}, disk : Nat, from : Nat, torn : BOOLEAN]
    <2>1. PICK torn \in BOOLEAN :
            today' = [pc |-> today.pc, disk |-> today.disk, from |-> today.from, torn |-> torn]
      BY DEF Wrote
    <2>2. QED
      BY <2>1, Fields
  <1>4. rows' \in Seq(Row) /\ \A i \in DOMAIN rows' : rows'[i] \in Row
    <2>1. rows' \in Seq(Row)
      BY RowOfType DEF Wrote
    <2>2. QED
      BY <2>1
  <1>5. Unsynced \subseteq Unsynced'
    BY RowFields, RowOfType DEF Wrote, Unsynced
  <1>6. TypeOK'
    BY <1>1, <1>2, <1>4, <1>5 DEF Types, TypeOK, Hand, Row
  <1>7. Shape'
    BY <1>1, <1>2, <1>3, <1>4 DEF Types, Shape
  <1>8. QED
    BY <1>6, <1>7 DEF Types

LEMMA SkippedTypes ==
    ASSUME Types, NEW a \in Apps, Skipped(a)
    PROVE  Types'
  <1>1. /\ pc = "rows"
        /\ UNCHANGED <<now, ui, pc, final, at, last, counts, batch, session, listening, registered, rows,
                       keyCounts, sessions, today, typed, clicked, inputs, late, pushed, failed, raised,
                       repeated, slow>>
    BY DEF Skipped, storeVars, historyVars
  <1>2. flush' \in Hand /\ flush'.app = flush.app
    BY Fields DEF Skipped, Hand
  <1>3. TypeOK'
    BY <1>1, <1>2 DEF Types, TypeOK, Unsynced, Hand
  <1>4. Shape'
    BY <1>1, <1>2 DEF Types, Shape
  <1>5. QED
    BY <1>3, <1>4 DEF Types

LEMMA Cleared ==
    ASSUME Types, ClearCounts
    PROVE  /\ pc = "rows" /\ pc' = "keys" /\ flush.todo = {} /\ flush' = NoFlush
           /\ counts' = [bucket |-> minute_start(now), apps |-> NoKeys, clicks |-> 0,
                         keys |-> counts.keys]
           /\ counts' \in Counts
           /\ today' \in [pc : {"idle", "disk"}, disk : Nat, from : Nat, torn : BOOLEAN]
           /\ today'.torn = (today.torn \/ today.pc = "disk") /\ today'.pc = today.pc
           /\ slow' = (slow \/ (~final /\ now > at))
           /\ UNCHANGED <<now, ui, final, at, last, batch, session, listening, registered, rows,
                          keyCounts, sessions, typed, clicked, inputs, late, pushed, failed, raised,
                          repeated>>
  <1>1. /\ pc = "rows" /\ pc' = "keys" /\ flush.todo = {} /\ flush' = NoFlush
        /\ counts' = [bucket |-> minute_start(now), apps |-> NoKeys, clicks |-> 0, keys |-> counts.keys]
        /\ slow' = (slow \/ (~final /\ now > at))
        /\ UNCHANGED <<now, ui, final, at, last, batch, session, listening, registered, rows,
                       keyCounts, sessions, typed, clicked, inputs, late, pushed, failed, raised,
                       repeated>>
    BY DEF ClearCounts, Empty, storeVars
  <1>2. counts' \in Counts
    <2>1. now \in 0..MaxTime
      BY DEF Types, TypeOK
    <2>2. minute_start(now) \in Minutes
      BY <2>1, MinuteFacts
    <2>3. counts.keys \in [Apps -> Nat]
      BY Fields
    <2>4. QED
      BY <1>1, <2>2, <2>3 DEF NoKeys, Counts
  <1>3. /\ today' \in [pc : {"idle", "disk"}, disk : Nat, from : Nat, torn : BOOLEAN]
        /\ today'.torn = (today.torn \/ today.pc = "disk") /\ today'.pc = today.pc
    <2>1. today' = [today EXCEPT !.torn = today.torn \/ today.pc = "disk"]
      BY DEF ClearCounts
    <2> DEFINE torn == today.torn \/ today.pc = "disk"
    <2>2. torn \in BOOLEAN
      BY Fields
    <2> HIDE DEF torn
    <2>3. today' = [today EXCEPT !.torn = torn]
      BY <2>1 DEF torn
    <2>4. today' = [pc |-> today.pc, disk |-> today.disk, from |-> today.from, torn |-> torn]
      BY <2>3, Fields
    <2>5. /\ today' \in [pc : {"idle", "disk"}, disk : Nat, from : Nat, torn : BOOLEAN]
          /\ today'.torn = torn /\ today'.pc = today.pc
      BY <2>2, <2>4, Fields
    <2>6. QED
      BY <2>5 DEF torn
  <1>4. QED
    BY <1>1, <1>2, <1>3

LEMMA ClearedTypes ==
    ASSUME Types, ClearCounts
    PROVE  Types'
  <1>1. NoFlush \in Hand /\ NoFlush.done = {} /\ slow' \in BOOLEAN
    BY DEF NoFlush, Hand, ClearCounts, Types, Shape
  <1>2. TypeOK'
    BY <1>1, Cleared, ZenonT(40) DEF Types, TypeOK, Unsynced, Hand, Counts
  <1>3. Shape'
    BY <1>1, Cleared DEF Types, Shape
  <1>4. QED
    BY <1>2, <1>3 DEF Types

LEMMA BumpedTypes ==
    ASSUME Types, Bumped
    PROVE  Types'
  <1>1. /\ pc = "keys" /\ pc' = "bumped"
        /\ UNCHANGED <<now, ui, final, at, last, counts, flush, batch, session, listening, registered,
                       rows, sessions, today, typed, clicked, inputs, late, pushed, failed, raised,
                       repeated, slow>>
    BY DEF Bumped, historyVars
  <1>2. keyCounts' \in [Apps -> Nat]
    <2>1. keyCounts \in [Apps -> Nat]
      BY DEF Types, TypeOK
    <2>2. QED
      BY <2>1, Fields DEF Bumped
  <1>3. TypeOK'
    BY <1>1, <1>2 DEF Types, TypeOK, Unsynced
  <1>4. Shape'
    BY <1>1 DEF Types, Shape
  <1>5. QED
    BY <1>3, <1>4 DEF Types

LEMMA FlushedTypes ==
    ASSUME Types, Flushed
    PROVE  Types'
  <1>1. /\ pc = "bumped" /\ pc' = (IF final THEN "exit" ELSE "sync")
        /\ UNCHANGED <<now, ui, final, at, flush, batch, session, listening, registered, rows, keyCounts,
                       sessions, today, typed, clicked, inputs, late, pushed, failed, raised, repeated,
                       slow>>
    BY DEF Flushed, storeVars, historyVars
  <1>2. counts' \in Counts
    BY Fields DEF Flushed, Counts, NoKeys
  <1>3. last' \in [flush : 0..MaxTime, sync : 0..MaxTime]
    <2>1. at \in 0..MaxTime
      BY DEF Types, TypeOK
    <2>2. QED
      BY <2>1, Fields DEF Flushed
  <1>4. TypeOK'
    BY <1>1, <1>2, <1>3 DEF Types, TypeOK, Unsynced, Counts
  <1>5. Shape'
    BY <1>1 DEF Types, Shape
  <1>6. QED
    BY <1>4, <1>5 DEF Types

LEMMA MarkedRows ==
    ASSUME Types, Marked
    PROVE  /\ rows' \in Seq(Row) /\ Len(rows') = Len(rows)
           /\ DOMAIN rows' = DOMAIN rows
           /\ \A i \in DOMAIN rows :
                /\ rows'[i].min = rows[i].min /\ rows'[i].app = rows[i].app
                /\ rows'[i].keys = rows[i].keys /\ rows'[i].clicks = rows[i].clicks
                /\ rows'[i].synced = (rows[i].synced \/ i \in batch)
           /\ RowKeys' = RowKeys /\ RowClicks' = RowClicks
  <1>1. rows' = [i \in DOMAIN rows |-> IF i \in batch THEN [rows[i] EXCEPT !.synced = TRUE] ELSE rows[i]]
    BY DEF Marked
  <1>2. \A i \in DOMAIN rows : rows[i] \in Row
    BY RowFields
  <1>3. \A i \in DOMAIN rows :
          /\ rows'[i] \in Row
          /\ rows'[i].min = rows[i].min /\ rows'[i].app = rows[i].app
          /\ rows'[i].keys = rows[i].keys /\ rows'[i].clicks = rows[i].clicks
          /\ rows'[i].synced = (rows[i].synced \/ i \in batch)
    <2> SUFFICES ASSUME NEW i \in DOMAIN rows
                 PROVE  /\ rows'[i] \in Row
                        /\ rows'[i].min = rows[i].min /\ rows'[i].app = rows[i].app
                        /\ rows'[i].keys = rows[i].keys /\ rows'[i].clicks = rows[i].clicks
                        /\ rows'[i].synced = (rows[i].synced \/ i \in batch)
      OBVIOUS
    <2>1. CASE i \in batch
      <3>1. rows'[i] = [rows[i] EXCEPT !.synced = TRUE]
        BY <1>1, <2>1
      <3>2. QED
        BY <1>2, <2>1, <3>1 DEF Row
    <2>2. CASE i \notin batch
      <3>1. rows'[i] = rows[i]
        BY <1>1, <2>2
      <3>2. QED
        BY <1>2, <2>2, <3>1 DEF Row
    <2>3. QED
      BY <2>1, <2>2
  <1>4. rows' \in Seq(Row) /\ Len(rows') = Len(rows) /\ DOMAIN rows' = DOMAIN rows
    <2>1. /\ DOMAIN rows = 1..Len(rows) /\ Len(rows) \in Nat
          /\ rows' \in [DOMAIN rows -> Row]
      BY <1>1, <1>3, RowFields
    <2>2. ASSUME NEW s, s \in [1..Len(rows) -> Row]
          PROVE  s \in Seq(Row) /\ Len(s) = Len(rows) /\ DOMAIN s = 1..Len(rows)
      BY <2>1, <2>2
    <2>3. QED
      BY <2>1, <2>2
  <1>5. RowKeys' = RowKeys /\ RowClicks' = RowClicks
    BY <1>3, <1>4 DEF RowKeys, RowClicks
  <1>6. QED
    BY <1>3, <1>4, <1>5

LEMMA MarkedTypes ==
    ASSUME Types, Marked
    PROVE  Types'
  <1>1. /\ pc = "wire" /\ pc' = (IF final THEN "gone" ELSE "top") /\ batch' = {}
        /\ last' \in [flush : 0..MaxTime, sync : 0..MaxTime]
        /\ listening' \subseteq listening /\ pushed' = final
        /\ UNCHANGED <<now, ui, final, at, counts, flush, session, registered, keyCounts, sessions, today,
                       typed, clicked, inputs, late, failed, raised, repeated, slow>>
    BY DEF Marked
  <1>2. rows' \in Seq(Row) /\ \A i \in DOMAIN rows' : rows'[i] \in Row
    <2>1. rows' \in Seq(Row)
      BY MarkedRows
    <2>2. QED
      BY <2>1
  <1>3. TypeOK'
    BY <1>1, <1>2 DEF Types, TypeOK, Row
  <1>4. Shape'
    <2>1. final \in BOOLEAN
      BY DEF Types, TypeOK
    <2>2. QED
      BY <1>1, <1>2, <2>1 DEF Types, Shape
  <1>5. QED
    BY <1>3, <1>4 DEF Types

LEMMA Destroyed ==
    ASSUME Types, Destroy
    PROVE  /\ ui = "closing" /\ ui' = "closed" /\ listening' = {} /\ today' = NoCall
           /\ pc' = IF pc = "gone" THEN "gone" ELSE "killed"
           /\ UNCHANGED <<now, final, at, last, counts, flush, batch, session, registered, rows,
                          keyCounts, sessions, typed, clicked, inputs, late, pushed, failed, raised,
                          repeated, slow>>
  BY DEF Destroy, storeVars, historyVars

LEMMA DestroyTypes ==
    ASSUME Types, Destroy
    PROVE  Types'
  <1>1. pc # "killed"
    BY Destroyed DEF Types, Shape
  <1>2. TypeOK'
    BY <1>1, Destroyed DEF Types, TypeOK, Unsynced
  <1>3. Shape'
    <2>1. NoCall \in [pc : {"idle", "disk"}, disk : Nat, from : Nat, torn : BOOLEAN]
      BY DEF NoCall
    <2>2. /\ pc' # "killed" => pc' = "gone" /\ pc = "gone"
          /\ pc' \notin {"rows", "ending", "ended", "top", "sleep", "due", "finally", "exit", "stop"}
      BY Destroyed
    <2>3. QED
      BY <1>1, <2>1, <2>2, Destroyed DEF Types, Shape
  <1>4. QED
    BY <1>2, <1>3 DEF Types

LEMMA TypesStep == Types /\ [Next]_vars => Types'
  <1> SUFFICES ASSUME Types, [Next]_vars PROVE Types'
    OBVIOUS
  <1>1. CASE UNCHANGED vars
    <2>1. UNCHANGED <<now, ui, pc, final, at, last, counts, flush, batch, session, listening,
                      registered, rows, keyCounts, sessions, today, typed, clicked, inputs, late,
                      pushed, failed, raised, repeated, slow>>
      BY <1>1 DEF vars, loopVars, storeVars, historyVars
    <2>2. TypeOK'
      BY <2>1 DEF Types, TypeOK, Unsynced
    <2>3. Shape'
      BY <2>1 DEF Types, Shape
    <2>4. QED
      BY <2>2, <2>3 DEF Types
  <1>2. CASE Next
    BY <1>2, Steps, AsideTypes, MovedTypes, ThrownTypes, MissedTypes, PressedTypes, ClickedTypes,
       ClosedTypes, SessionOffTypes, BegunTypes, WroteTypes, SkippedTypes, ClearedTypes, BumpedTypes,
       FlushedTypes, MarkedTypes, DestroyTypes
  <1>3. QED
    BY <1>1, <1>2

LEMMA TypesHold == Spec => []Types
  BY InitTypes, TypesStep, PTL DEF Spec

\* Every variable keeps to its type: the rows on the wire are unsynced ones, the
\* session that is on has a row, and what a flush has written it has written with
\* the lock held.
THEOREM TypeCorrect == Spec => []TypeOK
  <1>1. Types => TypeOK
    BY DEF Types
  <1>2. QED
    BY <1>1, TypesHold, PTL

-----------------------------------------------------------------------------
\* What is left to a flush: an app is to be written, or written, or has nothing.
Writing ==
    pc = "rows" =>
        /\ flush.todo \cap flush.done = {}
        /\ \A a \in Apps : \/ a \in flush.todo \/ a \in flush.done
                           \/ counts.apps[a] = 0 /\ (a = flush.app => counts.clicks = 0)

LEMMA WritingStep == Types /\ Writing /\ [Next]_vars => Writing'
  <1> SUFFICES ASSUME Types, Writing, [Next]_vars PROVE Writing'
    OBVIOUS
  <1> USE DEF Writing
  <1>1. CASE UNCHANGED vars \/ Aside
    BY <1>1 DEF Aside, vars, loopVars
  <1>2. CASE Moved \/ Thrown \/ Closed \/ SessionOff \/ ClearCounts \/ Bumped \/ Flushed \/ Marked
             \/ Destroy
    <2>1. pc' # "rows"
      BY <1>2 DEF Moved, Thrown, Raise, Closed, SessionOff, ClearCounts, Bumped, Flushed, Marked,
                  Destroy, Goto
    <2>2. QED
      BY <2>1
  <1>3. CASE Missed \/ Clicked \/ \E app \in Apps : Pressed(app)
    <2>1. pc' # "rows"
      BY <1>3 DEF Missed, Clicked, Pressed, Noticed, Locked, loopVars
    <2>2. QED
      BY <2>1
  <1>4. ASSUME NEW app \in Apps, Begun(app) PROVE Writing'
    <2>1. flush'.todo = {a \in Apps : counts.apps[a] > 0} \cup {app} /\ flush'.done = {}
          /\ flush'.app = app /\ counts' = counts
      BY <1>4 DEF Begun
    <2>2. \A a \in Apps : counts.apps[a] \in Nat
      BY Fields
    <2>3. QED
      BY <2>1, <2>2
  <1>5. ASSUME NEW app \in Apps, Wrote(app) PROVE Writing'
    <2>1. /\ pc = "rows" /\ app \in flush.todo
          /\ flush'.app = flush.app /\ flush'.todo = flush.todo \ {app}
          /\ flush'.done = flush.done \cup {app} /\ counts' = counts
      BY <1>5 DEF Wrote
    <2>2. QED
      BY <2>1
  <1>6. ASSUME NEW app \in Apps, Skipped(app) PROVE Writing'
    <2>1. /\ pc = "rows" /\ app \in flush.todo
          /\ flush'.app = flush.app /\ flush'.todo = flush.todo \ {app}
          /\ flush'.done = flush.done /\ counts' = counts
          /\ counts.apps[app] = 0 /\ (app = flush.app => counts.clicks = 0)
      BY <1>6 DEF Skipped
    <2>2. QED
      BY <2>1
  <1>7. QED
    BY <1>1, <1>2, <1>3, <1>4, <1>5, <1>6, Steps

-----------------------------------------------------------------------------
\* The parts of CountsKept.
InHand(m, a)  == IF counts.bucket = m /\ a \notin flush.done THEN counts.apps[a] ELSE 0
ClicksLeft(m) == IF counts.bucket = m /\ flush.app \notin flush.done THEN counts.clicks ELSE 0
KeysLeft(a)   == IF pc = "bumped" THEN 0 ELSE counts.keys[a]
RowsIn(m)     == {i \in DOMAIN rows : rows[i].min = m}

CountInv ==
  pc # "killed" =>
    /\ \A m \in Minutes, a \in Apps : Kept(InHand(m, a) + SavedKeys(m, a), typed[m][a])
    /\ \A m \in Minutes : Kept(ClicksLeft(m) + SavedClicks(m), clicked[m])
    /\ \A a \in Apps : Kept(KeysLeft(a) + keyCounts[a], SumOver(TypedOf(a)))

LEMMA CountTypes ==
    ASSUME Types
    PROVE  /\ \A m, a : IsFiniteSet(RowsOf(m, a)) /\ SavedKeys(m, a) \in Nat
           /\ \A m : IsFiniteSet(RowsIn(m)) /\ SavedClicks(m) \in Nat
           /\ \A m \in Minutes, a \in Apps : InHand(m, a) \in Nat /\ typed[m][a] \in Nat
           /\ \A m \in Minutes : ClicksLeft(m) \in Nat /\ clicked[m] \in Nat
           /\ \A a \in Apps : KeysLeft(a) \in Nat /\ keyCounts[a] \in Nat
                              /\ SumOver(TypedOf(a)) \in Nat
           /\ repeated \in BOOLEAN
  <1>1. \A m, a : IsFiniteSet(RowsOf(m, a)) /\ RowsOf(m, a) \subseteq DOMAIN rows
    BY RowFields, FS_Subset DEF RowsOf
  <1>2. \A m : IsFiniteSet(RowsIn(m)) /\ RowsIn(m) \subseteq DOMAIN rows
    BY RowFields, FS_Subset DEF RowsIn
  <1>3. ASSUME NEW S \in SUBSET DOMAIN rows, IsFiniteSet(S), NEW f \in [DOMAIN rows -> Nat]
        PROVE  SumOn(f, S) \in Nat
    <2>1. \A x \in S : f[x] \in Int /\ f[x] >= 0
      OBVIOUS
    <2>2. SumOn(f, S) \in Int /\ SumOn(f, S) >= 0
      BY <1>3, <2>1, SumType
    <2>3. QED
      BY <2>2
  <1>4. \A m, a : SavedKeys(m, a) \in Nat
    BY <1>1, <1>3, RowFields DEF SavedKeys
  <1>5. \A m : SavedClicks(m) \in Nat
    BY <1>2, <1>3, RowFields DEF SavedClicks, RowsIn
  <1>6. /\ \A m \in Minutes, a \in Apps : InHand(m, a) \in Nat
        /\ \A m \in Minutes : ClicksLeft(m) \in Nat
        /\ \A a \in Apps : KeysLeft(a) \in Nat
    BY Fields DEF InHand, ClicksLeft, KeysLeft
  <1>7. /\ \A m \in Minutes, a \in Apps : typed[m][a] \in Nat
        /\ \A m \in Minutes : clicked[m] \in Nat
        /\ \A a \in Apps : keyCounts[a] \in Nat
        /\ repeated \in BOOLEAN
    BY DEF Types, TypeOK, Shape
  <1>8. \A a \in Apps : SumOver(TypedOf(a)) \in Nat
    BY Totals
  <1>9. QED
    BY <1>1, <1>2, <1>4, <1>5, <1>6, <1>7, <1>8

LEMMA InitCount == Init => CountInv
  <1> SUFFICES ASSUME Init PROVE CountInv
    OBVIOUS
  <1>1. /\ counts = Empty(minute_start(0), NoKeys) /\ keyCounts = NoKeys /\ rows = <<>>
        /\ typed = [m \in Minutes |-> NoKeys] /\ clicked = [m \in Minutes |-> 0]
    BY DEF Init
  <1>2. /\ \A a \in Apps : counts.apps[a] = 0 /\ counts.keys[a] = 0 /\ keyCounts[a] = 0
        /\ counts.clicks = 0
        /\ \A m \in Minutes, a \in Apps : typed[m][a] = 0
        /\ \A m \in Minutes : clicked[m] = 0
    BY <1>1 DEF Empty, NoKeys
  <1>3. \A m, a : SavedKeys(m, a) = 0 /\ SavedClicks(m) = 0
    <2>1. \A m, a : RowsOf(m, a) = {} /\ {i \in DOMAIN rows : rows[i].min = m} = {}
      BY <1>1 DEF RowsOf
    <2>2. QED
      BY <2>1, SumEmpty DEF SavedKeys, SavedClicks
  <1>4. \A a \in Apps : SumOver(TypedOf(a)) = 0
    <2> SUFFICES ASSUME NEW a \in Apps PROVE SumOver(TypedOf(a)) = 0
      OBVIOUS
    <2> DEFINE f == TypedOf(a)
    <2>1. DOMAIN f = Minutes /\ \A m \in Minutes : f[m] = 0
      BY <1>2 DEF TypedOf
    <2> HIDE DEF f
    <2>2. SumOn(f, Minutes) = 0
      BY <2>1, MinuteFacts, SumZero
    <2>3. SumOver(f) = 0
      BY <2>1, <2>2 DEF SumOver
    <2>4. QED
      BY <2>3 DEF f
  <1>5. Kept(0 + 0, 0)
    BY DEF Kept
  <1>6. /\ \A m \in Minutes, a \in Apps : InHand(m, a) = 0
        /\ \A m \in Minutes : ClicksLeft(m) = 0 /\ \A a \in Apps : KeysLeft(a) = 0
    BY <1>2 DEF InHand, ClicksLeft, KeysLeft
  <1>7. QED
    BY <1>2, <1>3, <1>4, <1>5, <1>6 DEF CountInv, KeysLeft

\* A step that leaves the counts, the rows and what is written of them as they are.
LEMMA SameCounts ==
    ASSUME Types, CountInv, pc # "killed",
           UNCHANGED <<counts, keyCounts, typed, clicked, repeated>>,
           flush'.done = flush.done, flush'.app = flush.app \/ flush.done = {},
           pc' = "bumped" <=> pc = "bumped",
           \A m, a : SavedKeys(m, a)' = SavedKeys(m, a),
           \A m : SavedClicks(m)' = SavedClicks(m)
    PROVE  CountInv'
  <1>1. \A m, a : InHand(m, a)' = InHand(m, a)
    BY DEF InHand
  <1>2. \A m : ClicksLeft(m)' = ClicksLeft(m)
    BY DEF ClicksLeft
  <1>3. \A a : KeysLeft(a)' = KeysLeft(a) /\ TypedOf(a)' = TypedOf(a)
    BY DEF KeysLeft, TypedOf
  <1>4. \A m \in Minutes, a \in Apps : Kept(InHand(m, a) + SavedKeys(m, a), typed[m][a])'
    BY <1>1 DEF CountInv, Kept
  <1>5. \A m \in Minutes : Kept(ClicksLeft(m) + SavedClicks(m), clicked[m])'
    BY <1>2 DEF CountInv, Kept
  <1>6. \A a \in Apps : Kept(KeysLeft(a) + keyCounts[a], SumOver(TypedOf(a)))'
    BY <1>3 DEF CountInv, Kept
  <1>7. QED
    BY <1>4, <1>5, <1>6 DEF CountInv

LEMMA SameRows ==
    ASSUME UNCHANGED rows
    PROVE  /\ \A m, a : SavedKeys(m, a)' = SavedKeys(m, a)
           /\ \A m : SavedClicks(m)' = SavedClicks(m)
           /\ KeysOnDisk' = KeysOnDisk
  BY DEF SavedKeys, SavedClicks, RowsOf, RowKeys, RowClicks, KeysOnDisk

LEMMA MarkedCounts ==
    ASSUME Types, Marked
    PROVE  /\ \A m, a : SavedKeys(m, a)' = SavedKeys(m, a)
           /\ \A m : SavedClicks(m)' = SavedClicks(m)
           /\ KeysOnDisk' = KeysOnDisk
  <1>1. \A m, a : RowsOf(m, a)' = RowsOf(m, a)
    BY MarkedRows DEF RowsOf
  <1>2. \A m : RowsIn(m)' = RowsIn(m)
    BY MarkedRows DEF RowsIn
  <1>3. RowKeys' = RowKeys /\ RowClicks' = RowClicks
    BY MarkedRows
  <1>4. QED
    BY <1>1, <1>2, <1>3 DEF SavedKeys, SavedClicks, RowsIn, KeysOnDisk

LEMMA QuietCounts ==
    ASSUME Types, CountInv, pc' # "killed",
           \/ UNCHANGED vars \/ Aside \/ Moved \/ Missed \/ Closed \/ SessionOff \/ Marked \/ Destroy
           \/ \E app \in Apps : Begun(app) \/ Skipped(app)
    PROVE  CountInv'
  <1>1. /\ UNCHANGED <<counts, keyCounts, typed, clicked, repeated>>
        /\ flush'.done = flush.done /\ (flush'.app = flush.app \/ flush.done = {})
        /\ pc # "killed" /\ (pc' = "bumped" <=> pc = "bumped")
    <2>1. CASE UNCHANGED vars \/ Aside \/ Missed
      BY <2>1 DEF Aside, Missed, vars, loopVars, storeVars, historyVars
    <2>2. CASE Moved \/ Closed \/ SessionOff \/ Marked
      BY <2>2 DEF Moved, Closed, SessionOff, Marked, Goto, storeVars, historyVars
    <2>3. CASE Destroy
      BY <2>3, Destroyed DEF Types, Shape
    <2>4. ASSUME NEW app \in Apps, Begun(app)
          PROVE  /\ UNCHANGED <<counts, keyCounts, typed, clicked, repeated>>
                 /\ flush'.done = flush.done /\ (flush'.app = flush.app \/ flush.done = {})
                 /\ pc # "killed" /\ (pc' = "bumped" <=> pc = "bumped")
      <3>1. flush = NoFlush /\ pc # "killed"
        BY <2>4 DEF Begun, Types, Shape
      <3>2. QED
        BY <2>4, <3>1 DEF Begun, NoFlush, storeVars, historyVars
    <2>5. ASSUME NEW app \in Apps, Skipped(app)
          PROVE  /\ UNCHANGED <<counts, keyCounts, typed, clicked, repeated>>
                 /\ flush'.done = flush.done /\ (flush'.app = flush.app \/ flush.done = {})
                 /\ pc # "killed" /\ (pc' = "bumped" <=> pc = "bumped")
      BY <2>5 DEF Skipped, storeVars, historyVars
    <2>6. QED
      BY <2>1, <2>2, <2>3, <2>4, <2>5
  <1>2. /\ \A m, a : SavedKeys(m, a)' = SavedKeys(m, a)
        /\ \A m : SavedClicks(m)' = SavedClicks(m)
    <2>1. CASE Marked
      BY <2>1, MarkedCounts
    <2>2. CASE ~Marked
      <3>1. UNCHANGED rows
        BY <2>2, Destroyed DEF vars, Aside, Moved, Missed, Closed, SessionOff, Begun, Skipped, storeVars
      <3>2. QED
        BY <3>1, SameRows
    <2>3. QED
      BY <2>1, <2>2
  <1>3. QED
    BY <1>1, <1>2, SameCounts

LEMMA ThrownCounts ==
    ASSUME Types, CountInv, Thrown
    PROVE  CountInv'
  <1>1. /\ UNCHANGED <<counts, rows, keyCounts, typed, clicked>>
        /\ flush'.done = {} /\ pc # "killed" /\ pc' # "bumped"
        /\ repeated' = (repeated \/ flush.done # {} \/ pc = "bumped")
    BY DEF Thrown, Raise, Goto, NoFlush, storeVars
  <1>2. /\ \A m, a : SavedKeys(m, a)' = SavedKeys(m, a)
        /\ \A m : SavedClicks(m)' = SavedClicks(m)
    BY <1>1, SameRows
  <1>3. CASE flush.done = {} /\ pc # "bumped"
    <2>1. repeated' = repeated
      BY <1>1, <1>3 DEF Types, Shape
    <2>2. flush'.done = flush.done /\ (pc' = "bumped" <=> pc = "bumped")
      BY <1>1, <1>3
    <2>3. QED
      BY <1>1, <1>2, <1>3, <2>1, <2>2, SameCounts
  <1>4. CASE ~(flush.done = {} /\ pc # "bumped")
    <2>1. repeated'
      BY <1>1, <1>4
    <2>2. /\ \A m \in Minutes, a \in Apps : InHand(m, a)' \in Nat /\ InHand(m, a)' >= InHand(m, a)
          /\ \A m \in Minutes : ClicksLeft(m)' \in Nat /\ ClicksLeft(m)' >= ClicksLeft(m)
          /\ \A a \in Apps : KeysLeft(a)' \in Nat /\ KeysLeft(a)' >= KeysLeft(a)
      BY <1>1, Fields DEF InHand, ClicksLeft, KeysLeft
    <2>3. \A a : TypedOf(a)' = TypedOf(a)
      BY <1>1 DEF TypedOf
    <2>4. \A m \in Minutes, a \in Apps :
            InHand(m, a)' + SavedKeys(m, a)' >= typed'[m][a]
      BY <1>1, <1>2, <2>2, CountTypes DEF CountInv, Kept
    <2>5. \A m \in Minutes : ClicksLeft(m)' + SavedClicks(m)' >= clicked'[m]
      BY <1>1, <1>2, <2>2, CountTypes DEF CountInv, Kept
    <2>6. \A a \in Apps : KeysLeft(a)' + keyCounts'[a] >= SumOver(TypedOf(a))'
      BY <1>1, <2>2, <2>3, CountTypes DEF CountInv, Kept
    <2>7. QED
      BY <2>1, <2>4, <2>5, <2>6 DEF CountInv, Kept
  <1>5. QED
    BY <1>3, <1>4

LEMMA NoHands ==
    ASSUME Types, pc \notin {"rows", "killed"}
    PROVE  flush = NoFlush /\ flush.done = {}
  BY DEF Types, Shape, NoFlush

LEMMA PressedTyped ==
    ASSUME Types, NEW app \in Apps, Pressed(app)
    PROVE  /\ \A m \in Minutes, a \in Apps :
                typed'[m][a] = typed[m][a] + IF m = counts.bucket /\ a = app THEN 1 ELSE 0
           /\ \A a \in Apps : SumOver(TypedOf(a)') = SumOver(TypedOf(a)) + IF a = app THEN 1 ELSE 0
           /\ KeysTyped' = KeysTyped + 1
  <1> DEFINE b == counts.bucket
  <1>1. /\ typed \in [Minutes -> [Apps -> Nat]] /\ typed' \in [Minutes -> [Apps -> Nat]]
        /\ b \in Minutes /\ typed' = [typed EXCEPT ![b][app] = @ + 1]
    <2>1. Types'
      BY PressedTypes
    <2>2. typed' \in [Minutes -> [Apps -> Nat]]
      BY <2>1 DEF Types, Shape
    <2>3. typed \in [Minutes -> [Apps -> Nat]]
      BY DEF Types, Shape
    <2>4. typed' = [typed EXCEPT ![b][app] = @ + 1]
      BY DEF Pressed
    <2>5. QED
      BY <2>2, <2>3, <2>4, Fields
  <1> HIDE DEF b
  <1>2. \A m \in Minutes, a \in Apps :
          typed'[m][a] = typed[m][a] + IF m = b /\ a = app THEN 1 ELSE 0
    BY <1>1
  <1>3. \A m \in Minutes : m # b => typed'[m] = typed[m]
    BY <1>1
  <1>4. ASSUME NEW a \in Apps
        PROVE  SumOver(TypedOf(a)') = SumOver(TypedOf(a)) + IF a = app THEN 1 ELSE 0
    <2> DEFINE f == TypedOf(a)
               g == TypedOf(a)'
    <2>1. /\ f \in [Minutes -> Nat] /\ g \in [Minutes -> Nat]
          /\ \A m \in Minutes : f[m] = typed[m][a] /\ g[m] = typed'[m][a]
      BY <1>1 DEF TypedOf
    <2>2. \A m \in Minutes \ {b} : g[m] = f[m]
      BY <1>3, <2>1
    <2>3. /\ a = app => g[b] = f[b] + 1
          /\ a # app => g[b] = f[b]
      BY <1>1, <1>2, <2>1
    <2>4. f \in [Minutes -> Nat] /\ g \in [Minutes -> Nat] /\ b \in Minutes /\ IsFiniteSet(Minutes)
      BY <1>1, <2>1, MinuteFacts
    <2> HIDE DEF f, g
    <2>5. SumOver(g) = SumOver(f) + (g[b] - f[b])
      BY <2>2, <2>4, NatSumUpdate
    <2>6. SumOver(f) \in Nat /\ f[b] \in Nat
      BY <2>4, NatSum
    <2>7. SumOver(g) = SumOver(f) + IF a = app THEN 1 ELSE 0
      BY <2>3, <2>5, <2>6
    <2>8. QED
      BY <2>7 DEF f, g
  <1>5. SumOver(typed'[b]) = SumOver(typed[b]) + 1
    <2> DEFINE f == typed[b]
               g == typed'[b]
    <2>1. /\ f \in [Apps -> Nat] /\ g \in [Apps -> Nat] /\ g[app] - f[app] = 1
          /\ \A a \in Apps \ {app} : g[a] = f[a]
      BY <1>1, <1>2
    <2> HIDE DEF f, g
    <2>2. SumOver(g) = SumOver(f) + (g[app] - f[app])
      BY <2>1, MinuteFacts, NatSumUpdate
    <2>3. SumOver(g) = SumOver(f) + 1
      BY <2>1, <2>2
    <2>4. QED
      BY <2>3 DEF f, g
  <1>6. KeysTyped' = KeysTyped + 1
    <2> DEFINE P == MinuteTotals
               Q == [m \in Minutes |-> SumOver(typed'[m])]
    <2>1. P \in [Minutes -> Nat] /\ KeysTyped = SumOver(P)
      BY Totals
    <2>2. \A m \in Minutes : P[m] = SumOver(typed[m]) /\ Q[m] = SumOver(typed'[m])
      BY DEF MinuteTotals
    <2>3. \A m \in Minutes \ {b} : Q[m] = P[m]
      BY <1>3, <2>2
    <2>4. Q[b] = P[b] + 1
      BY <1>1, <1>5, <2>2
    <2>5. DOMAIN Q = Minutes /\ Q = [m \in Minutes |-> Q[m]]
      OBVIOUS
    <2>6. KeysTyped' = SumOver(Q)
      BY DEF KeysTyped
    <2>7. b \in Minutes /\ IsFiniteSet(Minutes) /\ P \in [Minutes -> Nat]
      BY <1>1, <2>1, MinuteFacts
    <2> HIDE DEF P, Q
    <2>8. \A m \in Minutes : Q[m] \in Nat
      BY <2>3, <2>4, <2>7
    <2>9. Q \in [Minutes -> Nat]
      BY <2>5, <2>8
    <2>10. SumOver(Q) = SumOver(P) + (Q[b] - P[b])
      BY <2>3, <2>7, <2>9, NatSumUpdate
    <2>11. SumOver(P) \in Nat /\ P[b] \in Nat
      BY <2>7, NatSum
    <2>12. QED
      BY <2>1, <2>4, <2>6, <2>10, <2>11
  <1>7. QED
    BY <1>2, <1>4, <1>6 DEF b

LEMMA PressedCounts ==
    ASSUME Types, CountInv, NEW app \in Apps, Pressed(app)
    PROVE  CountInv'
  <1>1. /\ pc \notin {"rows", "killed", "keys", "bumped"} /\ pc' = pc /\ flush' = flush
        /\ UNCHANGED <<rows, keyCounts, clicked, repeated>>
    BY DEF Pressed, Noticed, Locked, loopVars
  <1>2. flush.done = {} /\ flush'.done = {}
    BY <1>1, NoHands
  <1>3. /\ counts'.bucket = counts.bucket /\ counts'.clicks = counts.clicks
        /\ \A a \in Apps : /\ counts'.apps[a] = counts.apps[a] + IF a = app THEN 1 ELSE 0
                           /\ counts'.keys[a] = counts.keys[a] + IF a = app THEN 1 ELSE 0
    BY Fields DEF Pressed
  <1>4. /\ \A m, a : SavedKeys(m, a)' = SavedKeys(m, a)
        /\ \A m : SavedClicks(m)' = SavedClicks(m)
    BY <1>1, SameRows
  <1>5. ASSUME NEW m \in Minutes, NEW a \in Apps
        PROVE  Kept(InHand(m, a) + SavedKeys(m, a), typed[m][a])'
    <2>1. InHand(m, a)' = InHand(m, a) + IF m = counts.bucket /\ a = app THEN 1 ELSE 0
      BY <1>2, <1>3, Fields DEF InHand
    <2>2. typed'[m][a] = typed[m][a] + IF m = counts.bucket /\ a = app THEN 1 ELSE 0
      BY PressedTyped
    <2>3. Kept(InHand(m, a) + SavedKeys(m, a), typed[m][a])
      BY <1>1 DEF CountInv
    <2> DEFINE one == IF m = counts.bucket /\ a = app THEN 1 ELSE 0
    <2>4. one \in Nat
      OBVIOUS
    <2> HIDE DEF one
    <2>5. InHand(m, a)' = InHand(m, a) + one /\ typed'[m][a] = typed[m][a] + one
      BY <2>1, <2>2 DEF one
    <2>6. /\ InHand(m, a)' + SavedKeys(m, a)' >= typed'[m][a]
          /\ InHand(m, a) + SavedKeys(m, a) = typed[m][a] =>
               InHand(m, a)' + SavedKeys(m, a)' = typed'[m][a]
      BY <1>4, <2>3, <2>4, <2>5, CountTypes DEF Kept
    <2>7. repeated \/ InHand(m, a) + SavedKeys(m, a) = typed[m][a]
      BY <2>3 DEF Kept
    <2>8. QED
      BY <1>1, <2>6, <2>7 DEF Kept
  <1>6. ASSUME NEW m \in Minutes
        PROVE  Kept(ClicksLeft(m) + SavedClicks(m), clicked[m])'
    <2>1. ClicksLeft(m)' = ClicksLeft(m)
      BY <1>1, <1>3 DEF ClicksLeft
    <2>2. Kept(ClicksLeft(m) + SavedClicks(m), clicked[m])
      BY <1>1 DEF CountInv
    <2>3. QED
      BY <1>1, <1>4, <2>1, <2>2 DEF Kept
  <1>7. ASSUME NEW a \in Apps
        PROVE  Kept(KeysLeft(a) + keyCounts[a], SumOver(TypedOf(a)))'
    <2> DEFINE one == IF a = app THEN 1 ELSE 0
    <2>1. KeysLeft(a)' = KeysLeft(a) + one
      BY <1>1, <1>3 DEF KeysLeft
    <2>2. SumOver(TypedOf(a)') = SumOver(TypedOf(a)) + one
      BY PressedTyped
    <2>3. Kept(KeysLeft(a) + keyCounts[a], SumOver(TypedOf(a)))
      BY <1>1 DEF CountInv
    <2>4. one \in Nat
      OBVIOUS
    <2> HIDE DEF one
    <2>5. /\ KeysLeft(a)' + keyCounts'[a] >= SumOver(TypedOf(a)')
          /\ KeysLeft(a) + keyCounts[a] = SumOver(TypedOf(a)) =>
               KeysLeft(a)' + keyCounts'[a] = SumOver(TypedOf(a)')
      BY <1>1, <2>1, <2>2, <2>3, <2>4, CountTypes DEF Kept
    <2>6. repeated \/ KeysLeft(a) + keyCounts[a] = SumOver(TypedOf(a))
      BY <2>3 DEF Kept
    <2>7. QED
      BY <1>1, <2>5, <2>6 DEF Kept
  <1>8. QED
    BY <1>5, <1>6, <1>7 DEF CountInv

LEMMA ClickedCounts ==
    ASSUME Types, CountInv, Clicked
    PROVE  CountInv'
  <1>1. /\ pc \notin {"rows", "killed", "keys", "bumped"} /\ pc' = pc /\ flush' = flush
        /\ UNCHANGED <<rows, keyCounts, typed, repeated>>
    BY DEF Clicked, Noticed, Locked, loopVars
  <1>2. flush.done = {} /\ flush'.done = {}
    BY <1>1, NoHands
  <1>3. /\ counts'.bucket = counts.bucket /\ counts'.clicks = counts.clicks + 1
        /\ counts'.apps = counts.apps /\ counts'.keys = counts.keys
    BY DEF Clicked
  <1>4. /\ \A m, a : SavedKeys(m, a)' = SavedKeys(m, a)
        /\ \A m : SavedClicks(m)' = SavedClicks(m)
    BY <1>1, SameRows
  <1>5. ASSUME NEW m \in Minutes, NEW a \in Apps
        PROVE  Kept(InHand(m, a) + SavedKeys(m, a), typed[m][a])'
    <2>1. InHand(m, a)' = InHand(m, a)
      BY <1>1, <1>3 DEF InHand
    <2>2. Kept(InHand(m, a) + SavedKeys(m, a), typed[m][a])
      BY <1>1 DEF CountInv
    <2>3. QED
      BY <1>1, <1>4, <2>1, <2>2 DEF Kept
  <1>6. ASSUME NEW m \in Minutes
        PROVE  Kept(ClicksLeft(m) + SavedClicks(m), clicked[m])'
    <2> DEFINE one == IF m = counts.bucket THEN 1 ELSE 0
    <2>1. ClicksLeft(m)' = ClicksLeft(m) + one
      BY <1>2, <1>3, Fields DEF ClicksLeft
    <2>2. clicked'[m] = clicked[m] + one
      <3>1. clicked \in [Minutes -> Nat]
        BY DEF Types, Shape
      <3> DEFINE b == counts.bucket
      <3> HIDE DEF b
      <3>2. clicked' = [clicked EXCEPT ![b] = @ + 1]
        BY DEF Clicked, b
      <3>3. clicked'[m] = clicked[m] + IF m = b THEN 1 ELSE 0
        BY <3>1, <3>2
      <3>4. QED
        BY <3>3 DEF b
    <2>3. Kept(ClicksLeft(m) + SavedClicks(m), clicked[m])
      BY <1>1 DEF CountInv
    <2>4. one \in Nat
      OBVIOUS
    <2> HIDE DEF one
    <2>5. /\ ClicksLeft(m)' + SavedClicks(m)' >= clicked'[m]
          /\ ClicksLeft(m) + SavedClicks(m) = clicked[m] =>
               ClicksLeft(m)' + SavedClicks(m)' = clicked'[m]
      BY <1>4, <2>1, <2>2, <2>3, <2>4, CountTypes DEF Kept
    <2>6. repeated \/ ClicksLeft(m) + SavedClicks(m) = clicked[m]
      BY <2>3 DEF Kept
    <2>7. QED
      BY <1>1, <2>5, <2>6 DEF Kept
  <1>7. ASSUME NEW a \in Apps
        PROVE  Kept(KeysLeft(a) + keyCounts[a], SumOver(TypedOf(a)))'
    <2>1. KeysLeft(a)' = KeysLeft(a) /\ TypedOf(a)' = TypedOf(a)
      BY <1>1, <1>3 DEF KeysLeft, TypedOf
    <2>2. Kept(KeysLeft(a) + keyCounts[a], SumOver(TypedOf(a)))
      BY <1>1 DEF CountInv
    <2>3. QED
      BY <1>1, <2>1, <2>2 DEF Kept
  <1>8. QED
    BY <1>5, <1>6, <1>7 DEF CountInv

\* What a new row adds to the totals.
LEMMA WroteSums ==
    ASSUME Types, NEW a \in Apps, Wrote(a)
    PROVE  /\ \A m, b : SavedKeys(m, b)' = SavedKeys(m, b)
                          + IF m = counts.bucket /\ b = a THEN counts.apps[a] ELSE 0
           /\ \A m : SavedClicks(m)' = SavedClicks(m)
                          + IF m = counts.bucket THEN RowOf(a).clicks ELSE 0
           /\ KeysOnDisk' = KeysOnDisk + counts.apps[a]
  <1> DEFINE n == Len(rows) + 1
             F == RowKeys
             G == RowKeys'
             P == RowClicks
             Q == RowClicks'
             k == counts.apps[a]
             c == RowOf(a).clicks
  <1>1. /\ DOMAIN rows = 1..Len(rows) /\ Len(rows) \in Nat /\ n \notin DOMAIN rows
        /\ DOMAIN rows' = DOMAIN rows \cup {n} /\ IsFiniteSet(DOMAIN rows)
        /\ F \in [DOMAIN rows -> Nat] /\ P \in [DOMAIN rows -> Nat]
    <2>1. DOMAIN rows = 1..Len(rows) /\ Len(rows) \in Nat /\ IsFiniteSet(DOMAIN rows)
          /\ F \in [DOMAIN rows -> Nat] /\ P \in [DOMAIN rows -> Nat]
      BY RowFields
    <2>2. DOMAIN rows' = 1..(Len(rows) + 1)
      BY RowOfType DEF Wrote
    <2>3. 1..(Len(rows) + 1) = 1..Len(rows) \cup {n} /\ n \notin 1..Len(rows)
      BY <2>1
    <2>4. QED
      BY <2>1, <2>2, <2>3
  <1>2. /\ \A i \in DOMAIN rows : rows'[i] = rows[i]
        /\ rows'[n] = RowOf(a)
    BY <1>1, RowOfType DEF Wrote
  <1>3. /\ \A i \in DOMAIN rows : G[i] = F[i] /\ Q[i] = P[i]
        /\ G[n] = k /\ Q[n] = c /\ DOMAIN G = DOMAIN rows \cup {n}
    BY <1>1, <1>2 DEF RowKeys, RowClicks, RowOf
  <1>4. k \in Nat /\ c \in Nat
    BY Fields DEF RowOf
  <1>5. /\ \A m, b : RowsOf(m, b)' = IF m = counts.bucket /\ b = a THEN RowsOf(m, b) \cup {n}
                                     ELSE RowsOf(m, b)
        /\ \A m : RowsIn(m)' = IF m = counts.bucket THEN RowsIn(m) \cup {n} ELSE RowsIn(m)
    <2>1. rows'[n].min = counts.bucket /\ rows'[n].app = a
      BY <1>2 DEF RowOf
    <2>2. QED
      BY <1>1, <1>2, <2>1 DEF RowsOf, RowsIn
  <1>6. \A m, b : SavedKeys(m, b) = SumOn(F, RowsOf(m, b)) /\ SavedKeys(m, b)' = SumOn(G, RowsOf(m, b)')
    BY DEF SavedKeys
  <1>7. \A m : SavedClicks(m) = SumOn(P, RowsIn(m)) /\ SavedClicks(m)' = SumOn(Q, RowsIn(m)')
    BY DEF SavedClicks, RowsIn
  <1>8. KeysOnDisk = SumOn(F, DOMAIN rows) /\ KeysOnDisk' = SumOn(G, DOMAIN rows \cup {n})
    <2>1. KeysOnDisk = SumOn(F, DOMAIN F) /\ KeysOnDisk' = SumOn(G, DOMAIN G)
      BY DEF KeysOnDisk, SumOver
    <2>2. QED
      BY <1>1, <1>3, <2>1
  <1> HIDE DEF F, G, P, Q, k, c, n
  <1>9. ASSUME NEW S \in SUBSET DOMAIN rows, IsFiniteSet(S)
        PROVE  /\ SumOn(G, S) = SumOn(F, S) /\ SumOn(G, S \cup {n}) = SumOn(F, S) + k
               /\ SumOn(Q, S) = SumOn(P, S) /\ SumOn(Q, S \cup {n}) = SumOn(P, S) + c
               /\ SumOn(F, S) \in Int /\ SumOn(P, S) \in Int
    <2>1. /\ n \notin S /\ G[n] = k /\ Q[n] = c /\ G[n] \in Int /\ Q[n] \in Int
          /\ \A i \in S : F[i] \in Int /\ G[i] = F[i]
          /\ \A i \in S : P[i] \in Int /\ Q[i] = P[i]
      BY <1>1, <1>3, <1>4
    <2>2. SumOn(G, S) = SumOn(F, S) /\ SumOn(G, S \cup {n}) = SumOn(F, S) + G[n]
      <3>1. n \notin S
        BY <2>1
      <3>2. G[n] \in Int
        BY <2>1
      <3>3. \A x \in S : F[x] \in Int /\ G[x] = F[x]
        BY <2>1
      <3>4. IsFiniteSet(S)
        BY <1>9
      <3>5. SumOn(G, S) = SumOn(F, S)
        BY <3>1, <3>2, <3>3, <3>4, SumGrows
      <3>6. SumOn(G, S \cup {n}) = SumOn(F, S) + G[n]
        BY <3>1, <3>2, <3>3, <3>4, SumGrows
      <3>7. QED
        BY <3>5, <3>6
    <2>3. SumOn(Q, S) = SumOn(P, S) /\ SumOn(Q, S \cup {n}) = SumOn(P, S) + Q[n]
      <3>1. n \notin S
        BY <2>1
      <3>2. Q[n] \in Int
        BY <2>1
      <3>3. \A x \in S : P[x] \in Int /\ Q[x] = P[x]
        BY <2>1
      <3>4. IsFiniteSet(S)
        BY <1>9
      <3>5. SumOn(Q, S) = SumOn(P, S)
        BY <3>1, <3>2, <3>3, <3>4, SumGrows
      <3>6. SumOn(Q, S \cup {n}) = SumOn(P, S) + Q[n]
        BY <3>1, <3>2, <3>3, <3>4, SumGrows
      <3>7. QED
        BY <3>5, <3>6
    <2>4. SumOn(F, S) \in Int /\ SumOn(P, S) \in Int
      BY <1>9, <2>1, SumType
    <2>5. QED
      BY <2>1, <2>2, <2>3, <2>4
  <1>10. /\ \A m, b : RowsOf(m, b) \subseteq DOMAIN rows /\ IsFiniteSet(RowsOf(m, b))
         /\ \A m : RowsIn(m) \subseteq DOMAIN rows /\ IsFiniteSet(RowsIn(m))
    <2>1. /\ \A m, b : RowsOf(m, b) \subseteq DOMAIN rows
          /\ \A m : RowsIn(m) \subseteq DOMAIN rows
      BY DEF RowsOf, RowsIn
    <2>2. QED
      BY <2>1, CountTypes
  <1>11. ASSUME NEW m, NEW b
         PROVE  SavedKeys(m, b)' = SavedKeys(m, b) + IF m = counts.bucket /\ b = a THEN k ELSE 0
    <2> DEFINE S == RowsOf(m, b)
    <2>1. /\ S \in SUBSET DOMAIN rows /\ IsFiniteSet(S)
          /\ SavedKeys(m, b) = SumOn(F, S) /\ SavedKeys(m, b)' = SumOn(G, S')
      BY <1>6, <1>10
    <2>2. S' = IF m = counts.bucket /\ b = a THEN S \cup {n} ELSE S
      BY <1>5
    <2> HIDE DEF S
    <2>3. SumOn(G, S) = SumOn(F, S) /\ SumOn(G, S \cup {n}) = SumOn(F, S) + k /\ SumOn(F, S) \in Int
      BY <1>9, <2>1
    <2>4. CASE m = counts.bucket /\ b = a
      BY <2>1, <2>2, <2>3, <2>4
    <2>5. CASE ~(m = counts.bucket /\ b = a)
      BY <2>1, <2>2, <2>3, <2>5
    <2>6. QED
      BY <2>4, <2>5
  <1>12. ASSUME NEW m
         PROVE  SavedClicks(m)' = SavedClicks(m) + IF m = counts.bucket THEN c ELSE 0
    <2> DEFINE S == RowsIn(m)
    <2>1. /\ S \in SUBSET DOMAIN rows /\ IsFiniteSet(S)
          /\ SavedClicks(m) = SumOn(P, S) /\ SavedClicks(m)' = SumOn(Q, S')
      BY <1>7, <1>10
    <2>2. S' = IF m = counts.bucket THEN S \cup {n} ELSE S
      BY <1>5
    <2> HIDE DEF S
    <2>3. SumOn(Q, S) = SumOn(P, S) /\ SumOn(Q, S \cup {n}) = SumOn(P, S) + c /\ SumOn(P, S) \in Int
      BY <1>9, <2>1
    <2>4. CASE m = counts.bucket
      BY <2>1, <2>2, <2>3, <2>4
    <2>5. CASE m # counts.bucket
      BY <2>1, <2>2, <2>3, <2>5
    <2>6. QED
      BY <2>4, <2>5
  <1>13. KeysOnDisk' = KeysOnDisk + k
    BY <1>1, <1>8, <1>9
  <1>14. QED
    BY <1>11, <1>12, <1>13 DEF k, c

LEMMA WroteCounts ==
    ASSUME Types, Writing, CountInv, NEW a \in Apps, Wrote(a)
    PROVE  CountInv'
  <1>1. /\ pc = "rows" /\ pc' = "rows" /\ a \in flush.todo /\ a \notin flush.done
        /\ flush'.app = flush.app /\ flush'.done = flush.done \cup {a}
        /\ UNCHANGED <<counts, keyCounts, typed, clicked, repeated>>
    BY DEF Wrote, Writing, historyVars
  <1>2. ASSUME NEW m \in Minutes, NEW b \in Apps
        PROVE  Kept(InHand(m, b) + SavedKeys(m, b), typed[m][b])'
    <2>1. InHand(m, b)' + SavedKeys(m, b)' = InHand(m, b) + SavedKeys(m, b)
      <3>1. InHand(m, b)' = IF m = counts.bucket /\ b = a THEN 0 ELSE InHand(m, b)
        BY <1>1 DEF InHand
      <3>2. m = counts.bucket /\ b = a => InHand(m, b) = counts.apps[a]
        BY <1>1 DEF InHand
      <3>3. SavedKeys(m, b)' = SavedKeys(m, b)
                               + IF m = counts.bucket /\ b = a THEN counts.apps[a] ELSE 0
        BY WroteSums
      <3>4. InHand(m, b) \in Nat /\ SavedKeys(m, b) \in Nat /\ counts.apps[a] \in Nat
        BY CountTypes, Fields
      <3>5. QED
        BY <3>1, <3>2, <3>3, <3>4
    <2>2. Kept(InHand(m, b) + SavedKeys(m, b), typed[m][b])
      BY <1>1 DEF CountInv
    <2>3. QED
      BY <1>1, <2>1, <2>2 DEF Kept
  <1>3. ASSUME NEW m \in Minutes
        PROVE  Kept(ClicksLeft(m) + SavedClicks(m), clicked[m])'
    <2>1. ClicksLeft(m)' + SavedClicks(m)' = ClicksLeft(m) + SavedClicks(m)
      <3>1. RowOf(a).clicks = IF a = flush.app THEN counts.clicks ELSE 0
        BY DEF RowOf
      <3>2. SavedClicks(m)' = SavedClicks(m) + IF m = counts.bucket THEN RowOf(a).clicks ELSE 0
        BY WroteSums
      <3>3. ClicksLeft(m)' = IF m = counts.bucket /\ a = flush.app THEN 0 ELSE ClicksLeft(m)
        BY <1>1 DEF ClicksLeft
      <3>4. m = counts.bucket /\ a = flush.app => ClicksLeft(m) = counts.clicks
        BY <1>1 DEF ClicksLeft
      <3>5. ClicksLeft(m) \in Nat /\ SavedClicks(m) \in Nat /\ counts.clicks \in Nat
        BY CountTypes, Fields
      <3>6. QED
        BY <3>1, <3>2, <3>3, <3>4, <3>5
    <2>2. Kept(ClicksLeft(m) + SavedClicks(m), clicked[m])
      BY <1>1 DEF CountInv
    <2>3. QED
      BY <1>1, <2>1, <2>2 DEF Kept
  <1>4. ASSUME NEW b \in Apps
        PROVE  Kept(KeysLeft(b) + keyCounts[b], SumOver(TypedOf(b)))'
    <2>1. KeysLeft(b)' = KeysLeft(b) /\ TypedOf(b)' = TypedOf(b)
      BY <1>1 DEF KeysLeft, TypedOf
    <2>2. Kept(KeysLeft(b) + keyCounts[b], SumOver(TypedOf(b)))
      BY <1>1 DEF CountInv
    <2>3. QED
      BY <1>1, <2>1, <2>2 DEF Kept
  <1>5. QED
    BY <1>2, <1>3, <1>4 DEF CountInv

LEMMA ClearedCounts ==
    ASSUME Types, Writing, CountInv, ClearCounts
    PROVE  CountInv'
  <1>1. /\ pc = "rows" /\ pc' = "keys" /\ flush.todo = {} /\ flush.app \in Apps
        /\ counts' = [bucket |-> minute_start(now), apps |-> NoKeys, clicks |-> 0,
                      keys |-> counts.keys]
        /\ UNCHANGED <<rows, keyCounts, typed, clicked, repeated>>
    BY Cleared DEF Types, Shape
  <1>2. /\ \A m, a : SavedKeys(m, a)' = SavedKeys(m, a)
        /\ \A m : SavedClicks(m)' = SavedClicks(m)
    BY <1>1, SameRows
  <1>3. \A a \in Apps : a \in flush.done
                        \/ (counts.apps[a] = 0 /\ (a = flush.app => counts.clicks = 0))
    BY <1>1 DEF Writing
  <1>4. /\ \A m \in Minutes, a \in Apps : InHand(m, a) = 0 /\ InHand(m, a)' = 0
        /\ \A m \in Minutes : ClicksLeft(m) = 0 /\ ClicksLeft(m)' = 0
    BY <1>1, <1>3 DEF InHand, ClicksLeft, NoKeys
  <1>5. \A a \in Apps : KeysLeft(a)' = KeysLeft(a) /\ TypedOf(a)' = TypedOf(a)
    BY <1>1 DEF KeysLeft, TypedOf
  <1>6. \A m \in Minutes, a \in Apps : Kept(InHand(m, a) + SavedKeys(m, a), typed[m][a])'
    BY <1>1, <1>2, <1>4 DEF CountInv, Kept
  <1>7. \A m \in Minutes : Kept(ClicksLeft(m) + SavedClicks(m), clicked[m])'
    BY <1>1, <1>2, <1>4 DEF CountInv, Kept
  <1>8. \A a \in Apps : Kept(KeysLeft(a) + keyCounts[a], SumOver(TypedOf(a)))'
    BY <1>1, <1>5 DEF CountInv, Kept
  <1>9. QED
    BY <1>6, <1>7, <1>8 DEF CountInv

LEMMA TableCounts ==
    ASSUME Types, CountInv, Bumped \/ Flushed
    PROVE  CountInv'
  <1>1. /\ pc \in {"keys", "bumped"} /\ flush' = flush
        /\ counts'.bucket = counts.bucket /\ counts'.apps = counts.apps
        /\ counts'.clicks = counts.clicks
        /\ UNCHANGED <<rows, typed, clicked, repeated>>
    BY DEF Bumped, Flushed, storeVars, historyVars
  <1>2. /\ \A m, a : SavedKeys(m, a)' = SavedKeys(m, a)
        /\ \A m : SavedClicks(m)' = SavedClicks(m)
    BY <1>1, SameRows
  <1>3. /\ \A m, a : InHand(m, a)' = InHand(m, a)
        /\ \A m : ClicksLeft(m)' = ClicksLeft(m)
        /\ \A a : TypedOf(a)' = TypedOf(a)
    BY <1>1 DEF InHand, ClicksLeft, TypedOf
  <1>4. \A a \in Apps : KeysLeft(a)' + keyCounts'[a] = KeysLeft(a) + keyCounts[a]
    <2> SUFFICES ASSUME NEW a \in Apps
                 PROVE  KeysLeft(a)' + keyCounts'[a] = KeysLeft(a) + keyCounts[a]
      OBVIOUS
    <2>1. counts.keys[a] \in Nat /\ keyCounts[a] \in Nat
      BY Fields, CountTypes
    <2>2. CASE Bumped
      <3>1. pc = "keys" /\ pc' = "bumped" /\ keyCounts'[a] = keyCounts[a] + counts.keys[a]
        BY <2>2 DEF Bumped
      <3>2. QED
        BY <2>1, <3>1 DEF KeysLeft
    <2>3. CASE Flushed
      <3>1. pc = "bumped" /\ pc' # "bumped" /\ keyCounts' = keyCounts /\ counts'.keys[a] = 0
        BY <2>3 DEF Flushed, NoKeys, storeVars
      <3>2. QED
        BY <2>1, <3>1 DEF KeysLeft
    <2>4. QED
      BY <2>2, <2>3
  <1>5. \A m \in Minutes, a \in Apps : Kept(InHand(m, a) + SavedKeys(m, a), typed[m][a])'
    BY <1>1, <1>2, <1>3 DEF CountInv, Kept
  <1>6. \A m \in Minutes : Kept(ClicksLeft(m) + SavedClicks(m), clicked[m])'
    BY <1>1, <1>2, <1>3 DEF CountInv, Kept
  <1>7. \A a \in Apps : Kept(KeysLeft(a) + keyCounts[a], SumOver(TypedOf(a)))'
    BY <1>1, <1>3, <1>4 DEF CountInv, Kept
  <1>8. QED
    BY <1>5, <1>6, <1>7 DEF CountInv

LEMMA CountStep == Types /\ Writing /\ CountInv /\ [Next]_vars => CountInv'
  <1> SUFFICES ASSUME Types, Writing, CountInv, [Next]_vars, pc' # "killed" PROVE CountInv'
    BY DEF CountInv
  <1>1. CASE \/ UNCHANGED vars \/ Aside \/ Moved \/ Missed \/ Closed \/ SessionOff \/ Marked \/ Destroy
             \/ \E app \in Apps : Begun(app) \/ Skipped(app)
    BY <1>1, QuietCounts
  <1>2. CASE Thrown
    BY <1>2, ThrownCounts
  <1>3. CASE Clicked \/ \E app \in Apps : Pressed(app)
    BY <1>3, ClickedCounts, PressedCounts
  <1>4. CASE \E app \in Apps : Wrote(app)
    BY <1>4, WroteCounts
  <1>5. CASE ClearCounts \/ Bumped \/ Flushed
    BY <1>5, ClearedCounts, TableCounts
  <1>6. QED
    BY <1>1, <1>2, <1>3, <1>4, <1>5, Steps

-----------------------------------------------------------------------------
\* One row per minute and app.  While there is a flush to come, every row is of a
\* minute before the bucket's, or written by the flush that is under way: the bucket
\* is the minute of the last flush, and a flush begins FlushInterval after the last.
Single    == \A i, j \in DOMAIN rows : rows[i].min = rows[j].min /\ rows[i].app = rows[j].app => i = j
Behind    == \A i \in DOMAIN rows : \/ rows[i].min < counts.bucket
                                    \/ rows[i].min = counts.bucket /\ rows[i].app \in flush.done
Clearing  == pc \in {"keys", "bumped"}
InStep    == counts.bucket = minute_start(IF Clearing THEN at ELSE last.flush)
FlushAhead == ~final \/ pc \in {"finally", "rows"}

MinuteInv ==
    pc # "killed" /\ ~repeated /\ ~slow =>
        /\ Single
        /\ FlushAhead => Behind
        /\ ~final => InStep
        /\ ~final /\ pc = "rows" => at - last.flush >= FlushInterval

LEMMA LaterMinute ==
    ASSUME NEW s \in 0..MaxTime, NEW t \in 0..MaxTime, t - s >= FlushInterval
    PROVE  minute_start(s) < minute_start(t)
  <1>1. /\ MinuteLength \in Nat \ {0} /\ FlushInterval \in Nat /\ FlushInterval >= MinuteLength
        /\ MaxTime \in Nat
    BY PyAgentAssumption
  <1> DEFINE n == MinuteLength
             q == s \div n
             r == t \div n
  <1>2. q \in Int /\ r \in Int /\ q * n <= s /\ t < (r + 1) * n
    BY <1>1, Division
  <1>3. s + n <= t
    BY <1>1
  <1>4. ~(r <= q)
    <2> SUFFICES ASSUME r <= q PROVE FALSE
      OBVIOUS
    <2> HIDE DEF q, r
    <2>1. r = q \/ r < q
      BY <1>2
    <2>2. r * n <= q * n
      BY <1>1, <1>2, <2>1, TimesGrows
    <2>3. (r + 1) * n = r * n + n /\ r * n \in Int /\ q * n \in Int
      BY <1>1, <1>2
    <2>4. QED
      BY <1>1, <1>2, <1>3, <2>2, <2>3
  <1>5. QED
    BY <1>2, <1>4 DEF minute_start

\* A step that leaves the rows' keys, the bucket and the written apps as they are.
LEMMA SameMinutes ==
    ASSUME MinuteInv, pc # "killed", repeated' = repeated, slow' = slow,
           counts'.bucket = counts.bucket, last'.flush = last.flush, flush'.done = flush.done,
           DOMAIN rows' = DOMAIN rows,
           \A i \in DOMAIN rows : rows'[i].min = rows[i].min /\ rows'[i].app = rows[i].app,
           ~final' => ~final, FlushAhead' => FlushAhead,
           ~final' => (Clearing' <=> Clearing) /\ (Clearing => at' = at),
           ~final' /\ pc' = "rows" => at' - last.flush >= FlushInterval
    PROVE  MinuteInv'
  <1> SUFFICES ASSUME ~repeated, ~slow
               PROVE  /\ Single'
                      /\ FlushAhead' => Behind'
                      /\ ~final' => InStep'
                      /\ ~final' /\ pc' = "rows" => at' - last'.flush >= FlushInterval
    BY DEF MinuteInv
  <1>1. Single'
    BY DEF MinuteInv, Single
  <1>2. FlushAhead' => Behind'
    BY DEF MinuteInv, Behind
  <1>3. ~final' => InStep'
    <2> SUFFICES ASSUME ~final' PROVE InStep'
      OBVIOUS
    <2>1. InStep
      BY DEF MinuteInv
    <2>2. CASE Clearing
      BY <2>1, <2>2 DEF InStep
    <2>3. CASE ~Clearing
      BY <2>1, <2>3 DEF InStep
    <2>4. QED
      BY <2>2, <2>3
  <1>4. QED
    BY <1>1, <1>2, <1>3

LEMMA QuietMinutes ==
    ASSUME Types, MinuteInv, pc' # "killed",
           \/ UNCHANGED vars \/ Aside \/ Moved \/ Missed \/ Clicked \/ Closed \/ SessionOff \/ Marked
           \/ Bumped \/ Destroy
           \/ \E app \in Apps : Pressed(app) \/ Begun(app) \/ Skipped(app)
    PROVE  MinuteInv'
  <1>1. /\ DOMAIN rows' = DOMAIN rows
        /\ \A i \in DOMAIN rows : rows'[i].min = rows[i].min /\ rows'[i].app = rows[i].app
    <2>1. CASE Marked
      BY <2>1, MarkedRows
    <2>2. CASE ~Marked
      <3>1. UNCHANGED rows
        BY <2>2, Destroyed DEF vars, Aside, Moved, Missed, Clicked, Closed, SessionOff, Bumped, Pressed,
                               Noticed, Begun, Skipped, storeVars
      <3>2. QED
        BY <3>1
    <2>3. QED
      BY <2>1, <2>2
  <1>2. /\ repeated' = repeated /\ slow' = slow /\ pc # "killed"
        /\ counts'.bucket = counts.bucket /\ last'.flush = last.flush /\ flush'.done = flush.done
        /\ ~final' => ~final /\ (Clearing' <=> Clearing) /\ (Clearing => at' = at)
        /\ FlushAhead' => FlushAhead
        /\ ~final' /\ pc' = "rows" => at' = at /\ (pc = "rows" \/ at - last.flush >= FlushInterval)
    <2> USE DEF Clearing, FlushAhead
    <2>1. CASE UNCHANGED vars \/ Aside \/ Missed
      BY <2>1 DEF Aside, Missed, vars, loopVars, storeVars, historyVars
    <2>2. CASE Moved
      BY <2>2 DEF Moved, Types, Shape
    <2>3. CASE Closed \/ SessionOff \/ Bumped
      BY <2>3 DEF Closed, SessionOff, Bumped, Goto, storeVars, historyVars, Types, Shape
    <2>4. CASE Marked
      BY <2>4 DEF Marked
    <2>5. CASE Destroy
      <3>1. pc = "gone" /\ pc' = "gone"
        BY <2>5, Destroyed
      <3>2. final /\ final' = final
        BY <2>5, <3>1, Destroyed DEF Types, Shape
      <3>3. QED
        BY <2>5, <3>1, <3>2, Destroyed
    <2>6. CASE Clicked \/ \E app \in Apps : Pressed(app)
      <3>1. Noticed /\ counts'.bucket = counts.bucket
        <4>1. CASE Clicked
          BY <4>1 DEF Clicked
        <4>2. ASSUME NEW app \in Apps, Pressed(app)
              PROVE  Noticed /\ counts'.bucket = counts.bucket
          BY <4>2 DEF Pressed
        <4>3. QED
          BY <2>6, <4>1, <4>2
      <3>2. pc # "killed" /\ UNCHANGED <<pc, final, at, last, flush, repeated, slow>>
        BY <3>1 DEF Noticed, loopVars
      <3>3. QED
        BY <3>1, <3>2
    <2>7. CASE \E app \in Apps : Begun(app)
      <3>1. PICK app \in Apps : Begun(app)
        BY <2>7
      <3>2. flush.done = {}
        BY <3>1, NoHands DEF Begun
      <3>3. /\ pc' = "rows" /\ flush'.done = {} /\ at' = at
            /\ \/ pc = "due" /\ at - last.flush >= FlushInterval
               \/ pc = "finally"
            /\ UNCHANGED <<counts, last, final, repeated, slow>>
        BY <3>1 DEF Begun, historyVars
      <3>4. (pc = "due" => ~final) /\ (pc = "finally" => final)
        BY DEF Types, Shape
      <3>5. QED
        BY <3>2, <3>3, <3>4
    <2>8. CASE \E app \in Apps : Skipped(app)
      BY <2>8 DEF Skipped, storeVars, historyVars
    <2>9. QED
      BY <2>1, <2>2, <2>3, <2>4, <2>5, <2>6, <2>7, <2>8
  <1>3. repeated \/ slow => MinuteInv'
    BY <1>2 DEF MinuteInv
  <1>4. ASSUME ~repeated, ~slow, ~final', pc' = "rows"
        PROVE  at' - last.flush >= FlushInterval
    BY <1>2, <1>4 DEF MinuteInv
  <1>5. CASE ~repeated /\ ~slow
    BY <1>1, <1>2, <1>4, <1>5, SameMinutes
  <1>6. QED
    BY <1>3, <1>5

LEMMA ThrownMinutes ==
    ASSUME Types, MinuteInv, Thrown
    PROVE  MinuteInv'
  <1>1. /\ UNCHANGED <<counts, rows, last, at, slow>> /\ flush'.done = {} /\ pc # "killed" /\ final'
        /\ pc' = (IF final THEN "gone" ELSE "finally")
        /\ repeated' = (repeated \/ flush.done # {} \/ pc = "bumped")
    BY DEF Thrown, Raise, Goto, NoFlush, storeVars
  <1>2. FlushAhead' => FlushAhead
    BY <1>1 DEF FlushAhead
  <1>3. CASE repeated'
    BY <1>3 DEF MinuteInv
  <1>4. CASE ~repeated'
    <2>1. repeated' = repeated /\ flush'.done = flush.done
      BY <1>1, <1>4 DEF Types, Shape
    <2>2. QED
      BY <1>1, <1>2, <2>1, SameMinutes
  <1>5. QED
    BY <1>3, <1>4

LEMMA WroteMinutes ==
    ASSUME Types, Writing, MinuteInv, NEW a \in Apps, Wrote(a)
    PROVE  MinuteInv'
  <1>1. /\ pc = "rows" /\ pc' = "rows" /\ a \in flush.todo /\ a \notin flush.done
        /\ flush'.done = flush.done \cup {a}
        /\ UNCHANGED <<counts, last, at, final, repeated, slow>>
    BY DEF Wrote, Writing, historyVars
  <1> DEFINE n == Len(rows) + 1
  <1>2. /\ DOMAIN rows' = DOMAIN rows \cup {n} /\ n \notin DOMAIN rows
        /\ \A i \in DOMAIN rows : rows'[i] = rows[i]
        /\ rows'[n].min = counts.bucket /\ rows'[n].app = a
    <2>1. Len(rows) \in Nat /\ DOMAIN rows = 1..Len(rows)
      BY RowFields
    <2>2. /\ DOMAIN rows' = 1..(Len(rows) + 1)
          /\ \A i \in 1..Len(rows) : rows'[i] = rows[i]
          /\ rows'[n] = RowOf(a)
      BY RowOfType DEF Wrote
    <2>3. QED
      BY <2>1, <2>2 DEF RowOf
  <1> HIDE DEF n
  <1> SUFFICES ASSUME ~repeated, ~slow
               PROVE  Single' /\ Behind' /\ (~final' => InStep' /\ at' - last'.flush >= FlushInterval)
    BY <1>1 DEF MinuteInv
  <1>3. Single /\ Behind /\ (~final => InStep /\ at - last.flush >= FlushInterval)
    BY <1>1 DEF MinuteInv, FlushAhead
  <1>4. Behind'
    BY <1>1, <1>2, <1>3 DEF Behind
  <1>5. \A i \in DOMAIN rows : ~(rows[i].min = counts.bucket /\ rows[i].app = a)
    <2>1. \A i \in DOMAIN rows : rows[i].min \in Int
      BY RowMinutes
    <2>2. QED
      BY <1>1, <1>3, <2>1 DEF Behind
  <1>6. Single'
    BY <1>2, <1>3, <1>5 DEF Single
  <1>7. ~final' => InStep' /\ at' - last'.flush >= FlushInterval
    BY <1>1, <1>3 DEF InStep, Clearing
  <1>8. QED
    BY <1>4, <1>6, <1>7

LEMMA ClearedMinutes ==
    ASSUME Types, MinuteInv, ClearCounts
    PROVE  MinuteInv'
  <1>1. /\ pc = "rows" /\ pc' = "keys" /\ counts'.bucket = minute_start(now)
        /\ slow' = (slow \/ (~final /\ now > at))
        /\ UNCHANGED <<rows, last, at, final, repeated>>
    BY Cleared
  <1> SUFFICES ASSUME ~repeated, ~slow'
               PROVE  Single' /\ (~final => Behind' /\ InStep')
    BY <1>1 DEF MinuteInv, FlushAhead
  <1>2. ~slow /\ (final \/ ~(now > at))
    BY <1>1
  <1>3. Single /\ Behind /\ (~final => InStep /\ at - last.flush >= FlushInterval)
    BY <1>1, <1>2 DEF MinuteInv, FlushAhead
  <1>4. Single'
    BY <1>1, <1>3 DEF Single
  <1>5. ASSUME ~final PROVE Behind' /\ InStep'
    <2>1. now \in 0..MaxTime /\ at \in 0..MaxTime /\ at <= now /\ last.flush \in 0..MaxTime
          /\ MaxTime \in Nat
      BY Fields, MinuteFacts DEF Types, TypeOK, Shape
    <2>2. now = at
      BY <1>2, <1>5, <2>1
    <2>3. counts.bucket = minute_start(last.flush)
      BY <1>1, <1>3, <1>5 DEF InStep, Clearing
    <2>4. counts.bucket < minute_start(at)
      BY <1>3, <1>5, <2>1, <2>3, LaterMinute
    <2>5. counts'.bucket = minute_start(at)
      BY <1>1, <2>2
    <2>6. minute_start(at) \in Int /\ counts.bucket \in Int /\ \A i \in DOMAIN rows : rows[i].min \in Int
      BY <2>1, Fields, RowMinutes, MinuteFacts
    <2>7. \A i \in DOMAIN rows : rows[i].min < counts'.bucket
      BY <1>3, <2>4, <2>5, <2>6 DEF Behind
    <2>8. QED
      BY <1>1, <2>5, <2>7 DEF Behind, InStep, Clearing
  <1>6. QED
    BY <1>4, <1>5

LEMMA FlushedMinutes ==
    ASSUME Types, MinuteInv, Flushed
    PROVE  MinuteInv'
  <1>1. /\ pc = "bumped" /\ pc' = (IF final THEN "exit" ELSE "sync")
        /\ last'.flush = (IF final THEN last.flush ELSE at)
        /\ counts'.bucket = counts.bucket
        /\ UNCHANGED <<rows, flush, at, final, repeated, slow>>
    BY DEF Flushed, storeVars, historyVars
  <1> SUFFICES ASSUME ~repeated, ~slow
               PROVE  Single' /\ (~final => Behind' /\ InStep')
    BY <1>1 DEF MinuteInv, FlushAhead
  <1>2. Single /\ (~final => Behind /\ InStep)
    BY <1>1 DEF MinuteInv, FlushAhead
  <1>3. Single' /\ (~final => Behind')
    BY <1>1, <1>2 DEF Single, Behind
  <1>4. ~final => InStep'
    BY <1>1, <1>2 DEF InStep, Clearing
  <1>5. QED
    BY <1>3, <1>4

LEMMA MinuteStep == Types /\ Writing /\ MinuteInv /\ [Next]_vars => MinuteInv'
  <1> SUFFICES ASSUME Types, Writing, MinuteInv, [Next]_vars, pc' # "killed" PROVE MinuteInv'
    BY DEF MinuteInv
  <1>1. CASE \/ UNCHANGED vars \/ Aside \/ Moved \/ Missed \/ Clicked \/ Closed \/ SessionOff \/ Marked
             \/ Bumped \/ Destroy
             \/ \E app \in Apps : Pressed(app) \/ Begun(app) \/ Skipped(app)
    BY <1>1, QuietMinutes
  <1>2. CASE Thrown \/ ClearCounts \/ Flushed
    BY <1>2, ThrownMinutes, ClearedMinutes, FlushedMinutes
  <1>3. CASE \E app \in Apps : Wrote(app)
    BY <1>3, WroteMinutes
  <1>4. QED
    BY <1>1, <1>2, <1>3, Steps

LEMMA InitMinutes == Init => Writing /\ MinuteInv
  <1> SUFFICES ASSUME Init PROVE Writing /\ MinuteInv
    OBVIOUS
  <1>1. /\ pc = "top" /\ rows = <<>> /\ last = [flush |-> 0, sync |-> 0]
        /\ counts = Empty(minute_start(0), NoKeys)
    BY DEF Init
  <1>2. Single /\ Behind
    BY <1>1 DEF Single, Behind
  <1>3. InStep
    BY <1>1 DEF InStep, Clearing, Empty
  <1>4. QED
    BY <1>1, <1>2, <1>3 DEF Writing, MinuteInv

LEMMA PartsOfCountsKept ==
    ASSUME Types, CountInv, MinuteInv
    PROVE  CountsKept
  <1> SUFFICES ASSUME pc # "killed" PROVE CountsKept
    BY DEF CountsKept
  <1>1. ASSUME ~repeated, ~slow, NEW m, NEW a
        PROVE  Cardinality(RowsOf(m, a)) <= 1
    <2>1. \A i, j \in RowsOf(m, a) : i = j
      BY <1>1 DEF MinuteInv, Single, RowsOf
    <2>2. Cardinality(RowsOf(m, a)) = 0 \/ Cardinality(RowsOf(m, a)) = 1
      <3>1. CASE RowsOf(m, a) = {}
        BY <3>1, FS_EmptySet, Zenon
      <3>2. CASE RowsOf(m, a) # {}
        <4>1. PICK i : i \in RowsOf(m, a)
          BY <3>2
        <4>2. RowsOf(m, a) = {i}
          BY <2>1, <4>1
        <4>3. Cardinality({i}) = 1
          BY FS_Singleton
        <4>4. QED
          BY <4>2, <4>3, Zenon
      <3>3. QED
        BY <3>1, <3>2
    <2>3. QED
      BY <2>2
  <1>2. \A m \in Minutes, a \in Apps :
          Kept((IF counts.bucket = m /\ a \notin flush.done THEN counts.apps[a] ELSE 0) + SavedKeys(m, a),
               typed[m][a])
    BY DEF CountInv, InHand
  <1>3. \A m \in Minutes :
          Kept((IF counts.bucket = m /\ flush.app \notin flush.done THEN counts.clicks ELSE 0)
                  + SavedClicks(m),
               clicked[m])
    BY DEF CountInv, ClicksLeft
  <1>4. \A a \in Apps :
          Kept((IF pc = "bumped" THEN 0 ELSE counts.keys[a]) + keyCounts[a],
               SumOver([m \in Minutes |-> typed[m][a]]))
    BY DEF CountInv, KeysLeft, TypedOf
  <1>5. \A m \in Minutes, a \in Apps : repeated \/ slow \/ Cardinality(RowsOf(m, a)) <= 1
    BY <1>1
  <1>6. QED
    BY <1>2, <1>3, <1>4, <1>5 DEF CountsKept

LEMMA CountsHold == Spec => [](Types /\ Writing /\ CountInv /\ MinuteInv)
  <1>1. Init => Types /\ Writing /\ CountInv /\ MinuteInv
    BY InitTypes, InitCount, InitMinutes
  <1>2. Types /\ Writing /\ CountInv /\ MinuteInv /\ [Next]_vars
          => (Types /\ Writing /\ CountInv /\ MinuteInv)'
    BY TypesStep, WritingStep, CountStep, MinuteStep
  <1>3. QED
    BY <1>1, <1>2, PTL DEF Spec

\* No keystroke and no click that was counted is lost between memory and the tables,
\* wherever a flush is left, and a minute's count of an app is written once unless a
\* flush was left midway or outlasted its minute (agent.py:974-1005).
THEOREM NothingLost == Spec => []CountsKept
  <1>1. Types /\ Writing /\ CountInv /\ MinuteInv => CountsKept
    BY PartsOfCountsKept
  <1>2. QED
    BY <1>1, CountsHold, PTL

-----------------------------------------------------------------------------
\* The sessions.  The one that is on is the last row; its end is written between two
\* steps of the loop, or at the exit, and at no other time.
AllEnded == \A i \in DOMAIN sessions : sessions[i].end # Never
InOrder  == \A i, j \in DOMAIN sessions : i < j =>
                /\ sessions[i].end # Never
                /\ sessions[i].end <= sessions[j].start
Sensible == \A i \in DOMAIN sessions :
                /\ sessions[i].start <= now
                /\ sessions[i].end # Never =>
                     sessions[i].start <= sessions[i].end /\ sessions[i].end <= now
Covered  == \A t \in inputs :
                /\ t <= session.last_event
                /\ \E i \in DOMAIN sessions :
                      /\ sessions[i].start <= t
                      /\ sessions[i].end = Never \/ t <= sessions[i].end
LastIsOn == session.active => /\ session.id = Len(sessions) /\ session.id # 0
                              /\ sessions[session.id].start <= session.last_event
Open     == session.active /\ pc \notin {"ended", "killed"} /\ ~final
                => sessions[session.id].end = Never

SessionInv ==
    /\ InOrder /\ Sensible /\ Covered /\ LastIsOn /\ Open
    /\ session.last_event <= now
    /\ ~session.active => AllEnded
    /\ pc = "ended" => sessions[session.id].end # Never

LEMMA Times ==
    ASSUME Types
    PROVE  /\ Never \notin 0..MaxTime /\ Never \in Int
           /\ now \in 0..MaxTime /\ now \in Int /\ session.last_event \in Int
           /\ Len(sessions) \in Nat /\ DOMAIN sessions = 1..Len(sessions)
           /\ \A i \in DOMAIN sessions :
                /\ sessions[i].start \in Int
                /\ sessions[i].end \in Int /\ sessions[i].end \in 0..MaxTime \cup {Never}
           /\ \A t \in inputs : t \in Int
  <1>1. MaxTime \in Nat /\ Never = -1
    BY MinuteFacts DEF Never
  <1>2. now \in 0..MaxTime /\ session.last_event \in 0..MaxTime /\ inputs \subseteq 0..MaxTime
    BY Fields DEF Types, TypeOK, Shape
  <1>3. /\ Len(sessions) \in Nat /\ DOMAIN sessions = 1..Len(sessions)
        /\ \A i \in DOMAIN sessions : /\ sessions[i].start \in 0..MaxTime
                                      /\ sessions[i].end \in 0..MaxTime \cup {Never}
    BY RowFields DEF SessionRow
  <1>4. QED
    BY <1>1, <1>2, <1>3

LEMMA InitSessions == Init => SessionInv
  BY DEF Init, SessionInv, InOrder, Sensible, Covered, LastIsOn, Open, AllEnded

\* A step that leaves the sessions alone; time may pass.
LEMMA SameSessions ==
    ASSUME Types, Types', SessionInv, now <= now', UNCHANGED <<sessions, session, inputs>>,
           pc' \notin {"ended", "killed"} /\ ~final' => pc \notin {"ended", "killed"} /\ ~final,
           pc' = "ended" => pc = "ended"
    PROVE  SessionInv'
  <1>1. now' \in Int
    <2>1. now' \in 0..MaxTime
      BY DEF Types, TypeOK
    <2>2. QED
      BY <2>1, MinuteFacts
  <1>2. InOrder'
    BY DEF SessionInv, InOrder
  <1>3. Sensible'
    BY <1>1, Times DEF SessionInv, Sensible
  <1>4. Covered' /\ LastIsOn'
    BY DEF SessionInv, Covered, LastIsOn
  <1>5. Open'
    BY DEF SessionInv, Open
  <1>6. session'.last_event <= now'
    BY <1>1, Times DEF SessionInv
  <1>7. QED
    BY <1>2, <1>3, <1>4, <1>5, <1>6 DEF SessionInv, AllEnded

LEMMA QuietSessions ==
    ASSUME Types, Types', SessionInv,
           \/ UNCHANGED vars \/ Aside \/ Moved \/ Thrown \/ ClearCounts \/ Bumped \/ Flushed \/ Marked
           \/ Destroy
           \/ \E app \in Apps : Begun(app) \/ Wrote(app) \/ Skipped(app)
    PROVE  SessionInv'
  <1>1. UNCHANGED <<sessions, session, inputs>> /\ now <= now'
    <2>1. now <= now
      BY Times
    <2>2. CASE UNCHANGED vars \/ Aside
      BY <2>1, <2>2 DEF vars, Aside, storeVars, historyVars
    <2>3. CASE ~(UNCHANGED vars \/ Aside)
      <3>1. UNCHANGED <<sessions, session, inputs, now>>
        BY <2>3, Destroyed DEF Moved, Thrown, ClearCounts, Bumped, Flushed, Marked, Begun, Wrote,
                               Skipped, storeVars, historyVars
      <3>2. QED
        BY <2>1, <3>1
    <2>4. QED
      BY <2>2, <2>3
  <1>2. /\ pc' \notin {"ended", "killed"} /\ ~final' => pc \notin {"ended", "killed"} /\ ~final
        /\ pc' = "ended" => pc = "ended"
    <2>1. CASE UNCHANGED vars \/ Aside
      BY <2>1 DEF vars, Aside, loopVars
    <2>2. CASE Moved
      BY <2>2 DEF Moved
    <2>3. CASE Thrown
      BY <2>3 DEF Thrown, Raise, Goto
    <2>4. CASE Destroy
      BY <2>4, Destroyed DEF Types, Shape
    <2>5. CASE ClearCounts \/ Bumped \/ Flushed \/ Marked
      BY <2>5 DEF ClearCounts, Bumped, Flushed, Marked
    <2>6. CASE \E app \in Apps : Begun(app) \/ Wrote(app) \/ Skipped(app)
      BY <2>6 DEF Begun, Wrote, Skipped
    <2>7. QED
      BY <2>1, <2>2, <2>3, <2>4, <2>5, <2>6
  <1>3. QED
    BY <1>1, <1>2, SameSessions

LEMMA MissedSessions ==
    ASSUME Types, Types', SessionInv, Missed
    PROVE  SessionInv'
  <1>1. /\ ~session.active /\ ~session'.active /\ session'.id = session.id /\ session'.last_event = now
        /\ UNCHANGED <<now, pc, final, sessions, inputs>>
    BY DEF Missed, loopVars, storeVars
  <1>2. InOrder' /\ Sensible' /\ LastIsOn' /\ Open' /\ AllEnded'
    BY <1>1 DEF SessionInv, InOrder, Sensible, LastIsOn, Open, AllEnded
  <1>3. Covered'
    <2>1. \A t \in inputs : t <= now
      BY Times DEF SessionInv, Covered
    <2>2. QED
      BY <1>1, <2>1 DEF SessionInv, Covered
  <1>4. session'.last_event <= now'
    BY <1>1, Times
  <1>5. pc' = "ended" => sessions'[session'.id].end # Never
    BY <1>1 DEF SessionInv
  <1>6. QED
    BY <1>2, <1>3, <1>4, <1>5 DEF SessionInv

\* An input in a session that is on.
LEMMA NoticedOn ==
    ASSUME Types, Types', SessionInv, Noticed, session.active
    PROVE  SessionInv'
  <1>1. /\ session'.active /\ session'.id = session.id /\ session'.last_event = now
        /\ pc # "killed"
        /\ inputs' = (IF Leaving THEN inputs ELSE inputs \cup {now})
        /\ UNCHANGED <<now, pc, final, sessions>>
    BY DEF Noticed, Counted, loopVars
  <1>2. /\ session.id = Len(sessions) /\ session.id \in DOMAIN sessions
        /\ sessions[session.id].start <= session.last_event
        /\ session.last_event <= now
    BY Times, Fields DEF SessionInv, LastIsOn
  <1>3. InOrder' /\ Sensible' /\ Open'
    BY <1>1 DEF SessionInv, InOrder, Sensible, Open
  <1>4. LastIsOn'
    <2>1. sessions[session.id].start <= now
      BY <1>2, Times DEF SessionInv, Sensible
    <2>2. QED
      BY <1>1, <2>1 DEF SessionInv, LastIsOn
  <1>5. Covered'
    <2>1. \A t \in inputs : t <= now
      BY Times DEF SessionInv, Covered
    <2>2. ~Leaving => sessions[session.id].end = Never
      BY <1>1 DEF SessionInv, Open, Leaving
    <2>3. ASSUME NEW t \in inputs'
          PROVE  /\ t <= now
                 /\ \E i \in DOMAIN sessions : /\ sessions[i].start <= t
                                               /\ sessions[i].end = Never \/ t <= sessions[i].end
      <3>1. CASE t \in inputs
        BY <2>1, <3>1 DEF SessionInv, Covered
      <3>2. CASE t \notin inputs
        <4>1. ~Leaving /\ t = now
          BY <1>1, <2>3, <3>2
        <4>2. sessions[session.id].start <= now /\ now <= now
          BY <1>2, Times DEF SessionInv, Sensible
        <4>3. QED
          BY <1>2, <2>2, <4>1, <4>2
      <3>3. QED
        BY <3>1, <3>2
    <2>4. QED
      BY <1>1, <2>3 DEF Covered
  <1>6. session'.last_event <= now'
    BY <1>1, Times
  <1>7. pc' = "ended" => sessions'[session'.id].end # Never
    BY <1>1 DEF SessionInv
  <1>8. QED
    BY <1>1, <1>3, <1>4, <1>5, <1>6, <1>7 DEF SessionInv

\* An input that starts one.
LEMMA NoticedOff ==
    ASSUME Types, Types', SessionInv, Noticed, ~session.active
    PROVE  SessionInv'
  <1> DEFINE n == Len(sessions) + 1
             new == [start |-> now, end |-> Never]
  <1>1. /\ session'.active /\ session'.id = n /\ session'.last_event = now /\ pc # "killed"
        /\ sessions' = Append(sessions, new)
        /\ inputs' = (IF Leaving THEN inputs ELSE inputs \cup {now})
        /\ UNCHANGED <<now, pc, final>>
    BY DEF Noticed, Counted, loopVars
  <1>2. /\ Len(sessions') = n /\ DOMAIN sessions' = 1..n /\ n \in Nat \ {0}
        /\ DOMAIN sessions = 1..Len(sessions) /\ n \notin DOMAIN sessions
        /\ DOMAIN sessions' = DOMAIN sessions \cup {n}
        /\ \A i \in DOMAIN sessions : sessions'[i] = sessions[i] /\ i < n
        /\ sessions'[n] = new /\ new.start = now /\ new.end = Never
    <2>1. sessions \in Seq(SessionRow) /\ Len(sessions) \in Nat /\ DOMAIN sessions = 1..Len(sessions)
      BY Times DEF Types, Shape
    <2>2. new \in SessionRow /\ new.start = now /\ new.end = Never
      BY Times DEF SessionRow
    <2> HIDE DEF new
    <2>3. /\ Len(Append(sessions, new)) = n /\ DOMAIN Append(sessions, new) = 1..n
          /\ \A i \in DOMAIN sessions : Append(sessions, new)[i] = sessions[i]
          /\ Append(sessions, new)[n] = new
      BY <2>1, <2>2
    <2>4. n \in Nat \ {0} /\ n \notin DOMAIN sessions /\ 1..n = 1..Len(sessions) \cup {n}
          /\ \A i \in DOMAIN sessions : i < n
      BY <2>1
    <2>5. QED
      BY <1>1, <2>1, <2>2, <2>3, <2>4
  <1> HIDE DEF new, n
  <1>3. AllEnded /\ ~Leaving /\ pc # "ended"
    BY DEF SessionInv, Leaving, Types, Shape
  <1>4. \A i, j \in DOMAIN sessions' : i < j => i \in DOMAIN sessions
    BY <1>2
  <1>5. InOrder'
    <2> SUFFICES ASSUME NEW i \in DOMAIN sessions', NEW j \in DOMAIN sessions', i < j
                 PROVE  sessions'[i].end # Never /\ sessions'[i].end <= sessions'[j].start
      BY DEF InOrder
    <2>1. i \in DOMAIN sessions /\ sessions'[i] = sessions[i] /\ sessions[i].end # Never
      BY <1>2, <1>3, <1>4 DEF AllEnded
    <2>2. CASE j \in DOMAIN sessions
      BY <1>2, <2>1, <2>2 DEF SessionInv, InOrder
    <2>3. CASE j \notin DOMAIN sessions
      <3>1. sessions'[j].start = now
        BY <1>2, <2>3
      <3>2. sessions[i].end <= now
        BY <2>1 DEF SessionInv, Sensible
      <3>3. QED
        BY <2>1, <3>1, <3>2
    <2>4. QED
      BY <2>2, <2>3
  <1>6. now <= now
    BY Times
  <1>7. Sensible'
    BY <1>1, <1>2, <1>6 DEF SessionInv, Sensible
  <1>8. LastIsOn' /\ Open'
    BY <1>1, <1>2, <1>6 DEF LastIsOn, Open
  <1>9. Covered'
    <2>1. \A t \in inputs : t <= now
      BY Times DEF SessionInv, Covered
    <2>2. ASSUME NEW t \in inputs'
          PROVE  /\ t <= now
                 /\ \E i \in DOMAIN sessions' : /\ sessions'[i].start <= t
                                                /\ sessions'[i].end = Never \/ t <= sessions'[i].end
      <3>1. CASE t \in inputs
        BY <1>2, <2>1, <3>1 DEF SessionInv, Covered
      <3>2. CASE t \notin inputs
        <4>1. t = now
          BY <1>1, <2>2, <3>2
        <4>2. QED
          BY <1>2, <1>6, <4>1
      <3>3. QED
        BY <3>1, <3>2
    <2>3. QED
      BY <1>1, <2>2 DEF Covered
  <1>10. QED
    BY <1>1, <1>3, <1>5, <1>6, <1>7, <1>8, <1>9 DEF SessionInv

\* The end of the session is written, at the time of the last event or at the exit.
LEMMA EndedSessions ==
    ASSUME Types, SessionInv, session.active, NEW t \in 0..MaxTime,
           session.last_event <= t, t <= now,
           sessions' = [sessions EXCEPT ![session.id].end = t],
           UNCHANGED <<now, session, inputs>>,
           final' \/ pc' \in {"ended", "killed"}
    PROVE  SessionInv'
  <1> DEFINE n == session.id
  <1>1. /\ n = Len(sessions) /\ n # 0 /\ n \in DOMAIN sessions /\ sessions[n].start <= session.last_event
        /\ \A i \in DOMAIN sessions : i < n \/ i = n
    BY Times, Fields DEF SessionInv, LastIsOn
  <1>2. t \in Int /\ t # Never /\ MaxTime \in Nat
    BY Times, MinuteFacts
  <1>3. /\ DOMAIN sessions' = DOMAIN sessions /\ Len(sessions') = Len(sessions)
        /\ \A i \in DOMAIN sessions : /\ sessions'[i].start = sessions[i].start
                                      /\ sessions'[i].end = IF i = n THEN t ELSE sessions[i].end
    <2>1. /\ sessions' \in Seq(SessionRow) /\ Len(sessions') = Len(sessions)
          /\ \A j \in 1..Len(sessions) :
               sessions'[j] = [start |-> sessions[j].start,
                               end |-> IF j = n THEN t ELSE sessions[j].end]
      <3>1. ASSUME NEW i
            PROVE  /\ [sessions EXCEPT ![i].end = t] \in Seq(SessionRow)
                   /\ Len([sessions EXCEPT ![i].end = t]) = Len(sessions)
                   /\ \A j \in 1..Len(sessions) :
                        [sessions EXCEPT ![i].end = t][j] =
                            [start |-> sessions[j].start, end |-> IF j = i THEN t ELSE sessions[j].end]
        BY EndedRows, ZenonT(40)
      <3>2. PICK i : i = n
        OBVIOUS
      <3> DEFINE new == [sessions EXCEPT ![i].end = t]
      <3>3. /\ new \in Seq(SessionRow) /\ Len(new) = Len(sessions)
            /\ \A j \in 1..Len(sessions) :
                 new[j] = [start |-> sessions[j].start, end |-> IF j = i THEN t ELSE sessions[j].end]
        BY <3>1
      <3>4. sessions' = new
        BY <3>2
      <3> HIDE DEF new
      <3>5. QED
        BY <3>2, <3>3, <3>4
    <2>2. DOMAIN sessions' = 1..Len(sessions)
      BY <2>1
    <2>3. QED
      BY <2>1, <2>2, Times
  <1>0. n = session.id /\ session' = session
    OBVIOUS
  <1> HIDE DEF n
  <1>4. sessions[n].start \in Int /\ session.last_event \in Int /\ now \in Int
    BY <1>1, Times
  <1>5. sessions[n].start <= t
    BY <1>1, <1>2, <1>4
  <1>6. InOrder'
    <2> SUFFICES ASSUME NEW i \in DOMAIN sessions, NEW j \in DOMAIN sessions, i < j
                 PROVE  sessions'[i].end # Never /\ sessions'[i].end <= sessions'[j].start
      BY <1>3 DEF InOrder
    <2>1. i # n
      BY <1>1, Times
    <2>2. sessions'[i].end = sessions[i].end /\ sessions'[j].start = sessions[j].start
      BY <1>3, <2>1
    <2>3. QED
      BY <2>2 DEF SessionInv, InOrder
  <1>7. Sensible'
    BY <1>2, <1>3, <1>5 DEF SessionInv, Sensible
  <1>8. Covered'
    <2> SUFFICES ASSUME NEW x \in inputs
                 PROVE  /\ x <= session.last_event
                        /\ \E i \in DOMAIN sessions : /\ sessions'[i].start <= x
                                                      /\ sessions'[i].end = Never \/ x <= sessions'[i].end
      BY <1>3 DEF Covered
    <2>1. x <= session.last_event /\ x \in Int
      BY Times DEF SessionInv, Covered
    <2>2. x <= t
      BY <1>2, <1>4, <2>1
    <2>3. PICK i \in DOMAIN sessions : /\ sessions[i].start <= x
                                       /\ sessions[i].end = Never \/ x <= sessions[i].end
      BY DEF SessionInv, Covered
    <2>4. /\ sessions'[i].start <= x
          /\ sessions'[i].end = Never \/ x <= sessions'[i].end
      BY <1>3, <2>2, <2>3
    <2>5. QED
      BY <2>1, <2>4
  <1>9. LastIsOn'
    BY <1>1, <1>3, <1>0 DEF LastIsOn
  <1>10. Open' /\ session'.active /\ session'.last_event <= now' /\ sessions'[session'.id].end # Never
    <2>1. session'.active /\ session'.last_event <= now'
      BY <1>0 DEF SessionInv
    <2>2. sessions'[session'.id].end # Never
      BY <1>1, <1>2, <1>3, <1>0
    <2>3. Open'
      BY <2>1 DEF Open
    <2>4. QED
      BY <2>1, <2>2, <2>3
  <1>11. QED
    BY <1>6, <1>7, <1>8, <1>9, <1>10 DEF SessionInv

LEMMA ClosedSessions ==
    ASSUME Types, Types', SessionInv, Closed
    PROVE  SessionInv'
  <1>1. UNCHANGED <<now, final, session, inputs>>
    BY DEF Closed, historyVars
  <1>2. now \in 0..MaxTime /\ now <= now /\ session.last_event \in 0..MaxTime
        /\ session.last_event <= session.last_event /\ session.last_event <= now
    BY Times, Fields DEF SessionInv
  <1>3. CASE pc = "ending" /\ pc' = "ended"
             /\ sessions' = [sessions EXCEPT ![session.id].end = session.last_event]
    <2>1. session.active
      BY <1>3 DEF Types, Shape
    <2>2. QED
      BY <1>1, <1>2, <1>3, <2>1, EndedSessions
  <1>4. CASE pc = "exit" /\ pc' = "stop" /\ session.active
             /\ sessions' = [sessions EXCEPT ![session.id].end = now]
    <2>1. final'
      BY <1>1, <1>4 DEF Types, Shape
    <2>2. QED
      BY <1>1, <1>2, <1>4, <2>1, EndedSessions
  <1>5. CASE pc = "exit" /\ pc' = "stop" /\ UNCHANGED sessions
    BY <1>1, <1>2, <1>5, SameSessions
  <1>6. QED
    BY <1>3, <1>4, <1>5 DEF Closed

LEMMA SessionOffSessions ==
    ASSUME Types, Types', SessionInv, SessionOff
    PROVE  SessionInv'
  <1>1. /\ pc = "ended" /\ pc' = "due" /\ session' = [session EXCEPT !.active = FALSE]
        /\ UNCHANGED <<now, final, sessions, inputs>>
    BY DEF SessionOff, Goto, storeVars, historyVars
  <1>2. session' = [active |-> FALSE, id |-> session.id, last_event |-> session.last_event]
    BY <1>1, Fields
  <1>3. ~session'.active /\ session'.last_event = session.last_event
    BY <1>2
  <1>4. session.active /\ session.id = Len(sessions) /\ sessions[session.id].end # Never
    BY <1>1 DEF Types, Shape, SessionInv, LastIsOn
  <1>5. AllEnded'
    <2> SUFFICES ASSUME NEW i \in DOMAIN sessions PROVE sessions[i].end # Never
      BY <1>1 DEF AllEnded
    <2>1. i = Len(sessions) \/ (i < Len(sessions) /\ Len(sessions) \in DOMAIN sessions)
      BY Times
    <2>2. QED
      BY <1>4, <2>1 DEF SessionInv, InOrder
  <1>6. InOrder' /\ Sensible' /\ Covered' /\ LastIsOn' /\ Open'
    BY <1>1, <1>3 DEF SessionInv, InOrder, Sensible, Covered, LastIsOn, Open
  <1>7. QED
    BY <1>1, <1>3, <1>5, <1>6 DEF SessionInv

LEMMA SessionStep == Types /\ SessionInv /\ [Next]_vars => SessionInv'
  <1> SUFFICES ASSUME Types, SessionInv, [Next]_vars PROVE SessionInv'
    OBVIOUS
  <1>1. Types'
    BY TypesStep
  <1>2. CASE UNCHANGED vars
    BY <1>1, <1>2, QuietSessions
  <1>3. CASE Next
    <2>1. CASE Missed \/ Closed \/ SessionOff
      BY <1>1, <2>1, MissedSessions, ClosedSessions, SessionOffSessions
    <2>2. CASE Clicked \/ \E app \in Apps : Pressed(app)
      <3>1. Noticed
        BY <2>2 DEF Clicked, Pressed
      <3>2. QED
        BY <1>1, <3>1, NoticedOn, NoticedOff
    <2>3. CASE \/ Aside \/ Moved \/ Thrown \/ ClearCounts \/ Bumped \/ Flushed \/ Marked \/ Destroy
               \/ \E app \in Apps : Begun(app) \/ Wrote(app) \/ Skipped(app)
      BY <1>1, <2>3, QuietSessions
    <2>4. QED
      BY <1>3, <2>1, <2>2, <2>3, Steps
  <1>4. QED
    BY <1>2, <1>3

LEMMA SessionsHold == Spec => [](Types /\ SessionInv)
  <1>1. Init => Types /\ SessionInv
    BY InitTypes, InitSessions
  <1>2. Types /\ SessionInv /\ [Next]_vars => (Types /\ SessionInv)'
    BY TypesStep, SessionStep
  <1>3. QED
    BY <1>1, <1>2, PTL DEF Spec

\* The sessions follow each other, and every input lies in one, but for those that
\* come between the end written and the session switched off; whoever writes the
\* end, and whatever fails (agent.py:870-877, 1007-1010, 1081-1085).
THEOREM HistoryOfUse == Spec => []SessionsTrue
  <1>1. Types /\ SessionInv => SessionsTrue
    BY DEF SessionInv, InOrder, Sensible, Covered, SessionsTrue
  <1>2. QED
    BY <1>1, SessionsHold, PTL

-----------------------------------------------------------------------------
\* The window's number.  What is on disk and what is pending make up what was typed,
\* at every step of a flush; but the window reads the two one after the other.
Pending == SumOn(counts.apps, Apps \ flush.done)
Whole   == pc # "killed" => repeated \/ KeysOnDisk + Pending = KeysTyped
Honest  == today.pc = "disk" => today.torn \/ repeated \/ (today.from <= Shown /\ Shown <= KeysTyped)

TodayInv == Whole /\ Honest

LEMMA PendingSum ==
    ASSUME Types
    PROVE  /\ Pending \in Nat
           /\ flush.done = {} => Pending = SumOver(counts.apps)
  <1>1. counts.apps \in [Apps -> Nat] /\ IsFiniteSet(Apps)
    BY Fields, MinuteFacts
  <1>2. IsFiniteSet(Apps \ flush.done) /\ Apps \ flush.done \subseteq Apps
    BY <1>1, FS_Subset
  <1>3. Pending \in Nat
    <2>1. \A a \in Apps \ flush.done : counts.apps[a] \in Int /\ counts.apps[a] >= 0
      BY <1>1
    <2>2. Pending \in Int /\ Pending >= 0
      BY <1>2, <2>1, SumType DEF Pending
    <2>3. QED
      BY <2>2
  <1>4. ASSUME flush.done = {} PROVE Pending = SumOver(counts.apps)
    <2>1. Apps \ flush.done = Apps
      BY <1>4
    <2>2. SumOver(counts.apps) = SumOn(counts.apps, Apps)
      BY <1>1, NatSum
    <2>3. QED
      BY <2>1, <2>2, Zenon DEF Pending
  <1>5. QED
    BY <1>3, <1>4

LEMMA InitToday == Init => TodayInv
  <1> SUFFICES ASSUME Init PROVE TodayInv
    OBVIOUS
  <1>1. Types
    BY InitTypes
  <1>2. today.pc = "idle" /\ flush.done = {} /\ rows = <<>>
    BY DEF Init, NoCall, NoFlush
  <1>3. SumOver(counts.apps) = 0
    <2>1. counts.apps = NoKeys
      BY DEF Init, Empty
    <2>2. \A a \in Apps : counts.apps[a] = 0
      BY <2>1 DEF NoKeys
    <2>3. SumOn(counts.apps, Apps) = 0
      BY <2>2, MinuteFacts, SumZero
    <2>4. QED
      BY <1>1, <2>3, Fields, MinuteFacts, NatSum
  <1>4. KeysOnDisk = 0
    <2>1. DOMAIN RowKeys = {}
      BY <1>2 DEF RowKeys
    <2>2. QED
      BY <2>1, SumEmpty DEF KeysOnDisk, SumOver
  <1>5. KeysTyped = 0
    <2>1. \A m \in Minutes : typed[m] = NoKeys
      BY DEF Init
    <2>2. SumOver(NoKeys) = 0
      <3>1. NoKeys \in [Apps -> Nat] /\ \A a \in Apps : NoKeys[a] = 0
        BY DEF NoKeys
      <3>2. QED
        BY <3>1, MinuteFacts, SumZero, NatSum
    <2>3. \A m \in Minutes : MinuteTotals[m] = 0
      BY <2>1, <2>2 DEF MinuteTotals
    <2>4. SumOn(MinuteTotals, Minutes) = 0
      BY <2>3, MinuteFacts, SumZero
    <2>5. QED
      BY <1>1, <2>4, Totals, MinuteFacts, NatSum
  <1>6. Whole
    BY <1>1, <1>2, <1>3, <1>4, <1>5, PendingSum DEF Whole
  <1>7. QED
    BY <1>2, <1>6 DEF TodayInv, Honest

\* A step that leaves alone what was typed, what is pending and what is on disk.
LEMMA SameToday ==
    ASSUME TodayInv, pc' # "killed" => pc # "killed",
           UNCHANGED <<typed, repeated>>, KeysOnDisk' = KeysOnDisk,
           counts'.apps = counts.apps, flush'.done = flush.done,
           today' = today \/ today'.pc = "idle"
    PROVE  TodayInv'
  <1>1. KeysTyped' = KeysTyped
    BY DEF KeysTyped
  <1>2. Pending' = Pending
    BY DEF Pending
  <1>3. Whole'
    BY <1>1, <1>2 DEF TodayInv, Whole
  <1>4. Honest'
    BY <1>1 DEF TodayInv, Honest, Shown
  <1>5. QED
    BY <1>3, <1>4 DEF TodayInv

LEMMA QuietToday ==
    ASSUME Types, TodayInv,
           \/ UNCHANGED vars \/ Moved \/ Missed \/ Closed \/ SessionOff \/ Bumped \/ Flushed \/ Marked
           \/ Destroy \/ Clicked
           \/ Aside /\ (today' = today \/ today'.pc = "idle")
           \/ \E app \in Apps : Begun(app) \/ Skipped(app)
    PROVE  TodayInv'
  <1>1. KeysOnDisk' = KeysOnDisk
    <2>1. CASE Marked
      BY <2>1, MarkedCounts
    <2>2. CASE ~Marked
      <3>1. UNCHANGED rows
        BY <2>2, Destroyed DEF vars, Aside, Moved, Missed, Closed, SessionOff, Bumped, Flushed, Clicked,
                               Noticed, Begun, Skipped, storeVars
      <3>2. QED
        BY <3>1, SameRows
    <2>3. QED
      BY <2>1, <2>2
  <1>2. /\ UNCHANGED <<typed, repeated>> /\ counts'.apps = counts.apps /\ flush'.done = flush.done
        /\ pc' # "killed" => pc # "killed"
        /\ today' = today \/ today'.pc = "idle"
    <2>1. CASE UNCHANGED vars \/ Missed \/ (Aside /\ (today' = today \/ today'.pc = "idle"))
      BY <2>1 DEF Aside, Missed, vars, loopVars, storeVars, historyVars
    <2>2. CASE Moved \/ Closed \/ SessionOff \/ Bumped \/ Flushed \/ Marked
      BY <2>2 DEF Moved, Closed, SessionOff, Bumped, Flushed, Marked, Goto, storeVars, historyVars
    <2>3. CASE Destroy
      BY <2>3, Destroyed DEF NoCall, Types, Shape
    <2>4. CASE Clicked
      BY <2>4 DEF Clicked, Noticed, loopVars
    <2>5. ASSUME NEW app \in Apps, Begun(app)
          PROVE  /\ UNCHANGED <<typed, repeated, counts, today>> /\ flush'.done = flush.done
                 /\ pc # "killed"
      <3>1. pc \in {"due", "finally"} /\ flush'.done = {} /\ UNCHANGED <<typed, repeated, counts, today>>
        BY <2>5 DEF Begun, historyVars
      <3>2. flush.done = {}
        BY <3>1, NoHands
      <3>3. QED
        BY <3>1, <3>2
    <2>6. ASSUME NEW app \in Apps, Skipped(app)
          PROVE  /\ UNCHANGED <<typed, repeated, counts, today>> /\ flush'.done = flush.done
                 /\ pc # "killed"
      BY <2>6 DEF Skipped, historyVars
    <2>7. QED
      BY <2>1, <2>2, <2>3, <2>4, <2>5, <2>6
  <1>3. QED
    BY <1>1, <1>2, SameToday

LEMMA PressedSum ==
    ASSUME Types, NEW app \in Apps, Pressed(app)
    PROVE  SumOver(counts'.apps) = SumOver(counts.apps) + 1
  <1> DEFINE f == counts.apps
             g == counts'.apps
  <1>1. f \in [Apps -> Nat] /\ g = [f EXCEPT ![app] = f[app] + 1]
    BY Fields DEF Pressed
  <1> HIDE DEF f, g
  <1>2. /\ f \in [Apps -> Nat] /\ g \in [Apps -> Nat] /\ g[app] = f[app] + 1 /\ f[app] \in Nat
        /\ \A x \in Apps \ {app} : g[x] = f[x]
    BY <1>1
  <1>3. SumOver(g) = SumOver(f) + (g[app] - f[app])
    BY <1>2, MinuteFacts, NatSumUpdate
  <1>4. SumOver(f) \in Nat
    BY <1>2, MinuteFacts, NatSum
  <1>5. SumOver(g) = SumOver(f) + 1
    BY <1>2, <1>3, <1>4
  <1>6. QED
    BY <1>5 DEF f, g

LEMMA PressedToday ==
    ASSUME Types, TodayInv, NEW app \in Apps, Pressed(app)
    PROVE  TodayInv'
  <1>1. /\ pc \notin {"rows", "killed"} /\ pc' = pc /\ flush' = flush
        /\ UNCHANGED <<rows, today, repeated>>
        /\ counts'.apps = [counts.apps EXCEPT ![app] = @ + 1]
    BY DEF Pressed, Noticed, Locked, loopVars
  <1>2. flush.done = {} /\ flush'.done = {}
    BY <1>1, NoHands
  <1>3. Types'
    BY PressedTypes
  <1>4. KeysTyped' = KeysTyped + 1
    BY PressedTyped
  <1>5. KeysOnDisk' = KeysOnDisk
    BY <1>1, SameRows
  <1>6. SumOver(counts'.apps) = SumOver(counts.apps) + 1
    BY PressedSum
  <1>7. Pending = SumOver(counts.apps)
    BY <1>2, PendingSum
  <1>8. Pending' = SumOver(counts'.apps)
    <2>1. (flush.done = {} => Pending = SumOver(counts.apps))'
      <3>1. Apps \ flush'.done = Apps
        BY <1>2
      <3>2. counts'.apps \in [Apps -> Nat]
        BY <1>3 DEF Types, TypeOK
      <3>3. SumOver(counts'.apps) = SumOn(counts'.apps, Apps)
        BY <3>2, MinuteFacts, NatSum
      <3>4. QED
        BY <3>1, <3>3, Zenon DEF Pending
    <2>2. QED
      BY <1>2, <2>1
  <1>9. KeysTyped \in Nat /\ KeysOnDisk \in Nat /\ SumOver(counts.apps) \in Nat
        /\ today.disk \in Nat /\ today.from \in Nat
    BY Totals, Fields
  <1>10. Whole'
    BY <1>1, <1>4, <1>5, <1>6, <1>7, <1>8, <1>9 DEF TodayInv, Whole
  <1>11. Honest'
    BY <1>1, <1>4, <1>6, <1>9 DEF TodayInv, Honest, Shown
  <1>12. QED
    BY <1>10, <1>11 DEF TodayInv

\* A row written: its keystrokes are no longer pending, and a number the window is
\* working on is torn.
LEMMA WroteToday ==
    ASSUME Types, Writing, TodayInv, NEW a \in Apps, Wrote(a)
    PROVE  TodayInv'
  <1>1. /\ pc = "rows" /\ a \in flush.todo /\ flush'.done = flush.done \cup {a}
        /\ today'.pc = today.pc /\ today'.torn = (today.torn \/ today.pc = "disk")
        /\ UNCHANGED <<pc, counts, typed, repeated>>
    BY DEF Wrote, historyVars
  <1>2. KeysOnDisk' = KeysOnDisk + counts.apps[a]
    BY WroteSums
  <1>3. KeysTyped' = KeysTyped
    BY <1>1 DEF KeysTyped
  <1>4. Pending = counts.apps[a] + Pending'
    <2> DEFINE S == Apps \ flush.done
               f == counts.apps
    <2>1. S \subseteq Apps /\ IsFiniteSet(S)
      BY MinuteFacts, FS_Subset
    <2>2. f \in [Apps -> Nat]
      BY Fields
    <2>3. a \in S
      BY <1>1 DEF Writing
    <2>4. Apps \ flush'.done = S \ {a}
      BY <1>1
    <2>5. \A x \in S : f[x] \in Int
      BY <2>1, <2>2
    <2>6. counts'.apps = f
      BY <1>1
    <2> HIDE DEF S, f
    <2>7. SumOn(f, S) = f[a] + SumOn(f, S \ {a})
      BY <2>1, <2>3, <2>5, SumTakeOut
    <2>8. Pending' = SumOn(f, S \ {a})
      BY <2>4, <2>6, Zenon DEF Pending
    <2>9. Pending = SumOn(f, S)
      BY DEF Pending, f, S
    <2>10. QED
      BY <2>7, <2>8, <2>9 DEF f
  <1>5. counts.apps[a] \in Nat /\ KeysOnDisk \in Nat /\ KeysTyped \in Nat /\ Pending \in Nat
    BY Totals, PendingSum, Fields
  <1>6. Pending' = Pending - counts.apps[a]
    <2>1. Types'
      BY WroteTypes
    <2>2. Pending' \in Int
      <3>1. \A x \in Apps \ flush'.done : counts'.apps[x] \in Int
        BY <1>1, Fields
      <3>2. IsFiniteSet(Apps \ flush'.done)
        BY MinuteFacts, FS_Subset
      <3>3. QED
        BY <3>1, <3>2, SumType DEF Pending
    <2>3. QED
      BY <1>4, <1>5, <2>2
  <1>7. Whole'
    BY <1>1, <1>2, <1>3, <1>5, <1>6 DEF TodayInv, Whole
  <1>8. Honest'
    BY <1>1, Fields DEF Honest
  <1>9. QED
    BY <1>7, <1>8 DEF TodayInv

\* The counts cleared: what was not written was nothing.
LEMMA ClearedToday ==
    ASSUME Types, Writing, TodayInv, ClearCounts
    PROVE  TodayInv'
  <1>1. /\ pc = "rows" /\ flush.todo = {} /\ flush' = NoFlush /\ counts'.apps = NoKeys
        /\ today'.torn = (today.torn \/ today.pc = "disk") /\ today'.pc = today.pc
        /\ UNCHANGED <<rows, typed, repeated>>
    BY Cleared
  <1>2. Pending = 0
    <2>1. \A a \in Apps \ flush.done : counts.apps[a] = 0
      BY <1>1 DEF Writing
    <2>2. IsFiniteSet(Apps \ flush.done)
      BY MinuteFacts, FS_Subset
    <2>3. QED
      BY <2>1, <2>2, SumZero DEF Pending
  <1>3. Pending' = 0
    <2>1. \A a \in Apps \ flush'.done : counts'.apps[a] = 0
      BY <1>1 DEF NoKeys
    <2>2. IsFiniteSet(Apps \ flush'.done)
      BY MinuteFacts, FS_Subset
    <2>3. QED
      BY <2>1, <2>2, SumZero DEF Pending
  <1>4. KeysOnDisk' = KeysOnDisk /\ KeysTyped' = KeysTyped
    BY <1>1, SameRows DEF KeysTyped
  <1>5. Whole'
    BY <1>1, <1>2, <1>3, <1>4 DEF TodayInv, Whole
  <1>6. Honest'
    BY <1>1, Fields DEF Honest
  <1>7. QED
    BY <1>5, <1>6 DEF TodayInv

LEMMA ThrownToday ==
    ASSUME Types, TodayInv, Thrown
    PROVE  TodayInv'
  <1>1. /\ UNCHANGED <<counts, rows, typed, today>>
        /\ flush'.done = {} /\ pc # "killed"
        /\ repeated' = (repeated \/ flush.done # {} \/ pc = "bumped")
    BY DEF Thrown, Raise, NoFlush, storeVars
  <1>2. CASE repeated'
    BY <1>2 DEF TodayInv, Whole, Honest
  <1>3. CASE ~repeated'
    <2>1. flush'.done = flush.done /\ repeated' = repeated
      BY <1>1, <1>3 DEF Types, Shape
    <2>2. KeysOnDisk' = KeysOnDisk
      BY <1>1, SameRows
    <2>3. QED
      BY <1>1, <2>1, <2>2, SameToday
  <1>4. QED
    BY <1>2, <1>3

\* The window begins.
LEMMA ReadToday ==
    ASSUME Types, TodayInv, ReadDisk
    PROVE  TodayInv'
  <1>1. /\ ui = "open"
        /\ today' = [pc |-> "disk", disk |-> KeysOnDisk, from |-> KeysTyped, torn |-> flush.done # {}]
        /\ UNCHANGED <<pc, flush, counts, rows, typed, repeated>>
    BY DEF ReadDisk, loopVars, storeVars, historyVars
  <1>2. pc # "killed"
    BY <1>1 DEF Types, Shape
  <1>3. KeysOnDisk' = KeysOnDisk /\ KeysTyped' = KeysTyped /\ Pending' = Pending
    BY <1>1, SameRows DEF KeysTyped, Pending
  <1>4. Whole'
    BY <1>1, <1>3 DEF TodayInv, Whole
  <1>5. Honest'
    <2> SUFFICES ASSUME ~(flush.done # {}), ~repeated
                 PROVE  today'.from <= Shown' /\ Shown' <= KeysTyped'
      BY <1>1 DEF Honest
    <2>1. Pending = SumOver(counts.apps)
      BY PendingSum
    <2>2. KeysOnDisk + SumOver(counts.apps) = KeysTyped
      BY <1>2, <2>1 DEF TodayInv, Whole
    <2>3. today'.disk = KeysOnDisk /\ today'.from = KeysTyped
      BY <1>1
    <2>4. Shown' = KeysTyped
      BY <1>1, <2>2, <2>3 DEF Shown
    <2>5. KeysTyped \in Nat
      BY Totals
    <2>6. QED
      BY <1>3, <2>3, <2>4, <2>5
  <1>6. QED
    BY <1>4, <1>5 DEF TodayInv

LEMMA TodayStep == Types /\ Writing /\ TodayInv /\ [Next]_vars => TodayInv'
  <1> SUFFICES ASSUME Types, Writing, TodayInv, [Next]_vars PROVE TodayInv'
    OBVIOUS
  <1>1. CASE Thrown \/ ClearCounts \/ \E app \in Apps : Pressed(app) \/ Wrote(app)
    BY <1>1, ThrownToday, ClearedToday, PressedToday, WroteToday
  <1>2. CASE Watching /\ Aside
    <2>1. CASE ReadDisk
      BY <2>1, ReadToday
    <2>2. CASE ~ReadDisk
      <3>1. today' = today \/ today'.pc = "idle"
        BY <1>2, <2>2 DEF Watching, Clock, Close, Register, AddPending, NoCall
      <3>2. QED
        BY <1>2, <3>1, QuietToday
    <2>3. QED
      BY <2>1, <2>2
  <1>3. CASE \/ UNCHANGED vars \/ Moved \/ Missed \/ Closed \/ SessionOff \/ Bumped \/ Flushed \/ Marked
             \/ Destroy \/ Clicked
             \/ \E app \in Apps : Begun(app) \/ Skipped(app)
    BY <1>3, QuietToday
  <1>4. QED
    BY <1>1, <1>2, <1>3, Steps

LEMMA TodayHold == Spec => [](Types /\ Writing /\ TodayInv)
  <1>1. Init => Types /\ Writing /\ TodayInv
    BY InitTypes, InitMinutes, InitToday
  <1>2. Types /\ Writing /\ TodayInv /\ [Next]_vars => (Types /\ Writing /\ TodayInv)'
    BY TypesStep, WritingStep, TodayStep
  <1>3. QED
    BY <1>1, <1>2, PTL DEF Spec

\* The window's number lies between what had been typed when it began to ask and what
\* has been typed when it shows it, however the loop, the listeners and the window
\* interleave, unless a flush was writing meanwhile (agent.py:1197-1211).
THEOREM WindowIsTrue == Spec => TodayIsTrue
  <1> DEFINE Right == today.torn \/ repeated \/ (today.from <= Shown /\ Shown <= KeysTyped)
  <1>1. Types /\ Writing /\ TodayInv => (AddPending => Right)
    BY DEF TodayInv, Honest, AddPending
  <1>2. (AddPending => Right) => [AddPending => Right]_vars
    OBVIOUS
  <1>3. QED
    BY <1>1, <1>2, TodayHold, PTL DEF TodayIsTrue

-----------------------------------------------------------------------------
\* The end of the loop: after the last flush memory holds late inputs only, after
\* that no session is open, and the last batch is as much as a batch can be.
LittleLeft ==
    final /\ ~failed /\ pc \notin {"finally", "rows", "killed"}
        => SumOver(counts.apps) + counts.clicks <= late
ClosedUp ==
    final /\ ~failed /\ pc \in {"stop", "sync", "wire", "gone"} => late > 0 \/ AllEnded
FullBatch ==
    pc = "wire" => Cardinality(batch) = Min({BatchLimit, Cardinality(Unsynced)})
Delivered ==
    pushed => pc = "gone" /\ Cardinality(Unsynced) <= Max({0, Len(rows) - BatchLimit})

LastInv == LittleLeft /\ ClosedUp /\ FullBatch /\ Delivered

LEMMA LittleStep ==
    ASSUME Types, LittleLeft, [Next]_vars
    PROVE  LittleLeft'
  <1>0. final \in BOOLEAN /\ failed \in BOOLEAN /\ final' \in BOOLEAN /\ failed' \in BOOLEAN
    <2>1. Types'
      BY TypesStep
    <2>2. QED
      BY <2>1 DEF Types, TypeOK, Shape
  <1> SUFFICES ASSUME final', ~failed', pc' \notin {"finally", "rows", "killed"}
               PROVE  SumOver(counts'.apps) + counts'.clicks <= late'
    BY DEF LittleLeft
  <1> DEFINE Same == /\ counts'.apps = counts.apps /\ counts'.clicks = counts.clicks /\ late' = late
                     /\ final /\ ~failed /\ pc \notin {"finally", "rows", "killed"}
  <1>1. Same => SumOver(counts'.apps) + counts'.clicks <= late'
    BY DEF LittleLeft
  <1>2. late \in Nat /\ counts.clicks \in Nat /\ SumOver(counts.apps) \in Nat
    BY Fields, Totals DEF Types, Shape
  <1>3. CASE UNCHANGED vars \/ Aside
    <2>1. Same
      BY <1>0, <1>3 DEF vars, Aside, loopVars, historyVars
    <2>2. QED
      BY <1>1, <2>1
  <1>4. CASE Moved
    <2>1. Same
      BY <1>0, <1>4 DEF Moved
    <2>2. QED
      BY <1>1, <2>1
  <1>5. CASE Closed \/ SessionOff \/ Bumped \/ Flushed \/ Marked
    <2>1. /\ UNCHANGED <<late, failed, final>> /\ pc \notin {"finally", "rows", "killed"}
          /\ counts'.apps = counts.apps /\ counts'.clicks = counts.clicks
      <3>1. CASE Closed
        BY <3>1 DEF Closed, historyVars
      <3>2. CASE Flushed
        BY <3>2 DEF Flushed, historyVars
      <3>3. CASE SessionOff \/ Bumped \/ Marked
        BY <3>3 DEF SessionOff, Bumped, Marked, historyVars
      <3>4. QED
        BY <1>5, <3>1, <3>2, <3>3
    <2>2. Same
      BY <1>0, <2>1
    <2>3. QED
      BY <1>1, <2>2
  <1>6. CASE Destroy
    <2>1. Same
      BY <1>0, <1>6, Destroyed
    <2>2. QED
      BY <1>1, <2>1
  <1>7. CASE Thrown
    <2>1. Same
      BY <1>0, <1>7 DEF Thrown, Raise, Goto
    <2>2. QED
      BY <1>1, <2>1
  <1>8. CASE ClearCounts
    <2>1. counts'.apps = NoKeys /\ counts'.clicks = 0 /\ late' = late
      BY <1>8, Cleared
    <2>2. SumOver(NoKeys) = 0
      <3>1. NoKeys \in [Apps -> Nat] /\ \A a \in Apps : NoKeys[a] = 0
        BY DEF NoKeys
      <3>2. QED
        BY <3>1, MinuteFacts, SumZero, NatSum
    <2>3. QED
      BY <1>2, <2>1, <2>2
  <1>9. CASE Missed
    BY <1>9 DEF Missed
  <1>10. ASSUME Noticed
         PROVE  late' = late + 1 /\ SumOver(counts.apps) + counts.clicks <= late
    BY <1>10 DEF Noticed, Counted, Locked, loopVars, LittleLeft
  <1>11. CASE Clicked
    <2>1. counts'.apps = counts.apps /\ counts'.clicks = counts.clicks + 1 /\ Noticed
      BY <1>11 DEF Clicked
    <2>2. QED
      BY <1>2, <1>10, <2>1
  <1>12. ASSUME NEW app \in Apps, Pressed(app)
         PROVE  SumOver(counts'.apps) + counts'.clicks <= late'
    <2>1. SumOver(counts'.apps) = SumOver(counts.apps) + 1 /\ counts'.clicks = counts.clicks /\ Noticed
      BY <1>12, PressedSum DEF Pressed
    <2>2. QED
      BY <1>2, <1>10, <2>1
  <1>13. CASE \E app \in Apps : Begun(app) \/ Wrote(app) \/ Skipped(app)
    BY <1>13 DEF Begun, Wrote, Skipped
  <1>14. QED
    BY <1>3, <1>4, <1>5, <1>6, <1>7, <1>8, <1>9, <1>11, <1>12, <1>13, Steps

LEMMA ClosedUpStep ==
    ASSUME Types, SessionInv, SessionInv', ClosedUp, [Next]_vars
    PROVE  ClosedUp'
  <1> DEFINE Out == {"stop", "sync", "wire", "gone"}
  <1>0. final \in BOOLEAN /\ failed \in BOOLEAN /\ final' \in BOOLEAN /\ failed' \in BOOLEAN
    <2>1. Types'
      BY TypesStep
    <2>2. QED
      BY <2>1 DEF Types, TypeOK, Shape
  <1> SUFFICES ASSUME final', ~failed', pc' \in Out
               PROVE  late' > 0 \/ AllEnded'
    BY DEF ClosedUp
  <1> DEFINE Same == sessions' = sessions /\ late' = late /\ final /\ ~failed /\ pc \in Out
  <1>1. Same => late' > 0 \/ AllEnded'
    BY DEF ClosedUp, AllEnded
  <1>2. late \in Nat
    BY DEF Types, Shape
  <1>3. CASE UNCHANGED vars \/ Aside
    BY <1>0, <1>1, <1>3 DEF vars, Aside, loopVars, storeVars, historyVars
  <1>4. CASE Moved
    <2>1. final
      BY <1>0, <1>4 DEF Moved
    <2>2. Same
      BY <1>0, <1>4, <2>1 DEF Moved, storeVars, Types, Shape
    <2>3. QED
      BY <1>1, <2>2
  <1>5. CASE SessionOff \/ ClearCounts \/ Bumped \/ \E app \in Apps : Begun(app) \/ Wrote(app) \/ Skipped(app)
    <2>1. pc' \in {"due", "keys", "bumped", "rows"}
      BY <1>0, <1>5 DEF SessionOff, ClearCounts, Bumped, Begun, Wrote, Skipped, Goto
    <2>2. QED
      BY <2>1
  <1>6. CASE Flushed \/ Marked
    <2>1. Same
      BY <1>0, <1>6 DEF Flushed, Marked, storeVars, historyVars
    <2>2. QED
      BY <1>1, <2>1
  <1>7. CASE Destroy
    <2>1. Same
      BY <1>0, <1>7, Destroyed
    <2>2. QED
      BY <1>1, <2>1
  <1>8. CASE Thrown
    <2>1. Same
      BY <1>0, <1>8 DEF Thrown, Raise, Goto, storeVars
    <2>2. QED
      BY <1>1, <2>1
  <1>9. CASE Missed
    BY <1>9 DEF Missed
  <1>10. CASE Clicked \/ \E app \in Apps : Pressed(app)
    <2>1. late' = late + 1
      BY <1>10 DEF Clicked, Pressed, Noticed, Counted, loopVars
    <2>2. QED
      BY <1>2, <2>1
  <1>11. CASE Closed
    <2>1. pc = "exit" /\ UNCHANGED session
      BY <1>11 DEF Closed
    <2>2. CASE ~session.active
      <3>1. ~session'.active
        BY <2>1, <2>2
      <3>2. QED
        BY <3>1 DEF SessionInv
    <2>3. CASE session.active
      <3>1. sessions' = [sessions EXCEPT ![session.id].end = now]
        BY <1>11, <2>1, <2>3 DEF Closed
      <3>2. session'.active /\ session'.id = session.id
        BY <2>1, <2>3
      <3>3. session'.id = Len(sessions') /\ session'.id # 0
        BY <3>2 DEF SessionInv, LastIsOn
      <3>4. now \in 0..MaxTime /\ now # Never
        BY Times
      <3>5. /\ Len(sessions') = Len(sessions)
            /\ \A j \in 1..Len(sessions) : j = session.id => sessions'[j].end # Never
        <4>1. ASSUME NEW i
              PROVE  /\ Len([sessions EXCEPT ![i].end = now]) = Len(sessions)
                     /\ \A j \in 1..Len(sessions) :
                          [sessions EXCEPT ![i].end = now][j] =
                              [start |-> sessions[j].start, end |-> IF j = i THEN now ELSE sessions[j].end]
          BY <3>4, EndedRows
        <4>2. PICK i : i = session.id
          OBVIOUS
        <4> DEFINE new == [sessions EXCEPT ![i].end = now]
        <4>3. /\ Len(new) = Len(sessions)
              /\ \A j \in 1..Len(sessions) :
                   new[j] = [start |-> sessions[j].start, end |-> IF j = i THEN now ELSE sessions[j].end]
          BY <4>1
        <4>4. sessions' = new
          BY <3>1, <4>2
        <4> HIDE DEF new
        <4>5. QED
          <5>1. Len(sessions') = Len(sessions)
            BY <4>3, <4>4
          <5>2. ASSUME NEW j \in 1..Len(sessions), j = session.id PROVE sessions'[j].end # Never
            <6>1. new[j] = [start |-> sessions[j].start, end |-> now]
              BY <4>2, <4>3, <5>2
            <6>2. new[j].end = now
              BY <6>1
            <6>3. QED
              BY <3>4, <4>4, <6>2
          <5>3. QED
            BY <5>1, <5>2
      <3>6. DOMAIN sessions' = 1..Len(sessions) /\ Len(sessions) \in Nat
        <4>1. Types'
          BY <1>11, ClosedTypes
        <4>2. sessions' \in Seq(SessionRow)
          BY <4>1 DEF Types, Shape
        <4>3. QED
          BY <3>5, <4>2, Times
      <3>7. ASSUME NEW j \in DOMAIN sessions' PROVE sessions'[j].end # Never
        <4>1. CASE j = session.id
          BY <3>5, <3>6, <4>1
        <4>2. CASE j # session.id
          <5> DEFINE n == Len(sessions)
          <5>1. j \in 1..n /\ n \in Nat /\ session'.id = n /\ j # n /\ DOMAIN sessions' = 1..n
            BY <3>2, <3>3, <3>5, <3>6, <4>2
          <5> HIDE DEF n
          <5>2. j < n /\ n \in DOMAIN sessions'
            BY <5>1
          <5>3. QED
            BY <5>2 DEF SessionInv, InOrder
        <4>3. QED
          BY <4>1, <4>2
      <3>8. QED
        BY <3>7 DEF AllEnded
    <2>4. QED
      BY <2>2, <2>3
  <1>12. QED
    BY <1>3, <1>4, <1>5, <1>6, <1>7, <1>8, <1>9, <1>10, <1>11, Steps

LEMMA UnsyncedFacts ==
    ASSUME Types
    PROVE  /\ IsFiniteSet(Unsynced) /\ Cardinality(Unsynced) \in Nat
           /\ Cardinality(Unsynced) <= Len(rows) /\ Len(rows) \in Nat
           /\ batch \subseteq Unsynced /\ BatchLimit \in Nat
  <1>1. /\ DOMAIN rows = 1..Len(rows) /\ Len(rows) \in Nat /\ IsFiniteSet(DOMAIN rows)
    BY RowFields
  <1>2. Cardinality(DOMAIN rows) = Len(rows)
    <2>1. Cardinality(1..Len(rows)) = IF 1 > Len(rows) THEN 0 ELSE Len(rows) - 1 + 1
      BY <1>1, FS_Interval
    <2>2. QED
      BY <1>1, <2>1
  <1>3. IsFiniteSet(Unsynced) /\ Cardinality(Unsynced) <= Cardinality(DOMAIN rows)
    <2>1. Unsynced \in SUBSET DOMAIN rows
      BY DEF Unsynced
    <2>2. QED
      BY <1>1, <2>1, FS_Subset
  <1>4. Cardinality(Unsynced) \in Nat
    BY <1>3, FS_CardinalityType
  <1>5. batch \subseteq Unsynced /\ BatchLimit \in Nat
    BY PyAgentAssumption DEF Types, TypeOK
  <1>6. QED
    BY <1>1, <1>2, <1>3, <1>4, <1>5

\* A full batch marked: what is left is what one batch could not hold.
LEMMA MarkedDelivered ==
    ASSUME Types, FullBatch, Marked
    PROVE  Cardinality(Unsynced)' <= Max({0, Len(rows)' - BatchLimit})
  <1>1. Unsynced' = Unsynced \ batch
    BY MarkedRows DEF Unsynced
  <1>2. Len(rows)' = Len(rows)
    BY MarkedRows
  <1> DEFINE U == Unsynced
             u == Cardinality(Unsynced)
             n == Len(rows)
  <1>3. U \cap batch = batch /\ IsFiniteSet(U) /\ u = Cardinality(U)
    BY UnsyncedFacts
  <1>4. Cardinality(batch) = Min({BatchLimit, u})
    BY DEF FullBatch, Marked
  <1>5. u \in Nat /\ n \in Nat /\ u <= n /\ BatchLimit \in Nat
    BY UnsyncedFacts
  <1> HIDE DEF U, u, n
  <1>6. Cardinality(U \ batch) = u - Cardinality(batch)
    BY <1>3, FS_Difference
  <1>7. Cardinality(batch) = IF BatchLimit <= u THEN BatchLimit ELSE u
    BY <1>4, <1>5, MinOfTwo
  <1>8. Max({0, n - BatchLimit}) = IF 0 >= n - BatchLimit THEN 0 ELSE n - BatchLimit
    BY <1>5, MaxOfTwo
  <1>9. Cardinality(U \ batch) <= Max({0, n - BatchLimit})
    BY <1>5, <1>6, <1>7, <1>8
  <1>10. Cardinality(Unsynced)' = Cardinality(U \ batch)
    BY <1>1, Zenon DEF U
  <1>11. Len(rows)' = n
    BY <1>2 DEF n
  <1>12. QED
    BY <1>9, <1>10, <1>11

LEMMA BatchStep ==
    ASSUME Types, FullBatch, [Next]_vars
    PROVE  FullBatch'
  <1> SUFFICES ASSUME pc' = "wire"
               PROVE  Cardinality(batch)' = Min({BatchLimit, Cardinality(Unsynced)})'
    BY DEF FullBatch
  <1> DEFINE Same == pc = "wire" /\ batch' = batch /\ rows' = rows
  <1>1. ASSUME Same PROVE Cardinality(batch)' = Min({BatchLimit, Cardinality(Unsynced)})'
    <2>1. Unsynced' = Unsynced
      BY <1>1 DEF Unsynced
    <2>2. Cardinality(Unsynced') = Cardinality(Unsynced)
      BY <2>1, Zenon
    <2>3. QED
      BY <1>1, <2>2 DEF FullBatch
  <1>2. CASE UNCHANGED vars \/ Aside \/ Missed \/ Clicked \/ \E app \in Apps : Pressed(app)
    <2>1. Same
      BY <1>2 DEF vars, Aside, Missed, Clicked, Pressed, Noticed, loopVars, storeVars
    <2>2. QED
      BY <1>1, <2>1
  <1>3. CASE Moved
    <2>1. Cardinality(batch') = Min({BatchLimit, Cardinality(Unsynced)}) /\ rows' = rows
      BY <1>3 DEF Moved, storeVars
    <2>2. Unsynced' = Unsynced
      BY <2>1 DEF Unsynced
    <2>3. Cardinality(Unsynced') = Cardinality(Unsynced)
      BY <2>2, Zenon
    <2>4. QED
      BY <2>1, <2>3
  <1>4. CASE \/ Thrown \/ Closed \/ SessionOff \/ ClearCounts \/ Bumped \/ Flushed \/ Marked \/ Destroy
             \/ \E app \in Apps : Begun(app) \/ Wrote(app) \/ Skipped(app)
    <2>1. pc' # "wire"
      BY <1>4 DEF Thrown, Raise, Goto, Closed, SessionOff, ClearCounts, Bumped, Flushed, Marked, Destroy,
                  Begun, Wrote, Skipped
    <2>2. QED
      BY <2>1
  <1>5. QED
    BY <1>2, <1>3, <1>4, Steps

LEMMA DeliveredStep ==
    ASSUME Types, FullBatch, Delivered, [Next]_vars
    PROVE  Delivered'
  <1>1. pushed \in BOOLEAN /\ pushed' \in BOOLEAN
    <2>1. Types'
      BY TypesStep
    <2>2. QED
      BY <2>1 DEF Types, Shape
  <1> SUFFICES ASSUME pushed'
               PROVE  pc' = "gone" /\ Cardinality(Unsynced)' <= Max({0, Len(rows)' - BatchLimit})
    BY DEF Delivered
  <1>2. ASSUME pushed' = pushed PROVE pushed /\ pc = "gone"
    BY <1>1, <1>2 DEF Delivered
  <1>3. ASSUME pushed' = pushed, rows' = rows, pc' = "gone"
        PROVE  pc' = "gone" /\ Cardinality(Unsynced)' <= Max({0, Len(rows)' - BatchLimit})
    <2>1. Unsynced' = Unsynced /\ pushed
      BY <1>2, <1>3 DEF Unsynced
    <2>2. Cardinality(Unsynced') = Cardinality(Unsynced)
      BY <2>1, Zenon
    <2>3. QED
      BY <1>3, <2>1, <2>2 DEF Delivered
  <1>4. CASE UNCHANGED vars \/ Aside \/ Missed \/ Clicked \/ \E app \in Apps : Pressed(app)
    <2>1. pushed' = pushed /\ rows' = rows /\ pc' = pc
      BY <1>4 DEF vars, Aside, Missed, Clicked, Pressed, Noticed, loopVars, storeVars, historyVars
    <2>2. QED
      BY <1>2, <1>3, <2>1
  <1>5. CASE Destroy
    <2>1. pushed' = pushed /\ rows' = rows /\ pc' = IF pc = "gone" THEN "gone" ELSE "killed"
      BY <1>5, Destroyed
    <2>2. QED
      BY <1>2, <1>3, <2>1
  <1>6. CASE Moved
    <2>1. (pushed' => pushed \/ (pc' = "gone" /\ Unsynced = {})) /\ rows' = rows /\ pc # "gone"
      BY <1>6 DEF Moved, storeVars
    <2>2. pc' = "gone" /\ Unsynced = {}
      BY <2>1 DEF Delivered
    <2>3. Unsynced' = {}
      BY <2>1, <2>2 DEF Unsynced
    <2>4. Cardinality(Unsynced)' = 0
      BY <2>3, FS_EmptySet, Zenon
    <2>5. Len(rows) \in Nat /\ BatchLimit \in Nat /\ Len(rows)' = Len(rows)
      BY <2>1, UnsyncedFacts
    <2>6. Max({0, Len(rows) - BatchLimit}) >= 0 /\ Max({0, Len(rows) - BatchLimit}) \in Int
      <3> DEFINE k == Len(rows) - BatchLimit
      <3>1. k \in Int
        BY <2>5
      <3> HIDE DEF k
      <3>2. Max({0, k}) = IF 0 >= k THEN 0 ELSE k
        BY <3>1, MaxOfTwo
      <3>3. Max({0, k}) >= 0 /\ Max({0, k}) \in Int
        BY <3>1, <3>2
      <3>4. QED
        BY <3>3 DEF k
    <2>7. QED
      BY <2>2, <2>4, <2>5, <2>6
  <1>7. CASE Marked
    <2>1. pushed' = final /\ pc' = (IF final THEN "gone" ELSE "top")
      BY <1>7 DEF Marked
    <2>2. pc' = "gone"
      BY <2>1
    <2>3. QED
      BY <1>7, <2>2, MarkedDelivered
  <1>8. CASE \/ Thrown \/ Closed \/ SessionOff \/ ClearCounts \/ Bumped \/ Flushed
             \/ \E app \in Apps : Begun(app) \/ Wrote(app) \/ Skipped(app)
    <2>1. pushed' = pushed /\ pc # "gone"
      <3>1. CASE ClearCounts
        BY <3>1, Cleared
      <3>2. CASE Closed
        BY <3>2 DEF Closed, historyVars
      <3>3. CASE Thrown \/ SessionOff \/ Bumped \/ Flushed
        BY <3>3 DEF Thrown, SessionOff, Bumped, Flushed, historyVars
      <3>4. CASE \E app \in Apps : Begun(app) \/ Wrote(app) \/ Skipped(app)
        BY <3>4 DEF Begun, Wrote, Skipped, historyVars
      <3>5. QED
        BY <1>8, <3>1, <3>2, <3>3, <3>4
    <2>2. QED
      BY <1>2, <2>1
  <1>9. QED
    BY <1>4, <1>5, <1>6, <1>7, <1>8, Steps

LEMMA InitLast == Init => LastInv
  BY DEF Init, LastInv, LittleLeft, ClosedUp, FullBatch, Delivered

LEMMA LastHold == Spec => [](Types /\ SessionInv /\ LastInv)
  <1>1. Init => Types /\ SessionInv /\ LastInv
    BY InitTypes, InitSessions, InitLast
  <1>2. Types /\ SessionInv /\ LastInv /\ [Next]_vars => (Types /\ SessionInv /\ LastInv)'
    BY TypesStep, SessionStep, LittleStep, ClosedUpStep, BatchStep, DeliveredStep DEF LastInv
  <1>3. QED
    BY <1>1, <1>2, PTL DEF Spec

\* A loop that came to its end without a fault of the store has left nothing in memory
\* but what was typed during its exit, and no session open; and if its last pass got
\* through, nothing unsynced but what one batch cannot hold, however many rows there
\* are and however the network failed before (agent.py:1060-1092, README.md:258-259).
THEOREM SafeToInterrupt == Spec => []LastPush
  <1>1. Types /\ SessionInv /\ LastInv => LastPush
    <2> SUFFICES ASSUME Types, SessionInv, LastInv, pc = "gone", ~failed
                 PROVE  /\ SumOver(counts.apps) + counts.clicks <= late
                        /\ late > 0 \/ \A i \in DOMAIN sessions : sessions[i].end # Never
                        /\ pushed => Cardinality(Unsynced) <= Max({0, Len(rows) - BatchLimit})
      BY DEF LastPush
    <2>1. final
      BY DEF Types, Shape
    <2>2. SumOver(counts.apps) + counts.clicks <= late
      BY <2>1 DEF LastInv, LittleLeft
    <2>3. late > 0 \/ AllEnded
      BY <2>1 DEF LastInv, ClosedUp
    <2>4. pushed => Cardinality(Unsynced) <= Max({0, Len(rows) - BatchLimit})
      BY DEF LastInv, Delivered
    <2>5. QED
      BY <2>2, <2>3, <2>4 DEF AllEnded
  <1>2. QED
    BY <1>1, LastHold, PTL
=============================================================================
