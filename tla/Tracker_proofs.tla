---------------------------- MODULE Tracker_proofs -----------------------------
(***************************************************************************)
(* The counting core of the desktop agent, for any number of apps, lengths *)
(* of a minute, of a flush interval and of idleness, and every             *)
(* interleaving of hook, tick, window and shutdown with the store's calls  *)
(* failing or not.                                                         *)
(***************************************************************************)
EXTENDS Tracker, Numbers_proofs, TLAPS

SessionRow == [start : 0..MaxTime, end : 0..MaxTime \cup {Never}]
Counts     == [Apps -> Nat]

\* What TypeOK leaves open: a session row to be written or closed has its time, and
\* one that was written its id; the hands of a thread that is not flushing are empty,
\* and keys says whether there are keystrokes in them.
Shape ==
    /\ pc = [t \in Threads |-> pc[t]]
    /\ sessions \in Seq(SessionRow)
    /\ todo \in [id : Nat, time : 0..MaxTime \cup {Never}]
    /\ today \in [pc : {"idle", "disk"}, disk : Nat, from : Nat, torn : BOOLEAN]
    /\ failed \in BOOLEAN
    /\ pc["tick"] \in {"start", "end"} => todo.time # Never
    /\ pc["tick"] = "open" => todo.id <= Len(sessions)
    /\ \A t \in Threads : /\ pc[t] # "rows" => flush[t] = Nothing
                          /\ flush[t].keys <=> \E a \in Apps : flush[t].apps[a] > 0

Types == TypeOK /\ Shape

LEMMA MinuteFacts ==
    /\ MaxTime \in Nat /\ minute_start(MaxTime) \in Nat
    /\ \A t \in 0..MaxTime : minute_start(t) \in Minutes
    /\ 0 \in Minutes /\ Minutes \subseteq Nat /\ IsFiniteSet(Minutes) /\ IsFiniteSet(Apps)
  <1>1. MaxTime \in Nat /\ MinuteLength \in Nat \ {0} /\ IsFiniteSet(Apps)
    BY TrackerAssumption
  <1>2. \A t \in 0..MaxTime : minute_start(t) \in Nat /\ minute_start(t) <= minute_start(MaxTime)
    <2> SUFFICES ASSUME NEW t \in 0..MaxTime
                 PROVE  minute_start(t) \in Nat /\ minute_start(t) <= minute_start(MaxTime)
      OBVIOUS
    <2>1. 0 \div MinuteLength = 0
      BY <1>1, Quotient
    <2>2. t \div MinuteLength \in Int /\ 0 \div MinuteLength <= t \div MinuteLength
      BY <1>1, Division, DivisionOrder
    <2>3. t \div MinuteLength <= MaxTime \div MinuteLength
      BY <1>1, DivisionOrder
    <2>4. QED
      BY <2>1, <2>2, <2>3 DEF minute_start
  <1>3. minute_start(MaxTime) \in Nat
    BY <1>1, <1>2
  <1>4. IsFiniteSet(Minutes)
    BY <1>3, FS_Interval DEF Minutes
  <1>5. QED
    BY <1>1, <1>2, <1>3, <1>4 DEF Minutes

LEMMA InitTypes == Init => Types
  <1> SUFFICES ASSUME Init PROVE Types
    OBVIOUS
  <1>1. minute_start(0) \in Minutes /\ 0 \in Minutes /\ MaxTime \in Nat
    BY MinuteFacts
  <1>2. TypeOK
    BY <1>1 DEF Init, TypeOK, NoKeys, Nothing, Threads, Never
  <1>3. Shape
    <2>1. pc = [t \in Threads |-> pc[t]] /\ failed \in BOOLEAN
      BY DEF Init
    <2> sessions \in Seq(SessionRow)
      BY DEF Init
    <2>2. todo \in [id : Nat, time : 0..MaxTime \cup {Never}]
      BY DEF Init, NoTodo
    <2>3. today \in [pc : {"idle", "disk"}, disk : Nat, from : Nat, torn : BOOLEAN]
      BY DEF Init, NoCall
    <2>4. \A t \in Threads : flush[t] = Nothing
      BY DEF Init
    <2>5. Nothing.keys = FALSE /\ \A a \in Apps : Nothing.apps[a] = 0
      BY DEF Nothing, NoKeys
    <2>6. QED
      BY <2>1, <2>2, <2>3, <2>4, <2>5 DEF Init, Shape, Threads
  <1>4. QED
    BY <1>2, <1>3 DEF Types

-----------------------------------------------------------------------------
\* The steps that leave the counts alone.
CountsUntouched == UNCHANGED <<state, flush, saved, keyCounts, typed, clicked>>

LEMMA StateFields ==
    ASSUME Types
    PROVE  /\ state.bucket \in Minutes /\ state.keystrokes \in Nat
           /\ state.apps \in Counts /\ state.clicks \in Nat /\ state.last_flush \in 0..MaxTime
           /\ state = [bucket |-> state.bucket, keystrokes |-> state.keystrokes,
                       apps |-> state.apps, clicks |-> state.clicks,
                       last_flush |-> state.last_flush]
  BY DEF Types, TypeOK, Counts

LEMMA TouchedType ==
    ASSUME Types
    PROVE  /\ Touched \in [active : {TRUE}, id : Nat, pending : 0..MaxTime \cup {Never},
                           last_event : {now}]
           /\ Touched.id = session.id
           /\ Touched.pending = IF session.active THEN session.pending ELSE now
  BY DEF Types, TypeOK, Touched

LEMMA KeyTypes ==
    ASSUME Types, NEW app \in Apps, on_key(app)
    PROVE  Types'
  <1>1. state' \in [bucket : Minutes, keystrokes : Nat, apps : [Apps -> Nat],
                    clicks : Nat, last_flush : 0..MaxTime]
    <2>1. state' = [state EXCEPT !.keystrokes = @ + 1, !.apps[app] = @ + 1]
      BY DEF on_key
    <2>2. state' = [bucket |-> state.bucket, keystrokes |-> state.keystrokes + 1,
                    apps |-> [state.apps EXCEPT ![app] = @ + 1], clicks |-> state.clicks,
                    last_flush |-> state.last_flush]
      BY <2>1, StateFields
    <2>3. QED
      BY <2>2, StateFields DEF Counts
  <1>2. typed' \in [Minutes -> [Apps -> Nat]]
    BY DEF on_key, Types, TypeOK
  <1>3. inputs' \subseteq 0..MaxTime
    BY DEF on_key, Input, Types, TypeOK
  <1>4. session' \in [active : BOOLEAN, id : Nat, pending : 0..MaxTime \cup {Never},
                      last_event : 0..MaxTime] /\ session'.id = session.id
    BY TouchedType DEF on_key, Input, Types, TypeOK
  <1>5. TypeOK'
    BY <1>1, <1>2, <1>3, <1>4 DEF on_key, Types, TypeOK
  <1>6. Shape'
    BY DEF on_key, Types, Shape
  <1>7. QED
    BY <1>5, <1>6 DEF Types

LEMMA ClickTypes ==
    ASSUME Types, on_click
    PROVE  Types'
  <1>1. state' \in [bucket : Minutes, keystrokes : Nat, apps : [Apps -> Nat],
                    clicks : Nat, last_flush : 0..MaxTime]
    <2>1. state' = [state EXCEPT !.clicks = @ + 1]
      BY DEF on_click
    <2>2. state' = [bucket |-> state.bucket, keystrokes |-> state.keystrokes,
                    apps |-> state.apps, clicks |-> state.clicks + 1,
                    last_flush |-> state.last_flush]
      BY <2>1, StateFields
    <2>3. QED
      BY <2>2, StateFields DEF Counts
  <1>2. clicked' \in [Minutes -> Nat]
    BY DEF on_click, Types, TypeOK
  <1>3. inputs' \subseteq 0..MaxTime
    BY DEF on_click, Input, Types, TypeOK
  <1>4. session' \in [active : BOOLEAN, id : Nat, pending : 0..MaxTime \cup {Never},
                      last_event : 0..MaxTime] /\ session'.id = session.id
    BY TouchedType DEF on_click, Input, Types, TypeOK
  <1>5. TypeOK'
    BY <1>1, <1>2, <1>3, <1>4 DEF on_click, Types, TypeOK
  <1>6. Shape'
    BY DEF on_click, Types, Shape
  <1>7. QED
    BY <1>5, <1>6 DEF Types
-----------------------------------------------------------------------------
\* The steps that move a thread and leave the counts and the hands as they are.
LEMMA MovedShape ==
    ASSUME Types, pc' = [t \in Threads |-> pc'[t]], UNCHANGED <<flush>>,
           \A t \in Threads : pc[t] = "rows" => pc'[t] = "rows",
           sessions' \in Seq(SessionRow),
           todo' \in [id : Nat, time : 0..MaxTime \cup {Never}],
           pc'["tick"] \in {"start", "end"} => todo'.time # Never,
           pc'["tick"] = "open" => todo'.id <= Len(sessions'),
           today' \in [pc : {"idle", "disk"}, disk : Nat, from : Nat, torn : BOOLEAN],
           failed' \in BOOLEAN
    PROVE  Shape'
  BY DEF Types, Shape

LEMMA PcFields ==
    ASSUME Types
    PROVE  /\ DOMAIN pc = Threads /\ Threads = {"tick", "main"}
           /\ \A t \in Threads : \A label :
                /\ [pc EXCEPT ![t] = label] = [u \in Threads |-> IF u = t THEN label ELSE pc[u]]
                /\ [pc EXCEPT ![t] = label][t] = label
                /\ \A u \in Threads : u # t => [pc EXCEPT ![t] = label][u] = pc[u]
  BY DEF Types, Shape, Threads

LEMMA ClockTypes ==
    ASSUME Types, Clock
    PROVE  Types'
  <1>1. UNCHANGED <<pc, at, today, countVars, sessionVars, historyVars>> /\ now' \in 0..MaxTime
    <2>1. now \in 0..MaxTime /\ MaxTime \in Nat
      BY MinuteFacts DEF Types, TypeOK
    <2>2. QED
      BY <2>1 DEF Clock
  <1>2. TypeOK'
    BY <1>1 DEF Types, TypeOK, countVars, sessionVars, historyVars
  <1>3. Shape'
    BY <1>1 DEF Types, Shape, countVars, sessionVars, historyVars
  <1>4. QED
    BY <1>2, <1>3 DEF Types

LEMMA SessionFields ==
    ASSUME Types
    PROVE  /\ session.active \in BOOLEAN /\ session.id \in Nat /\ session.id <= Len(sessions)
           /\ session.pending \in 0..MaxTime \cup {Never} /\ session.last_event \in 0..MaxTime
           /\ session = [active |-> session.active, id |-> session.id,
                         pending |-> session.pending, last_event |-> session.last_event]
           /\ sessions \in Seq(SessionRow) /\ Len(sessions) \in Nat
  BY DEF Types, TypeOK, Shape

LEMMA TickTypes ==
    ASSUME Types, TickBegin
    PROVE  Types'
  <1>1. /\ pc["tick"] = "sleep" /\ at' = now
        /\ UNCHANGED <<now, today, countVars, sessions, historyVars>>
    BY DEF TickBegin
  <1>2. \E label \in {"start", "end", "due"} : pc' = [pc EXCEPT !["tick"] = label]
    BY DEF TickBegin
  <1>3. /\ todo' \in [id : Nat, time : 0..MaxTime \cup {Never}]
        /\ pc'["tick"] \in {"start", "end"} => todo'.time # Never
    <2>1. Never \notin 0..MaxTime
      BY DEF Never
    <2>2. QED
      BY <2>1, SessionFields, PcFields DEF TickBegin, Types, Shape
  <1>4. /\ session' \in [active : BOOLEAN, id : Nat, pending : 0..MaxTime \cup {Never},
                         last_event : 0..MaxTime]
        /\ session'.id <= Len(sessions)
    <2>1. PICK q \in BOOLEAN :
            session' = [session EXCEPT !.pending = Never, !.active = @ /\ ~q,
                                       !.id = IF q THEN 0 ELSE @]
      BY DEF TickBegin
    <2>2. session' = [active |-> session.active /\ ~q, id |-> IF q THEN 0 ELSE session.id,
                      pending |-> Never, last_event |-> session.last_event]
      BY <2>1, SessionFields
    <2>3. QED
      BY <2>2, SessionFields
  <1>5. /\ pc'["tick"] \in {"start", "end", "due"} /\ pc'["main"] = pc["main"]
        /\ pc' = [t \in Threads |-> pc'[t]]
    BY <1>2, PcFields
  <1>6. TypeOK'
    BY <1>1, <1>4, <1>5 DEF Types, TypeOK, countVars, historyVars
  <1>7. \A t \in Threads : pc[t] = "rows" => pc'[t] = "rows"
    BY <1>1, <1>5 DEF Threads
  <1>8. Shape'
    BY <1>1, <1>3, <1>5, <1>7, MovedShape DEF Types, Shape, countVars, historyVars
  <1>9. QED
    BY <1>6, <1>8 DEF Types

LEMMA StartTypes ==
    ASSUME Types, NEW ok \in BOOLEAN, StartSession(ok)
    PROVE  Types'
  <1>1. /\ pc["tick"] = "start"
        /\ pc' = [pc EXCEPT !["tick"] = IF ok THEN "open" ELSE "due"]
        /\ UNCHANGED <<now, at, today, session, countVars, typed, clicked, inputs>>
    BY DEF StartSession
  <1>2. /\ sessions' \in Seq(SessionRow) /\ Len(sessions') >= Len(sessions)
        /\ todo' \in [id : Nat, time : 0..MaxTime \cup {Never}]
        /\ ok => todo'.id = Len(sessions')
    <2>1. todo.time \in 0..MaxTime
      BY <1>1 DEF Types, Shape
    <2>2. CASE ok
      <3>1. [start |-> todo.time, end |-> Never] \in SessionRow
        BY <2>1 DEF SessionRow
      <3>2. /\ sessions' = Append(sessions, [start |-> todo.time, end |-> Never])
            /\ todo' = [todo EXCEPT !.id = Len(sessions) + 1]
        BY <2>2 DEF StartSession
      <3>3. sessions' \in Seq(SessionRow) /\ Len(sessions') = Len(sessions) + 1
        <4>1. sessions \in Seq(SessionRow)
          BY SessionFields
        <4> DEFINE row == [start |-> todo.time, end |-> Never]
        <4> HIDE DEF row
        <4>2. row \in SessionRow /\ sessions' = Append(sessions, row)
          BY <3>1, <3>2 DEF row
        <4>3. QED
          BY <4>1, <4>2
      <3>4. todo \in [id : Nat, time : 0..MaxTime \cup {Never}]
        BY DEF Types, Shape
      <3>5. todo' = [id |-> Len(sessions) + 1, time |-> todo.time]
        BY <3>2, <3>4
      <3>6. QED
        BY <2>1, <3>3, <3>5, SessionFields
    <2>3. CASE ~ok
      BY <2>3, SessionFields DEF StartSession, NoTodo
    <2>4. QED
      BY <2>2, <2>3
  <1>3. /\ pc'["tick"] = IF ok THEN "open" ELSE "due"
        /\ pc'["main"] = pc["main"] /\ pc' = [t \in Threads |-> pc'[t]]
    BY <1>1, PcFields
  <1>4. session'.id <= Len(sessions')
    BY <1>1, <1>2, SessionFields
  <1>5. TypeOK'
    BY <1>1, <1>2, <1>3, <1>4 DEF Types, TypeOK, countVars
  <1>6. \A t \in Threads : pc[t] = "rows" => pc'[t] = "rows"
    BY <1>1, <1>3 DEF Threads
  <1>7. failed' \in BOOLEAN
    BY DEF StartSession, Answer, Types, Shape
  <1>8. /\ pc'["tick"] \in {"start", "end"} => todo'.time # Never
        /\ pc'["tick"] = "open" => todo'.id <= Len(sessions')
    BY <1>2, <1>3, SessionFields
  <1>9. Shape'
    BY <1>1, <1>2, <1>3, <1>6, <1>7, <1>8, MovedShape DEF Types, Shape, countVars
  <1>10. QED
    BY <1>5, <1>9 DEF Types

LEMMA OpenTypes ==
    ASSUME Types, OpenSession
    PROVE  Types'
  <1>1. /\ pc["tick"] = "open" /\ pc' = [pc EXCEPT !["tick"] = "due"] /\ todo' = NoTodo
        /\ session' = [session EXCEPT !.id = todo.id]
        /\ UNCHANGED <<now, at, today, sessions, countVars, historyVars>>
    BY DEF OpenSession
  <1>2. /\ session' \in [active : BOOLEAN, id : Nat, pending : 0..MaxTime \cup {Never},
                         last_event : 0..MaxTime]
        /\ session'.id <= Len(sessions)
    <2>1. todo.id \in Nat /\ todo.id <= Len(sessions)
      BY <1>1 DEF Types, Shape
    <2>2. session' = [active |-> session.active, id |-> todo.id,
                      pending |-> session.pending, last_event |-> session.last_event]
      BY <1>1, SessionFields
    <2>3. QED
      BY <2>1, <2>2, SessionFields
  <1>3. /\ pc'["tick"] = "due" /\ pc'["main"] = pc["main"] /\ pc' = [t \in Threads |-> pc'[t]]
    BY <1>1, PcFields
  <1>4. TypeOK'
    BY <1>1, <1>2, <1>3 DEF Types, TypeOK, countVars, historyVars
  <1>5. \A t \in Threads : pc[t] = "rows" => pc'[t] = "rows"
    BY <1>1, <1>3 DEF Threads
  <1>6. NoTodo \in [id : Nat, time : 0..MaxTime \cup {Never}]
    BY DEF NoTodo
  <1>7. Shape'
    BY <1>1, <1>3, <1>5, <1>6, MovedShape DEF Types, Shape, countVars, historyVars
  <1>8. QED
    BY <1>4, <1>7 DEF Types

LEMMA EndedRows ==
    ASSUME Types, NEW i, NEW t \in 0..MaxTime \cup {Never}
    PROVE  /\ [sessions EXCEPT ![i].end = t] \in Seq(SessionRow)
           /\ Len([sessions EXCEPT ![i].end = t]) = Len(sessions)
  <1> DEFINE new == [sessions EXCEPT ![i].end = t]
  <1>1. new = [j \in 1..Len(sessions) |->
                 IF j = i THEN [sessions[j] EXCEPT !.end = t] ELSE sessions[j]]
    BY SessionFields
  <1>2. \A j \in 1..Len(sessions) : sessions[j] \in SessionRow
    BY SessionFields
  <1>3. \A j \in 1..Len(sessions) : [sessions[j] EXCEPT !.end = t] \in SessionRow
    BY <1>2 DEF SessionRow
  <1>4. new \in [1..Len(sessions) -> SessionRow]
    BY <1>1, <1>2, <1>3
  <1>5. Len(sessions) \in Nat
    BY SessionFields
  <1> HIDE DEF new
  <1>6. new \in Seq(SessionRow) /\ Len(new) = Len(sessions)
    BY <1>4, <1>5
  <1>7. QED
    BY <1>6 DEF new

LEMMA EndTypes ==
    ASSUME Types, NEW ok \in BOOLEAN, EndSession(ok)
    PROVE  Types'
  <1>1. /\ pc["tick"] = "end" /\ pc' = [pc EXCEPT !["tick"] = "due"] /\ todo' = NoTodo
        /\ UNCHANGED <<now, at, today, session, countVars, typed, clicked, inputs>>
        /\ sessions' = IF ok THEN [sessions EXCEPT ![todo.id].end = todo.time] ELSE sessions
    BY DEF EndSession
  <1>2. sessions' \in Seq(SessionRow) /\ Len(sessions') = Len(sessions)
    BY <1>1, EndedRows, SessionFields DEF Types, Shape
  <1>3. /\ pc'["tick"] = "due" /\ pc'["main"] = pc["main"] /\ pc' = [t \in Threads |-> pc'[t]]
    BY <1>1, PcFields
  <1>4. TypeOK'
    BY <1>1, <1>2, <1>3 DEF Types, TypeOK, countVars
  <1>5. \A t \in Threads : pc[t] = "rows" => pc'[t] = "rows"
    BY <1>1, <1>3 DEF Threads
  <1>6. failed' \in BOOLEAN /\ NoTodo \in [id : Nat, time : 0..MaxTime \cup {Never}]
    BY DEF EndSession, Answer, Types, Shape, NoTodo
  <1>7. Shape'
    BY <1>1, <1>2, <1>3, <1>5, <1>6, MovedShape DEF Types, Shape, countVars
  <1>8. QED
    BY <1>4, <1>7 DEF Types

LEMMA DueTypes ==
    ASSUME Types, Due
    PROVE  Types'
  <1>1. /\ pc["tick"] = "due" /\ \E label \in {"take", "sleep"} : pc' = [pc EXCEPT !["tick"] = label]
        /\ UNCHANGED <<now, at, today, countVars, sessionVars, historyVars>>
    BY DEF Due
  <1>2. /\ pc'["tick"] \in {"take", "sleep"} /\ pc'["main"] = pc["main"]
        /\ pc' = [t \in Threads |-> pc'[t]]
    BY <1>1, PcFields, ZenonT(40)
  <1>3. TypeOK'
    BY <1>1, <1>2 DEF Types, TypeOK, countVars, sessionVars, historyVars
  <1>4. \A t \in Threads : pc[t] = "rows" => pc'[t] = "rows"
    BY <1>1, <1>2 DEF Threads
  <1>5. Shape'
    BY <1>1, <1>2, <1>4, MovedShape DEF Types, Shape, countVars, sessionVars, historyVars
  <1>6. QED
    BY <1>3, <1>5 DEF Types

LEMMA CloseTypes ==
    ASSUME Types, NEW ok \in BOOLEAN, CloseAndExit(ok)
    PROVE  Types'
  <1>1. /\ pc["main"] = "close" /\ pc' = [pc EXCEPT !["main"] = "gone"]
        /\ UNCHANGED <<now, at, today, todo, countVars, typed, clicked, inputs>>
        /\ session' = [session EXCEPT !.active = FALSE, !.id = 0]
        /\ sessions' \in {sessions, [sessions EXCEPT ![session.id].end = session.last_event]}
    BY DEF CloseAndExit
  <1>2. sessions' \in Seq(SessionRow) /\ Len(sessions') = Len(sessions)
    BY <1>1, EndedRows, SessionFields
  <1>3. /\ pc'["main"] = "gone" /\ pc'["tick"] = pc["tick"] /\ pc' = [t \in Threads |-> pc'[t]]
    BY <1>1, PcFields
  <1>4. session' = [active |-> FALSE, id |-> 0, pending |-> session.pending,
                    last_event |-> session.last_event]
    BY <1>1, SessionFields
  <1>5. TypeOK'
    <2>1. /\ session' \in [active : BOOLEAN, id : Nat, pending : 0..MaxTime \cup {Never},
                           last_event : 0..MaxTime]
          /\ session'.id <= Len(sessions')
      BY <1>2, <1>4, SessionFields
    <2>2. QED
      BY <1>1, <1>3, <2>1 DEF Types, TypeOK, countVars
  <1>6. \A t \in Threads : pc[t] = "rows" => pc'[t] = "rows"
    BY <1>1, <1>3 DEF Threads
  <1>7. failed' \in BOOLEAN
    BY DEF CloseAndExit, Answer, Types, Shape
  <1>8. Shape'
    BY <1>1, <1>2, <1>3, <1>6, <1>7, MovedShape DEF Types, Shape, countVars
  <1>9. QED
    BY <1>5, <1>8 DEF Types
-----------------------------------------------------------------------------
\* The steps of a flush.
LEMMA FlushFields ==
    ASSUME Types, NEW t \in Threads
    PROVE  /\ flush[t].bucket \in Minutes /\ flush[t].apps \in Counts /\ flush[t].clicks \in Nat
           /\ flush[t].app \in Apps \cup {NoApp} /\ flush[t].rows \in SUBSET Apps
           /\ flush[t].keys \in BOOLEAN
           /\ flush[t] = [bucket |-> flush[t].bucket, apps |-> flush[t].apps,
                          clicks |-> flush[t].clicks, app |-> flush[t].app,
                          rows |-> flush[t].rows, keys |-> flush[t].keys]
           /\ DOMAIN flush = Threads
  BY DEF Types, TypeOK, Counts

Hand == [bucket : Minutes, apps : [Apps -> Nat], clicks : Nat,
         app : Apps \cup {NoApp}, rows : SUBSET Apps, keys : BOOLEAN]

LEMMA NothingInHand ==
    Nothing \in Hand /\ Nothing.keys = FALSE /\ \A a \in Apps : Nothing.apps[a] = 0
  BY MinuteFacts DEF Nothing, NoKeys, Hand

LEMMA TakenFields ==
    ASSUME Types, NEW app \in Apps
    PROVE  /\ Taken(app) \in Hand
           /\ Taken(app).keys <=> \E a \in Apps : Taken(app).apps[a] > 0
  BY StateFields DEF Taken, Hand, Counts

LEMMA TakeTypes ==
    ASSUME Types, NEW t \in Threads, NEW n \in 0..MaxTime, NEW app \in Apps, Take(t, n, app)
    PROVE  Types'
  <1>1. /\ flush' = [flush EXCEPT ![t] = Taken(app)]
        /\ state' = [bucket |-> minute_start(n), keystrokes |-> 0,
                     apps |-> NoKeys, clicks |-> 0, last_flush |-> n]
        /\ pc' = [pc EXCEPT ![t] = "rows"]
        /\ UNCHANGED <<now, at, saved, keyCounts, sessionVars, historyVars>>
    BY DEF Take
  <1>2. state' \in [bucket : Minutes, keystrokes : Nat, apps : [Apps -> Nat],
                    clicks : Nat, last_flush : 0..MaxTime]
    BY <1>1, MinuteFacts DEF NoKeys
  <1>3. flush' \in [Threads -> Hand] /\ flush'[t] = Taken(app)
        /\ \A u \in Threads : u # t => flush'[u] = flush[u]
    <2>1. flush \in [Threads -> Hand]
      BY DEF Types, TypeOK, Hand
    <2>2. QED
      BY <1>1, <2>1, TakenFields
  <1>4. /\ pc'[t] = "rows" /\ pc' = [u \in Threads |-> pc'[u]]
        /\ \A u \in Threads : u # t => pc'[u] = pc[u]
    BY <1>1, PcFields
  <1>5. TypeOK'
    BY <1>1, <1>2, <1>3, <1>4 DEF Types, TypeOK, Hand, sessionVars, historyVars, Threads
  <1>6. today' \in [pc : {"idle", "disk"}, disk : Nat, from : Nat, torn : BOOLEAN]
    BY DEF Take, Types, Shape
  <1>7. Shape'
    BY <1>1, <1>3, <1>4, <1>6, TakenFields DEF Types, Shape, sessionVars, historyVars, Threads
  <1>8. QED
    BY <1>5, <1>7 DEF Types

LEMMA SavedFields ==
    ASSUME Types, NEW m \in Minutes, NEW a \in Apps
    PROVE  /\ saved[m][a].rows \in Nat /\ saved[m][a].keys \in Nat /\ saved[m][a].clicks \in Nat
           /\ typed[m] \in Counts /\ typed[m][a] \in Nat /\ clicked[m] \in Nat
           /\ keyCounts[a] \in Nat
  BY SMTT(30) DEF Types, TypeOK, Counts

\* What insert_bucket makes of the rows: clicks go with the app in focus.
ClicksOf(t, a) == IF a = flush[t].app THEN flush[t].clicks ELSE 0

LEMMA InsertEffect ==
    ASSUME Types, NEW t \in Threads, NEW a \in Apps, NEW ok \in BOOLEAN, InsertBucket(t, a, ok)
    PROVE  /\ Alive /\ pc[t] = "rows" /\ a \in flush[t].rows
           /\ flush'[t] = [flush[t] EXCEPT !.rows = @ \ {a}] /\ flush' \in [Threads -> Hand]
           /\ \A u \in Threads : u # t => flush'[u] = flush[u]
           /\ saved' \in [Minutes -> [Apps -> [rows : Nat, keys : Nat, clicks : Nat]]]
           /\ \A m \in Minutes, b \in Apps :
                m # flush[t].bucket \/ b # a => saved'[m][b] = saved[m][b]
           /\ LET m == flush[t].bucket
                  keys == flush[t].apps[a]
                  clicks == ClicksOf(t, a)
              IN  IF keys + clicks > 0 /\ ok
                  THEN /\ saved'[m][a].rows = saved[m][a].rows + 1
                       /\ saved'[m][a].keys = saved[m][a].keys + keys
                       /\ saved'[m][a].clicks = saved[m][a].clicks + clicks
                  ELSE /\ saved'[m][a] = saved[m][a]
                       /\ keys + clicks > 0 => failed'
           /\ failed => failed'
           /\ failed' \in BOOLEAN
           /\ UNCHANGED <<now, state, pc, at, today, keyCounts, sessionVars, typed,
                          clicked, inputs>>
  <1> DEFINE m == flush[t].bucket
             keys == flush[t].apps[a]
             clicks == ClicksOf(t, a)
             row == [rows |-> saved[m][a].rows + 1, keys |-> saved[m][a].keys + keys,
                     clicks |-> saved[m][a].clicks + clicks]
  <1>1. /\ Alive /\ pc[t] = "rows" /\ a \in flush[t].rows
        /\ flush' = [flush EXCEPT ![t].rows = @ \ {a}]
        /\ saved' = IF keys + clicks > 0 /\ ok THEN [saved EXCEPT ![m][a] = row] ELSE saved
        /\ failed' = (failed \/ ~(keys + clicks = 0 \/ ok))
        /\ UNCHANGED <<now, state, pc, at, today, keyCounts, sessionVars, typed,
                       clicked, inputs>>
    BY DEF InsertBucket, ClicksOf, Answer
  <1>2. m \in Minutes /\ keys \in Nat /\ clicks \in Nat
    BY FlushFields DEF Counts, ClicksOf
  <1>3. /\ flush'[t] = [flush[t] EXCEPT !.rows = @ \ {a}] /\ flush' \in [Threads -> Hand]
        /\ \A u \in Threads : u # t => flush'[u] = flush[u]
    <2>1. flush \in [Threads -> Hand]
      BY DEF Types, TypeOK, Hand
    <2>2. [flush[t] EXCEPT !.rows = @ \ {a}] \in Hand
      BY <2>1 DEF Hand
    <2>3. QED
      BY <1>1, <2>1, <2>2
  <1>4. row \in [rows : Nat, keys : Nat, clicks : Nat]
    BY <1>2, SavedFields
  <1> HIDE DEF row, m
  <1>5. saved \in [Minutes -> [Apps -> [rows : Nat, keys : Nat, clicks : Nat]]]
    BY DEF Types, TypeOK
  <1>6. CASE keys + clicks > 0 /\ ok
    <2>1. /\ saved' = [saved EXCEPT ![m][a] = row]
          /\ saved' \in [Minutes -> [Apps -> [rows : Nat, keys : Nat, clicks : Nat]]]
      BY <1>1, <1>2, <1>4, <1>5, <1>6
    <2>2. saved'[m][a] = row /\ \A k \in Minutes, b \in Apps :
            k # m \/ b # a => saved'[k][b] = saved[k][b]
      BY <1>2, <1>5, <2>1
    <2>3. /\ row.rows = saved[m][a].rows + 1 /\ row.keys = saved[m][a].keys + keys
          /\ row.clicks = saved[m][a].clicks + clicks
      BY DEF row
    <2>4. failed' \in BOOLEAN
      BY <1>1 DEF Types, Shape
    <2>5. QED
      BY <1>1, <1>3, <1>6, <2>1, <2>2, <2>3, <2>4 DEF m
  <1>7. CASE ~(keys + clicks > 0 /\ ok)
    <2>1. saved' = saved
      BY <1>1, <1>7
    <2>2. failed' \in BOOLEAN
      BY <1>1 DEF Types, Shape
    <2>3. keys + clicks > 0 => failed'
      <3> SUFFICES ASSUME keys + clicks > 0 PROVE failed'
        OBVIOUS
      <3>1. ~(keys + clicks = 0)
        BY <1>2
      <3>2. ~ok
        BY <1>7
      <3>3. QED
        BY <1>1, <3>1, <3>2, Zenon
    <2>4. QED
      BY <1>1, <1>3, <1>5, <1>7, <2>1, <2>2, <2>3 DEF m
  <1>8. QED
    BY <1>6, <1>7

LEMMA InsertTypes ==
    ASSUME Types, NEW t \in Threads, NEW a \in Apps, NEW ok \in BOOLEAN, InsertBucket(t, a, ok)
    PROVE  Types'
  <1>1. /\ pc[t] = "rows" /\ flush'[t] = [flush[t] EXCEPT !.rows = @ \ {a}]
        /\ flush' \in [Threads -> Hand]
        /\ \A u \in Threads : u # t => flush'[u] = flush[u]
        /\ saved' \in [Minutes -> [Apps -> [rows : Nat, keys : Nat, clicks : Nat]]]
        /\ failed' \in BOOLEAN
        /\ UNCHANGED <<now, state, pc, at, today, keyCounts, sessionVars, typed,
                       clicked, inputs>>
    BY InsertEffect
  <1>2. TypeOK'
    BY <1>1 DEF Types, TypeOK, Hand, sessionVars
  <1>3. flush'[t].apps = flush[t].apps /\ flush'[t].keys = flush[t].keys
    BY <1>1, FlushFields
  <1>4. Shape'
    BY <1>1, <1>3 DEF Types, Shape, sessionVars
  <1>5. QED
    BY <1>2, <1>4 DEF Types

LEMMA BumpEffect ==
    ASSUME Types, NEW t \in Threads, NEW ok \in BOOLEAN, BumpKeys(t, ok)
    PROVE  /\ Alive /\ pc[t] = "rows" /\ flush[t].rows = {}
           /\ flush'[t] = Nothing /\ flush' \in [Threads -> Hand]
           /\ \A u \in Threads : u # t => flush'[u] = flush[u]
           /\ keyCounts' \in [Apps -> Nat]
           /\ \A a \in Apps : IF flush[t].keys /\ ~ok
                THEN keyCounts'[a] = keyCounts[a] /\ failed'
                ELSE keyCounts'[a] = keyCounts[a] + flush[t].apps[a]
           /\ failed => failed'
           /\ failed' \in BOOLEAN
           /\ pc' = [u \in Threads |-> pc'[u]]
           /\ pc'[t] = IF t = "tick" THEN "sleep" ELSE "close"
           /\ \A u \in Threads : u # t => pc'[u] = pc[u]
           /\ UNCHANGED <<now, state, at, today, saved, sessionVars, typed, clicked, inputs>>
  <1>1. /\ Alive /\ pc[t] = "rows" /\ flush[t].rows = {}
        /\ keyCounts' = IF flush[t].keys /\ ok
                        THEN [a \in Apps |-> keyCounts[a] + flush[t].apps[a]] ELSE keyCounts
        /\ flush' = [flush EXCEPT ![t] = Nothing]
        /\ failed' = (failed \/ ~(~flush[t].keys \/ ok))
        /\ pc' = [pc EXCEPT ![t] = IF t = "tick" THEN "sleep" ELSE "close"]
        /\ UNCHANGED <<now, state, at, today, saved, sessionVars, typed, clicked, inputs>>
    BY DEF BumpKeys, Answer
  <1>2. /\ flush'[t] = Nothing /\ flush' \in [Threads -> Hand]
        /\ \A u \in Threads : u # t => flush'[u] = flush[u]
    <2>1. flush \in [Threads -> Hand]
      BY DEF Types, TypeOK, Hand
    <2>2. QED
      BY <1>1, <2>1, NothingInHand
  <1>3. \A a \in Apps : flush[t].apps[a] \in Nat /\ keyCounts[a] \in Nat
    BY FlushFields, SavedFields DEF Counts, Types, TypeOK
  <1>4. ~flush[t].keys => \A a \in Apps : flush[t].apps[a] = 0
    BY <1>3 DEF Types, Shape
  <1>5. /\ keyCounts' \in [Apps -> Nat]
        /\ \A a \in Apps : IF flush[t].keys /\ ~ok
             THEN keyCounts'[a] = keyCounts[a] /\ failed'
             ELSE keyCounts'[a] = keyCounts[a] + flush[t].apps[a]
    <2>1. keyCounts \in [Apps -> Nat] /\ flush[t].keys \in BOOLEAN
      BY FlushFields DEF Types, TypeOK
    <2>2. CASE flush[t].keys /\ ok
      BY <1>1, <1>3, <2>2
    <2>3. CASE flush[t].keys /\ ~ok
      BY <1>1, <2>1, <2>3
    <2>4. CASE ~flush[t].keys
      <3>1. keyCounts' = keyCounts
        BY <1>1, <2>4
      <3>2. \A a \in Apps : keyCounts'[a] = keyCounts[a] + flush[t].apps[a]
        BY <1>3, <1>4, <2>4, <3>1
      <3>3. QED
        BY <2>1, <2>4, <3>1, <3>2
    <2>5. QED
      BY <2>1, <2>2, <2>3, <2>4
  <1>6. /\ pc' = [u \in Threads |-> pc'[u]]
        /\ pc'[t] = IF t = "tick" THEN "sleep" ELSE "close"
        /\ \A u \in Threads : u # t => pc'[u] = pc[u]
    BY <1>1, PcFields
  <1>7. failed' \in BOOLEAN /\ (failed => failed')
    BY <1>1 DEF Types, Shape
  <1>8. QED
    BY <1>1, <1>2, <1>5, <1>6, <1>7

LEMMA BumpTypes ==
    ASSUME Types, NEW t \in Threads, NEW ok \in BOOLEAN, BumpKeys(t, ok)
    PROVE  Types'
  <1>1. /\ flush'[t] = Nothing /\ flush' \in [Threads -> Hand]
        /\ \A u \in Threads : u # t => flush'[u] = flush[u]
        /\ keyCounts' \in [Apps -> Nat] /\ failed' \in BOOLEAN
        /\ pc' = [u \in Threads |-> pc'[u]]
        /\ pc'[t] = IF t = "tick" THEN "sleep" ELSE "close"
        /\ \A u \in Threads : u # t => pc'[u] = pc[u]
        /\ UNCHANGED <<now, state, at, today, saved, sessionVars, typed, clicked, inputs>>
    BY BumpEffect
  <1>2. TypeOK'
    BY <1>1 DEF Types, TypeOK, Hand, sessionVars, Threads
  <1>3. Shape'
    BY <1>1, NothingInHand DEF Types, Shape, sessionVars, Threads
  <1>4. QED
    BY <1>2, <1>3 DEF Types
-----------------------------------------------------------------------------
\* The window's call.
KeysIn(m)     == [a \in Apps |-> saved[m][a].keys]
KeysInRows    == [m \in Minutes |-> SumOver(KeysIn(m))]
KeysByMinute  == [m \in Minutes |-> SumOver(typed[m])]

LEMMA KeySums ==
    ASSUME Types
    PROVE  /\ \A m \in Minutes : /\ KeysIn(m) \in [Apps -> Nat] /\ typed[m] \in [Apps -> Nat]
                                 /\ SumOver(KeysIn(m)) \in Nat /\ SumOver(typed[m]) \in Nat
           /\ KeysInRows \in [Minutes -> Nat] /\ KeysByMinute \in [Minutes -> Nat]
           /\ KeysOnDisk = SumOver(KeysInRows) /\ KeysTyped = SumOver(KeysByMinute)
           /\ KeysOnDisk \in Nat /\ KeysTyped \in Nat
  <1>1. IsFiniteSet(Apps) /\ IsFiniteSet(Minutes)
    BY MinuteFacts
  <1>2. \A m \in Minutes : KeysIn(m) \in [Apps -> Nat] /\ typed[m] \in [Apps -> Nat]
    BY SavedFields DEF KeysIn, Types, TypeOK
  <1>3. \A m \in Minutes : SumOver(KeysIn(m)) \in Nat /\ SumOver(typed[m]) \in Nat
    <2> SUFFICES ASSUME NEW m \in Minutes
                 PROVE  SumOver(KeysIn(m)) \in Nat /\ SumOver(typed[m]) \in Nat
      OBVIOUS
    <2> HIDE DEF KeysIn
    <2>1. KeysIn(m) \in [Apps -> Nat] /\ typed[m] \in [Apps -> Nat]
      BY <1>2
    <2>2. QED
      BY <1>1, <2>1, NatSum
  <1>4. KeysInRows \in [Minutes -> Nat] /\ KeysByMinute \in [Minutes -> Nat]
    BY <1>3 DEF KeysInRows, KeysByMinute
  <1>5. KeysOnDisk = SumOver(KeysInRows) /\ KeysTyped = SumOver(KeysByMinute)
    BY DEF KeysOnDisk, KeysTyped, KeysInRows, KeysByMinute, KeysIn
  <1>6. SumOver(KeysInRows) \in Nat /\ SumOver(KeysByMinute) \in Nat
    BY <1>1, <1>4, NatSum
  <1>7. QED
    BY <1>2, <1>3, <1>4, <1>5, <1>6

LEMMA WindowTypes ==
    ASSUME Types, (\E ok \in BOOLEAN : ReadDisk(ok)) \/ AddPending
    PROVE  Types'
  <1>1. UNCHANGED <<now, pc, at, countVars, sessionVars, historyVars>>
    BY DEF ReadDisk, AddPending
  <1>2. TypeOK'
    BY <1>1 DEF Types, TypeOK, countVars, sessionVars, historyVars
  <1>3. today' \in [pc : {"idle", "disk"}, disk : Nat, from : Nat, torn : BOOLEAN]
    <2>1. CASE \E ok \in BOOLEAN : ReadDisk(ok)
      <3>1. PICK disk \in {KeysOnDisk, 0}, torn \in BOOLEAN :
              today' = [pc |-> "disk", disk |-> disk, from |-> KeysTyped, torn |-> torn]
        BY <2>1 DEF ReadDisk
      <3>2. QED
        BY <3>1, KeySums
    <2>2. CASE AddPending
      BY <2>2 DEF AddPending, NoCall
    <2>3. QED
      BY <2>1, <2>2
  <1>4. Shape'
    BY <1>1, <1>3 DEF Types, Shape, countVars, sessionVars, historyVars
  <1>5. QED
    BY <1>2, <1>4 DEF Types

LEMMA FlushTypes ==
    ASSUME Types, NEW app \in Apps, FlushTick(app) \/ Quit(app)
    PROVE  Types'
  <1>1. at \in 0..MaxTime /\ now \in 0..MaxTime
    BY DEF Types, TypeOK
  <1>2. QED
    BY <1>1, TakeTypes DEF FlushTick, Quit, Threads

LEMMA TypesStep == Types /\ [Next]_vars => Types'
  <1> SUFFICES ASSUME Types, [Next]_vars PROVE Types'
    OBVIOUS
  <1>1. CASE UNCHANGED vars
    BY <1>1, SMTT(30) DEF vars, countVars, sessionVars, historyVars, Types, TypeOK, Shape
  <1>2. CASE Next
    BY <1>2, ClockTypes, KeyTypes, ClickTypes, TickTypes, StartTypes, OpenTypes, EndTypes, DueTypes,
       FlushTypes, InsertTypes, BumpTypes, CloseTypes, WindowTypes DEF Next, Write
  <1>3. QED
    BY <1>1, <1>2

LEMMA TypesAlways == Spec => []Types
  BY InitTypes, TypesStep, PTL DEF Spec
-----------------------------------------------------------------------------
(***************************************************************************)
(* Nothing is lost or doubled.  With the hands of Shape this is inductive. *)
(***************************************************************************)
InState(m, a)      == IF state.bucket = m THEN state.apps[a] ELSE 0
ClicksInState(m)   == IF state.bucket = m THEN state.clicks ELSE 0
ClicksIn(m)        == [a \in Apps |-> saved[m][a].clicks]
TypedOf(a)         == [m \in Minutes |-> typed[m][a]]
KeysAnywhere(m, a) == InState(m, a) + KeysHeld("tick", m, a) + KeysHeld("main", m, a)
                        + saved[m][a].keys
ClicksAnywhere(m)  == ClicksInState(m) + ClicksHeld("tick", m) + ClicksHeld("main", m)
                        + SumOver(ClicksIn(m))
KeysOfApp(a)       == state.apps[a] + flush["tick"].apps[a] + flush["main"].apps[a]
                        + keyCounts[a]

LEMMA CountsKeptIs ==
    CountsKept <=> /\ \A m \in Minutes, a \in Apps : Kept(KeysAnywhere(m, a), typed[m][a])
                   /\ \A m \in Minutes : Kept(ClicksAnywhere(m), clicked[m])
                   /\ \A a \in Apps : Kept(KeysOfApp(a), SumOver(TypedOf(a)))
  BY DEF CountsKept, KeysKept, ClicksKept, KeyTableAgrees, KeysAnywhere, ClicksAnywhere,
         KeysOfApp, InState, ClicksInState, ClicksIn, TypedOf

LEMMA CountsAreKept ==
    ASSUME \A m \in Minutes, a \in Apps : Kept(KeysAnywhere(m, a), typed[m][a])',
           \A m \in Minutes : Kept(ClicksAnywhere(m), clicked[m])',
           \A a \in Apps : Kept(KeysOfApp(a), SumOver(TypedOf(a)))'
    PROVE  CountsKept'
  BY DEF CountsKept, KeysKept, ClicksKept, KeyTableAgrees, KeysAnywhere, ClicksAnywhere,
         KeysOfApp, InState, ClicksInState, ClicksIn, TypedOf

LEMMA CountTypes ==
    ASSUME Types, NEW m \in Minutes
    PROVE  /\ ClicksIn(m) \in [Apps -> Nat] /\ SumOver(ClicksIn(m)) \in Nat
           /\ ClicksInState(m) \in Nat /\ clicked[m] \in Nat /\ ClicksAnywhere(m) \in Nat
           /\ \A t \in Threads : ClicksHeld(t, m) \in Nat
           /\ \A a \in Apps :
                /\ InState(m, a) \in Nat /\ saved[m][a].keys \in Nat /\ typed[m][a] \in Nat
                /\ KeysAnywhere(m, a) \in Nat
                /\ \A t \in Threads : KeysHeld(t, m, a) \in Nat
  <1>1. ClicksIn(m) \in [Apps -> Nat]
    BY SavedFields DEF ClicksIn
  <1>2. SumOver(ClicksIn(m)) \in Nat
    BY <1>1, NatSum, MinuteFacts
  <1>3. ClicksInState(m) \in Nat /\ clicked[m] \in Nat
    BY StateFields DEF ClicksInState, Types, TypeOK
  <1>4. \A t \in Threads : ClicksHeld(t, m) \in Nat
    BY FlushFields DEF ClicksHeld
  <1>5. ClicksAnywhere(m) \in Nat
    BY <1>2, <1>3, <1>4 DEF ClicksAnywhere, Threads
  <1>6. ASSUME NEW a \in Apps
        PROVE  /\ InState(m, a) \in Nat /\ saved[m][a].keys \in Nat /\ typed[m][a] \in Nat
               /\ KeysAnywhere(m, a) \in Nat
               /\ \A t \in Threads : KeysHeld(t, m, a) \in Nat
    <2>1. InState(m, a) \in Nat
      BY StateFields DEF InState, Counts
    <2>2. saved[m][a].keys \in Nat /\ typed[m][a] \in Nat
      BY SavedFields
    <2>3. \A t \in Threads : KeysHeld(t, m, a) \in Nat
      BY FlushFields DEF KeysHeld, Counts
    <2>4. KeysAnywhere(m, a) \in Nat
      BY <2>1, <2>2, <2>3 DEF KeysAnywhere, Threads
    <2>5. QED
      BY <2>1, <2>2, <2>3, <2>4
  <1>7. QED
    BY <1>1, <1>2, <1>3, <1>4, <1>5, <1>6

LEMMA AppTypes ==
    ASSUME Types, NEW a \in Apps
    PROVE  /\ TypedOf(a) \in [Minutes -> Nat] /\ SumOver(TypedOf(a)) \in Nat
           /\ state.apps[a] \in Nat /\ keyCounts[a] \in Nat /\ KeysOfApp(a) \in Nat
           /\ \A t \in Threads : flush[t].apps[a] \in Nat
  <1>1. TypedOf(a) \in [Minutes -> Nat]
    BY SavedFields DEF TypedOf
  <1>2. SumOver(TypedOf(a)) \in Nat
    BY <1>1, NatSum, MinuteFacts
  <1>3. state.apps[a] \in Nat /\ keyCounts[a] \in Nat
    BY StateFields DEF Counts, Types, TypeOK
  <1>4. \A t \in Threads : flush[t].apps[a] \in Nat
    BY FlushFields DEF Counts
  <1>5. KeysOfApp(a) \in Nat
    BY <1>3, <1>4 DEF KeysOfApp, Threads
  <1>6. QED
    BY <1>1, <1>2, <1>3, <1>4, <1>5

LEMMA InitCounts == Init => CountsKept
  <1> SUFFICES ASSUME Init PROVE CountsKept
    OBVIOUS
  <1>1. Types
    BY InitTypes
  <1>2. \A a \in Apps : /\ state.apps[a] = 0 /\ keyCounts[a] = 0
                        /\ flush["tick"].apps[a] = 0 /\ flush["main"].apps[a] = 0
    BY DEF Init, NoKeys, Nothing, Threads
  <1>3. flush["tick"].rows = {} /\ flush["main"].rows = {} /\ state.clicks = 0
    BY DEF Init, Nothing, Threads
  <1>4. \A m \in Minutes, a \in Apps : Kept(KeysAnywhere(m, a), typed[m][a])
    <2> SUFFICES ASSUME NEW m \in Minutes, NEW a \in Apps
                 PROVE  Kept(KeysAnywhere(m, a), typed[m][a])
      OBVIOUS
    <2>1. saved[m][a].keys = 0 /\ typed[m][a] = 0
      BY DEF Init, NoKeys
    <2>2. KeysAnywhere(m, a) = 0
      BY <1>2, <1>3, <2>1 DEF KeysAnywhere, InState, KeysHeld
    <2>3. QED
      BY <2>1, <2>2 DEF Kept
  <1>5. \A m \in Minutes : Kept(ClicksAnywhere(m), clicked[m])
    <2> SUFFICES ASSUME NEW m \in Minutes
                 PROVE  Kept(ClicksAnywhere(m), clicked[m])
      OBVIOUS
    <2>1. \A a \in Apps : ClicksIn(m)[a] = 0
      BY DEF Init, ClicksIn
    <2>2. ClicksIn(m) \in [Apps -> Nat]
      BY <1>1, CountTypes
    <2>3. SumOver(ClicksIn(m)) = 0
      BY <2>1, <2>2, NatSum, SumZero, MinuteFacts
    <2>4. clicked[m] = 0
      BY DEF Init
    <2>5. ClicksAnywhere(m) = 0
      BY <1>3, <2>3 DEF ClicksAnywhere, ClicksInState, ClicksHeld
    <2>6. QED
      BY <2>4, <2>5 DEF Kept
  <1>6. \A a \in Apps : Kept(KeysOfApp(a), SumOver(TypedOf(a)))
    <2> SUFFICES ASSUME NEW a \in Apps
                 PROVE  Kept(KeysOfApp(a), SumOver(TypedOf(a)))
      OBVIOUS
    <2>1. \A m \in Minutes : TypedOf(a)[m] = 0
      BY DEF Init, TypedOf, NoKeys
    <2>2. TypedOf(a) \in [Minutes -> Nat]
      BY <1>1, AppTypes
    <2>3. SumOver(TypedOf(a)) = 0
      BY <2>1, <2>2, NatSum, SumZero, MinuteFacts
    <2>4. KeysOfApp(a) = 0
      BY <1>2 DEF KeysOfApp
    <2>5. QED
      BY <2>3, <2>4 DEF Kept
  <1>7. QED
    BY <1>4, <1>5, <1>6, CountsKeptIs

\* The steps of the other threads and of the clock change none of it; a failing call
\* of theirs loses nothing.
LEMMA UntouchedCounts ==
    ASSUME CountsKept, CountsUntouched, failed => failed'
    PROVE  CountsKept'
  BY DEF CountsUntouched, CountsKept, KeysKept, ClicksKept, KeyTableAgrees, Kept, KeysHeld,
         ClicksHeld

LEMMA KeyCounts ==
    ASSUME Types, CountsKept, NEW app \in Apps, on_key(app)
    PROVE  CountsKept'
  <1>1. /\ state'.bucket = state.bucket /\ state'.clicks = state.clicks
        /\ \A a \in Apps : state'.apps[a] = IF a = app THEN state.apps[a] + 1 ELSE state.apps[a]
        /\ \A m \in Minutes, a \in Apps : typed'[m][a] =
             IF m = state.bucket /\ a = app THEN typed[m][a] + 1 ELSE typed[m][a]
        /\ UNCHANGED <<flush, saved, keyCounts, clicked, failed>>
    <2>1. state' = [state EXCEPT !.keystrokes = @ + 1, !.apps[app] = @ + 1]
      BY DEF on_key
    <2>2. state' = [bucket |-> state.bucket, keystrokes |-> state.keystrokes + 1,
                    apps |-> [state.apps EXCEPT ![app] = @ + 1], clicks |-> state.clicks,
                    last_flush |-> state.last_flush]
      BY <2>1, StateFields
    <2>3. \A m \in Minutes, a \in Apps : typed'[m][a] =
             IF m = state.bucket /\ a = app THEN typed[m][a] + 1 ELSE typed[m][a]
      BY DEF on_key, Types, TypeOK
    <2>4. QED
      BY <2>2, <2>3, StateFields DEF on_key, Counts
  <1>2. Types'
    BY KeyTypes
  <1>3. \A m \in Minutes, a \in Apps : Kept(KeysAnywhere(m, a), typed[m][a])'
    <2> SUFFICES ASSUME NEW m \in Minutes, NEW a \in Apps
                 PROVE  Kept(KeysAnywhere(m, a), typed[m][a])'
      OBVIOUS
    <2>1. Kept(KeysAnywhere(m, a), typed[m][a])
      BY CountsKeptIs
    <2>2. /\ InState(m, a) \in Nat /\ saved[m][a].keys \in Nat /\ typed[m][a] \in Nat
          /\ KeysHeld("tick", m, a) \in Nat /\ KeysHeld("main", m, a) \in Nat
      BY CountTypes DEF Threads
    <2>3. /\ KeysHeld("tick", m, a)' = KeysHeld("tick", m, a)
          /\ KeysHeld("main", m, a)' = KeysHeld("main", m, a)
          /\ saved'[m][a].keys = saved[m][a].keys
      BY <1>1 DEF KeysHeld
    <2>4. InState(m, a)' = IF m = state.bucket /\ a = app THEN InState(m, a) + 1
                                                         ELSE InState(m, a)
      BY <1>1 DEF InState
    <2>5. QED
      BY <1>1, <2>1, <2>2, <2>3, <2>4 DEF KeysAnywhere, Kept
  <1>4. \A m \in Minutes : Kept(ClicksAnywhere(m), clicked[m])'
    BY <1>1, CountsKeptIs DEF ClicksAnywhere, ClicksInState, ClicksHeld, ClicksIn, Kept
  <1>5. \A a \in Apps : Kept(KeysOfApp(a), SumOver(TypedOf(a)))'
    <2> SUFFICES ASSUME NEW a \in Apps
                 PROVE  Kept(KeysOfApp(a), SumOver(TypedOf(a)))'
      OBVIOUS
    <2>1. Kept(KeysOfApp(a), SumOver(TypedOf(a)))
      BY CountsKeptIs
    <2>2. TypedOf(a) \in [Minutes -> Nat] /\ TypedOf(a)' \in [Minutes -> Nat]
      <3>1. typed \in [Minutes -> [Apps -> Nat]] /\ typed' \in [Minutes -> [Apps -> Nat]]
        BY <1>2 DEF Types, TypeOK
      <3>2. QED
        BY <3>1 DEF TypedOf
    <2>3. CASE a = app
      <3>1. /\ TypedOf(a)'[state.bucket] = TypedOf(a)[state.bucket] + 1
            /\ \A m \in Minutes \ {state.bucket} : TypedOf(a)'[m] = TypedOf(a)[m]
            /\ state.bucket \in Minutes
        BY <1>1, <2>3, StateFields DEF TypedOf
      <3>2. TypedOf(a)[state.bucket] \in Nat
        BY <2>2, <3>1
      <3>3. SumOver(TypedOf(a)') = SumOver(TypedOf(a))
                + (TypedOf(a)'[state.bucket] - TypedOf(a)[state.bucket])
        <4> DEFINE f == TypedOf(a)
                   g == TypedOf(a)'
        <4>1. f \in [Minutes -> Nat] /\ g \in [Minutes -> Nat]
          BY <2>2
        <4>2. state.bucket \in Minutes /\ \A m \in Minutes \ {state.bucket} : g[m] = f[m]
          BY <3>1
        <4> HIDE DEF f, g
        <4>3. SumOver(g) = SumOver(f) + (g[state.bucket] - f[state.bucket])
          BY <4>1, <4>2, NatSumUpdate, MinuteFacts
        <4>4. QED
          BY <4>3 DEF f, g
      <3>4. SumOver(TypedOf(a)') = SumOver(TypedOf(a)) + 1
        BY <3>1, <3>2, <3>3, AppTypes
      <3>5. KeysOfApp(a)' = KeysOfApp(a) + 1
        BY <1>1, <2>3, AppTypes DEF KeysOfApp, Threads
      <3>6. QED
        BY <1>1, <2>1, <3>4, <3>5, AppTypes DEF Kept
    <2>4. CASE a # app
      <3>1. TypedOf(a)' = TypedOf(a)
        BY <1>1, <2>4 DEF TypedOf
      <3>2. KeysOfApp(a)' = KeysOfApp(a)
        BY <1>1, <2>4 DEF KeysOfApp
      <3>3. QED
        BY <1>1, <2>1, <3>1, <3>2 DEF Kept
    <2>5. QED
      BY <2>3, <2>4
  <1>6. QED
    BY <1>3, <1>4, <1>5, CountsAreKept
LEMMA ClickCounts ==
    ASSUME Types, CountsKept, on_click
    PROVE  CountsKept'
  <1>1. /\ state'.bucket = state.bucket /\ state'.apps = state.apps
        /\ state'.clicks = state.clicks + 1
        /\ \A m \in Minutes : clicked'[m] = IF m = state.bucket THEN clicked[m] + 1 ELSE clicked[m]
        /\ UNCHANGED <<flush, saved, keyCounts, typed, failed>>
    <2>1. state' = [state EXCEPT !.clicks = @ + 1]
      BY DEF on_click
    <2>2. \A m \in Minutes : clicked'[m] = IF m = state.bucket THEN clicked[m] + 1 ELSE clicked[m]
      BY DEF on_click, Types, TypeOK
    <2>3. QED
      BY <2>1, <2>2, StateFields DEF on_click
  <1>2. \A m \in Minutes, a \in Apps : Kept(KeysAnywhere(m, a), typed[m][a])'
    BY <1>1, CountsKeptIs DEF KeysAnywhere, InState, KeysHeld, Kept
  <1>3. \A m \in Minutes : Kept(ClicksAnywhere(m), clicked[m])'
    <2> SUFFICES ASSUME NEW m \in Minutes
                 PROVE  Kept(ClicksAnywhere(m), clicked[m])'
      OBVIOUS
    <2>1. Kept(ClicksAnywhere(m), clicked[m])
      BY CountsKeptIs
    <2>2. /\ ClicksHeld("tick", m)' = ClicksHeld("tick", m)
          /\ ClicksHeld("main", m)' = ClicksHeld("main", m)
          /\ SumOver(ClicksIn(m))' = SumOver(ClicksIn(m))
      BY <1>1 DEF ClicksHeld, ClicksIn
    <2>3. ClicksInState(m)' = IF m = state.bucket THEN ClicksInState(m) + 1 ELSE ClicksInState(m)
      BY <1>1 DEF ClicksInState
    <2>4. /\ ClicksHeld("tick", m) \in Nat /\ ClicksHeld("main", m) \in Nat
          /\ SumOver(ClicksIn(m)) \in Nat /\ ClicksInState(m) \in Nat /\ clicked[m] \in Nat
      BY CountTypes DEF Threads
    <2>5. QED
      BY <1>1, <2>1, <2>2, <2>3, <2>4 DEF ClicksAnywhere, Kept
  <1>4. \A a \in Apps : Kept(KeysOfApp(a), SumOver(TypedOf(a)))'
    BY <1>1, CountsKeptIs DEF KeysOfApp, TypedOf, Kept
  <1>5. QED
    BY <1>2, <1>3, <1>4, CountsAreKept

\* What was in the state is in the hands, which were empty; every app with keystrokes
\* and the app in focus get a row.
LEMMA TakeCounts ==
    ASSUME Types, CountsKept, NEW t \in Threads, NEW n \in 0..MaxTime, NEW app \in Apps,
           pc[t] # "rows", Take(t, n, app)
    PROVE  CountsKept'
  <1>1. /\ flush[t] = Nothing /\ flush'[t] = Taken(app)
        /\ \A u \in Threads : u # t => flush'[u] = flush[u]
        /\ state' = [bucket |-> minute_start(n), keystrokes |-> 0,
                     apps |-> NoKeys, clicks |-> 0, last_flush |-> n]
        /\ UNCHANGED <<saved, keyCounts, typed, clicked, failed>>
    BY FlushFields, ZenonT(40) DEF Take, Types, Shape, historyVars
  <1>2. /\ flush'[t].bucket = state.bucket /\ flush'[t].apps = state.apps
        /\ flush'[t].clicks = state.clicks /\ flush'[t].app = app
        /\ flush'[t].rows = {a \in Apps : state.apps[a] > 0} \cup {app}
    BY <1>1 DEF Taken
  <1>3. /\ flush[t].rows = {} /\ \A a \in Apps : flush[t].apps[a] = 0
    BY <1>1, NothingInHand DEF Nothing
  <1>4. state'.clicks = 0 /\ \A a \in Apps : state'.apps[a] = 0 /\ state.apps[a] \in Nat
    BY <1>1, AppTypes DEF NoKeys
  <1>5. \A m \in Minutes, a \in Apps : Kept(KeysAnywhere(m, a), typed[m][a])'
    <2> SUFFICES ASSUME NEW m \in Minutes, NEW a \in Apps
                 PROVE  Kept(KeysAnywhere(m, a), typed[m][a])'
      OBVIOUS
    <2>1. Kept(KeysAnywhere(m, a), typed[m][a])
      BY CountsKeptIs
    <2>2. KeysHeld(t, m, a) = 0 /\ KeysHeld(t, m, a)' = InState(m, a)
      BY <1>2, <1>3, <1>4 DEF KeysHeld, InState
    <2>3. \A u \in Threads : u # t => KeysHeld(u, m, a)' = KeysHeld(u, m, a)
      BY <1>1 DEF KeysHeld
    <2>4. InState(m, a)' = 0 /\ saved'[m][a].keys = saved[m][a].keys
      BY <1>1, <1>4 DEF InState
    <2>5. /\ InState(m, a) \in Nat /\ saved[m][a].keys \in Nat
          /\ KeysHeld("tick", m, a) \in Nat /\ KeysHeld("main", m, a) \in Nat
      BY CountTypes DEF Threads
    <2>6. KeysAnywhere(m, a)' = KeysAnywhere(m, a)
      BY <2>2, <2>3, <2>4, <2>5 DEF KeysAnywhere, Threads
    <2>7. QED
      BY <1>1, <2>1, <2>6 DEF Kept
  <1>6. \A m \in Minutes : Kept(ClicksAnywhere(m), clicked[m])'
    <2> SUFFICES ASSUME NEW m \in Minutes
                 PROVE  Kept(ClicksAnywhere(m), clicked[m])'
      OBVIOUS
    <2>1. Kept(ClicksAnywhere(m), clicked[m])
      BY CountsKeptIs
    <2>2. ClicksHeld(t, m) = 0 /\ ClicksHeld(t, m)' = ClicksInState(m)
      BY <1>2, <1>3 DEF ClicksHeld, ClicksInState
    <2>3. \A u \in Threads : u # t => ClicksHeld(u, m)' = ClicksHeld(u, m)
      BY <1>1 DEF ClicksHeld
    <2>4. ClicksInState(m)' = 0 /\ SumOver(ClicksIn(m))' = SumOver(ClicksIn(m))
      BY <1>1, <1>4 DEF ClicksInState, ClicksIn
    <2>5. /\ ClicksHeld("tick", m) \in Nat /\ ClicksHeld("main", m) \in Nat
          /\ SumOver(ClicksIn(m)) \in Nat /\ ClicksInState(m) \in Nat
      BY CountTypes DEF Threads
    <2>6. ClicksAnywhere(m)' = ClicksAnywhere(m)
      BY <2>2, <2>3, <2>4, <2>5 DEF ClicksAnywhere, Threads
    <2>7. QED
      BY <1>1, <2>1, <2>6 DEF Kept
  <1>7. \A a \in Apps : Kept(KeysOfApp(a), SumOver(TypedOf(a)))'
    <2> SUFFICES ASSUME NEW a \in Apps
                 PROVE  Kept(KeysOfApp(a), SumOver(TypedOf(a)))'
      OBVIOUS
    <2>1. Kept(KeysOfApp(a), SumOver(TypedOf(a)))
      BY CountsKeptIs
    <2>2. flush[t].apps[a] = 0 /\ flush'[t].apps[a] = state.apps[a] /\ state'.apps[a] = 0
      BY <1>2, <1>3, <1>4
    <2>3. \A u \in Threads : u # t => flush'[u].apps[a] = flush[u].apps[a]
      BY <1>1
    <2>4. /\ state.apps[a] \in Nat /\ keyCounts[a] \in Nat
          /\ flush["tick"].apps[a] \in Nat /\ flush["main"].apps[a] \in Nat
      BY AppTypes DEF Threads
    <2>5. KeysOfApp(a)' = KeysOfApp(a) /\ TypedOf(a)' = TypedOf(a)
      BY <1>1, <2>2, <2>3, <2>4 DEF KeysOfApp, Threads, TypedOf
    <2>6. QED
      BY <1>1, <2>1, <2>5 DEF Kept
  <1>8. QED
    BY <1>5, <1>6, <1>7, CountsAreKept

\* A row moves from the hands to the table, or is lost by a call that fails.
LEMMA InsertCounts ==
    ASSUME Types, CountsKept, NEW t \in Threads, NEW a \in Apps, NEW ok \in BOOLEAN,
           InsertBucket(t, a, ok)
    PROVE  CountsKept'
  <1> DEFINE k == flush[t].bucket
             keys == flush[t].apps[a]
             clicks == ClicksOf(t, a)
  <1>1. /\ a \in flush[t].rows /\ flush'[t] = [flush[t] EXCEPT !.rows = @ \ {a}]
        /\ \A u \in Threads : u # t => flush'[u] = flush[u]
        /\ \A m \in Minutes, b \in Apps : m # k \/ b # a => saved'[m][b] = saved[m][b]
        /\ IF keys + clicks > 0 /\ ok
           THEN /\ saved'[k][a].keys = saved[k][a].keys + keys
                /\ saved'[k][a].clicks = saved[k][a].clicks + clicks
           ELSE /\ saved'[k][a] = saved[k][a]
                /\ keys + clicks > 0 => failed'
        /\ failed => failed'
        /\ UNCHANGED <<state, keyCounts, typed, clicked>>
    BY InsertEffect
  <1>2. /\ flush'[t].bucket = k /\ flush'[t].apps = flush[t].apps /\ flush'[t].app = flush[t].app
        /\ flush'[t].clicks = flush[t].clicks /\ flush'[t].rows = flush[t].rows \ {a}
    BY <1>1, FlushFields
  <1>3. k \in Minutes /\ keys \in Nat /\ clicks \in Nat
    BY FlushFields DEF Counts, ClicksOf
  <1>4. Types'
    BY InsertTypes
  <1>5. \A m \in Minutes, b \in Apps : Kept(KeysAnywhere(m, b), typed[m][b])'
    <2> SUFFICES ASSUME NEW m \in Minutes, NEW b \in Apps
                 PROVE  Kept(KeysAnywhere(m, b), typed[m][b])'
      OBVIOUS
    <2>1. Kept(KeysAnywhere(m, b), typed[m][b])
      BY CountsKeptIs
    <2>2. \A u \in Threads : u # t => KeysHeld(u, m, b)' = KeysHeld(u, m, b)
      BY <1>1 DEF KeysHeld
    <2>3. InState(m, b)' = InState(m, b)
      BY <1>1 DEF InState
    <2>4. /\ InState(m, b) \in Nat /\ saved[m][b].keys \in Nat /\ typed[m][b] \in Nat
          /\ KeysHeld("tick", m, b) \in Nat /\ KeysHeld("main", m, b) \in Nat
          /\ KeysHeld(t, m, b) \in Nat
      BY CountTypes DEF Threads
    <2>5. CASE m # k \/ b # a
      <3>1. KeysHeld(t, m, b)' = KeysHeld(t, m, b) /\ saved'[m][b].keys = saved[m][b].keys
        BY <1>1, <1>2, <2>5 DEF KeysHeld
      <3>2. KeysAnywhere(m, b)' = KeysAnywhere(m, b)
        BY <2>2, <2>3, <3>1 DEF KeysAnywhere, Threads
      <3>3. QED
        BY <1>1, <2>1, <3>2 DEF Kept
    <2>6. CASE m = k /\ b = a
      <3>1. KeysHeld(t, m, b) = keys /\ KeysHeld(t, m, b)' = 0
        BY <1>1, <1>2, <2>6 DEF KeysHeld
      <3>2. CASE saved'[m][b].keys = saved[m][b].keys + keys
        <4>1. KeysAnywhere(m, b)' = KeysAnywhere(m, b)
          BY <1>3, <2>2, <2>3, <2>4, <3>1, <3>2 DEF KeysAnywhere, Threads
        <4>2. QED
          BY <1>1, <2>1, <4>1 DEF Kept
      <3>3. CASE saved'[m][b].keys = saved[m][b].keys /\ failed'
        <4>1. KeysAnywhere(m, b)' <= KeysAnywhere(m, b) /\ KeysAnywhere(m, b)' \in Int
          BY <1>3, <2>2, <2>3, <2>4, <3>1, <3>3 DEF KeysAnywhere, Threads
        <4>2. KeysAnywhere(m, b) \in Int /\ KeysAnywhere(m, b) <= typed[m][b]
          BY <2>1, CountTypes DEF Kept
        <4>3. KeysAnywhere(m, b)' <= typed'[m][b]
          BY <1>1, <2>4, <4>1, <4>2
        <4>4. QED
          BY <3>3, <4>3 DEF Kept
      <3>4. QED
        BY <1>1, <1>3, <2>4, <2>6, <3>2, <3>3
    <2>7. QED
      BY <2>5, <2>6
  <1>6. \A m \in Minutes : Kept(ClicksAnywhere(m), clicked[m])'
    <2> SUFFICES ASSUME NEW m \in Minutes
                 PROVE  Kept(ClicksAnywhere(m), clicked[m])'
      OBVIOUS
    <2>1. Kept(ClicksAnywhere(m), clicked[m])
      BY CountsKeptIs
    <2>2. \A u \in Threads : u # t => ClicksHeld(u, m)' = ClicksHeld(u, m)
      BY <1>1 DEF ClicksHeld
    <2>3. ClicksInState(m)' = ClicksInState(m)
      BY <1>1 DEF ClicksInState
    <2>4. /\ ClicksHeld("tick", m) \in Nat /\ ClicksHeld("main", m) \in Nat
          /\ ClicksHeld(t, m) \in Nat
          /\ SumOver(ClicksIn(m)) \in Nat /\ ClicksInState(m) \in Nat /\ clicked[m] \in Nat
      BY CountTypes DEF Threads
    <2>5. CASE m # k
      <3>1. ClicksHeld(t, m)' = ClicksHeld(t, m) /\ ClicksIn(m)' = ClicksIn(m)
        BY <1>1, <1>2, <2>5 DEF ClicksHeld, ClicksIn
      <3>2. ClicksAnywhere(m)' = ClicksAnywhere(m)
        BY <2>2, <2>3, <3>1 DEF ClicksAnywhere, Threads
      <3>3. QED
        BY <1>1, <2>1, <3>2 DEF Kept
    <2>6. CASE m = k
      <3> DEFINE f == ClicksIn(m)
                 g == ClicksIn(m)'
      <3>1. ClicksHeld(t, m)' = ClicksHeld(t, m) - clicks
        BY <1>1, <1>2, <1>3, <2>4, <2>6 DEF ClicksHeld, ClicksOf
      <3>2. f \in [Apps -> Nat] /\ g \in [Apps -> Nat]
        <4>1. /\ saved \in [Minutes -> [Apps -> [rows : Nat, keys : Nat, clicks : Nat]]]
              /\ saved' \in [Minutes -> [Apps -> [rows : Nat, keys : Nat, clicks : Nat]]]
          BY <1>4 DEF Types, TypeOK
        <4>2. QED
          BY <4>1 DEF ClicksIn
      <3>3. /\ \A b \in Apps \ {a} : g[b] = f[b]
            /\ f[a] = saved[k][a].clicks /\ g[a] = saved'[k][a].clicks
        BY <1>1, <2>6 DEF ClicksIn
      <3> HIDE DEF f, g
      <3>4. SumOver(g) = SumOver(f) + (g[a] - f[a])
        BY <3>2, <3>3, NatSumUpdate, MinuteFacts
      <3>5. f[a] \in Nat /\ g[a] \in Nat /\ SumOver(f) \in Nat
        BY <3>2, NatSum, MinuteFacts
      <3>6. /\ ClicksAnywhere(m) = ClicksInState(m) + ClicksHeld("tick", m)
                                     + ClicksHeld("main", m) + SumOver(f)
            /\ ClicksAnywhere(m)' = ClicksInState(m)' + ClicksHeld("tick", m)'
                                     + ClicksHeld("main", m)' + SumOver(g)
        BY DEF ClicksAnywhere, f, g
      <3>7. CASE g[a] = f[a] + clicks
        <4>1. ClicksAnywhere(m)' = ClicksAnywhere(m)
          BY <1>3, <2>2, <2>3, <2>4, <3>1, <3>4, <3>5, <3>6, <3>7 DEF Threads
        <4>2. QED
          BY <1>1, <2>1, <4>1 DEF Kept
      <3>8. CASE g[a] = f[a] /\ failed'
        <4>1. ClicksAnywhere(m)' <= ClicksAnywhere(m) /\ ClicksAnywhere(m)' \in Int
          BY <1>3, <2>2, <2>3, <2>4, <3>1, <3>4, <3>5, <3>6, <3>8 DEF Threads
        <4>2. ClicksAnywhere(m) \in Int /\ ClicksAnywhere(m) <= clicked[m]
          BY <2>1, CountTypes DEF Kept
        <4>3. ClicksAnywhere(m)' <= clicked'[m]
          BY <1>1, <2>4, <4>1, <4>2
        <4>4. QED
          BY <3>8, <4>3 DEF Kept
      <3>9. (keys + clicks > 0 /\ ok) \/ failed' \/ clicks = 0
        BY <1>1, <1>3
      <3>10. QED
        BY <1>1, <1>3, <3>3, <3>5, <3>7, <3>8, <3>9
    <2>7. QED
      BY <2>5, <2>6
  <1>7. \A b \in Apps : Kept(KeysOfApp(b), SumOver(TypedOf(b)))'
    <2> SUFFICES ASSUME NEW b \in Apps
                 PROVE  Kept(KeysOfApp(b), SumOver(TypedOf(b)))'
      OBVIOUS
    <2>1. Kept(KeysOfApp(b), SumOver(TypedOf(b)))
      BY CountsKeptIs
    <2>2. KeysOfApp(b)' = KeysOfApp(b) /\ TypedOf(b)' = TypedOf(b)
      BY <1>1, <1>2 DEF KeysOfApp, TypedOf, Threads
    <2>3. QED
      BY <1>1, <2>1, <2>2 DEF Kept
  <1>8. QED
    BY <1>5, <1>6, <1>7, CountsAreKept

\* The keystrokes move to the per-key table, or are lost by a call that fails.
LEMMA BumpCounts ==
    ASSUME Types, CountsKept, NEW t \in Threads, NEW ok \in BOOLEAN, BumpKeys(t, ok)
    PROVE  CountsKept'
  <1>1. /\ flush[t].rows = {} /\ flush'[t] = Nothing
        /\ \A u \in Threads : u # t => flush'[u] = flush[u]
        /\ \A a \in Apps : \/ keyCounts'[a] = keyCounts[a] /\ failed'
                           \/ keyCounts'[a] = keyCounts[a] + flush[t].apps[a]
        /\ failed => failed'
        /\ UNCHANGED <<state, saved, typed, clicked>>
    BY BumpEffect
  <1>2. flush'[t].rows = {} /\ \A a \in Apps : flush'[t].apps[a] = 0
    BY <1>1, NothingInHand DEF Nothing
  <1>3. \A m \in Minutes, a \in Apps : Kept(KeysAnywhere(m, a), typed[m][a])'
    <2> SUFFICES ASSUME NEW m \in Minutes, NEW a \in Apps
                 PROVE  Kept(KeysAnywhere(m, a), typed[m][a])'
      OBVIOUS
    <2>1. Kept(KeysAnywhere(m, a), typed[m][a])
      BY CountsKeptIs
    <2>2. \A u \in Threads : KeysHeld(u, m, a)' = KeysHeld(u, m, a)
      BY <1>1, <1>2 DEF KeysHeld
    <2>3. KeysAnywhere(m, a)' = KeysAnywhere(m, a)
      BY <1>1, <2>2 DEF KeysAnywhere, InState, Threads
    <2>4. QED
      BY <1>1, <2>1, <2>3 DEF Kept
  <1>4. \A m \in Minutes : Kept(ClicksAnywhere(m), clicked[m])'
    <2> SUFFICES ASSUME NEW m \in Minutes
                 PROVE  Kept(ClicksAnywhere(m), clicked[m])'
      OBVIOUS
    <2>1. Kept(ClicksAnywhere(m), clicked[m])
      BY CountsKeptIs
    <2>2. \A u \in Threads : ClicksHeld(u, m)' = ClicksHeld(u, m)
      BY <1>1, <1>2 DEF ClicksHeld
    <2>3. ClicksAnywhere(m)' = ClicksAnywhere(m)
      BY <1>1, <2>2 DEF ClicksAnywhere, ClicksInState, ClicksIn, Threads
    <2>4. QED
      BY <1>1, <2>1, <2>3 DEF Kept
  <1>5. \A a \in Apps : Kept(KeysOfApp(a), SumOver(TypedOf(a)))'
    <2> SUFFICES ASSUME NEW a \in Apps
                 PROVE  Kept(KeysOfApp(a), SumOver(TypedOf(a)))'
      OBVIOUS
    <2>1. Kept(KeysOfApp(a), SumOver(TypedOf(a))) /\ TypedOf(a)' = TypedOf(a)
      BY <1>1, CountsKeptIs DEF TypedOf
    <2>2. /\ state.apps[a] \in Nat /\ keyCounts[a] \in Nat /\ SumOver(TypedOf(a)) \in Nat
          /\ flush["tick"].apps[a] \in Nat /\ flush["main"].apps[a] \in Nat
          /\ flush[t].apps[a] \in Nat /\ KeysOfApp(a) \in Nat
      BY AppTypes DEF Threads
    <2>3. \A u \in Threads : u # t => flush'[u].apps[a] = flush[u].apps[a]
      BY <1>1
    <2>4. CASE keyCounts'[a] = keyCounts[a] + flush[t].apps[a]
      <3>1. KeysOfApp(a)' = KeysOfApp(a)
        BY <1>1, <1>2, <2>2, <2>3, <2>4 DEF KeysOfApp, Threads
      <3>2. QED
        BY <1>1, <2>1, <3>1 DEF Kept
    <2>5. CASE keyCounts'[a] = keyCounts[a] /\ failed'
      <3>1. KeysOfApp(a)' <= KeysOfApp(a) /\ KeysOfApp(a)' \in Int
        BY <1>1, <1>2, <2>2, <2>3, <2>5 DEF KeysOfApp, Threads
      <3>2. KeysOfApp(a)' <= SumOver(TypedOf(a))
        BY <2>1, <2>2, <3>1 DEF Kept
      <3>3. QED
        BY <2>1, <2>5, <3>2 DEF Kept
    <2>6. QED
      BY <1>1, <2>4, <2>5
  <1>6. QED
    BY <1>3, <1>4, <1>5, CountsAreKept

LEMMA CountsStep == Types /\ CountsKept /\ [Next]_vars => CountsKept'
  <1> SUFFICES ASSUME Types, CountsKept, [Next]_vars PROVE CountsKept'
    OBVIOUS
  <1>1. CASE \/ UNCHANGED vars \/ Clock \/ TickBegin \/ OpenSession \/ Due \/ AddPending
             \/ \E ok \in BOOLEAN : ReadDisk(ok)
    <2>1. CountsUntouched /\ failed' = failed
      BY <1>1 DEF vars, countVars, historyVars, CountsUntouched, Clock, TickBegin, OpenSession,
                  Due, ReadDisk, AddPending
    <2>2. QED
      BY <2>1, UntouchedCounts
  <1>2. ASSUME NEW ok \in BOOLEAN, StartSession(ok) \/ EndSession(ok) \/ CloseAndExit(ok)
        PROVE  CountsKept'
    <2>1. CountsUntouched /\ (failed => failed')
      BY <1>2 DEF countVars, CountsUntouched, StartSession, EndSession, CloseAndExit, Answer
    <2>2. QED
      BY <2>1, UntouchedCounts
  <1>3. ASSUME NEW app \in Apps, FlushTick(app) \/ Quit(app)
        PROVE  CountsKept'
    <2>1. at \in 0..MaxTime /\ now \in 0..MaxTime
      BY DEF Types, TypeOK
    <2>2. QED
      BY <1>3, <2>1, TakeCounts DEF FlushTick, Quit, Threads
  <1>4. QED
    BY <1>1, <1>2, <1>3, KeyCounts, ClickCounts, InsertCounts, BumpCounts DEF Next, Write

\* Types are as TypeOK says, in every state of the program (tracker.rs:26-80).
THEOREM TypeCorrect == Spec => []TypeOK
  BY TypesAlways, PTL DEF Types

\* Whatever was typed or clicked is in the state, in the hands of a flush or on disk,
\* once, for any number of apps and however hook, tick, window and shutdown interleave;
\* only a call of the store that fails loses what it was given (tracker.rs:188-224).
THEOREM NothingLost == Spec => []CountsKept
  <1>1. Init => Types /\ CountsKept
    BY InitTypes, InitCounts
  <1>2. (Types /\ CountsKept) /\ [Next]_vars => (Types /\ CountsKept)'
    BY TypesStep, CountsStep
  <1>3. QED
    BY <1>1, <1>2, PTL DEF Spec
-----------------------------------------------------------------------------
(***************************************************************************)
(* One row per minute and app.  While the app is not quitting, only tick   *)
(* flushes; a flush is due a minute or more after the last one, so every   *)
(* minute is flushed at most once, and the open one not yet.               *)
(***************************************************************************)
MinutesOnce ==
    pc["main"] = "run" =>
        /\ state.bucket = minute_start(state.last_flush)
        /\ \A m \in Minutes, a \in Apps :
             /\ saved[m][a].rows <= 1
             /\ m >= state.bucket => saved[m][a].rows = 0
        /\ pc["tick"] = "take" => at - state.last_flush >= FlushInterval
        /\ \A a \in flush["tick"].rows :
             /\ flush["tick"].bucket < state.bucket
             /\ saved[flush["tick"].bucket][a].rows = 0


LEMMA InitMinutes == Init => MinutesOnce
  <1> SUFFICES ASSUME Init PROVE MinutesOnce
    OBVIOUS
  <1>1. \A m \in Minutes, a \in Apps : saved[m][a].rows = 0
    BY DEF Init
  <1>2. flush["tick"].rows = {}
    BY DEF Init, Nothing, Threads
  <1>3. pc["tick"] = "sleep" /\ state.bucket = minute_start(state.last_flush)
    BY DEF Init, Threads
  <1>4. QED
    BY <1>1, <1>2, <1>3 DEF MinutesOnce

\* Two flushes of tick are of different minutes.
LEMMA LaterMinute ==
    ASSUME NEW s \in 0..MaxTime, NEW t \in 0..MaxTime, t - s >= FlushInterval
    PROVE  minute_start(s) < minute_start(t)
  <1>1. /\ MinuteLength \in Nat \ {0} /\ FlushInterval \in Nat /\ FlushInterval >= MinuteLength
    BY TrackerAssumption
  <1> DEFINE n == MinuteLength
             q == s \div n
             r == t \div n
  <1>2. q \in Int /\ r \in Int /\ q * n <= s /\ t < (r + 1) * n
    BY <1>1, Division
  <1>3. s + n <= t
    BY <1>1
  <1>4. ~(r <= q)
    <2> SUFFICES ASSUME r <= q PROVE FALSE
      OBVIOUS
    <2> HIDE DEF q, r
    <2>1. r = q \/ r < q
      BY <1>2
    <2>2. r * n <= q * n
      BY <1>1, <1>2, <2>1, TimesGrows
    <2>3. (r + 1) * n = r * n + n /\ r * n \in Int /\ q * n \in Int
      BY <1>1, <1>2
    <2>4. QED
      BY <1>1, <1>2, <1>3, <2>2, <2>3
  <1>5. QED
    BY <1>2, <1>4 DEF minute_start

\* The steps that leave the rows, the hands and the bucket alone.
LEMMA UntouchedMinutes ==
    ASSUME MinutesOnce, UNCHANGED <<flush, saved>>,
           state'.bucket = state.bucket, state'.last_flush = state.last_flush,
           pc'["main"] = "run" => pc["main"] = "run",
           pc'["tick"] = "take" => at' - state.last_flush >= FlushInterval
                                     \/ (pc["tick"] = "take" /\ at' = at)
    PROVE  MinutesOnce'
  BY DEF MinutesOnce

LEMMA FlushMinutes ==
    ASSUME Types, MinutesOnce, NEW app \in Apps, FlushTick(app)
    PROVE  MinutesOnce'
  <1>1. /\ pc["tick"] = "take" /\ flush' = [flush EXCEPT !["tick"] = Taken(app)]
        /\ state' = [bucket |-> minute_start(at), keystrokes |-> 0,
                     apps |-> NoKeys, clicks |-> 0, last_flush |-> at]
        /\ pc' = [pc EXCEPT !["tick"] = "rows"] /\ saved' = saved
    BY DEF FlushTick, Take
  <1>2. /\ pc'["tick"] = "rows" /\ pc'["main"] = pc["main"]
        /\ flush'["tick"].bucket = state.bucket /\ flush'["tick"].rows \subseteq Apps
    BY <1>1, PcFields, FlushFields DEF Taken, Threads
  <1>3. SUFFICES ASSUME pc["main"] = "run" PROVE MinutesOnce'
    BY <1>2 DEF MinutesOnce
  <1>4. state.last_flush \in 0..MaxTime /\ at \in 0..MaxTime /\ state.bucket \in Minutes
    BY StateFields DEF Types, TypeOK
  <1>5. state.bucket < state'.bucket /\ state'.bucket \in Minutes /\ state'.last_flush = at
    BY <1>1, <1>3, <1>4, LaterMinute, MinuteFacts DEF MinutesOnce
  <1>6. \A m \in Minutes, a \in Apps :
          saved[m][a].rows <= 1 /\ (m >= state.bucket => saved[m][a].rows = 0)
    BY <1>3 DEF MinutesOnce
  <1>7. Minutes \subseteq Int
    BY MinuteFacts
  <1>8. state.bucket \in Int /\ state'.bucket \in Int
    BY <1>4, <1>5, <1>7
  <1>9. \A m \in Minutes : m >= state'.bucket => m >= state.bucket
    BY <1>5, <1>7, <1>8
  <1>10. state.bucket >= state.bucket
    BY <1>8
  <1>11. QED
    BY <1>1, <1>2, <1>4, <1>5, <1>6, <1>9, <1>10 DEF MinutesOnce

LEMMA InsertMinutes ==
    ASSUME Types, MinutesOnce, NEW t \in Threads, NEW a \in Apps, NEW ok \in BOOLEAN,
           InsertBucket(t, a, ok)
    PROVE  MinutesOnce'
  <1> SUFFICES ASSUME pc'["main"] = "run" PROVE MinutesOnce'
    BY DEF MinutesOnce
  <1>1. /\ pc[t] = "rows" /\ a \in flush[t].rows
        /\ flush'[t] = [flush[t] EXCEPT !.rows = @ \ {a}]
        /\ \A m \in Minutes, b \in Apps :
             m # flush[t].bucket \/ b # a => saved'[m][b] = saved[m][b]
        /\ saved'[flush[t].bucket][a].rows \in {saved[flush[t].bucket][a].rows,
                                                saved[flush[t].bucket][a].rows + 1}
        /\ UNCHANGED <<state, pc, at>>
    BY InsertEffect
  <1>2. t = "tick" /\ pc["main"] = "run" /\ pc["tick"] = "rows"
    BY <1>1 DEF Threads
  <1> DEFINE k == flush["tick"].bucket
  <1>3. /\ flush'["tick"].bucket = k /\ flush'["tick"].rows = flush["tick"].rows \ {a}
        /\ k \in Minutes
    BY <1>1, <1>2, FlushFields
  <1>4. /\ k < state.bucket /\ saved[k][a].rows = 0
        /\ \A m \in Minutes, b \in Apps :
             saved[m][b].rows <= 1 /\ (m >= state.bucket => saved[m][b].rows = 0)
        /\ \A b \in flush["tick"].rows : saved[k][b].rows = 0 /\ b \in Apps
        /\ state.bucket = minute_start(state.last_flush)
    BY <1>1, <1>2, FlushFields DEF MinutesOnce
  <1>5. saved'[k][a].rows \in {0, 1}
    BY <1>1, <1>2, <1>4
  <1>6. state.bucket \in Int /\ k \in Int
    BY <1>3, StateFields, MinuteFacts
  <1>7. ASSUME NEW m \in Minutes, NEW b \in Apps
        PROVE  saved'[m][b].rows <= 1 /\ (m >= state'.bucket => saved'[m][b].rows = 0)
    <2>1. CASE m = k /\ b = a
      BY <1>1, <1>4, <1>5, <1>6, <2>1
    <2>2. CASE ~(m = k /\ b = a)
      BY <1>1, <1>2, <1>4, <2>2
    <2>3. QED
      BY <2>1, <2>2
  <1>8. \A b \in flush'["tick"].rows :
          flush'["tick"].bucket < state'.bucket /\ saved'[k][b].rows = 0
    BY <1>1, <1>2, <1>3, <1>4
  <1>9. QED
    BY <1>1, <1>2, <1>3, <1>4, <1>7, <1>8 DEF MinutesOnce

LEMMA BumpMinutes ==
    ASSUME Types, MinutesOnce, NEW t \in Threads, NEW ok \in BOOLEAN, BumpKeys(t, ok)
    PROVE  MinutesOnce'
  <1> SUFFICES ASSUME pc'["main"] = "run" PROVE MinutesOnce'
    BY DEF MinutesOnce
  <1>1. /\ pc[t] = "rows" /\ flush'[t] = Nothing
        /\ pc'[t] = IF t = "tick" THEN "sleep" ELSE "close"
        /\ \A u \in Threads : u # t => pc'[u] = pc[u]
        /\ UNCHANGED <<state, at, saved>>
    BY BumpEffect
  <1>2. t = "tick" /\ pc["main"] = "run" /\ pc'["tick"] = "sleep" /\ flush'["tick"].rows = {}
    BY <1>1 DEF Threads, Nothing
  <1>3. QED
    BY <1>1, <1>2 DEF MinutesOnce

LEMMA MinutesStep == Types /\ MinutesOnce /\ [Next]_vars => MinutesOnce'
  <1> SUFFICES ASSUME Types, MinutesOnce, [Next]_vars PROVE MinutesOnce'
    OBVIOUS
  <1>1. CASE UNCHANGED vars \/ Clock \/ AddPending \/ \E ok \in BOOLEAN : ReadDisk(ok)
    BY <1>1, UntouchedMinutes DEF vars, countVars, Clock, ReadDisk, AddPending
  <1>2. CASE on_click \/ \E app \in Apps : on_key(app)
    <2>1. state'.bucket = state.bucket /\ state'.last_flush = state.last_flush
      BY <1>2, StateFields DEF on_click, on_key
    <2>2. UNCHANGED <<flush, saved, pc, at>>
      BY <1>2 DEF on_click, on_key
    <2>3. QED
      BY <2>1, <2>2, UntouchedMinutes
  <1>3. CASE \/ TickBegin \/ OpenSession \/ Due
             \/ \E ok \in BOOLEAN : StartSession(ok) \/ EndSession(ok)
    <2>1. UNCHANGED <<flush, saved, state>>
      BY <1>3 DEF TickBegin, OpenSession, Due, StartSession, EndSession, countVars
    <2>2. pc'["main"] = pc["main"]
      BY <1>3, PcFields DEF TickBegin, OpenSession, Due, StartSession, EndSession
    <2>3. pc'["tick"] = "take" => at' - state.last_flush >= FlushInterval
      BY <1>3, PcFields DEF TickBegin, OpenSession, Due, StartSession, EndSession
    <2>4. QED
      BY <2>1, <2>2, <2>3, UntouchedMinutes
  <1>4. CASE \E app \in Apps : Quit(app)
    <2>1. pc'["main"] = "rows"
      BY <1>4, PcFields DEF Quit, Take
    <2>2. QED
      BY <2>1 DEF MinutesOnce
  <1>5. CASE \E ok \in BOOLEAN : CloseAndExit(ok)
    <2>1. pc'["main"] = "gone"
      BY <1>5, PcFields DEF CloseAndExit
    <2>2. QED
      BY <2>1 DEF MinutesOnce
  <1>6. QED
    BY <1>1, <1>2, <1>3, <1>4, <1>5, FlushMinutes, InsertMinutes, BumpMinutes DEF Next, Write

\* Until the app quits no minute gets a second row for an app, which the backend would
\* take for a duplicate (tracker.rs:160-224).
THEOREM NoSecondRow == Spec => []OneRowPerMinute
  <1>1. Init => Types /\ MinutesOnce
    BY InitTypes, InitMinutes
  <1>2. (Types /\ MinutesOnce) /\ [Next]_vars => (Types /\ MinutesOnce)'
    BY TypesStep, MinutesStep
  <1>3. Types /\ MinutesOnce => OneRowPerMinute
    BY DEF MinutesOnce, OneRowPerMinute
  <1>4. QED
    BY <1>1, <1>2, <1>3, PTL DEF Spec
-----------------------------------------------------------------------------
(***************************************************************************)
(* The sessions.  Between its look at the state and its call of the store, *)
(* tick holds a row that is to be written or closed.  The invariant is     *)
(* about the table with the row closed already, and about the start that   *)
(* is in the state or in tick's hands.                                     *)
(***************************************************************************)
Ended  == [sessions EXCEPT ![todo.id].end = todo.time]
Rows   == IF pc["tick"] = "end" THEN Ended ELSE sessions
Coming == IF pc["tick"] = "start" THEN todo.time ELSE session.pending
Id     == IF pc["tick"] = "open" THEN todo.id ELSE session.id

Within(t, r) == r.start <= t /\ (r.end = Never \/ t <= r.end)

\* Every row before the last is closed before the next one starts.
RowsInOrder ==
    \A i, j \in 1..Len(sessions) : i < j =>
        /\ Rows[i].end # Never
        /\ Rows[i].end <= Rows[j].start

\* No row is ahead of the last input, and a row is open only under the session's id.
RowsAreDated ==
    \A i \in 1..Len(sessions) :
        /\ Rows[i].start <= session.last_event
        /\ Rows[i].end = Never => Id = i
        /\ Rows[i].end # Never =>
             Rows[i].start <= Rows[i].end /\ Rows[i].end <= session.last_event

\* A session in the table is the last row, and open.
IdIsOpen ==
    Id # 0 =>
        /\ Id = Len(sessions)
        /\ Rows[Id].end = Never
        /\ Coming = Never

\* A session that has no row yet starts after all that are in the table.
ComingIsNext ==
    Coming # Never =>
        /\ Coming <= session.last_event
        /\ \A i \in 1..Len(sessions) : Rows[i].end # Never /\ Rows[i].end <= Coming

\* A session is on exactly if it has a row, or is to have one.
ActiveHasRow == session.active <=> Coming # Never \/ Id # 0

InputsCovered ==
    \A t \in inputs :
        /\ t <= session.last_event
        /\ \/ Coming # Never /\ Coming <= t
           \/ \E i \in 1..Len(sessions) : Within(t, Rows[i])

TickHolds ==
    /\ session.last_event <= now
    /\ pc["tick"] = "start" => session.pending = Never
    /\ pc["tick"] = "open" => session.id = 0
    /\ pc["tick"] = "end" => /\ todo.id = Len(sessions) /\ todo.id # 0
                             /\ sessions[todo.id].end = Never

SessionsHold ==
    /\ RowsInOrder /\ RowsAreDated /\ IdIsOpen /\ ComingIsNext /\ ActiveHasRow
    /\ InputsCovered /\ TickHolds

SessionInv == ~failed => SessionsInOrder /\ (Alive => SessionsHold)


\* The row of either table, and what the fields may be.
LEMMA RowFields ==
    ASSUME Types
    PROVE  /\ Len(sessions) \in Nat /\ DOMAIN sessions = 1..Len(sessions)
           /\ MaxTime \in Nat /\ Never \in Int /\ ~(0 <= Never)
           /\ \A i \in 1..Len(sessions) :
                /\ sessions[i].start \in 0..MaxTime
                /\ sessions[i].end \in 0..MaxTime \cup {Never}
                /\ Rows[i].start = sessions[i].start
                /\ Rows[i].end = IF pc["tick"] = "end" /\ i = todo.id
                                 THEN todo.time ELSE sessions[i].end
                /\ Rows[i].end \in 0..MaxTime \cup {Never}
           /\ todo.id \in Nat /\ todo.time \in 0..MaxTime \cup {Never}
           /\ pc["tick"] \in {"start", "end"} => todo.time # Never
           /\ now \in 0..MaxTime /\ inputs \subseteq 0..MaxTime /\ failed \in BOOLEAN
           /\ Coming \in 0..MaxTime \cup {Never}
           /\ pc["tick"] = "start" => Coming = todo.time
           /\ pc["tick"] # "start" => Coming = session.pending
           /\ Id \in Nat
           /\ pc["tick"] = "open" => Id = todo.id
           /\ pc["tick"] # "open" => Id = session.id
  <1>1. /\ todo.id \in Nat /\ todo.time \in 0..MaxTime \cup {Never}
        /\ pc["tick"] \in {"start", "end"} => todo.time # Never
        /\ now \in 0..MaxTime /\ inputs \subseteq 0..MaxTime /\ failed \in BOOLEAN
    BY DEF Types, TypeOK, Shape
  <1>2. MaxTime \in Nat /\ Never \in Int /\ ~(0 <= Never)
    BY TrackerAssumption DEF Never
  <1>3. Len(sessions) \in Nat /\ DOMAIN sessions = 1..Len(sessions) /\ sessions \in Seq(SessionRow)
    BY SessionFields
  <1>4. \A i \in 1..Len(sessions) : sessions[i] \in SessionRow
    BY <1>3
  <1>5. ASSUME NEW i \in 1..Len(sessions)
        PROVE  /\ Rows[i].start = sessions[i].start
               /\ Rows[i].end = IF pc["tick"] = "end" /\ i = todo.id
                                THEN todo.time ELSE sessions[i].end
    <2>1. sessions[i] = [start |-> sessions[i].start, end |-> sessions[i].end]
      BY <1>4 DEF SessionRow
    <2>2. Ended[i] = IF i = todo.id THEN [sessions[i] EXCEPT !.end = todo.time] ELSE sessions[i]
      BY <1>3 DEF Ended
    <2>3. QED
      BY <2>1, <2>2 DEF Rows
  <1>6. /\ Coming \in 0..MaxTime \cup {Never}
        /\ pc["tick"] = "start" => Coming = todo.time
        /\ pc["tick"] # "start" => Coming = session.pending
        /\ Id \in Nat
        /\ pc["tick"] = "open" => Id = todo.id
        /\ pc["tick"] # "open" => Id = session.id
    BY <1>1, SessionFields DEF Coming, Id
  <1>7. \A i \in 1..Len(sessions) : /\ sessions[i].start \in 0..MaxTime
                                    /\ sessions[i].end \in 0..MaxTime \cup {Never}
    BY <1>4 DEF SessionRow
  <1>8. QED
    BY <1>1, <1>2, <1>3, <1>5, <1>6, <1>7

LEMMA InitSessions == Init => SessionInv
  <1> SUFFICES ASSUME Init PROVE SessionInv
    OBVIOUS
  <1>1. /\ sessions = <<>> /\ inputs = {} /\ pc["tick"] = "sleep" /\ now = 0
        /\ session.pending = Never /\ session.id = 0 /\ session.active = FALSE
        /\ session.last_event = 0
    BY DEF Init, Threads
  <1>2. 1..Len(sessions) = {} /\ DOMAIN sessions = {}
    BY <1>1
  <1>3. Coming = Never /\ Id = 0
    BY <1>1 DEF Coming, Id
  <1>4. SessionsHold
    BY <1>1, <1>2, <1>3 DEF SessionsHold, RowsInOrder, RowsAreDated, IdIsOpen, ComingIsNext,
       ActiveHasRow, InputsCovered, TickHolds
  <1>5. QED
    BY <1>2, <1>4 DEF SessionInv, SessionsInOrder

\* What a thread sees of the sessions is the same before and after the step.
SessionsUntouched ==
    /\ UNCHANGED <<session, sessions, todo, inputs>>
    /\ \/ pc'["tick"] = pc["tick"]
       \/ /\ pc["tick"] \notin {"start", "open", "end"}
          /\ pc'["tick"] \notin {"start", "open", "end"}

LEMMA UntouchedSessions ==
    ASSUME SessionInv, SessionsUntouched, failed => failed', Alive' => Alive,
           now \in Int, now' \in Int, now <= now', session.last_event \in Int
    PROVE  SessionInv'
  <1> SUFFICES ASSUME ~failed' PROVE SessionsInOrder' /\ (Alive' => SessionsHold')
    BY DEF SessionInv
  <1>1. SessionsInOrder /\ (Alive => SessionsHold) /\ ~failed
    BY DEF SessionInv
  <1>2. SessionsInOrder'
    BY <1>1 DEF SessionsInOrder, SessionsUntouched
  <1>3. ASSUME SessionsHold PROVE SessionsHold'
    <2>1. Rows' = Rows /\ Coming' = Coming /\ Id' = Id
      BY DEF Rows, Ended, Coming, Id, SessionsUntouched
    <2>2. UNCHANGED <<session, sessions, todo, inputs>>
      BY DEF SessionsUntouched
    <2>3. RowsInOrder' /\ RowsAreDated' /\ IdIsOpen' /\ ComingIsNext' /\ ActiveHasRow'
      BY <1>3, <2>1, <2>2 DEF SessionsHold, RowsInOrder, RowsAreDated, IdIsOpen, ComingIsNext,
         ActiveHasRow
    <2>4. InputsCovered'
      BY <1>3, <2>1, <2>2 DEF SessionsHold, InputsCovered, Within
    <2>5. TickHolds'
      BY <1>3, <2>2 DEF SessionsHold, TickHolds, SessionsUntouched
    <2>6. QED
      BY <2>3, <2>4, <2>5 DEF SessionsHold
  <1>4. QED
    BY <1>1, <1>2, <1>3

\* The conjuncts of the invariant from what holds before the step.
LEMMA SessionsBefore ==
    ASSUME SessionInv, ~failed, Alive
    PROVE  /\ SessionsInOrder
           /\ RowsInOrder /\ RowsAreDated /\ IdIsOpen /\ ComingIsNext /\ ActiveHasRow
           /\ InputsCovered /\ TickHolds
  BY DEF SessionInv, SessionsHold

\* An input moves last_event on, and if no session was on, one is coming from now.
LEMMA InputSessions ==
    ASSUME Types, SessionInv, Input,
           UNCHANGED <<now, pc, sessions, todo, failed>>
    PROVE  SessionInv'
  <1>1. Alive /\ session' = Touched /\ inputs' = inputs \cup {now}
    BY DEF Input
  <1> SUFFICES ASSUME ~failed PROVE SessionInv'
    BY DEF SessionInv
  <1> USE SessionsBefore, <1>1
  <1>2. /\ session'.active = TRUE /\ session'.id = session.id /\ session'.last_event = now
        /\ session'.pending = IF session.active THEN session.pending ELSE now
    BY TouchedType
  <1>3. session.last_event <= now /\ now \in 0..MaxTime /\ session.last_event \in 0..MaxTime
    BY RowFields, SessionFields DEF TickHolds
  <1>4. Rows' = Rows /\ Id' = Id
    BY <1>2 DEF Rows, Ended, Id
  <1>5. session.active => Coming' = Coming
    BY <1>2 DEF Coming
  <1>6. ~session.active =>
          Coming' = now /\ Coming = Never /\ Id = 0 /\ now # Never /\ pc["tick"] # "start"
    <2> SUFFICES ASSUME ~session.active
                 PROVE  Coming' = now /\ Coming = Never /\ Id = 0 /\ now # Never
                          /\ pc["tick"] # "start"
      OBVIOUS
    <2>1. Coming = Never /\ Id = 0
      BY DEF ActiveHasRow
    <2>2. pc["tick"] # "start" /\ now # Never
      BY <2>1, RowFields
    <2>3. QED
      BY <1>2, <2>1, <2>2 DEF Coming
  <1>7. SessionsInOrder' /\ RowsInOrder'
    BY <1>4 DEF SessionsInOrder, RowsInOrder
  <1>8. RowsAreDated'
    <2>1. \A i \in 1..Len(sessions) :
            Rows[i].start \in Int /\ (Rows[i].end # Never => Rows[i].end \in Int)
      BY RowFields
    <2>2. QED
      BY <1>2, <1>3, <1>4, <2>1 DEF RowsAreDated
  <1>9. IdIsOpen'
    BY <1>2, <1>4, <1>5, <1>6 DEF IdIsOpen
  <1>10. ComingIsNext'
    <2>1. CASE session.active
      <3>1. Coming # Never => Coming <= now
        BY <1>3, RowFields DEF ComingIsNext
      <3>2. QED
        BY <1>2, <1>4, <1>5, <2>1, <3>1 DEF ComingIsNext
    <2>2. CASE ~session.active
      <3>1. Coming' = now /\ Id = 0
        BY <1>6, <2>2
      <3>2. \A i \in 1..Len(sessions) : Rows[i].end # Never /\ Rows[i].end <= session.last_event
        BY <3>1 DEF RowsAreDated
      <3>3. \A i \in 1..Len(sessions) : Rows[i].end <= now
        BY <1>3, <3>2, RowFields
      <3>4. QED
        BY <1>2, <1>3, <1>4, <3>1, <3>2, <3>3 DEF ComingIsNext
    <2>3. QED
      BY <2>1, <2>2
  <1>11. ActiveHasRow'
    BY <1>2, <1>4, <1>5, <1>6, RowFields DEF ActiveHasRow
  <1>12. InputsCovered'
    <2> SUFFICES ASSUME NEW t \in inputs \cup {now}
                 PROVE  /\ t <= now
                        /\ \/ Coming' # Never /\ Coming' <= t
                           \/ \E i \in 1..Len(sessions) : Within(t, Rows[i])
      BY <1>2, <1>4 DEF InputsCovered, Within
    <2>1. CASE t = now
      <3>1. CASE session.active /\ Id # 0
        <4>1. Id \in 1..Len(sessions) /\ Rows[Id].end = Never
          BY <3>1, RowFields DEF IdIsOpen
        <4>2. Rows[Id].start <= session.last_event /\ Rows[Id].start \in Int
          BY <4>1, RowFields DEF RowsAreDated
        <4>3. Rows[Id].start <= now
          BY <1>3, <4>2
        <4>4. QED
          BY <1>3, <2>1, <4>1, <4>3 DEF Within
      <3>2. CASE session.active /\ Id = 0
        <4>1. Coming # Never /\ Coming <= session.last_event /\ Coming' = Coming
          BY <1>5, <3>2 DEF ActiveHasRow, ComingIsNext
        <4>2. QED
          BY <1>3, <2>1, <4>1, RowFields
      <3>3. CASE ~session.active
        BY <1>3, <1>6, <2>1, <3>3
      <3>4. QED
        BY <3>1, <3>2, <3>3
    <2>2. CASE t \in inputs
      <3>1. t <= session.last_event /\ t \in 0..MaxTime
        BY <2>2, RowFields DEF InputsCovered
      <3>2. t <= now
        BY <1>3, <3>1
      <3>3. \/ Coming # Never /\ Coming <= t
            \/ \E i \in 1..Len(sessions) : Within(t, Rows[i])
        BY <2>2 DEF InputsCovered
      <3>4. QED
        BY <1>5, <1>6, <3>2, <3>3
    <2>3. QED
      BY <2>1, <2>2
  <1>13. TickHolds'
    BY <1>2, <1>3, <1>6 DEF TickHolds
  <1>14. QED
    BY <1>7, <1>8, <1>9, <1>10, <1>11, <1>12, <1>13 DEF SessionInv, SessionsHold

\* tick takes the start of a session into its hands; the row is still coming.
LEMMA TickTakesStart ==
    ASSUME Types, SessionInv, TickBegin, session.pending # Never
    PROVE  SessionInv'
  <1>1. /\ Alive /\ pc["tick"] = "sleep"
        /\ session' = [session EXCEPT !.pending = Never, !.active = @, !.id = @]
        /\ todo' = [id |-> 0, time |-> session.pending]
        /\ pc' = [pc EXCEPT !["tick"] = "start"]
        /\ UNCHANGED <<now, sessions, inputs, failed>>
    BY SessionFields DEF TickBegin, historyVars
  <1> SUFFICES ASSUME ~failed PROVE SessionInv'
    BY <1>1 DEF SessionInv
  <1> USE SessionsBefore, <1>1
  <1>2. /\ session'.active = session.active /\ session'.id = session.id
        /\ session'.last_event = session.last_event /\ session'.pending = Never
        /\ pc'["tick"] = "start"
    BY SessionFields, PcFields DEF Threads
  <1>3. Rows' = Rows /\ Coming' = Coming /\ Id' = Id
    BY <1>2 DEF Rows, Coming, Id
  <1>4. /\ SessionsInOrder' /\ RowsInOrder' /\ RowsAreDated' /\ IdIsOpen' /\ ComingIsNext'
        /\ ActiveHasRow'
    BY <1>2, <1>3 DEF SessionsInOrder, RowsInOrder, RowsAreDated, IdIsOpen, ComingIsNext,
       ActiveHasRow
  <1>5. InputsCovered' /\ TickHolds'
    BY <1>2, <1>3 DEF InputsCovered, TickHolds, Within
  <1>6. QED
    BY <1>4, <1>5 DEF SessionInv, SessionsHold

\* tick ends the session: its row is the last one and open, and counts as closed at the
\* last input from here on.
LEMMA TickTakesEnd ==
    ASSUME Types, SessionInv, TickBegin, session.pending = Never, session.active,
           now - session.last_event > IdleThreshold, session.id # 0
    PROVE  SessionInv'
  <1> DEFINE last == Len(sessions)
  <1>1. /\ Alive /\ pc["tick"] = "sleep"
        /\ session' = [session EXCEPT !.pending = Never, !.active = FALSE, !.id = 0]
        /\ todo' = [id |-> session.id, time |-> session.last_event]
        /\ pc' = [pc EXCEPT !["tick"] = "end"]
        /\ UNCHANGED <<now, sessions, inputs, failed>>
    BY SessionFields DEF TickBegin, historyVars
  <1> SUFFICES ASSUME ~failed PROVE SessionInv'
    BY <1>1 DEF SessionInv
  <1>2. /\ session'.active = FALSE /\ session'.id = 0
        /\ session'.last_event = session.last_event /\ session'.pending = Never
        /\ pc'["tick"] = "end" /\ todo'.id = session.id /\ todo'.time = session.last_event
    BY <1>1, SessionFields, PcFields DEF Threads
  <1>3. Id = session.id /\ session.id = last /\ last \in 1..Len(sessions) /\ Coming = Never
    BY SessionsBefore, <1>1, RowFields DEF IdIsOpen
  <1>4. session.last_event \in 0..MaxTime /\ session.last_event # Never
    BY SessionFields, RowFields
  <1>5. \A i \in 1..Len(sessions) :
          /\ Rows'[i].start = Rows[i].start
          /\ Rows'[i].end = IF i = last THEN session.last_event ELSE Rows[i].end
          /\ Rows[i].start \in Int /\ (i # last => Rows[i].end # Never)
          /\ Rows[i].end = sessions[i].end
    <2>1. Types'
      BY TickTypes
    <2>2. \A i \in 1..Len(sessions) :
            /\ Rows'[i].start = sessions[i].start
            /\ Rows'[i].end = IF i = last THEN session.last_event ELSE sessions[i].end
      <3> SUFFICES ASSUME NEW i \in 1..Len(sessions)
                   PROVE  /\ Rows'[i].start = sessions[i].start
                          /\ Rows'[i].end = IF i = last THEN session.last_event
                                                        ELSE sessions[i].end
        OBVIOUS
      <3>1. sessions \in Seq(SessionRow) /\ sessions[i] \in SessionRow
        BY SessionFields
      <3>2. Rows' = [sessions EXCEPT ![last].end = session.last_event]
        BY <1>1, <1>2, <1>3 DEF Rows, Ended
      <3>3. Rows'[i] = IF i = last THEN [sessions[i] EXCEPT !.end = session.last_event]
                                   ELSE sessions[i]
        BY <3>1, <3>2
      <3>4. QED
        BY <3>1, <3>3 DEF SessionRow
    <2>3. \A i \in 1..Len(sessions) :
            /\ Rows[i].start = sessions[i].start /\ Rows[i].end = sessions[i].end
            /\ Rows[i].start \in Int
      BY <1>1, RowFields
    <2>4. \A i \in 1..Len(sessions) : i # last => Rows[i].end # Never
      BY <1>1, <1>3, SessionsBefore DEF RowsAreDated
    <2>5. QED
      BY <2>2, <2>3, <2>4
  <1>6. Coming' = Never /\ Id' = 0
    BY <1>2 DEF Coming, Id
  <1>7. /\ SessionsInOrder /\ RowsInOrder /\ RowsAreDated /\ IdIsOpen
        /\ InputsCovered /\ TickHolds
    BY <1>1, SessionsBefore
  <1>8. SessionsInOrder'
    BY <1>1, <1>7 DEF SessionsInOrder
  <1>9. RowsInOrder'
    <2>1. \A i, j \in 1..Len(sessions) : i < j => i # last
      BY <1>3
    <2>2. QED
      BY <1>1, <1>5, <1>7, <2>1 DEF RowsInOrder
  <1>10. RowsAreDated'
    BY <1>1, <1>2, <1>4, <1>5, <1>6, <1>7 DEF RowsAreDated
  <1>11. IdIsOpen' /\ ComingIsNext' /\ ActiveHasRow'
    BY <1>2, <1>6 DEF IdIsOpen, ComingIsNext, ActiveHasRow
  <1>12. InputsCovered'
    <2> SUFFICES ASSUME NEW t \in inputs
                 PROVE  /\ t <= session.last_event
                        /\ \E i \in 1..Len(sessions) :
                             /\ Rows'[i].start <= t
                             /\ Rows'[i].end = Never \/ t <= Rows'[i].end
      BY <1>1, <1>2 DEF InputsCovered, Within
    <2>1. t <= session.last_event /\ \E i \in 1..Len(sessions) : Within(t, Rows[i])
      BY <1>3, <1>7 DEF InputsCovered
    <2>2. QED
      BY <1>5, <2>1 DEF Within
  <1>13. TickHolds'
    <2>1. sessions[session.id].end = Never
      BY <1>3, <1>5, <1>7 DEF IdIsOpen
    <2>2. QED
      BY <1>1, <1>2, <1>3, <1>7, <2>1 DEF TickHolds
  <1>14. QED
    BY <1>8, <1>9, <1>10, <1>11, <1>12, <1>13 DEF SessionInv, SessionsHold

\* tick finds nothing to do: a session that is on and has no start pending has its row.
LEMMA TickFindsNothing ==
    ASSUME Types, SessionInv, TickBegin, session.pending = Never,
           ~(session.active /\ now - session.last_event > IdleThreshold /\ session.id # 0)
    PROVE  SessionInv'
  <1> DEFINE quiet == session.active /\ now - session.last_event > IdleThreshold
  <1>1. /\ Alive /\ pc["tick"] = "sleep"
        /\ session' = [session EXCEPT !.pending = Never, !.active = @ /\ ~quiet,
                                      !.id = IF quiet THEN 0 ELSE @]
        /\ todo' = todo /\ pc' = [pc EXCEPT !["tick"] = "due"]
        /\ UNCHANGED <<now, sessions, inputs, failed>>
    BY DEF TickBegin, historyVars
  <1> SUFFICES ASSUME ~failed PROVE SessionInv'
    BY <1>1 DEF SessionInv
  <1>2. ~quiet
    <2>1. session.active => session.id # 0
      BY <1>1, SessionsBefore DEF ActiveHasRow, Coming, Id
    <2>2. QED
      BY <2>1
  <1>3. session' = session
    BY <1>1, <1>2, SessionFields
  <1>4. SessionsUntouched
    BY <1>1, <1>3, PcFields DEF SessionsUntouched, Threads
  <1>5. now \in Int /\ session.last_event \in Int
    BY RowFields, SessionFields
  <1>6. Alive' => Alive
    BY <1>1
  <1>7. now <= now' /\ now' \in Int
    BY <1>1, <1>5
  <1>8. QED
    BY <1>1, <1>4, <1>5, <1>6, <1>7, UntouchedSessions

\* The row is written: the session that was coming is the last row, and open.
LEMMA StartSessions ==
    ASSUME Types, SessionInv, NEW ok \in BOOLEAN, StartSession(ok)
    PROVE  SessionInv'
  <1> DEFINE row == [start |-> todo.time, end |-> Never]
             last == Len(sessions) + 1
  <1>1. /\ Alive /\ pc["tick"] = "start"
        /\ pc' = [pc EXCEPT !["tick"] = IF ok THEN "open" ELSE "due"]
        /\ UNCHANGED <<now, inputs, session>> /\ failed' = (failed \/ ~ok)
        /\ sessions' = IF ok THEN Append(sessions, row) ELSE sessions
        /\ ok => todo' = [todo EXCEPT !.id = last]
    BY DEF StartSession, Answer
  <1> SUFFICES ASSUME ~failed, ok PROVE SessionInv'
    BY <1>1 DEF SessionInv
  <1>2. session' = session /\ pc'["tick"] = "open"
    BY <1>1, PcFields DEF Threads
  <1>3. /\ RowsInOrder /\ RowsAreDated /\ ComingIsNext /\ ActiveHasRow
        /\ InputsCovered /\ TickHolds
    BY <1>1, SessionsBefore
  <1>4. /\ Len(sessions) \in Nat /\ todo.time # Never /\ Coming = todo.time
        /\ todo.time \in Int /\ session.last_event \in Int
        /\ \A i \in 1..Len(sessions) :
             /\ Rows[i].start = sessions[i].start /\ Rows[i].end = sessions[i].end
             /\ sessions[i].start \in Int /\ sessions[i].end \in Int
    <2>1. \A x \in 0..MaxTime \cup {Never} : x \in Int
      BY RowFields
    <2>2. QED
      BY <1>1, <2>1, RowFields, SessionFields
  <1>5. /\ Len(sessions') = last /\ 1..Len(sessions') = 1..Len(sessions) \cup {last}
        /\ last \notin 1..Len(sessions) /\ last # 0 /\ last \in Int
        /\ sessions'[last].start = todo.time /\ sessions'[last].end = Never
        /\ \A i \in 1..Len(sessions) : sessions'[i] = sessions[i] /\ i < last
        /\ DOMAIN sessions' = 1..Len(sessions')
    <2>1. sessions \in Seq(SessionRow) /\ sessions' = Append(sessions, row)
      BY <1>1, SessionFields
    <2> HIDE DEF row
    <2>2. /\ Len(sessions') = last /\ sessions'[last] = row
          /\ \A i \in 1..Len(sessions) : sessions'[i] = sessions[i]
          /\ DOMAIN sessions' = 1..Len(sessions')
      BY <2>1
    <2>3. QED
      BY <1>4, <2>2 DEF row
  <1>6. Rows' = sessions' /\ Coming' = Never /\ Id' = last /\ session.id = 0
    <2>1. todo'.id = last
      BY <1>1 DEF Types, Shape
    <2>2. session.id = 0
      BY <1>1, <1>4, SessionsBefore, RowFields DEF IdIsOpen
    <2>3. QED
      BY <1>1, <1>2, <1>3, <2>1, <2>2 DEF Rows, Coming, Id, TickHolds
  <1>7. \A i, j \in 1..Len(sessions') : i < j => i \in 1..Len(sessions)
    BY <1>4, <1>5
  <1>8. RowsInOrder'
    <2> SUFFICES ASSUME NEW i \in 1..Len(sessions), NEW j \in 1..Len(sessions'), i < j
                 PROVE  sessions'[i].end # Never /\ sessions'[i].end <= sessions'[j].start
      BY <1>6, <1>7 DEF RowsInOrder
    <2>1. CASE j = last
      BY <1>3, <1>4, <1>5, <2>1 DEF ComingIsNext
    <2>2. CASE j \in 1..Len(sessions)
      BY <1>3, <1>4, <1>5, <2>2 DEF RowsInOrder
    <2>3. QED
      BY <1>5, <2>1, <2>2
  <1>9. \A i \in 1..Len(sessions) :
          /\ sessions[i].end # Never /\ sessions[i].start <= sessions[i].end
          /\ sessions[i].end <= session.last_event
    BY <1>3, <1>4 DEF ComingIsNext, RowsAreDated
  <1>10. RowsAreDated'
    <2>1. todo.time <= session.last_event
      BY <1>3, <1>4 DEF ComingIsNext
    <2>2. \A i \in 1..Len(sessions) : sessions[i].start <= session.last_event
      BY <1>3, <1>4 DEF RowsAreDated
    <2>3. QED
      BY <1>2, <1>5, <1>6, <1>9, <2>1, <2>2 DEF RowsAreDated
  <1>11. SessionsInOrder'
    BY <1>5, <1>6, <1>7, <1>8, <1>9 DEF SessionsInOrder, RowsInOrder
  <1>12. IdIsOpen' /\ ComingIsNext' /\ ActiveHasRow'
    BY <1>2, <1>3, <1>4, <1>5, <1>6 DEF IdIsOpen, ComingIsNext, ActiveHasRow
  <1>13. InputsCovered'
    <2> SUFFICES ASSUME NEW t \in inputs
                 PROVE  /\ t <= session.last_event
                        /\ \E i \in 1..Len(sessions') : Within(t, sessions'[i])
      BY <1>1, <1>2, <1>6 DEF InputsCovered, Within
    <2>1. /\ t <= session.last_event
          /\ Coming <= t \/ \E i \in 1..Len(sessions) : Within(t, Rows[i])
      BY <1>3 DEF InputsCovered
    <2>2. QED
      BY <1>4, <1>5, <2>1 DEF Within
  <1>14. TickHolds'
    BY <1>1, <1>2, <1>3, <1>6 DEF TickHolds
  <1>15. QED
    BY <1>8, <1>10, <1>11, <1>12, <1>13, <1>14 DEF SessionInv, SessionsHold

\* The row that counted as closed is closed.
\* The id goes into the state: the session's row is the same.
LEMMA OpenSessions ==
    ASSUME Types, SessionInv, OpenSession
    PROVE  SessionInv'
  <1>1. /\ Alive /\ pc["tick"] = "open" /\ pc' = [pc EXCEPT !["tick"] = "due"]
        /\ session' = [session EXCEPT !.id = todo.id]
        /\ UNCHANGED <<now, inputs, sessions, failed>>
    BY DEF OpenSession, historyVars
  <1> SUFFICES ASSUME ~failed PROVE SessionInv'
    BY <1>1 DEF SessionInv
  <1>2. /\ session'.active = session.active /\ session'.id = todo.id
        /\ session'.last_event = session.last_event /\ session'.pending = session.pending
        /\ pc'["tick"] = "due"
    BY <1>1, SessionFields, PcFields DEF Threads
  <1>3. Rows' = Rows /\ Coming' = Coming /\ Id' = Id
    BY <1>1, <1>2 DEF Rows, Coming, Id
  <1>4. /\ SessionsInOrder /\ RowsInOrder /\ RowsAreDated /\ IdIsOpen /\ ComingIsNext
        /\ ActiveHasRow /\ InputsCovered /\ TickHolds
    BY <1>1, SessionsBefore
  <1>5. /\ SessionsInOrder' /\ RowsInOrder' /\ RowsAreDated' /\ IdIsOpen' /\ ComingIsNext'
        /\ ActiveHasRow'
    BY <1>1, <1>2, <1>3, <1>4 DEF SessionsInOrder, RowsInOrder, RowsAreDated, IdIsOpen,
       ComingIsNext, ActiveHasRow
  <1>6. InputsCovered' /\ TickHolds'
    BY <1>1, <1>2, <1>3, <1>4 DEF InputsCovered, TickHolds, Within
  <1>7. QED
    BY <1>5, <1>6 DEF SessionInv, SessionsHold

LEMMA EndSessions ==
    ASSUME Types, SessionInv, NEW ok \in BOOLEAN, EndSession(ok)
    PROVE  SessionInv'
  <1>1. /\ Alive /\ pc["tick"] = "end" /\ pc' = [pc EXCEPT !["tick"] = "due"]
        /\ UNCHANGED <<now, inputs, session>> /\ failed' = (failed \/ ~ok)
        /\ sessions' = IF ok THEN Ended ELSE sessions
    BY DEF EndSession, Answer, Ended
  <1> SUFFICES ASSUME ~failed, ok PROVE SessionInv'
    BY <1>1 DEF SessionInv
  <1>2. pc'["tick"] = "due"
    BY <1>1, PcFields DEF Threads
  <1>3. Rows' = Rows /\ Rows' = sessions' /\ Coming' = Coming /\ Id' = Id
    BY <1>1, <1>2 DEF Rows, Coming, Id
  <1>4. Len(sessions') = Len(sessions) /\ DOMAIN sessions' = 1..Len(sessions)
    <2>1. todo.time \in 0..MaxTime \cup {Never}
      BY RowFields
    <2>2. sessions' \in Seq(SessionRow) /\ Len(sessions') = Len(sessions)
      BY <1>1, <2>1, EndedRows DEF Ended
    <2>3. QED
      BY <2>2
  <1>5. /\ RowsInOrder /\ RowsAreDated /\ IdIsOpen /\ ComingIsNext /\ ActiveHasRow
        /\ InputsCovered /\ TickHolds
    BY <1>1, SessionsBefore
  <1>6. RowsInOrder' /\ RowsAreDated' /\ IdIsOpen' /\ ComingIsNext' /\ ActiveHasRow'
    BY <1>1, <1>3, <1>4, <1>5 DEF RowsInOrder, RowsAreDated, IdIsOpen, ComingIsNext,
       ActiveHasRow
  <1>7. InputsCovered' /\ TickHolds'
    BY <1>1, <1>2, <1>3, <1>4, <1>5 DEF InputsCovered, TickHolds, Within
  <1>8. SessionsInOrder'
    <2>1. \A i \in 1..Len(sessions) : Rows[i].end # Never => Rows[i].start <= Rows[i].end
      BY <1>5 DEF RowsAreDated
    <2>2. \A i, j \in 1..Len(sessions) :
            i < j => Rows[i].end # Never /\ Rows[i].end <= Rows[j].start
      BY <1>5 DEF RowsInOrder
    <2>3. QED
      BY <1>3, <1>4, <2>1, <2>2 DEF SessionsInOrder
  <1>9. QED
    BY <1>6, <1>7, <1>8 DEF SessionInv, SessionsHold

\* shutdown closes the last row, if the state knows it, and the process is gone.
LEMMA CloseSessions ==
    ASSUME Types, SessionInv, NEW ok \in BOOLEAN, CloseAndExit(ok)
    PROVE  SessionInv'
  <1>1. /\ pc["main"] = "close" /\ pc' = [pc EXCEPT !["main"] = "gone"]
        /\ sessions' = IF ok /\ session.id # 0
                       THEN [sessions EXCEPT ![session.id].end = session.last_event]
                       ELSE sessions
        /\ failed => failed'
    BY DEF CloseAndExit, Answer
  <1>2. Alive /\ ~Alive'
    BY <1>1, PcFields DEF Alive, Threads
  <1> SUFFICES ASSUME ~failed PROVE SessionsInOrder'
    BY <1>1, <1>2 DEF SessionInv
  <1>3. SessionsInOrder /\ IdIsOpen /\ TickHolds
    BY <1>2, SessionsBefore
  <1>4. CASE sessions' = sessions
    BY <1>3, <1>4 DEF SessionsInOrder
  <1>5. CASE /\ session.id # 0
             /\ sessions' = [sessions EXCEPT ![session.id].end = session.last_event]
    <2>1. /\ sessions \in Seq(SessionRow) /\ Len(sessions) \in Nat
          /\ \A i \in 1..Len(sessions) : sessions[i] \in SessionRow
      BY SessionFields
    <2>2. session.id = Len(sessions)
      BY <1>3, <1>5, RowFields DEF IdIsOpen, TickHolds
    <2>3. DOMAIN sessions' = 1..Len(sessions) /\ DOMAIN sessions = 1..Len(sessions)
      BY <1>5, <2>1
    <2>4. \A i \in 1..Len(sessions) :
            /\ sessions'[i].start = sessions[i].start
            /\ i # Len(sessions) => sessions'[i].end = sessions[i].end
      <3>1. \A i \in 1..Len(sessions) : sessions'[i] =
              IF i = Len(sessions) THEN [sessions[i] EXCEPT !.end = session.last_event]
                                   ELSE sessions[i]
        BY <1>5, <2>1, <2>2
      <3>2. QED
        BY <2>1, <3>1 DEF SessionRow
    <2>5. \A i, j \in 1..Len(sessions) : i < j => i # Len(sessions)
      BY <2>1
    <2>6. QED
      BY <1>3, <2>3, <2>4, <2>5 DEF SessionsInOrder
  <1>6. QED
    BY <1>1, <1>4, <1>5

LEMMA SessionsStep == Types /\ SessionInv /\ [Next]_vars => SessionInv'
  <1> SUFFICES ASSUME Types, SessionInv, [Next]_vars PROVE SessionInv'
    OBVIOUS
  <1> USE UntouchedSessions
  <1>1. now \in Int /\ session.last_event \in Int /\ now <= now
    BY RowFields, SessionFields
  <1>2. CASE UNCHANGED vars \/ AddPending \/ \E ok \in BOOLEAN : ReadDisk(ok)
    <2>1. UNCHANGED <<now, pc, failed>> /\ SessionsUntouched
      BY <1>2 DEF vars, sessionVars, historyVars, SessionsUntouched, ReadDisk, AddPending
    <2>2. QED
      BY <1>1, <2>1 DEF Alive
  <1>3. CASE Clock
    <2>1. UNCHANGED <<pc, failed>> /\ SessionsUntouched /\ now' = now + 1
      BY <1>3 DEF sessionVars, historyVars, SessionsUntouched, Clock
    <2>2. now' \in Int /\ now <= now'
      BY <1>1, <2>1
    <2>3. QED
      BY <1>1, <2>1, <2>2 DEF Alive
  <1>4. CASE on_click \/ \E app \in Apps : on_key(app)
    <2>1. Input /\ UNCHANGED <<now, pc, sessions, todo, failed>>
      BY <1>4 DEF on_click, on_key
    <2>2. QED
      BY <2>1, InputSessions
  <1>5. CASE TickBegin
    BY <1>5, TickTakesStart, TickTakesEnd, TickFindsNothing
  <1>6. CASE Due
    <2>1. /\ UNCHANGED <<now, sessionVars, historyVars>>
          /\ pc'["tick"] \in {"take", "sleep"} /\ pc["tick"] = "due" /\ pc'["main"] = pc["main"]
      BY <1>6, PcFields DEF Due
    <2>2. SessionsUntouched
      BY <2>1 DEF sessionVars, historyVars, SessionsUntouched
    <2>3. QED
      BY <1>1, <2>1, <2>2 DEF Alive, historyVars
  <1>7. ASSUME NEW app \in Apps, FlushTick(app) \/ Quit(app)
        PROVE  SessionInv'
    <2>1. /\ UNCHANGED <<now, sessionVars, historyVars>> /\ Alive
          /\ \/ pc["tick"] = "take" /\ pc'["tick"] = "rows"
             \/ pc'["tick"] = pc["tick"]
      BY <1>7, PcFields DEF FlushTick, Quit, Take, Alive, Threads
    <2>2. SessionsUntouched
      BY <2>1 DEF sessionVars, historyVars, SessionsUntouched
    <2>3. QED
      BY <1>1, <2>1, <2>2 DEF historyVars
  <1>8. ASSUME NEW t \in Threads, NEW a \in Apps, NEW ok \in BOOLEAN, InsertBucket(t, a, ok)
        PROVE  SessionInv'
    <2>1. Alive /\ (failed => failed') /\ UNCHANGED <<now, pc, sessionVars, inputs>>
      BY <1>8, InsertEffect
    <2>2. SessionsUntouched
      BY <2>1 DEF sessionVars, SessionsUntouched
    <2>3. QED
      BY <1>1, <2>1, <2>2
  <1>9. ASSUME NEW t \in Threads, NEW ok \in BOOLEAN, BumpKeys(t, ok)
        PROVE  SessionInv'
    <2>1. /\ Alive /\ (failed => failed') /\ UNCHANGED <<now, sessionVars, inputs>>
          /\ pc[t] = "rows" /\ pc'[t] = IF t = "tick" THEN "sleep" ELSE "close"
          /\ \A u \in Threads : u # t => pc'[u] = pc[u]
      BY <1>9, BumpEffect
    <2>2. SessionsUntouched
      BY <2>1 DEF sessionVars, SessionsUntouched, Threads
    <2>3. QED
      BY <1>1, <2>1, <2>2
  <1>10. QED
    BY <1>2, <1>3, <1>4, <1>5, <1>6, <1>7, <1>8, <1>9, StartSessions, OpenSessions,
       EndSessions, CloseSessions DEF Next, Write

\* While no call of the store fails, the sessions table is in order, and every input of a
\* living process lies in a row or in one about to be written: a session that ends while
\* the next begins in the hook, or tick between its look and its call, leaves no gap and
\* no overlap (tracker.rs:101-109, 147-186, 228-242).
THEOREM HistoryOfUse == Spec => []SessionsTrue
  <1>1. Init => Types /\ SessionInv
    BY InitTypes, InitSessions
  <1>2. (Types /\ SessionInv) /\ [Next]_vars => (Types /\ SessionInv)'
    BY TypesStep, SessionsStep
  <1>3. Types /\ SessionInv => SessionsTrue
    <2> SUFFICES ASSUME Types, SessionInv PROVE SessionsTrue
      OBVIOUS
    <2>1. SessionsInOrder
      BY DEF SessionInv, SessionsInOrder
    <2>2. ASSUME Alive, ~failed, NEW t \in inputs
          PROVE  \/ \E i \in DOMAIN sessions :
                      sessions[i].start <= t /\ (sessions[i].end = Never \/ t <= sessions[i].end)
                 \/ session.pending # Never /\ session.pending <= t
                 \/ pc["tick"] = "start" /\ todo.time <= t
      <3>1. InputsCovered /\ TickHolds
        BY <2>2, SessionsBefore
      <3>2. CASE Coming # Never /\ Coming <= t
        BY <3>2, RowFields
      <3>3. ASSUME NEW i \in 1..Len(sessions), Within(t, Rows[i])
            PROVE  /\ sessions[i].start <= t
                   /\ sessions[i].end = Never \/ t <= sessions[i].end
        BY <3>1, <3>3, RowFields DEF Within, TickHolds
      <3>4. DOMAIN sessions = 1..Len(sessions)
        BY RowFields
      <3>5. QED
        BY <2>2, <3>1, <3>2, <3>3, <3>4 DEF InputsCovered
    <2>3. QED
      BY <2>1, <2>2 DEF SessionsTrue, InputsInSessions
  <1>4. QED
    BY <1>1, <1>2, <1>3, PTL DEF Spec
-----------------------------------------------------------------------------
(***************************************************************************)
(* What the window shows.                                                  *)
(***************************************************************************)
TodayInv ==
    /\ state.keystrokes = SumOver(state.apps)
    /\ today.pc = "disk" =>
         /\ Shown <= KeysTyped
         /\ today.torn \/ failed \/ Shown >= today.from

LEMMA AppSums ==
    ASSUME Types
    PROVE  /\ SumOver(state.apps) \in Nat /\ state.keystrokes \in Nat
           /\ today.disk \in Nat /\ today.from \in Nat /\ today.torn \in BOOLEAN
           /\ KeysTyped \in Nat
  <1>1. state.apps \in [Apps -> Nat] /\ state.keystrokes \in Nat
    BY StateFields DEF Counts
  <1> HIDE DEF Types
  <1>2. SumOver(state.apps) \in Nat
    BY <1>1, NatSum, MinuteFacts
  <1>3. today.disk \in Nat /\ today.from \in Nat /\ today.torn \in BOOLEAN
    BY DEF Types, Shape
  <1>4. QED
    BY <1>1, <1>2, <1>3, KeySums

LEMMA InitToday == Init => TodayInv
  <1> SUFFICES ASSUME Init PROVE TodayInv
    OBVIOUS
  <1>1. state.keystrokes = 0 /\ state.apps = NoKeys /\ today.pc = "idle"
    BY DEF Init, NoCall
  <1>2. NoKeys \in [Apps -> Nat] /\ \A a \in Apps : NoKeys[a] = 0
    BY DEF NoKeys
  <1> HIDE DEF NoKeys
  <1>3. SumOver(NoKeys) = SumOn(NoKeys, Apps)
    BY <1>2, NatSum, MinuteFacts
  <1>4. SumOn(NoKeys, Apps) = 0
    BY <1>2, SumZero, MinuteFacts
  <1>5. QED
    BY <1>1, <1>3, <1>4 DEF TodayInv

\* What is on disk and in the state is no more than was typed, and with no flush under way
\* and no call failed it is all that was typed: minute by minute, app by app.
LEMMA DiskAndState ==
    ASSUME Types, CountsKept
    PROVE  /\ KeysOnDisk + SumOver(state.apps) <= KeysTyped
           /\ ~failed /\ (\A t \in Threads : flush[t].rows = {}) =>
                KeysOnDisk + SumOver(state.apps) = KeysTyped
  <1> DEFINE open  == state.apps
             disk(m)  == KeysIn(m)
             there(m) == [a \in Apps |-> disk(m)[a] + InState(m, a)]
             still == [m \in Minutes |-> IF m = state.bucket THEN SumOver(open) ELSE 0]
             both  == [m \in Minutes |-> KeysInRows[m] + still[m]]
  <1> USE MinuteFacts
  <1>1. /\ open \in [Apps -> Nat] /\ SumOver(open) \in Nat /\ SumOver(open) = SumOn(open, Apps)
        /\ state.bucket \in Minutes
    <2>1. open \in [Apps -> Nat]
      BY StateFields DEF Counts
    <2> HIDE DEF open
    <2>2. QED
      BY <2>1, NatSum, StateFields
  <1>2. /\ \A m \in Minutes : /\ disk(m) \in [Apps -> Nat] /\ typed[m] \in [Apps -> Nat]
                              /\ KeysInRows[m] = SumOver(disk(m))
                              /\ KeysByMinute[m] = SumOver(typed[m])
                              /\ KeysInRows[m] \in Nat /\ KeysByMinute[m] \in Nat
        /\ KeysInRows \in [Minutes -> Nat] /\ KeysByMinute \in [Minutes -> Nat]
        /\ KeysOnDisk = SumOver(KeysInRows) /\ KeysTyped = SumOver(KeysByMinute)
    BY KeySums DEF KeysInRows, KeysByMinute
  <1>3. ASSUME NEW m \in Minutes
        PROVE  /\ both[m] = SumOver(there(m)) /\ there(m) \in [Apps -> Nat]
               /\ SumOn(there(m), Apps) = SumOver(there(m))
    <2> DEFINE here == [a \in Apps |-> InState(m, a)]
               sum == there(m)
               row == disk(m)
    <2>1. here \in [Apps -> Nat] /\ sum \in [Apps -> Nat] /\ row \in [Apps -> Nat]
      BY <1>2, CountTypes
    <2>2. \A a \in Apps : row[a] \in Int /\ here[a] \in Int /\ sum[a] = row[a] + here[a]
      BY <1>2, <2>1
    <2>3. m = state.bucket => here = open
      BY <1>1 DEF InState
    <2>4. m # state.bucket => \A a \in Apps : here[a] = 0
      BY DEF InState
    <2>5. still[m] = IF m = state.bucket THEN SumOver(open) ELSE 0
      OBVIOUS
    <2>6. both[m] = KeysInRows[m] + still[m]
      OBVIOUS
    <2>7. KeysInRows[m] = SumOver(row)
      BY <1>2
    <2> HIDE DEF here, sum, row, both, still
    <2>8. SumOn(sum, Apps) = SumOn(row, Apps) + SumOn(here, Apps)
      BY <2>2, SumAdd
    <2>9. /\ SumOver(sum) = SumOn(sum, Apps) /\ SumOver(row) = SumOn(row, Apps)
          /\ SumOver(here) = SumOn(here, Apps)
      BY <2>1, NatSum
    <2>10. SumOn(here, Apps) = still[m]
      <3>1. CASE m = state.bucket
        BY <2>3, <2>5, <2>9, <3>1
      <3>2. CASE m # state.bucket
        BY <2>4, <2>5, <3>2, SumZero
      <3>3. QED
        BY <3>1, <3>2
    <2>11. both[m] = SumOver(sum)
      BY <2>6, <2>7, <2>8, <2>9, <2>10
    <2>12. QED
      BY <2>1, <2>9, <2>11 DEF sum
  <1>4. SumOn(both, Minutes) = KeysOnDisk + SumOver(open)
    <2> DEFINE total == SumOver(open)
    <2>1. total \in Nat
      BY <1>1
    <2> HIDE DEF total
    <2>2. /\ still = [m \in Minutes |-> IF m = state.bucket THEN total ELSE 0]
      BY DEF total
    <2>8. \A m \in Minutes : both[m] = KeysInRows[m] + still[m]
      OBVIOUS
    <2> HIDE DEF still, both
    <2>3. /\ \A m \in Minutes : still[m] \in Int /\ KeysInRows[m] \in Int
                                /\ both[m] = KeysInRows[m] + still[m]
          /\ \A m \in Minutes \ {state.bucket} : still[m] = 0
          /\ still[state.bucket] = total
      BY <1>1, <1>2, <2>1, <2>2, <2>8
    <2>4. SumOn(both, Minutes) = SumOn(KeysInRows, Minutes) + SumOn(still, Minutes)
      BY <2>3, SumAdd
    <2>5. SumOn(still, Minutes) = total
      <3>1. total \in Int
        BY <2>1
      <3>2. QED
        BY <1>1, <2>3, <3>1, SumSingle
    <2>6. SumOn(KeysInRows, Minutes) = KeysOnDisk
      BY <1>2, NatSum
    <2>7. QED
      BY <2>4, <2>5, <2>6 DEF total
  <1>5. SumOn(KeysByMinute, Minutes) = KeysTyped
    BY <1>2, NatSum
  <1>6. ASSUME NEW m \in Minutes, NEW a \in Apps
        PROVE  /\ there(m)[a] \in Int /\ typed[m][a] \in Int /\ there(m)[a] <= typed[m][a]
               /\ ~failed /\ (\A t \in Threads : flush[t].rows = {}) =>
                    there(m)[a] = typed[m][a]
    <2>1. Kept(KeysAnywhere(m, a), typed[m][a])
      BY CountsKeptIs
    <2>2. /\ InState(m, a) \in Nat /\ saved[m][a].keys \in Nat /\ typed[m][a] \in Nat
          /\ KeysHeld("tick", m, a) \in Nat /\ KeysHeld("main", m, a) \in Nat
      BY CountTypes DEF Threads
    <2>3. there(m)[a] = saved[m][a].keys + InState(m, a)
      BY DEF KeysIn
    <2>4. (\A t \in Threads : flush[t].rows = {}) =>
            KeysHeld("tick", m, a) = 0 /\ KeysHeld("main", m, a) = 0
      BY DEF KeysHeld, Threads
    <2>5. /\ KeysAnywhere(m, a) <= typed[m][a]
          /\ failed \/ KeysAnywhere(m, a) = typed[m][a]
      BY <2>1 DEF Kept
    <2> HIDE DEF there
    <2>6. there(m)[a] \in Int /\ there(m)[a] <= typed[m][a]
      BY <2>2, <2>3, <2>5 DEF KeysAnywhere
    <2>7. ASSUME ~failed, \A t \in Threads : flush[t].rows = {}
          PROVE  there(m)[a] = typed[m][a]
      BY <2>2, <2>3, <2>4, <2>5, <2>7 DEF KeysAnywhere
    <2>8. QED
      BY <2>2, <2>6, <2>7
  <1>7. ASSUME NEW m \in Minutes
        PROVE  /\ both[m] \in Int /\ KeysByMinute[m] \in Int /\ both[m] <= KeysByMinute[m]
               /\ ~failed /\ (\A t \in Threads : flush[t].rows = {}) =>
                    both[m] = KeysByMinute[m]
    <2> DEFINE f == there(m)
               g == typed[m]
    <2>1. /\ f \in [Apps -> Nat] /\ g \in [Apps -> Nat]
          /\ both[m] = SumOver(f) /\ KeysByMinute[m] = SumOver(g)
      BY <1>2, <1>3
    <2>2. /\ \A a \in Apps : f[a] \in Int /\ g[a] \in Int /\ f[a] <= g[a]
          /\ ~failed /\ (\A t \in Threads : flush[t].rows = {}) =>
               \A a \in Apps : f[a] = g[a]
      BY <1>6
    <2> HIDE DEF f, g, both
    <2>3. SumOver(f) = SumOn(f, Apps) /\ SumOver(g) = SumOn(g, Apps)
          /\ SumOver(f) \in Nat /\ SumOver(g) \in Nat
      BY <2>1, NatSum
    <2>4. SumOn(f, Apps) <= SumOn(g, Apps)
      BY <2>2, SumMono
    <2>5. ASSUME ~failed, \A t \in Threads : flush[t].rows = {}
          PROVE  SumOn(f, Apps) = SumOn(g, Apps)
      <3>1. \A a \in Apps : f[a] \in Int /\ f[a] = g[a]
        BY <2>2, <2>5
      <3>2. QED
        BY <3>1, SumAgree
    <2>6. QED
      BY <2>1, <2>3, <2>4, <2>5
  <1> HIDE DEF both, open
  <1>8. SumOn(both, Minutes) <= SumOn(KeysByMinute, Minutes)
    BY <1>7, SumMono
  <1>9. ASSUME ~failed, \A t \in Threads : flush[t].rows = {}
        PROVE  SumOn(both, Minutes) = SumOn(KeysByMinute, Minutes)
    <2>1. \A m \in Minutes : both[m] \in Int /\ both[m] = KeysByMinute[m]
      BY <1>7, <1>9
    <2>2. QED
      BY <2>1, SumAgree
  <1>10. QED
    BY <1>4, <1>5, <1>8, <1>9 DEF open

LEMMA UntouchedToday ==
    ASSUME TodayInv, UNCHANGED <<state, today, typed>>, failed => failed'
    PROVE  TodayInv'
  BY DEF TodayInv, Shown, KeysTyped

LEMMA KeyToday ==
    ASSUME Types, TodayInv, NEW app \in Apps, on_key(app)
    PROVE  TodayInv'
  <1> DEFINE b == state.bucket
             f == state.apps
             g == state'.apps
             p == typed[b]
             q == typed'[b]
             P == KeysByMinute
             Q == [m \in Minutes |-> SumOver(typed'[m])]
  <1> USE MinuteFacts
  <1>1. /\ UNCHANGED <<today, failed>>
        /\ state'.keystrokes = state.keystrokes + 1
        /\ state'.apps = [f EXCEPT ![app] = @ + 1]
        /\ typed' = [typed EXCEPT ![b][app] = @ + 1]
    <2>1. state' = [bucket |-> state.bucket, keystrokes |-> state.keystrokes + 1,
                    apps |-> [state.apps EXCEPT ![app] = @ + 1], clicks |-> state.clicks,
                    last_flush |-> state.last_flush]
      BY StateFields DEF on_key
    <2>2. QED
      BY <2>1 DEF on_key
  <1>2. Types' /\ b \in Minutes
    BY KeyTypes, StateFields
  <1>3. /\ f \in [Apps -> Nat] /\ g \in [Apps -> Nat]
        /\ g[app] = f[app] + 1 /\ \A a \in Apps \ {app} : g[a] = f[a]
    BY <1>1, StateFields DEF Counts
  <1>4. /\ p \in [Apps -> Nat] /\ q \in [Apps -> Nat]
        /\ q[app] = p[app] + 1 /\ \A a \in Apps \ {app} : q[a] = p[a]
        /\ \A m \in Minutes \ {b} : typed'[m] = typed[m]
        /\ typed' \in [Minutes -> [Apps -> Nat]]
    <2>1. typed \in [Minutes -> [Apps -> Nat]] /\ typed' \in [Minutes -> [Apps -> Nat]]
      BY <1>2 DEF Types, TypeOK
    <2>2. QED
      BY <1>1, <1>2, <2>1
  <1>5. SumOver(g) = SumOver(f) + 1
    <2> HIDE DEF f, g
    <2>1. SumOver(g) = SumOver(f) + (g[app] - f[app]) /\ f[app] \in Nat
      BY <1>3, NatSumUpdate
    <2>2. SumOver(f) \in Nat
      BY <1>3, NatSum
    <2>3. QED
      BY <1>3, <2>1, <2>2
  <1>6. SumOver(q) = SumOver(p) + 1 /\ SumOver(p) \in Nat
    <2> HIDE DEF p, q
    <2>1. SumOver(q) = SumOver(p) + (q[app] - p[app]) /\ p[app] \in Nat
      BY <1>4, NatSumUpdate
    <2>2. SumOver(p) \in Nat
      BY <1>4, NatSum
    <2>3. QED
      BY <1>4, <2>1, <2>2
  <1>7. /\ P \in [Minutes -> Nat] /\ Q \in [Minutes -> Nat]
        /\ \A m \in Minutes \ {b} : Q[m] = P[m]
        /\ P[b] = SumOver(p) /\ Q[b] = SumOver(q)
    <2>1. \A m \in Minutes : SumOver(typed[m]) \in Nat /\ P[m] = SumOver(typed[m])
      BY KeySums DEF KeysByMinute
    <2>2. \A m \in Minutes \ {b} : Q[m] = P[m]
      BY <1>4, <2>1
    <2>3. P[b] = SumOver(p) /\ Q[b] = SumOver(q)
      BY <1>2, <2>1
    <2>4. \A m \in Minutes : Q[m] \in Nat
      BY <1>6, <2>1, <2>2, <2>3
    <2>5. Q = [m \in Minutes |-> Q[m]]
      OBVIOUS
    <2> HIDE DEF Q
    <2>6. QED
      BY <2>2, <2>3, <2>4, <2>5, KeySums
  <1>8. KeysTyped' = KeysTyped + 1
    <2>1. KeysTyped' = SumOver(Q)
      BY DEF KeysTyped
    <2>2. KeysTyped = SumOver(P)
      BY KeySums
    <2> HIDE DEF P, Q, p, q, b
    <2>3. SumOver(Q) = SumOver(P) + (Q[b] - P[b])
      BY <1>2, <1>7, NatSumUpdate, ZenonT(40)
    <2>4. SumOver(P) \in Nat
      BY <1>7, NatSum
    <2>5. QED
      BY <1>6, <1>7, <2>1, <2>2, <2>3, <2>4
  <1>9. /\ state.keystrokes \in Nat /\ SumOver(f) \in Nat /\ today.disk \in Nat
        /\ today.from \in Nat /\ KeysTyped \in Nat
    BY AppSums
  <1>10. state'.keystrokes = SumOver(state'.apps)
    BY <1>1, <1>5 DEF TodayInv
  <1>11. today'.pc = "disk" => Shown' <= KeysTyped'
    BY <1>1, <1>8, <1>9 DEF TodayInv, Shown
  <1>12. today'.pc = "disk" => today'.torn \/ failed' \/ Shown' >= today'.from
    <2>1. Shown >= today.from => Shown' >= today'.from
      BY <1>1, <1>9 DEF Shown
    <2>2. QED
      BY <1>1, <2>1 DEF TodayInv
  <1>13. QED
    BY <1>10, <1>11, <1>12 DEF TodayInv

\* A flush empties the state: the sum is smaller from here on, and marked as torn.
LEMMA TakeToday ==
    ASSUME Types, TodayInv, NEW t \in Threads, NEW n, NEW app \in Apps, Take(t, n, app)
    PROVE  TodayInv'
  <1>1. /\ state'.keystrokes = 0 /\ state'.apps = NoKeys /\ typed' = typed
        /\ today' = [today EXCEPT !.torn = today.pc = "disk"]
    BY DEF Take, historyVars
  <1>2. today'.pc = today.pc /\ today'.disk = today.disk /\ today'.torn = (today.pc = "disk")
    BY <1>1 DEF Types, Shape
  <1>3. NoKeys \in [Apps -> Nat] /\ \A a \in Apps : NoKeys[a] = 0
    BY DEF NoKeys
  <1>4. SumOver(NoKeys) = 0
    <2> HIDE DEF NoKeys
    <2>1. SumOver(NoKeys) = SumOn(NoKeys, Apps)
      BY <1>3, NatSum, MinuteFacts
    <2>2. SumOn(NoKeys, Apps) = 0
      BY <1>3, SumZero, MinuteFacts
    <2>3. QED
      BY <2>1, <2>2
  <1>5. KeysTyped' = KeysTyped
    BY <1>1 DEF KeysTyped
  <1>6. today.pc = "disk" => Shown' <= KeysTyped'
    BY <1>1, <1>2, <1>5, AppSums DEF TodayInv, Shown
  <1>7. QED
    BY <1>1, <1>2, <1>4, <1>6 DEF TodayInv

LEMMA WindowToday ==
    ASSUME Types, CountsKept, TodayInv, (\E ok \in BOOLEAN : ReadDisk(ok)) \/ AddPending
    PROVE  TodayInv'
  <1>1. UNCHANGED <<state, typed, failed>>
    BY DEF ReadDisk, AddPending, countVars, historyVars
  <1>2. CASE AddPending
    <2>1. today'.pc = "idle"
      BY <1>2 DEF AddPending, NoCall
    <2>2. QED
      BY <1>1, <2>1 DEF TodayInv
  <1>3. CASE \E ok \in BOOLEAN : ReadDisk(ok)
    <2>1. PICK ok \in BOOLEAN : ReadDisk(ok)
      BY <1>3
    <2>2. /\ today'.disk = IF ok THEN KeysOnDisk ELSE 0
          /\ today'.from = KeysTyped
          /\ today'.torn = (~ok \/ \E t \in Threads : flush[t].rows # {})
      BY <2>1 DEF ReadDisk
    <2>3. state.keystrokes = SumOver(state.apps)
      BY DEF TodayInv
    <2>4. KeysTyped' = KeysTyped
      BY <1>1 DEF KeysTyped
    <2>5. Shown' = today'.disk + SumOver(state.apps)
      BY <1>1, <2>3 DEF Shown
    <2>6. Shown' <= KeysTyped'
      <3>1. /\ KeysOnDisk + SumOver(state.apps) <= KeysTyped
            /\ KeysOnDisk \in Nat /\ KeysTyped \in Nat /\ SumOver(state.apps) \in Nat
        BY DiskAndState, KeySums, AppSums
      <3>2. today'.disk \in Nat /\ today'.disk <= KeysOnDisk
        BY <2>2, <3>1
      <3>3. QED
        BY <2>4, <2>5, <3>1, <3>2
    <2>7. ~failed' /\ ~today'.torn => Shown' = today'.from
      <3> SUFFICES ASSUME ~failed', ~today'.torn PROVE Shown' = today'.from
        OBVIOUS
      <3>1. ok /\ ~\E t \in Threads : flush[t].rows # {}
        BY <2>2
      <3>2. Shown' = KeysOnDisk + SumOver(state.apps)
        BY <2>2, <2>5, <3>1
      <3>3. QED
        BY <1>1, <2>2, <3>1, <3>2, DiskAndState
    <2>8. today'.torn \/ failed' \/ Shown' >= today'.from
      <3>1. today'.from \in Int
        BY <2>2, KeySums
      <3>2. Shown' = today'.from => Shown' >= today'.from
        BY <3>1
      <3>3. QED
        BY <2>7, <3>2, Zenon
    <2>9. QED
      BY <1>1, <2>3, <2>6, <2>8 DEF TodayInv
  <1>4. QED
    BY <1>2, <1>3

LEMMA TodayStep == Types /\ CountsKept /\ TodayInv /\ [Next]_vars => TodayInv'
  <1> SUFFICES ASSUME Types, CountsKept, TodayInv, [Next]_vars PROVE TodayInv'
    OBVIOUS
  <1>1. CASE UNCHANGED vars \/ Clock \/ TickBegin \/ OpenSession \/ Due
    <2>1. UNCHANGED <<state, today, typed, failed>>
      BY <1>1 DEF vars, countVars, historyVars, Clock, TickBegin, OpenSession, Due
    <2>2. QED
      BY <2>1, UntouchedToday
  <1>2. ASSUME NEW ok \in BOOLEAN, StartSession(ok) \/ EndSession(ok) \/ CloseAndExit(ok)
        PROVE  TodayInv'
    <2>1. UNCHANGED <<state, today, typed>> /\ (failed => failed')
      BY <1>2 DEF countVars, StartSession, EndSession, CloseAndExit, Answer
    <2>2. QED
      BY <2>1, UntouchedToday
  <1>3. CASE on_click
    <2>1. /\ state'.keystrokes = state.keystrokes /\ state'.apps = state.apps
          /\ UNCHANGED <<today, typed, failed>>
      BY <1>3, StateFields DEF on_click
    <2>2. QED
      BY <2>1 DEF TodayInv, Shown, KeysTyped
  <1>4. ASSUME NEW app \in Apps, FlushTick(app) \/ Quit(app)
        PROVE  TodayInv'
    BY <1>4, TakeToday DEF FlushTick, Quit, Threads
  <1>5. ASSUME NEW t \in Threads, Write(t)
        PROVE  TodayInv'
    <2>1. UNCHANGED <<state, today, typed>> /\ (failed => failed')
      BY <1>5, InsertEffect, BumpEffect DEF Write
    <2>2. QED
      BY <2>1, UntouchedToday
  <1>6. QED
    BY <1>1, <1>2, <1>3, <1>4, <1>5, KeyToday, WindowToday DEF Next

\* What the window shows is on disk or in the state and was typed; and unless a flush was
\* under way or a call, the read itself or a write, failed it is all that was typed before the window asked, although
\* the two are read one after the other (tracker.rs:244-254).
THEOREM WindowIsTrue == Spec => TodayIsTrue
  <1>1. Init => Types /\ CountsKept /\ TodayInv
    BY InitTypes, InitCounts, InitToday
  <1>2. (Types /\ CountsKept /\ TodayInv) /\ [Next]_vars
          => (Types /\ CountsKept /\ TodayInv)'
    BY TypesStep, CountsStep, TodayStep
  <1>3. TodayInv /\ [Next]_vars =>
          [AddPending => /\ Shown <= KeysTyped
                         /\ today.torn \/ failed \/ Shown >= today.from]_vars
    BY DEF TodayInv, AddPending
  <1>4. QED
    BY <1>1, <1>2, <1>3, PTL DEF Spec, TodayIsTrue
=============================================================================
