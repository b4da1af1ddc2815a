----------------------------- MODULE Ingest_proofs -----------------------------
(***************************************************************************)
(* The ingest of one user's rows, for every number of requests, devices    *)
(* and rows and every interleaving of the statements of the transactions;  *)
(* what the streaks row says of the active days when transactions run one  *)
(* at a time; and the limiter in front of the endpoint.                    *)
(***************************************************************************)
EXTENDS Ingest, Streaks, RateLimit, Numbers_proofs

-----------------------------------------------------------------------------
(***************************************************************************)
(* One transaction at a time.                                              *)
(***************************************************************************)
LEMMA RowFields ==
    ASSUME StreaksTypeOK, row # NoStreak
    PROVE  /\ row.current \in Nat \ {0}
           /\ row.longest \in Nat \ {0}
           /\ row.last \in Calendar
           /\ row = [current |-> row.current, longest |-> row.longest,
                     last |-> row.last]
  BY StreakFields DEF StreaksTypeOK

\* The row is missing or well formed, and exists from the first active day on.
THEOREM StreaksTypeCorrect == StreaksSpec => []StreaksTypeOK
  <1>1. StreaksInit => StreaksTypeOK
    BY MaxDayAssumption DEF StreaksInit, StreaksTypeOK, StreakRow, Calendar
  <1>2. StreaksTypeOK /\ [StreaksNext]_streaksVars => StreaksTypeOK'
    <2> SUFFICES ASSUME StreaksTypeOK, [StreaksNext]_streaksVars PROVE StreaksTypeOK'
      OBVIOUS
    <2>1. CASE Midnight
      BY <2>1, MaxDayAssumption DEF Midnight, StreaksTypeOK, Calendar
    <2>2. ASSUME NEW day \in Calendar, IngestDay(day)
          PROVE  StreaksTypeOK'
      <3>1. row' \in StreakRow(Calendar) \ {NoStreak}
        BY <2>2, UpdatedRow DEF IngestDay, StreaksTypeOK
      <3>2. today' = today /\ active' = active \cup {day} /\ day \in 0..today
        BY <2>2 DEF IngestDay, StreaksTypeOK, Calendar
      <3>3. ordered' \in BOOLEAN
        BY <2>2 DEF IngestDay, StreaksTypeOK
      <3>4. QED
        BY <3>1, <3>2, <3>3 DEF StreaksTypeOK
    <2>3. CASE UNCHANGED streaksVars
      BY <2>3 DEF streaksVars, StreaksTypeOK
    <2>4. QED
      BY <2>1, <2>2, <2>3 DEF StreaksNext
  <1>3. QED
    BY <1>1, <1>2, PTL DEF StreaksSpec

-----------------------------------------------------------------------------
\* In whatever order the days come in, the streaks of the row happened.
THEOREM StreaksHappened == StreaksSpec => []NothingInvented
  <1>1. StreaksInit => NothingInvented
    BY DEF StreaksInit, NothingInvented, Happened
  <1>2. StreaksTypeOK /\ NothingInvented /\ [StreaksNext]_streaksVars => NothingInvented'
    <2> SUFFICES ASSUME StreaksTypeOK, NothingInvented, [StreaksNext]_streaksVars PROVE NothingInvented'
      OBVIOUS
    <2>1. CASE UNCHANGED <<row, active>>
      BY <2>1 DEF NothingInvented
    <2>2. ASSUME NEW day \in Calendar, IngestDay(day)
          PROVE  NothingInvented'
      <3>1. Calendar \in SUBSET Int
        BY DEF Calendar
      <3>2. row \in StreakRow(Calendar) /\ Happened(row, active)
        BY DEF StreaksTypeOK, NothingInvented
      <3>3. Happened(UpdatedStreak(row, day), active \cup {day})
        BY <3>1, <3>2, RuleInventsNothing
      <3>4. QED
        BY <2>2, <3>3 DEF IngestDay, NothingInvented
    <2>3. QED
      BY <2>1, <2>2 DEF StreaksNext, Midnight, streaksVars
  <1>3. QED
    BY <1>1, <1>2, StreaksTypeCorrect, PTL DEF StreaksSpec

-----------------------------------------------------------------------------
\* The row is exact while the days come in in order.
LEMMA ExactStep ==
    ASSUME StreaksTypeOK, NothingInvented, ExactInOrder, NEW day \in Calendar, IngestDay(day)
    PROVE  ExactInOrder'
  <1> USE DEF IsRun, RunLengths
  <1> SUFFICES ASSUME ordered, \A d \in active : d <= day
               PROVE  /\ \A d \in active' : d <= row'.last
                      /\ row'.last - row'.current \notin active'
                      /\ \A d \in active' : \A n \in RunLengths :
                           IsRun(active', d, n) => n <= row'.longest
    BY DEF ExactInOrder, IngestDay
  <1>1. /\ active' = active \cup {day}
        /\ day \in Int
        /\ active \subseteq Int
        /\ RunLengths \subseteq Nat \ {0}
    BY MaxDayAssumption DEF IngestDay, Calendar, StreaksTypeOK
  <1>2. CASE row = NoStreak
    <2>1. active' = {day}
      BY <1>1, <1>2 DEF StreaksTypeOK
    <2>2. row' = [current |-> 1, longest |-> 1, last |-> day]
      BY <1>2, StreakCases DEF IngestDay
    <2>3. \A n \in Nat \ {0} : (day - n + 1)..day \subseteq {day} => n <= 1
      <3> SUFFICES ASSUME NEW n \in Nat \ {0}, (day - n + 1)..day \subseteq {day}
                   PROVE  n <= 1
        OBVIOUS
      <3>1. (day - n + 1) \in (day - n + 1)..day
        BY <1>1
      <3>2. QED
        BY <1>1, <3>1
    <2>4. QED
      BY <1>1, <2>1, <2>2, <2>3
  <1>3. CASE row # NoStreak
    <2> DEFINE last == row.last
               current == row.current
    <2>1. /\ last \in Int /\ current \in Nat \ {0} /\ row.longest \in Nat \ {0}
      BY <1>3, RowFields DEF Calendar
    <2>2. /\ \A d \in active : d <= last
          /\ last - current \notin active
          /\ \A d \in active : \A n \in RunLengths : IsRun(active, d, n) => n <= row.longest
      BY <1>3 DEF ExactInOrder
    <2>3. last \in active
      <3>1. last \in (last - current + 1)..last
        BY <2>1
      <3>2. QED
        BY <1>3, <3>1 DEF NothingInvented, Happened
    <2>4. CASE last = day
      <3>1. active' = active /\ row' = row
        BY <1>1, <1>3, <2>3, <2>4, StreakCases DEF IngestDay
      <3>2. QED
        BY <2>2, <3>1
    <2>5. last <= day
      BY <2>3
    \* A run that ends before the new day has no use for it.
    <2>6. ASSUME last < day, NEW d \in active', d # day, NEW n \in RunLengths,
                 IsRun(active', d, n)
          PROVE  n <= row.longest
      <3>1. d \in active /\ d <= last
        BY <1>1, <2>2, <2>6
      <3>2. day \notin (d - n + 1)..d
        BY <1>1, <2>1, <2>6, <3>1
      <3>3. IsRun(active, d, n)
        BY <1>1, <2>6, <3>2
      <3>4. QED
        BY <2>2, <3>1, <3>3
    <2>7. CASE last # day /\ day = last + 1
      <3>1. row' = [current |-> current + 1, longest |-> Larger(row.longest, current + 1),
                       last |-> day]
        BY <1>3, <2>7, StreakCases DEF IngestDay
      <3>2. /\ Larger(row.longest, current + 1) >= row.longest
            /\ Larger(row.longest, current + 1) >= current + 1
            /\ Larger(row.longest, current + 1) \in Nat
        BY <2>1, LargerIsBound
      <3>3. last - current \notin active'
        BY <1>1, <2>1, <2>2, <2>7
      <3>4. ASSUME NEW n \in RunLengths, IsRun(active', day, n)
            PROVE  n <= current + 1
        <4>1. n > current + 1 => last - current \in (day - n + 1)..day
          BY <1>1, <2>1, <2>7
        <4>2. QED
          BY <1>1, <2>1, <3>3, <3>4, <4>1
      <3>5. ASSUME NEW d \in active', NEW n \in RunLengths, IsRun(active', d, n)
            PROVE  n <= row'.longest
        <4>1. n \in Nat
          BY <1>1
        <4>2. CASE d = day
          BY <2>1, <3>1, <3>2, <3>4, <3>5, <4>1, <4>2
        <4>3. CASE d # day
          <5>1. n <= row.longest
            BY <2>1, <2>6, <2>7, <3>5, <4>3
          <5>2. QED
            BY <2>1, <3>1, <3>2, <4>1, <5>1
        <4>4. QED
          BY <4>2, <4>3
      <3>6. \A d \in active' : d <= row'.last
        BY <1>1, <3>1
      <3>7. row'.last - row'.current \notin active'
        <4>1. day - (current + 1) = last - current
          BY <1>1, <2>1, <2>7
        <4>2. QED
          BY <3>1, <3>3, <4>1
      <3>8. QED
        BY <3>5, <3>6, <3>7
    <2>8. CASE last # day /\ day # last + 1
      <3>1. row' = [current |-> 1, longest |-> Larger(row.longest, 1), last |-> day]
        BY <1>3, <2>8, StreakCases DEF IngestDay
      <3>2. /\ Larger(row.longest, 1) >= row.longest
            /\ Larger(row.longest, 1) >= 1
            /\ Larger(row.longest, 1) \in Nat
        BY <2>1, LargerIsBound
      <3>3. day - 1 \notin active'
        BY <1>1, <2>1, <2>2, <2>5, <2>8
      <3>4. ASSUME NEW n \in RunLengths, IsRun(active', day, n)
            PROVE  n <= 1
        <4>1. n > 1 => day - 1 \in (day - n + 1)..day
          BY <1>1
        <4>2. QED
          BY <1>1, <3>3, <3>4, <4>1
      <3>5. ASSUME NEW d \in active', NEW n \in RunLengths, IsRun(active', d, n)
            PROVE  n <= row'.longest
        <4>1. n \in Nat
          BY <1>1
        <4>2. CASE d = day
          BY <3>1, <3>2, <3>4, <3>5, <4>1, <4>2
        <4>3. CASE d # day
          <5>1. n <= row.longest
            BY <1>1, <2>1, <2>5, <2>6, <2>8, <3>5, <4>3
          <5>2. QED
            BY <2>1, <3>1, <3>2, <4>1, <5>1
        <4>4. QED
          BY <4>2, <4>3
      <3>6. QED
        BY <1>1, <3>1, <3>3, <3>5
    <2>9. QED
      BY <2>4, <2>7, <2>8
  <1>4. QED
    BY <1>2, <1>3

\* Ingested in order, the row is the whole last run and the longest run.
THEOREM InOrderIsExact == StreaksSpec => []ExactInOrder
  <1>1. StreaksInit => ExactInOrder
    BY DEF StreaksInit, ExactInOrder
  <1>2. StreaksTypeOK /\ NothingInvented /\ ExactInOrder /\ [StreaksNext]_streaksVars => ExactInOrder'
    <2> SUFFICES ASSUME StreaksTypeOK, NothingInvented, ExactInOrder, [StreaksNext]_streaksVars
                 PROVE  ExactInOrder'
      OBVIOUS
    <2>1. CASE UNCHANGED <<row, active, ordered>>
      BY <2>1 DEF ExactInOrder
    <2>2. QED
      BY <2>1, ExactStep DEF StreaksNext, Midnight, streaksVars
  <1>3. QED
    BY <1>1, <1>2, StreaksTypeCorrect, StreaksHappened, PTL DEF StreaksSpec

\* What the streaks row says of the days ingested is true.
THEOREM StreaksAreTrue == StreaksSpec => []StreaksTrue
  BY StreaksHappened, InOrderIsExact, PTL DEF StreaksTrue

-----------------------------------------------------------------------------
\* No step lowers the longest streak.
THEOREM LongestNeverLowered == StreaksSpec => LongestKept
  <1>1. StreaksTypeOK /\ [StreaksNext]_streaksVars => [row'.longest >= row.longest]_streaksVars
    <2> SUFFICES ASSUME StreaksTypeOK, StreaksNext PROVE row'.longest >= row.longest
      OBVIOUS
    <2>1. row.longest \in Nat
      BY DEF StreaksTypeOK, StreakRow, NoStreak
    <2>2. CASE Midnight
      BY <2>1, <2>2 DEF Midnight
    <2>3. ASSUME NEW day \in Calendar, IngestDay(day)
          PROVE  row'.longest >= row.longest
      <3>1. CASE row = NoStreak
        BY <2>3, <3>1, StreakCases DEF IngestDay, NoStreak
      <3>2. CASE row # NoStreak
        <4>1. row.current \in Nat
          BY <3>2, RowFields
        <4>2. /\ Larger(row.longest, 1) >= row.longest
              /\ Larger(row.longest, row.current + 1) >= row.longest
          BY <2>1, <4>1, LargerIsBound
        <4>3. QED
          BY <2>1, <2>3, <3>2, <4>2, StreakCases DEF IngestDay
      <3>3. QED
        BY <3>1, <3>2
    <2>4. QED
      BY <2>2, <2>3 DEF StreaksNext
  <1>2. QED
    BY <1>1, StreaksTypeCorrect, PTL DEF StreaksSpec, LongestKept

-----------------------------------------------------------------------------
(***************************************************************************)
(* Any number of transactions at the same time.  The inductive invariant,  *)
(* part by part.                                                           *)
(***************************************************************************)
\* Nothing is inserted before the check; the row a transaction is in the middle of
\* is one that it inserted; the streak is only touched for an active one.
RowAtHand(h) ==
    /\ tx[h].pc = "check" => tx[h].fresh = {}
    /\ tx[h].pc \in {"rollup", "read", "write"} => tx[h].row \in tx[h].fresh
    /\ tx[h].pc \in {"read", "write"} => tx[h].row.active

\* What a transaction has inserted is nobody else's: neither committed nor
\* inserted by another transaction of the device.
FreshIsNew(h) ==
    \A r \in tx[h].fresh :
        /\ <<tx[h].dev, r>> \notin stored
        /\ \A u \in Others(h) : tx[u].dev = tx[h].dev => r \notin tx[u].fresh

\* A row that a request is done with is in the table when it commits.
DoneIsThere(h) ==
    \A r \in tx[h].batch \ tx[h].todo : r \in tx[h].fresh \/ <<tx[h].dev, r>> \in stored

\* Minutes in which the device of h has a committed active row.
ActiveBefore(h) == {r.min : r \in {q \in Row : <<tx[h].dev, q>> \in stored /\ q.active}}

\* Of the rows of a minute at most one is counted, and none if the minute was
\* active before; a minute with an active row that is rolled up is one of these.
MinutesOnce(h) ==
    /\ \A q, r \in tx[h].counted : q.min = r.min => q = r
    /\ \A r \in tx[h].counted : r.min \notin tx[h].already
    /\ \A r \in ActiveOf(Rolled(h)) : r.min \in tx[h].already \cup Minutes(tx[h].counted)
    /\ tx[h].already \subseteq ActiveBefore(h)

\* As long as no two requests of a device overlap, what a request has found to be
\* active is all that is.
AloneIsSure(h) ==
    ~overlapped /\ Serving(h) =>
        /\ \A u \in Others(h) : tx[u].dev # tx[h].dev
        /\ tx[h].pc # "check" =>
             ActiveBefore(h) \cap Minutes(tx[h].batch) \subseteq tx[h].already

ActiveDays == {DayOf(x[2].min) : x \in {y \in stored : y[2].active}}
HeldDays(h) == ActiveDays \cup {DayOf(r.min) : r \in ActiveOf(tx[h].fresh)}

\* The streak a transaction has read or written happened, if its own rows count.
StreaksHeld(h) == Happened(tx[h].read, HeldDays(h)) /\ Happened(tx[h].wrote, HeldDays(h))

TxInv(h) ==
    /\ RowAtHand(h) /\ FreshIsNew(h) /\ DoneIsThere(h)
    /\ MinutesOnce(h) /\ AloneIsSure(h) /\ StreaksHeld(h)

IngestInv ==
    /\ TypeOK /\ IsFiniteSet(stored)
    /\ \A h \in Handlers : TxInv(h)
    /\ RollupsExact /\ MinutesCounted /\ StreakHappened

-----------------------------------------------------------------------------
\* What each statement changes of its transaction; the others stay as they are.
Only(h) ==
    /\ tx' = [u \in Handlers |-> tx'[u]]
    /\ \A u \in Handlers \ {h} : tx'[u] = tx[u]
    /\ LET t == tx'[h]
       IN  t = [pc |-> t.pc, dev |-> t.dev, batch |-> t.batch, todo |-> t.todo,
                row |-> t.row, already |-> t.already, counted |-> t.counted,
                fresh |-> t.fresh, read |-> t.read, wrote |-> t.wrote]
Keeps(h, fields) == \A f \in fields : tx'[h][f] = tx[h][f]

LEMMA TxFields ==
    ASSUME TypeOK, NEW h \in Handlers
    PROVE  /\ DOMAIN tx = Handlers
           /\ tx = [u \in Handlers |-> tx[u]]
           /\ LET t == tx[h]
              IN  t = [pc |-> t.pc, dev |-> t.dev, batch |-> t.batch, todo |-> t.todo,
                       row |-> t.row, already |-> t.already, counted |-> t.counted,
                       fresh |-> t.fresh, read |-> t.read, wrote |-> t.wrote]
           /\ DOMAIN tx[h] = {"pc", "dev", "batch", "todo", "row", "already", "counted",
                              "fresh", "read", "wrote"}
           /\ tx[h].pc \in {"idle", "check", "rows", "rollup", "read", "write"}
           /\ tx[h].batch \subseteq Row /\ tx[h].todo \subseteq Row
           /\ tx[h].counted \subseteq Row /\ tx[h].fresh \subseteq Row
           /\ tx[h].row \in Row \cup {None}
           /\ tx[h].read \in StreakRow(Days) /\ tx[h].wrote \in StreakRow(Days)
  <1>1. tx \in [Handlers -> Transaction]
    BY DEF TypeOK
  <1>2. DOMAIN tx = Handlers /\ tx = [u \in Handlers |-> tx[u]] /\ tx[h] \in Transaction
    BY <1>1
  <1> DEFINE t == tx[h]
  <1>3. /\ t = [pc |-> t.pc, dev |-> t.dev, batch |-> t.batch, todo |-> t.todo,
                row |-> t.row, already |-> t.already, counted |-> t.counted,
                fresh |-> t.fresh, read |-> t.read, wrote |-> t.wrote]
        /\ DOMAIN t = {"pc", "dev", "batch", "todo", "row", "already", "counted",
                       "fresh", "read", "wrote"}
    BY <1>2 DEF Transaction
  <1>4. QED
    BY <1>2, <1>3 DEF Transaction

LEMMA BeginEffect ==
    ASSUME TypeOK, NEW h \in Handlers, NEW d, NEW B, Begin(h, d, B)
    PROVE  /\ Only(h)
           /\ tx'[h].pc = "check" /\ tx'[h].dev = d /\ tx'[h].batch = B /\ tx'[h].todo = B
           /\ tx'[h].row = None /\ tx'[h].already = {} /\ tx'[h].counted = {}
           /\ tx'[h].fresh = {} /\ tx'[h].read = NoStreak /\ tx'[h].wrote = NoStreak
  BY TxFields DEF Begin, Only, NoTx

LEMMA CheckEffect ==
    ASSUME TypeOK, NEW h \in Handlers, CheckActive(h)
    PROVE  /\ Only(h) /\ tx'[h].pc = "rows"
           /\ tx'[h].already = Minutes(ActiveOf(StoredOf(tx[h].dev))) \cap Minutes(tx[h].batch)
           /\ Keeps(h, {"dev", "batch", "todo", "row", "counted", "fresh", "read", "wrote"})
  BY TxFields DEF CheckActive, Only, Keeps

LEMMA SkipEffect ==
    ASSUME TypeOK, NEW h \in Handlers, NEW r, SkipRow(h, r)
    PROVE  /\ Only(h) /\ tx'[h].todo = tx[h].todo \ {r}
           /\ Keeps(h, {"pc", "dev", "batch", "row", "already", "counted", "fresh", "read",
                        "wrote"})
  BY TxFields DEF SkipRow, Only, Keeps

LEMMA InsertEffect ==
    ASSUME TypeOK, NEW h \in Handlers, NEW r, InsertRow(h, r)
    PROVE  /\ Only(h) /\ tx'[h].pc = "rollup" /\ tx'[h].row = r
           /\ tx'[h].todo = tx[h].todo \ {r} /\ tx'[h].fresh = tx[h].fresh \cup {r}
           /\ Keeps(h, {"dev", "batch", "already", "counted", "read", "wrote"})
  BY TxFields, ZenonT(40) DEF InsertRow, Only, Keeps

LEMMA RollUpEffect ==
    ASSUME TypeOK, NEW h \in Handlers, RollUp(h)
    PROVE  /\ Only(h)
           /\ tx'[h].pc = IF tx[h].row.active THEN "read" ELSE "rows"
           /\ tx'[h].counted =
                IF tx[h].row.active /\ tx[h].row.min \notin tx[h].already \cup Minutes(tx[h].counted)
                THEN tx[h].counted \cup {tx[h].row} ELSE tx[h].counted
           /\ Keeps(h, {"dev", "batch", "todo", "row", "already", "fresh", "read", "wrote"})
  BY TxFields, ZenonT(40) DEF RollUp, Only, Keeps

LEMMA ReadEffect ==
    ASSUME TypeOK, NEW h \in Handlers, ReadStreak(h)
    PROVE  /\ Only(h) /\ tx'[h].pc \in {"rows", "write"}
           /\ tx'[h].read \in {tx[h].wrote, streak}
           /\ Keeps(h, {"dev", "batch", "todo", "row", "already", "counted", "fresh", "wrote"})
  BY TxFields, ZenonT(40) DEF ReadStreak, Only, Keeps

LEMMA WriteEffect ==
    ASSUME TypeOK, NEW h \in Handlers, WriteStreak(h)
    PROVE  /\ Only(h) /\ tx'[h].pc = "rows"
           /\ tx'[h].wrote = UpdatedStreak(tx[h].read, DayOf(tx[h].row.min))
           /\ Keeps(h, {"dev", "batch", "todo", "row", "already", "counted", "fresh", "read"})
  BY TxFields DEF WriteStreak, Only, Keeps

LEMMA EndEffect ==
    ASSUME TypeOK, NEW h \in Handlers, Commit(h) \/ Rollback(h)
    PROVE  Only(h) /\ tx'[h] = NoTx
  <1>1. DOMAIN tx = Handlers /\ tx' = [tx EXCEPT ![h] = NoTx]
    BY TxFields DEF Commit, Rollback
  <1>2. tx' = [u \in Handlers |-> IF u = h THEN NoTx ELSE tx[u]]
    BY <1>1
  <1>3. /\ tx'[h] = NoTx
        /\ tx' = [u \in Handlers |-> tx'[u]]
        /\ \A u \in Handlers \ {h} : tx'[u] = tx[u]
    BY <1>2
  <1>4. QED
    BY <1>3 DEF Only, NoTx

-----------------------------------------------------------------------------
\* What TypeOK says of one transaction.
Local(t) ==
    /\ t \in Transaction
    /\ IF t.pc # "idle"
       THEN /\ t.dev \in Devices
            /\ t.batch \subseteq Recorded[t.dev]
            /\ t.todo \cup t.fresh \subseteq t.batch
            /\ t.row \in t.fresh \cup {None}
            /\ t.already \subseteq Minutes(t.batch)
            /\ t.counted \subseteq ActiveOf(t.fresh)
       ELSE t = NoTx

LEMMA LocalTypes ==
    ASSUME TypeOK, NEW h \in Handlers
    PROVE  Local(tx[h])
  BY DEF TypeOK, Local, Serving

\* A step of one transaction that does not touch the tables: it has to see to its
\* own part of the invariant.
LEMMA QuietStep ==
    ASSUME IngestInv, NEW h \in Handlers, Only(h), UNCHANGED <<stored, rollups, streak>>,
           overlapped' \in BOOLEAN, overlapped => overlapped',
           Local(tx'[h]), TxInv(h)'
    PROVE  IngestInv'
  <1>1. \A u \in Handlers : Local(tx'[u])
    BY LocalTypes DEF IngestInv, Only
  <1>2. TypeOK'
    <2>1. tx' \in [Handlers -> Transaction]
      BY <1>1 DEF Only, Local
    <2>2. QED
      BY <1>1, <2>1 DEF IngestInv, TypeOK, Local, Serving
  <1>3. ASSUME NEW u \in Handlers, u # h
        PROVE  TxInv(u)'
    <2>1. tx'[u] = tx[u] /\ TxInv(u)
      BY <1>3 DEF Only, IngestInv
    <2>2. \A v \in Others(u)' : v # h => v \in Others(u) /\ tx'[v] = tx[v]
      BY DEF Others, Serving, Only
    <2>3. h \in Others(u)' => Serving(h)'
      BY DEF Others
    <2>4. Serving(u)' => u \in Others(h)'
      BY <1>3 DEF Others
    <2>5. RowAtHand(u)' /\ DoneIsThere(u)'
      BY <2>1 DEF TxInv, RowAtHand, DoneIsThere
    <2>6. MinutesOnce(u)'
      BY <2>1 DEF TxInv, MinutesOnce, Rolled, ActiveBefore
    <2>7. StreaksHeld(u)'
      BY <2>1 DEF TxInv, StreaksHeld, HeldDays, ActiveDays
    <2>8. FreshIsNew(u)'
      <3>1. ASSUME NEW r \in tx'[u].fresh, NEW v \in Others(u)', tx'[v].dev = tx'[u].dev
            PROVE  r \notin tx'[v].fresh
        <4>1. CASE v # h
          BY <2>1, <2>2, <3>1, <4>1 DEF TxInv, FreshIsNew
        <4>2. CASE v = h
          <5>1. Serving(u)'
            BY <1>1, <3>1 DEF Local, Serving, NoTx
          <5>2. QED
            BY <2>4, <3>1, <4>2, <5>1 DEF TxInv, FreshIsNew
        <4>3. QED
          BY <4>1, <4>2
      <3>2. QED
        BY <2>1, <3>1 DEF TxInv, FreshIsNew
    <2>9. AloneIsSure(u)'
      <3>1. ASSUME ~overlapped', Serving(u)', NEW v \in Others(u)'
            PROVE  tx'[v].dev # tx'[u].dev
        <4>1. CASE v # h
          BY <2>1, <2>2, <3>1, <4>1 DEF TxInv, AloneIsSure, Serving
        <4>2. CASE v = h
          BY <2>3, <2>4, <3>1, <4>2 DEF TxInv, AloneIsSure
        <4>3. QED
          BY <4>1, <4>2
      <3>2. QED
        BY <2>1, <3>1 DEF TxInv, AloneIsSure, ActiveBefore, Serving
    <2>10. QED
      BY <2>5, <2>6, <2>7, <2>8, <2>9 DEF TxInv
  <1>4. RollupsExact' /\ MinutesCounted' /\ StreakHappened'
    BY DEF IngestInv, RollupsExact, MinutesCounted, NoMinuteMissed, MinutesExactAlone,
           StreakHappened, StoredOn, ActiveMinutes
  <1>5. QED
    BY <1>2, <1>3, <1>4 DEF IngestInv

LEMMA InvOf ==
    ASSUME IngestInv, NEW h \in Handlers
    PROVE  TypeOK /\ TxInv(h) /\ Local(tx[h])
  BY LocalTypes DEF IngestInv

LEMMA NoStreakHappened == \A days : Happened(NoStreak, days)
  BY DEF Happened

\* An idle transaction has nothing to see to.
LEMMA IdleIsFine == \A h \in Handlers : tx[h] = NoTx => TxInv(h) /\ Local(tx[h])
  <1> SUFFICES ASSUME NEW h \in Handlers, tx[h] = NoTx
               PROVE  TxInv(h) /\ Local(tx[h])
    OBVIOUS
  <1>1. Local(tx[h])
    BY DEF Local, NoTx, Transaction, StreakRow
  <1>2. RowAtHand(h) /\ FreshIsNew(h) /\ DoneIsThere(h) /\ MinutesOnce(h) /\ AloneIsSure(h)
    BY DEF NoTx, RowAtHand, FreshIsNew, DoneIsThere, MinutesOnce, AloneIsSure, ActiveOf,
           Rolled, Serving
  <1>3. StreaksHeld(h)
    BY NoStreakHappened DEF StreaksHeld, NoTx
  <1>4. QED
    BY <1>1, <1>2, <1>3 DEF TxInv

LEMMA IngestInitInv == Init => IngestInv
  <1> SUFFICES ASSUME Init PROVE IngestInv
    OBVIOUS
  <1>1. \A h \in Handlers : TxInv(h) /\ Local(tx[h])
    BY IdleIsFine DEF Init
  <1>2. TypeOK
    <2>1. tx \in [Handlers -> Transaction]
      BY <1>1 DEF Init, Local
    <2>2. QED
      BY <1>1, <2>1 DEF TypeOK, Init, Local, Serving, StreakRow
  <1>3. IsFiniteSet(stored) /\ Cardinality({}) = 0
    BY FS_EmptySet DEF Init
  <1>4. \A day \in Days : StoredOn(day) = {} /\ ActiveMinutes(day) = {}
    BY DEF Init, StoredOn, ActiveMinutes
  <1>5. RollupsExact /\ MinutesCounted
    <2>1. \A day \in Days : rollups[day].rows = 0 /\ rollups[day].minutes = 0
      BY DEF Init
    <2>2. RollupsExact
      BY <1>3, <1>4, <2>1 DEF RollupsExact
    <2>3. \A day \in Days : rollups[day].minutes = Cardinality(ActiveMinutes(day))
      BY <1>3, <1>4, <2>1
    <2>4. \A day \in Days : rollups[day].minutes >= Cardinality(ActiveMinutes(day))
      BY <2>1, <2>3
    <2>5. QED
      BY <2>2, <2>3, <2>4 DEF MinutesCounted, NoMinuteMissed, MinutesExactAlone
  <1>6. StreakHappened
    BY NoStreakHappened DEF Init, StreakHappened
  <1>7. QED
    BY <1>1, <1>2, <1>3, <1>5, <1>6 DEF IngestInv

LEMMA BeginStep ==
    ASSUME IngestInv, NEW h \in Handlers, NEW d \in Devices, NEW B \in SUBSET Recorded[d],
           Begin(h, d, B)
    PROVE  IngestInv'
  <1> DEFINE t == tx'[h]
  <1>1. TypeOK
    BY InvOf
  <1>2. /\ Only(h) /\ t.pc = "check" /\ t.dev = d /\ t.batch = B /\ t.todo = B
        /\ t.row = None /\ t.already = {} /\ t.counted = {}
        /\ t.fresh = {} /\ t.read = NoStreak /\ t.wrote = NoStreak
    BY <1>1, BeginEffect
  <1>3. Recorded[d] \subseteq Row
    BY IngestAssumption
  <1>4. Local(t)
    <2>1. t \in Transaction
      BY <1>2, <1>3 DEF Only, Transaction, StreakRow
    <2>2. QED
      BY <1>2, <2>1 DEF Local
  <1>5. RowAtHand(h)' /\ FreshIsNew(h)' /\ DoneIsThere(h)' /\ MinutesOnce(h)'
    BY <1>2 DEF RowAtHand, FreshIsNew, DoneIsThere, MinutesOnce, ActiveOf, Rolled
  <1>6. AloneIsSure(h)'
    <2>1. \A u \in Others(h)' : u \in Others(h) /\ tx'[u] = tx[u]
      BY <1>2 DEF Others, Serving, Only
    <2>2. QED
      BY <1>2, <2>1 DEF AloneIsSure, Begin
  <1>7. StreaksHeld(h)'
    BY <1>2, NoStreakHappened DEF StreaksHeld
  <1>8. overlapped' \in BOOLEAN /\ (overlapped => overlapped')
    BY <1>1 DEF Begin, TypeOK
  <1>9. QED
    BY <1>2, <1>4, <1>5, <1>6, <1>7, <1>8, QuietStep DEF Begin, TxInv

LEMMA CheckStep ==
    ASSUME IngestInv, NEW h \in Handlers, CheckActive(h)
    PROVE  IngestInv'
  <1> DEFINE t == tx'[h]
  <1>1. /\ TypeOK /\ TxInv(h) /\ Local(tx[h]) /\ tx[h].pc = "check"
        /\ UNCHANGED <<stored, rollups, streak, overlapped>>
    BY InvOf DEF CheckActive
  <1>2. /\ Only(h) /\ t.pc = "rows"
        /\ t.already = Minutes(ActiveOf(StoredOf(tx[h].dev))) \cap Minutes(tx[h].batch)
        /\ Keeps(h, {"dev", "batch", "todo", "row", "counted", "fresh", "read", "wrote"})
    BY <1>1, CheckEffect
  <1>3. /\ t.dev = tx[h].dev /\ t.batch = tx[h].batch /\ t.todo = tx[h].todo
        /\ t.row = tx[h].row /\ t.counted = tx[h].counted /\ t.fresh = tx[h].fresh
        /\ t.read = tx[h].read /\ t.wrote = tx[h].wrote
    BY <1>2 DEF Keeps
  <1>4. /\ tx[h].dev \in Devices /\ tx[h].fresh = {} /\ tx[h].counted = {}
        /\ tx[h].batch \subseteq Row
    BY <1>1, TxFields DEF Local, TxInv, RowAtHand, ActiveOf
  \* What the SELECT finds is what is stored of the batch's minutes.
  <1>5. t.already = ActiveBefore(h) \cap Minutes(tx[h].batch)
    <2>1. StoredOf(tx[h].dev) = {r \in Row : <<tx[h].dev, r>> \in stored}
      <3>1. Recorded[tx[h].dev] \subseteq Row
        BY <1>4, IngestAssumption
      <3>2. \A r : <<tx[h].dev, r>> \in stored => r \in Recorded[tx[h].dev]
        BY <1>1 DEF TypeOK
      <3>3. QED
        BY <3>1, <3>2 DEF StoredOf
    <2>2. QED
      BY <1>2, <2>1 DEF Minutes, ActiveOf, ActiveBefore
  <1>6. ActiveBefore(h)' = ActiveBefore(h)
    BY <1>1, <1>3 DEF ActiveBefore
  <1>7. Local(t)
    <2>1. t \in Transaction
      <3>1. t.already \subseteq Nat
        BY <1>2, <1>4 DEF Minutes, Row
      <3>2. QED
        BY <1>1, <1>2, <1>3, <3>1 DEF Local, Only, Transaction
    <2>2. QED
      BY <1>1, <1>2, <1>3, <2>1 DEF Local
  <1>8. RowAtHand(h)' /\ FreshIsNew(h)' /\ DoneIsThere(h)'
    <2>1. RowAtHand(h)' /\ FreshIsNew(h)'
      BY <1>2, <1>3, <1>4 DEF RowAtHand, FreshIsNew
    <2>2. DoneIsThere(h)'
      BY <1>1, <1>3, <1>4 DEF DoneIsThere, TxInv
    <2>3. QED
      BY <2>1, <2>2
  <1>9. MinutesOnce(h)'
    BY <1>2, <1>3, <1>4, <1>5, <1>6 DEF MinutesOnce, Rolled, ActiveOf
  <1>10. AloneIsSure(h)'
    <2>1. \A u \in Others(h)' : u \in Others(h) /\ tx'[u] = tx[u]
      BY <1>2 DEF Others, Serving, Only
    <2>2. QED
      BY <1>1, <1>2, <1>3, <1>5, <1>6, <2>1
         DEF AloneIsSure, TxInv, Serving
  <1>11. StreaksHeld(h)'
    BY <1>1, <1>3 DEF StreaksHeld, TxInv, HeldDays, ActiveDays
  <1>12. overlapped' \in BOOLEAN /\ (overlapped => overlapped')
    BY <1>1 DEF TypeOK
  <1>13. QED
    BY <1>1, <1>2, <1>7, <1>8, <1>9, <1>10, <1>11, <1>12, QuietStep DEF TxInv

\* A step that leaves fresh, batch and already, and the tables: the rest of the
\* invariant is for the step to see to.
LEMMA QuietKeeps ==
    ASSUME IngestInv, NEW h \in Handlers, Only(h), UNCHANGED <<stored, overlapped>>,
           Serving(h), tx[h].pc # "check", tx'[h].pc \notin {"idle", "check"},
           Keeps(h, {"dev", "batch", "already"})
    PROVE  /\ AloneIsSure(h)'
           /\ ActiveBefore(h)' = ActiveBefore(h) /\ ActiveDays' = ActiveDays
           /\ overlapped' \in BOOLEAN /\ (overlapped => overlapped')
           /\ Serving(h)'
  <1>1. \A u \in Others(h)' : u \in Others(h) /\ tx'[u] = tx[u]
    BY DEF Others, Serving, Only
  <1>2. tx'[h].dev = tx[h].dev /\ tx'[h].batch = tx[h].batch /\ tx'[h].already = tx[h].already
    BY DEF Keeps
  <1>3. ActiveBefore(h)' = ActiveBefore(h)
    BY <1>2 DEF ActiveBefore
  <1>4. QED
    BY <1>1, <1>2, <1>3 DEF AloneIsSure, IngestInv, TxInv, ActiveDays, TypeOK, Serving

LEMMA SkipStep ==
    ASSUME IngestInv, NEW h \in Handlers, NEW r \in tx[h].todo, SkipRow(h, r)
    PROVE  IngestInv'
  <1> DEFINE t == tx'[h]
  <1>1. /\ TypeOK /\ TxInv(h) /\ Local(tx[h]) /\ tx[h].pc = "rows" /\ Serving(h)
        /\ UNCHANGED <<stored, rollups, streak, overlapped>>
        /\ <<tx[h].dev, r>> \in stored
    BY InvOf DEF SkipRow, Serving
  <1>2. /\ Only(h) /\ t.todo = tx[h].todo \ {r}
        /\ Keeps(h, {"pc", "dev", "batch", "row", "already", "counted", "fresh", "read",
                     "wrote"})
    BY <1>1, SkipEffect
  <1>3. /\ t.pc = tx[h].pc /\ t.dev = tx[h].dev /\ t.batch = tx[h].batch
        /\ t.row = tx[h].row /\ t.already = tx[h].already /\ t.counted = tx[h].counted
        /\ t.fresh = tx[h].fresh /\ t.read = tx[h].read /\ t.wrote = tx[h].wrote
    BY <1>2 DEF Keeps
  <1>4. /\ AloneIsSure(h)' /\ ActiveBefore(h)' = ActiveBefore(h) /\ ActiveDays' = ActiveDays
        /\ overlapped' \in BOOLEAN /\ (overlapped => overlapped')
    BY <1>1, <1>2, <1>3, QuietKeeps DEF Keeps
  <1>5. Local(t)
    BY <1>1, <1>2, <1>3 DEF Local, Only, Transaction
  <1>6. DoneIsThere(h)'
    BY <1>1, <1>2, <1>3 DEF DoneIsThere, TxInv
  <1>7. RowAtHand(h)' /\ FreshIsNew(h)'
    <2>1. \A u \in Others(h)' : u \in Others(h) /\ tx'[u] = tx[u]
      BY <1>2 DEF Others, Serving, Only
    <2>2. QED
      BY <1>1, <1>3, <2>1 DEF RowAtHand, FreshIsNew, TxInv
  <1>8. MinutesOnce(h)' /\ StreaksHeld(h)'
    BY <1>1, <1>3, <1>4 DEF MinutesOnce, Rolled, StreaksHeld, HeldDays, TxInv
  <1>9. QED
    BY <1>1, <1>2, <1>4, <1>5, <1>6, <1>7, <1>8, QuietStep DEF TxInv

LEMMA InsertStep ==
    ASSUME IngestInv, NEW h \in Handlers, NEW r \in tx[h].todo, InsertRow(h, r)
    PROVE  IngestInv'
  <1> DEFINE t == tx'[h]
  <1>1. /\ TypeOK /\ TxInv(h) /\ Local(tx[h]) /\ tx[h].pc = "rows" /\ Serving(h)
        /\ UNCHANGED <<stored, rollups, streak, overlapped>>
        /\ <<tx[h].dev, r>> \notin stored
        /\ \A u \in Others(h) : tx[u].dev = tx[h].dev => r \notin tx[u].fresh
    BY InvOf DEF InsertRow, Serving
  <1>2. /\ Only(h) /\ t.pc = "rollup" /\ t.row = r /\ t.todo = tx[h].todo \ {r}
        /\ t.fresh = tx[h].fresh \cup {r}
        /\ Keeps(h, {"dev", "batch", "already", "counted", "read", "wrote"})
    BY <1>1, InsertEffect
  <1>3. /\ t.dev = tx[h].dev /\ t.batch = tx[h].batch /\ t.already = tx[h].already
        /\ t.counted = tx[h].counted /\ t.read = tx[h].read /\ t.wrote = tx[h].wrote
    BY <1>2 DEF Keeps
  <1>4. /\ AloneIsSure(h)' /\ ActiveBefore(h)' = ActiveBefore(h) /\ ActiveDays' = ActiveDays
        /\ overlapped' \in BOOLEAN /\ (overlapped => overlapped')
    BY <1>1, <1>2, <1>3, QuietKeeps DEF Keeps
  <1>5. Local(t)
    BY <1>1, <1>2, <1>3 DEF Local, Only, Transaction, ActiveOf
  <1>6. DoneIsThere(h)' /\ RowAtHand(h)'
    <2>1. DoneIsThere(h)'
      BY <1>1, <1>2, <1>3 DEF DoneIsThere, TxInv
    <2>2. RowAtHand(h)'
      BY <1>2 DEF RowAtHand
    <2>3. QED
      BY <2>1, <2>2
  <1>7. FreshIsNew(h)'
    <2>1. \A u \in Others(h)' : u \in Others(h) /\ tx'[u] = tx[u]
      BY <1>2 DEF Others, Serving, Only
    <2>2. QED
      BY <1>1, <1>2, <1>3, <2>1 DEF FreshIsNew, TxInv
  <1>8. MinutesOnce(h)'
    <2>1. Rolled(h)' \subseteq Rolled(h)
      BY <1>1, <1>2 DEF Rolled
    <2>2. QED
      BY <1>1, <1>3, <1>4, <2>1 DEF MinutesOnce, TxInv, ActiveOf
  <1>9. StreaksHeld(h)'
    <2>1. HeldDays(h) \subseteq HeldDays(h)'
      BY <1>2, <1>4 DEF HeldDays, ActiveOf
    <2>2. QED
      BY <1>1, <1>3, <2>1, HappenedGrows DEF StreaksHeld, TxInv
  <1>10. QED
    BY <1>1, <1>2, <1>4, <1>5, <1>6, <1>7, <1>8, <1>9, QuietStep DEF TxInv

LEMMA RollUpStep ==
    ASSUME IngestInv, NEW h \in Handlers, RollUp(h)
    PROVE  IngestInv'
  <1> DEFINE t == tx'[h]
             r == tx[h].row
             first == r.active /\ r.min \notin tx[h].already \cup Minutes(tx[h].counted)
  <1>1. /\ TypeOK /\ TxInv(h) /\ Local(tx[h]) /\ tx[h].pc = "rollup" /\ Serving(h)
        /\ UNCHANGED <<stored, rollups, streak, overlapped>>
    BY InvOf DEF RollUp, Serving
  <1>2. /\ Only(h) /\ t.pc = IF r.active THEN "read" ELSE "rows"
        /\ t.counted = IF first THEN tx[h].counted \cup {r} ELSE tx[h].counted
        /\ Keeps(h, {"dev", "batch", "todo", "row", "already", "fresh", "read", "wrote"})
    BY <1>1, RollUpEffect
  <1>3. /\ t.dev = tx[h].dev /\ t.batch = tx[h].batch /\ t.todo = tx[h].todo
        /\ t.row = r /\ t.already = tx[h].already /\ t.fresh = tx[h].fresh
        /\ t.read = tx[h].read /\ t.wrote = tx[h].wrote
    BY <1>2 DEF Keeps
  <1>4. r \in tx[h].fresh /\ r \in Row
    BY <1>1, TxFields DEF TxInv, RowAtHand
  <1>5. /\ AloneIsSure(h)' /\ ActiveBefore(h)' = ActiveBefore(h) /\ ActiveDays' = ActiveDays
        /\ overlapped' \in BOOLEAN /\ (overlapped => overlapped')
    BY <1>1, <1>2, <1>3, QuietKeeps DEF Keeps
  <1>6. Local(t)
    <2>1. t.pc \in {"read", "rows"}
      BY <1>2
    <2>2. t.counted \subseteq ActiveOf(t.fresh) /\ t.counted \subseteq Row
      BY <1>1, <1>2, <1>3, <1>4 DEF Local, ActiveOf, Transaction
    <2>3. QED
      BY <1>1, <1>2, <1>3, <2>1, <2>2 DEF Local, Only, Transaction
  <1>7. DoneIsThere(h)'
    BY <1>1, <1>3 DEF DoneIsThere, TxInv
  <1>8. RowAtHand(h)'
    BY <1>1, <1>2, <1>3, <1>4 DEF RowAtHand, TxInv
  <1>9. FreshIsNew(h)'
    <2>1. \A u \in Others(h)' : u \in Others(h) /\ tx'[u] = tx[u]
      BY <1>2 DEF Others, Serving, Only
    <2>2. QED
      BY <1>1, <1>3, <2>1 DEF FreshIsNew, TxInv
  <1>10. MinutesOnce(h)'
    <2>1. \A q \in tx[h].counted : q.min \in Minutes(tx[h].counted)
      BY DEF Minutes
    <2>2. /\ \A p, q \in t.counted : p.min = q.min => p = q
          /\ \A q \in t.counted : q.min \notin t.already
      BY <1>1, <1>2, <1>3, <2>1 DEF MinutesOnce, TxInv
    <2>3. t.already \subseteq ActiveBefore(h)'
      BY <1>1, <1>3, <1>5 DEF MinutesOnce, TxInv
    <2>4. Minutes(tx[h].counted) \subseteq Minutes(t.counted)
      BY <1>2 DEF Minutes
    <2>5. r.active => r.min \in t.already \cup Minutes(t.counted)
      BY <1>2, <1>3, <2>4 DEF Minutes
    <2>6. Rolled(h)' = Rolled(h) \cup {r}
      BY <1>1, <1>2, <1>3, <1>4 DEF Rolled
    <2>7. \A q \in ActiveOf(Rolled(h)') : q.min \in t.already \cup Minutes(t.counted)
      BY <1>1, <1>3, <2>4, <2>5, <2>6 DEF MinutesOnce, TxInv, ActiveOf
    <2>8. QED
      BY <2>2, <2>3, <2>7 DEF MinutesOnce
  <1>11. StreaksHeld(h)'
    BY <1>1, <1>3, <1>5 DEF StreaksHeld, HeldDays, TxInv
  <1>12. QED
    BY <1>1, <1>2, <1>5, <1>6, <1>7, <1>8, <1>9, <1>10, <1>11, QuietStep DEF TxInv

\* The parts of the invariant that the streak has no part in.
LEMMA StreakStep ==
    ASSUME IngestInv, NEW h \in Handlers, tx[h].pc \in {"read", "write"}, Only(h),
           tx'[h].pc \in {"rows", "write"},
           tx'[h].read \in StreakRow(Days), tx'[h].wrote \in StreakRow(Days),
           Keeps(h, {"dev", "batch", "todo", "row", "already", "counted", "fresh"}),
           UNCHANGED <<stored, rollups, streak, overlapped>>,
           Happened(tx'[h].read, HeldDays(h)), Happened(tx'[h].wrote, HeldDays(h))
    PROVE  IngestInv'
  <1> DEFINE t == tx'[h]
  <1>1. TypeOK /\ TxInv(h) /\ Local(tx[h]) /\ Serving(h)
    BY InvOf DEF Serving
  <1>2. /\ t.dev = tx[h].dev /\ t.batch = tx[h].batch /\ t.todo = tx[h].todo
        /\ t.row = tx[h].row /\ t.already = tx[h].already /\ t.counted = tx[h].counted
        /\ t.fresh = tx[h].fresh
    BY DEF Keeps
  <1>3. /\ AloneIsSure(h)' /\ ActiveBefore(h)' = ActiveBefore(h) /\ ActiveDays' = ActiveDays
        /\ overlapped' \in BOOLEAN /\ (overlapped => overlapped')
    BY <1>1, QuietKeeps DEF Keeps
  <1>4. Local(t)
    BY <1>1, <1>2 DEF Local, Only, Transaction
  <1>5. DoneIsThere(h)' /\ RowAtHand(h)'
    BY <1>1, <1>2 DEF DoneIsThere, RowAtHand, TxInv
  <1>6. FreshIsNew(h)'
    <2>1. \A u \in Others(h)' : u \in Others(h) /\ tx'[u] = tx[u]
      BY DEF Others, Serving, Only
    <2>2. QED
      BY <1>1, <1>2, <2>1 DEF FreshIsNew, TxInv
  <1>7. MinutesOnce(h)'
    BY <1>1, <1>2, <1>3 DEF MinutesOnce, TxInv, Rolled, ActiveOf
  <1>8. StreaksHeld(h)'
    BY <1>2, <1>3 DEF StreaksHeld, HeldDays
  <1>9. QED
    BY <1>3, <1>4, <1>5, <1>6, <1>7, <1>8, QuietStep DEF TxInv

LEMMA ReadStep ==
    ASSUME IngestInv, NEW h \in Handlers, ReadStreak(h)
    PROVE  IngestInv'
  <1>1. /\ TypeOK /\ TxInv(h) /\ tx[h].pc = "read"
        /\ UNCHANGED <<stored, rollups, streak, overlapped>>
    BY InvOf DEF ReadStreak
  <1>2. /\ Only(h) /\ tx'[h].pc \in {"rows", "write"} /\ tx'[h].read \in {tx[h].wrote, streak}
        /\ Keeps(h, {"dev", "batch", "todo", "row", "already", "counted", "fresh", "wrote"})
    BY <1>1, ReadEffect
  <1>3. tx'[h].wrote = tx[h].wrote
    BY <1>2 DEF Keeps
  <1>4. /\ tx[h].wrote \in StreakRow(Days) /\ streak \in StreakRow(Days)
        /\ Happened(tx[h].wrote, HeldDays(h))
    BY <1>1, TxFields DEF TypeOK, TxInv, StreaksHeld
  <1>5. Happened(streak, HeldDays(h))
    BY HappenedGrows DEF IngestInv, StreakHappened, HeldDays, ActiveDays
  <1>6. QED
    BY <1>1, <1>2, <1>3, <1>4, <1>5, StreakStep DEF Keeps

LEMMA DaysAreInts == Days \in SUBSET Int
  <1> SUFFICES ASSUME NEW d \in Devices, NEW r \in Recorded[d] PROVE DayOf(r.min) \in Int
    BY DEF Days
  <1>1. r.min \in Nat /\ MinutesPerDay \in Nat \ {0}
    BY IngestAssumption DEF Row
  <1>2. QED
    BY <1>1 DEF DayOf

LEMMA WriteStep ==
    ASSUME IngestInv, NEW h \in Handlers, WriteStreak(h)
    PROVE  IngestInv'
  <1> DEFINE r == tx[h].row
             new == UpdatedStreak(tx[h].read, DayOf(r.min))
  <1>1. /\ TypeOK /\ TxInv(h) /\ Local(tx[h]) /\ tx[h].pc = "write"
        /\ UNCHANGED <<stored, rollups, streak, overlapped>>
    BY InvOf DEF WriteStreak
  <1>2. /\ Only(h) /\ tx'[h].pc = "rows" /\ tx'[h].wrote = new
        /\ Keeps(h, {"dev", "batch", "todo", "row", "already", "counted", "fresh", "read"})
    BY <1>1, WriteEffect
  <1>3. tx'[h].read = tx[h].read
    BY <1>2 DEF Keeps
  <1>4. /\ r \in tx[h].fresh /\ r.active /\ tx[h].read \in StreakRow(Days)
        /\ Happened(tx[h].read, HeldDays(h))
    BY <1>1, TxFields DEF TxInv, RowAtHand, StreaksHeld
  <1>5. DayOf(r.min) \in HeldDays(h)
    BY <1>4 DEF HeldDays, ActiveOf
  <1>6. DayOf(r.min) \in Days
    BY <1>1, <1>4 DEF Local, Days
  <1>7. new \in StreakRow(Days)
    BY <1>4, <1>6, UpdatedRow
  <1>8. Happened(new, HeldDays(h))
    <2>1. HeldDays(h) \cup {DayOf(r.min)} = HeldDays(h)
      BY <1>5
    <2>2. Happened(new, HeldDays(h) \cup {DayOf(r.min)})
      BY <1>4, <1>6, DaysAreInts, RuleInventsNothing
    <2>3. QED
      BY <2>1, <2>2
  <1>9. QED
    BY <1>1, <1>2, <1>3, <1>4, <1>7, <1>8, StreakStep DEF Keeps

\* A step that ends a transaction, or that finds it idle.
LEMMA IdleStaysFine ==
    ASSUME NEW h \in Handlers, tx'[h] = NoTx
    PROVE  TxInv(h)' /\ Local(tx'[h])
  <1>1. Local(tx'[h])
    BY DEF Local, NoTx, Transaction, StreakRow
  <1>2. RowAtHand(h)' /\ FreshIsNew(h)' /\ DoneIsThere(h)' /\ MinutesOnce(h)' /\ AloneIsSure(h)'
    BY DEF NoTx, RowAtHand, FreshIsNew, DoneIsThere, MinutesOnce, AloneIsSure, ActiveOf,
           Rolled, Serving
  <1>3. StreaksHeld(h)'
    BY NoStreakHappened DEF StreaksHeld, NoTx
  <1>4. QED
    BY <1>1, <1>2, <1>3 DEF TxInv

LEMMA RollbackStep ==
    ASSUME IngestInv, NEW h \in Handlers, Rollback(h)
    PROVE  IngestInv'
  <1>1. Only(h) /\ tx'[h] = NoTx
    BY InvOf, EndEffect
  <1>2. TxInv(h)' /\ Local(tx'[h])
    BY <1>1, IdleStaysFine
  <1>3. overlapped' \in BOOLEAN /\ (overlapped => overlapped')
    BY DEF Rollback, IngestInv, TypeOK
  <1>4. QED
    BY <1>1, <1>2, <1>3, QuietStep DEF Rollback

-----------------------------------------------------------------------------
\* The commit: how the tables grow.
LEMMA PairsCount ==
    ASSUME NEW d, NEW R, IsFiniteSet(R)
    PROVE  IsFiniteSet({d} \X R) /\ Cardinality({d} \X R) = Cardinality(R)
  <1>1. IsFiniteSet({d}) /\ Cardinality({d}) = 1
    BY FS_Singleton
  <1>2. IsFiniteSet({d} \X R) /\ Cardinality({d} \X R) = 1 * Cardinality(R)
    BY <1>1, FS_Product
  <1>3. Cardinality(R) \in Nat
    BY FS_CardinalityType
  <1>4. QED
    BY <1>2, <1>3

LEMMA MinutesCount ==
    ASSUME NEW R, IsFiniteSet(R), \A q, r \in R : q.min = r.min => q = r
    PROVE  IsFiniteSet(Minutes(R)) /\ Cardinality(Minutes(R)) = Cardinality(R)
  <1> DEFINE f == [r \in R |-> r.min]
  <1>1. f \in Bijection(R, Minutes(R))
    <2>1. f \in [R -> Minutes(R)]
      BY DEF Minutes
    <2>2. \A m \in Minutes(R) : \E r \in R : f[r] = m
      BY DEF Minutes
    <2>3. \A q, r \in R : f[q] = f[r] => q = r
      OBVIOUS
    <2> HIDE DEF f
    <2>4. f \in Injection(R, Minutes(R)) /\ f \in Surjection(R, Minutes(R))
      BY <2>1, <2>2, <2>3 DEF Injection, IsInjective, Surjection
    <2>5. QED
      BY <2>4 DEF Bijection
  <1>2. ExistsBijection(R, Minutes(R))
    BY <1>1 DEF ExistsBijection
  <1>3. QED
    BY <1>2, FS_Bijection

LEMMA DisjointUnion ==
    ASSUME NEW S, NEW T, IsFiniteSet(S), IsFiniteSet(T)
    PROVE  /\ IsFiniteSet(S \cup T)
           /\ Cardinality(S) \in Nat /\ Cardinality(T) \in Nat
           /\ Cardinality(S \cup T) \in Nat
           /\ Cardinality(S \cup T) <= Cardinality(S) + Cardinality(T)
           /\ S \cap T = {} => Cardinality(S \cup T) = Cardinality(S) + Cardinality(T)
  <1>1. /\ IsFiniteSet(S \cup T)
        /\ Cardinality(S \cup T) = Cardinality(S) + Cardinality(T) - Cardinality(S \cap T)
    BY FS_Union
  <1>2. IsFiniteSet(S \cap T)
    BY FS_Intersection
  <1>3. /\ Cardinality(S) \in Nat /\ Cardinality(T) \in Nat
        /\ Cardinality(S \cap T) \in Nat /\ Cardinality(S \cup T) \in Nat
    BY <1>1, <1>2, FS_CardinalityType
  <1>4. S \cap T = {} => Cardinality(S \cap T) = 0
    BY FS_EmptySet
  <1>5. QED
    BY <1>1, <1>3, <1>4

LEMMA StoredRows ==
    ASSUME TypeOK, NEW x \in stored
    PROVE  x = <<x[1], x[2]>> /\ x[1] \in Devices /\ x[2] \in Recorded[x[1]] /\ x[2] \in Row
  <1>1. PICK d \in Devices : x \in {d} \X Recorded[d]
    BY DEF TypeOK
  <1>2. Recorded[d] \subseteq Row
    BY IngestAssumption
  <1>3. QED
    BY <1>1, <1>2

LEMMA TablesAreFinite ==
    ASSUME IsFiniteSet(stored), NEW day
    PROVE  IsFiniteSet(StoredOn(day)) /\ IsFiniteSet(ActiveMinutes(day))
  <1> DEFINE A == {y \in StoredOn(day) : y[2].active}
             f == [x \in A |-> <<x[1], x[2].min>>]
  <1>1. StoredOn(day) \subseteq stored /\ A \subseteq stored
    BY DEF StoredOn
  <1>2. IsFiniteSet(StoredOn(day)) /\ IsFiniteSet(A)
    BY <1>1, FS_Subset
  <1>3. f \in Surjection(A, ActiveMinutes(day))
    <2>1. f \in [A -> ActiveMinutes(day)]
      BY DEF ActiveMinutes
    <2>2. \A m \in ActiveMinutes(day) : \E x \in A : f[x] = m
      BY DEF ActiveMinutes
    <2>3. QED
      BY <2>1, <2>2 DEF Surjection
  <1>4. QED
    BY <1>2, <1>3, FS_Surjection

\* A transaction that can commit.
Ready(h) == tx[h].pc = "rows" /\ tx[h].todo = {}

LEMMA CommitFacts ==
    ASSUME IngestInv, NEW h \in Handlers, Commit(h)
    PROVE  /\ TypeOK /\ TxInv(h) /\ Local(tx[h]) /\ Serving(h) /\ Ready(h)
           /\ tx[h].dev \in Devices /\ tx[h].batch \subseteq Recorded[tx[h].dev]
           /\ tx[h].fresh \subseteq tx[h].batch /\ tx[h].fresh \subseteq Row
           /\ tx[h].counted \subseteq ActiveOf(tx[h].fresh)
           /\ IsFiniteSet(tx[h].fresh) /\ IsFiniteSet(tx[h].counted)
           /\ stored' = stored \cup ({tx[h].dev} \X tx[h].fresh)
           /\ Only(h) /\ tx'[h] = NoTx /\ UNCHANGED overlapped
  <1>1. TypeOK /\ TxInv(h) /\ Local(tx[h])
    BY InvOf
  <1>2. /\ Serving(h) /\ Ready(h) /\ UNCHANGED overlapped
        /\ stored' = stored \cup ({tx[h].dev} \X tx[h].fresh)
    BY DEF Commit, Serving, Ready
  <1>3. /\ tx[h].dev \in Devices /\ tx[h].batch \subseteq Recorded[tx[h].dev]
        /\ tx[h].fresh \subseteq tx[h].batch /\ tx[h].fresh \subseteq Row
        /\ tx[h].counted \subseteq ActiveOf(tx[h].fresh)
    BY <1>1, <1>2, TxFields DEF Local, Serving
  <1>4. IsFiniteSet(tx[h].fresh) /\ IsFiniteSet(tx[h].counted)
    <2>1. IsFiniteSet(Recorded[tx[h].dev])
      BY <1>3, IngestAssumption
    <2>2. tx[h].fresh \subseteq Recorded[tx[h].dev] /\ tx[h].counted \subseteq Recorded[tx[h].dev]
      BY <1>3 DEF ActiveOf
    <2>3. QED
      BY <2>1, <2>2, FS_Subset
  <1>5. Only(h) /\ tx'[h] = NoTx
    BY <1>1, EndEffect
  <1>6. QED
    BY <1>1, <1>2, <1>3, <1>4, <1>5

\* The rollup of a day and its rows grow by the same number.
LEMMA CommitRollups ==
    ASSUME IngestInv, NEW h \in Handlers, Commit(h)
    PROVE  RollupsExact'
  <1> DEFINE d == tx[h].dev
             F == tx[h].fresh
  <1>1. /\ TypeOK /\ TxInv(h) /\ IsFiniteSet(F) /\ IsFiniteSet(stored)
        /\ stored' = stored \cup ({d} \X F) /\ RollupsExact
    BY CommitFacts DEF IngestInv
  <1> SUFFICES ASSUME NEW day \in Days
               PROVE  rollups'[day].rows = Cardinality(StoredOn(day)')
    BY DEF RollupsExact
  <1> DEFINE New == {d} \X OnDay(F, day)
  <1>2. StoredOn(day)' = StoredOn(day) \cup New
    BY <1>1 DEF StoredOn, OnDay
  <1>3. StoredOn(day) \cap New = {}
    BY <1>1 DEF StoredOn, OnDay, TxInv, FreshIsNew
  <1>4. IsFiniteSet(OnDay(F, day)) /\ IsFiniteSet(StoredOn(day))
    <2>1. OnDay(F, day) \subseteq F
      BY DEF OnDay
    <2>2. QED
      BY <1>1, <2>1, FS_Subset, TablesAreFinite
  <1>5. IsFiniteSet(New) /\ Cardinality(New) = Cardinality(OnDay(F, day))
    BY <1>4, PairsCount
  <1>6. Cardinality(StoredOn(day) \cup New) = Cardinality(StoredOn(day)) + Cardinality(New)
    BY <1>3, <1>4, <1>5, DisjointUnion
  <1>7. rollups'[day].rows = rollups[day].rows + Cardinality(OnDay(F, day))
    BY DEF Commit
  <1>8. rollups[day].rows = Cardinality(StoredOn(day))
    BY <1>1 DEF RollupsExact
  <1>9. QED
    BY <1>2, <1>5, <1>6, <1>7, <1>8

\* Every minute that is active from now on was so, or is counted by this commit;
\* without overlapping requests, none was and is.
LEMMA CommitMinutes ==
    ASSUME IngestInv, NEW h \in Handlers, Commit(h)
    PROVE  MinutesCounted'
  <1> DEFINE d == tx[h].dev
             F == tx[h].fresh
             C == tx[h].counted
  <1>1. /\ TypeOK /\ TxInv(h) /\ Serving(h) /\ Ready(h)
        /\ F \subseteq Row /\ F \subseteq tx[h].batch /\ C \subseteq ActiveOf(F)
        /\ IsFiniteSet(F) /\ IsFiniteSet(C) /\ IsFiniteSet(stored)
        /\ stored' = stored \cup ({d} \X F) /\ overlapped' = overlapped /\ MinutesCounted
    BY CommitFacts DEF IngestInv
  <1>2. ASSUME NEW day \in Days
        PROVE  /\ rollups'[day].minutes >= Cardinality(ActiveMinutes(day)')
               /\ ~overlapped => rollups'[day].minutes = Cardinality(ActiveMinutes(day)')
    <2> DEFINE on == OnDay(C, day)
               New == {d} \X Minutes(on)
    <2>1. \A q, r \in on : q.min = r.min => q = r
      BY <1>1 DEF TxInv, MinutesOnce, OnDay
    <2>2. IsFiniteSet(on)
      <3>1. on \subseteq C
        BY DEF OnDay
      <3>2. QED
        BY <1>1, <3>1, FS_Subset
    <2>3. IsFiniteSet(Minutes(on)) /\ Cardinality(Minutes(on)) = Cardinality(on)
      BY <2>1, <2>2, MinutesCount
    <2>4. IsFiniteSet(New) /\ Cardinality(New) = Cardinality(on)
      BY <2>3, PairsCount
    <2>5. ActiveMinutes(day)' = ActiveMinutes(day) \cup New
      <3>1. New \subseteq ActiveMinutes(day)'
        <4>1. ASSUME NEW r \in on
              PROVE  <<d, r.min>> \in ActiveMinutes(day)'
          <5>1. r \in F /\ r.active /\ DayOf(r.min) = day
            BY <1>1, <4>1 DEF OnDay, ActiveOf
          <5>2. <<d, r>> \in stored'
            BY <1>1, <5>1
          <5>3. QED
            BY <5>1, <5>2 DEF ActiveMinutes, StoredOn
        <4>2. QED
          BY <4>1 DEF Minutes
      <3>2. ActiveMinutes(day) \subseteq ActiveMinutes(day)'
        BY <1>1 DEF ActiveMinutes, StoredOn
      <3>3. ASSUME NEW x \in stored', DayOf(x[2].min) = day, x[2].active
            PROVE  <<x[1], x[2].min>> \in ActiveMinutes(day) \cup New
        <4>1. CASE x \in stored
          BY <3>3, <4>1 DEF ActiveMinutes, StoredOn
        <4>2. CASE x \in {d} \X F
          <5>1. x[1] = d /\ x[2] \in ActiveOf(Rolled(h))
            BY <1>1, <3>3, <4>2 DEF Rolled, ActiveOf, Ready
          <5>2. x[2].min \in tx[h].already \cup Minutes(C)
            BY <1>1, <5>1 DEF TxInv, MinutesOnce
          <5>3. CASE x[2].min \in Minutes(C)
            BY <3>3, <5>1, <5>3 DEF Minutes, OnDay
          <5>4. CASE x[2].min \in ActiveBefore(h)
            <6>1. PICK q \in Row : <<d, q>> \in stored /\ q.active /\ q.min = x[2].min
              BY <5>4 DEF ActiveBefore
            <6>2. QED
              BY <3>3, <5>1, <6>1 DEF ActiveMinutes, StoredOn
          <5>5. QED
            BY <1>1, <5>2, <5>3, <5>4 DEF TxInv, MinutesOnce
        <4>3. QED
          BY <1>1, <4>1, <4>2
      <3>4. ActiveMinutes(day)' \subseteq ActiveMinutes(day) \cup New
        BY <3>3 DEF ActiveMinutes, StoredOn
      <3>5. QED
        BY <3>1, <3>2, <3>4
    <2>6. ~overlapped => ActiveMinutes(day) \cap New = {}
      <3> SUFFICES ASSUME ~overlapped, NEW r \in on, <<d, r.min>> \in ActiveMinutes(day)
                   PROVE  FALSE
        BY DEF Minutes
      <3>1. PICK x \in stored : x[2].active /\ x[1] = d /\ x[2].min = r.min
        BY DEF ActiveMinutes, StoredOn
      <3>2. r.min \in ActiveBefore(h)
        <4>1. x = <<x[1], x[2]>> /\ x[2] \in Row
          BY <1>1, StoredRows
        <4>2. QED
          BY <3>1, <4>1 DEF ActiveBefore
      <3>3. r \in C /\ r \in tx[h].batch
        BY <1>1 DEF OnDay, ActiveOf
      <3>4. r.min \notin tx[h].already
        BY <1>1, <3>3 DEF TxInv, MinutesOnce
      <3>5. QED
        BY <1>1, <3>2, <3>3, <3>4 DEF TxInv, AloneIsSure, Minutes, Ready
    <2>7. rollups'[day].minutes = rollups[day].minutes + Cardinality(on)
      BY DEF Commit
    <2>8. IsFiniteSet(ActiveMinutes(day))
      BY <1>1, TablesAreFinite
    <2>9. /\ Cardinality(ActiveMinutes(day)) \in Nat /\ Cardinality(New) \in Nat
          /\ Cardinality(ActiveMinutes(day) \cup New) \in Nat
          /\ Cardinality(ActiveMinutes(day) \cup New)
               <= Cardinality(ActiveMinutes(day)) + Cardinality(New)
          /\ ActiveMinutes(day) \cap New = {} =>
               Cardinality(ActiveMinutes(day) \cup New)
                 = Cardinality(ActiveMinutes(day)) + Cardinality(New)
      BY <2>4, <2>8, DisjointUnion
    <2>10. /\ rollups[day].minutes \in Nat
           /\ rollups[day].minutes >= Cardinality(ActiveMinutes(day))
           /\ ~overlapped => rollups[day].minutes = Cardinality(ActiveMinutes(day))
      BY <1>1 DEF TypeOK, MinutesCounted, NoMinuteMissed, MinutesExactAlone
    <2>11. QED
      BY <2>4, <2>5, <2>6, <2>7, <2>9, <2>10
  <1>3. QED
    BY <1>1, <1>2 DEF MinutesCounted, NoMinuteMissed, MinutesExactAlone

\* The other transactions have what they had: the rows of the commit are none of
\* theirs, and what is stored stays stored.
LEMMA CommitOthers ==
    ASSUME IngestInv, NEW h \in Handlers, Commit(h), NEW u \in Handlers, u # h
    PROVE  TxInv(u)'
  <1> DEFINE d == tx[h].dev
             F == tx[h].fresh
  <1>1. /\ TypeOK /\ TxInv(h) /\ Serving(h) /\ stored' = stored \cup ({d} \X F)
        /\ Only(h) /\ tx'[h] = NoTx /\ overlapped' = overlapped
    BY CommitFacts
  <1>2. tx'[u] = tx[u] /\ TxInv(u) /\ Local(tx[u]) /\ stored \subseteq stored'
    BY <1>1, InvOf DEF Only
  <1>3. \A v \in Others(u)' : v \in Others(u) /\ tx'[v] = tx[v]
    <2>1. ~Serving(h)'
      BY <1>1 DEF Serving, NoTx
    <2>2. QED
      BY <1>1, <2>1 DEF Others, Serving, Only
  <1>4. Serving(u) => h \in Others(u) /\ u \in Others(h)
    BY <1>1 DEF Others
  <1>5. RowAtHand(u)' /\ DoneIsThere(u)'
    BY <1>2 DEF RowAtHand, DoneIsThere, TxInv
  <1>6. FreshIsNew(u)'
    <2>1. ASSUME NEW r \in tx[u].fresh
          PROVE  <<tx[u].dev, r>> \notin stored'
      <3>1. Serving(u)
        BY <1>2, <2>1 DEF Local, Serving, NoTx
      <3>2. tx[u].dev = d => r \notin F
        BY <1>2, <1>4, <2>1, <3>1 DEF TxInv, FreshIsNew
      <3>3. <<tx[u].dev, r>> \notin stored
        BY <1>2, <2>1 DEF TxInv, FreshIsNew
      <3>4. QED
        BY <1>1, <3>2, <3>3
    <2>2. QED
      BY <1>2, <1>3, <2>1 DEF FreshIsNew, TxInv
  <1>7. MinutesOnce(u)'
    <2>1. ActiveBefore(u) \subseteq ActiveBefore(u)'
      BY <1>2 DEF ActiveBefore
    <2>2. QED
      BY <1>2, <2>1 DEF MinutesOnce, Rolled, TxInv
  <1>8. AloneIsSure(u)'
    <2> SUFFICES ASSUME ~overlapped, Serving(u)
                 PROVE  /\ \A v \in Others(u)' : tx'[v].dev # tx'[u].dev
                        /\ tx'[u].pc # "check" =>
                             ActiveBefore(u)' \cap Minutes(tx'[u].batch) \subseteq tx'[u].already
      BY <1>1, <1>2 DEF AloneIsSure, Serving
    <2>1. \A v \in Others(u) : tx[v].dev # tx[u].dev
      BY <1>2 DEF TxInv, AloneIsSure
    <2>2. d # tx[u].dev
      BY <1>4, <2>1
    <2>3. \A q : <<tx[u].dev, q>> \in stored' <=> <<tx[u].dev, q>> \in stored
      BY <1>1, <2>2
    <2>4. ActiveBefore(u)' = ActiveBefore(u)
      BY <1>2, <2>3 DEF ActiveBefore
    <2>5. QED
      BY <1>2, <1>3, <2>1, <2>4 DEF TxInv, AloneIsSure
  <1>9. StreaksHeld(u)'
    <2>1. HeldDays(u) \subseteq HeldDays(u)'
      BY <1>2 DEF HeldDays, ActiveDays
    <2>2. QED
      BY <1>2, <2>1, HappenedGrows DEF StreaksHeld, TxInv
  <1>10. QED
    BY <1>5, <1>6, <1>7, <1>8, <1>9 DEF TxInv

LEMMA CommitTypes ==
    ASSUME IngestInv, NEW h \in Handlers, Commit(h)
    PROVE  TypeOK' /\ IsFiniteSet(stored')
  <1> DEFINE d == tx[h].dev
             F == tx[h].fresh
             C == tx[h].counted
  <1>1. /\ TypeOK /\ stored' = stored \cup ({d} \X F) /\ Only(h) /\ tx'[h] = NoTx
        /\ d \in Devices /\ F \subseteq Recorded[d] /\ C \subseteq F
        /\ IsFiniteSet(F) /\ IsFiniteSet(C) /\ IsFiniteSet(stored) /\ overlapped' = overlapped
    BY CommitFacts DEF IngestInv, ActiveOf
  <1>2. IsFiniteSet(stored')
    BY <1>1, PairsCount, FS_Union
  <1>3. stored' \subseteq UNION {{e} \X Recorded[e] : e \in Devices}
    <2>1. {d} \X F \subseteq {d} \X Recorded[d]
      BY <1>1
    <2>2. QED
      BY <1>1, <2>1 DEF TypeOK
  <1>4. rollups' \in [Days -> [rows : Nat, minutes : Nat]]
    <2>1. ASSUME NEW day \in Days
          PROVE  /\ rollups[day].rows + Cardinality(OnDay(F, day)) \in Nat
                 /\ rollups[day].minutes + Cardinality(OnDay(C, day)) \in Nat
      <3>1. OnDay(F, day) \subseteq F /\ OnDay(C, day) \subseteq C
        BY DEF OnDay
      <3>2. Cardinality(OnDay(F, day)) \in Nat /\ Cardinality(OnDay(C, day)) \in Nat
        BY <1>1, <3>1, FS_Subset, FS_CardinalityType
      <3>3. rollups[day].rows \in Nat /\ rollups[day].minutes \in Nat
        BY <1>1 DEF TypeOK
      <3>4. QED
        BY <3>2, <3>3
    <2>2. QED
      BY <2>1 DEF Commit
  <1>5. streak' \in StreakRow(Days)
    BY <1>1, TxFields DEF Commit, TypeOK
  <1>6. \A u \in Handlers : Local(tx'[u])
    BY <1>1, LocalTypes, IdleStaysFine DEF Only
  <1>7. tx' \in [Handlers -> Transaction]
    BY <1>1, <1>6 DEF Only, Local
  <1>8. TypeOK'
    BY <1>1, <1>3, <1>4, <1>5, <1>6, <1>7 DEF TypeOK, Local, Serving
  <1>9. QED
    BY <1>2, <1>8

LEMMA CommitStep ==
    ASSUME IngestInv, NEW h \in Handlers, Commit(h)
    PROVE  IngestInv'
  <1>1. /\ TypeOK /\ TxInv(h) /\ stored' = stored \cup ({tx[h].dev} \X tx[h].fresh)
        /\ tx'[h] = NoTx
    BY CommitFacts
  <1>2. TypeOK' /\ IsFiniteSet(stored')
    BY CommitTypes
  <1>3. \A u \in Handlers : TxInv(u)'
    BY <1>1, CommitOthers, IdleStaysFine
  <1>4. RollupsExact' /\ MinutesCounted'
    BY CommitRollups, CommitMinutes
  <1>5. StreakHappened'
    <2>1. ActiveDays' = HeldDays(h)
      <3>1. ASSUME NEW y \in stored', y[2].active
            PROVE  DayOf(y[2].min) \in HeldDays(h)
        BY <1>1, <3>1 DEF ActiveDays, HeldDays, ActiveOf
      <3>2. ASSUME NEW r \in ActiveOf(tx[h].fresh)
            PROVE  DayOf(r.min) \in ActiveDays'
        <4> DEFINE y == <<tx[h].dev, r>>
        <4>1. y \in stored' /\ y[2] = r /\ r.active
          BY <1>1, <3>2 DEF ActiveOf
        <4>2. QED
          BY <4>1 DEF ActiveDays
      <3>3. ActiveDays \subseteq ActiveDays'
        BY <1>1 DEF ActiveDays
      <3>4. ActiveDays' \subseteq HeldDays(h)
        BY <3>1 DEF ActiveDays
      <3>5. HeldDays(h) \subseteq ActiveDays'
        BY <3>2, <3>3 DEF HeldDays
      <3>6. QED
        BY <3>4, <3>5
    <2>2. Happened(tx[h].wrote, HeldDays(h))
      BY <1>1 DEF TxInv, StreaksHeld
    <2>3. Happened(streak, HeldDays(h))
      BY HappenedGrows DEF IngestInv, StreakHappened, HeldDays, ActiveDays
    <2>4. streak' \in {tx[h].wrote, streak}
      BY DEF Commit
    <2>5. Happened(streak', ActiveDays')
      BY <2>1, <2>2, <2>3, <2>4
    <2>6. QED
      BY <2>5 DEF StreakHappened, ActiveDays
  <1>6. QED
    BY <1>2, <1>3, <1>4, <1>5 DEF IngestInv

LEMMA IngestInvStep == IngestInv /\ [Next]_vars => IngestInv'
  <1> SUFFICES ASSUME IngestInv, [Next]_vars PROVE IngestInv'
    OBVIOUS
  <1>1. CASE UNCHANGED vars
    <2>1. UNCHANGED <<stored, rollups, streak, tx, overlapped>>
      BY <1>1 DEF vars
    <2>2. TypeOK' /\ IsFiniteSet(stored)'
      BY <2>1 DEF IngestInv, TypeOK, Serving
    <2>3. \A h \in Handlers : TxInv(h)'
      <3> SUFFICES ASSUME NEW h \in Handlers PROVE TxInv(h)'
        OBVIOUS
      <3>1. TxInv(h)
        BY DEF IngestInv
      <3>2. RowAtHand(h)' /\ FreshIsNew(h)' /\ DoneIsThere(h)' /\ MinutesOnce(h)'
        BY <2>1, <3>1 DEF TxInv, RowAtHand, FreshIsNew, DoneIsThere, MinutesOnce,
                          ActiveBefore, Rolled, Others, Serving
      <3>3. AloneIsSure(h)' /\ StreaksHeld(h)'
        BY <2>1, <3>1 DEF TxInv, AloneIsSure, StreaksHeld, HeldDays, ActiveDays,
                          ActiveBefore, Others, Serving
      <3>4. QED
        BY <3>2, <3>3 DEF TxInv
    <2>4. RollupsExact' /\ MinutesCounted' /\ StreakHappened'
      BY <2>1 DEF IngestInv, RollupsExact, MinutesCounted, NoMinuteMissed, MinutesExactAlone,
                  StreakHappened, StoredOn, ActiveMinutes
    <2>5. QED
      BY <2>2, <2>3, <2>4 DEF IngestInv
  <1>2. ASSUME NEW h \in Handlers, Serve(h)
        PROVE  IngestInv'
    BY <1>2, BeginStep, CheckStep, SkipStep, InsertStep, RollUpStep, ReadStep, WriteStep,
       CommitStep, RollbackStep DEF Serve
  <1>3. QED
    BY <1>1, <1>2 DEF Next

LEMMA IngestInvAlways == Spec => []IngestInv
  BY IngestInitInv, IngestInvStep, PTL DEF Spec

-----------------------------------------------------------------------------
\* Every variable has its type, and every transaction works on rows of its batch.
THEOREM IngestTypeCorrect == Spec => []TypeOK
  <1>1. IngestInv => TypeOK
    BY DEF IngestInv
  <1>2. QED
    BY <1>1, IngestInvAlways, PTL

\* A day's total is the sum of exactly the stored rows of the day, however the
\* requests of any number of devices were retried, repeated and interleaved.
THEOREM RollupsStayExact == Spec => []RollupsExact
  <1>1. IngestInv => RollupsExact
    BY DEF IngestInv
  <1>2. QED
    BY <1>1, IngestInvAlways, PTL

\* active_minutes is never too low, and right as long as no two requests of one
\* device ran at the same time.
THEOREM MinutesAreCounted == Spec => []MinutesCounted
  <1>1. IngestInv => MinutesCounted
    BY DEF IngestInv
  <1>2. QED
    BY <1>1, IngestInvAlways, PTL

\* The streak the user is shown is one of days with activity, though transactions
\* overwrite each other's row.
THEOREM StreakNeverInvented == Spec => []StreakHappened
  <1>1. IngestInv => StreakHappened
    BY DEF IngestInv
  <1>2. QED
    BY <1>1, IngestInvAlways, PTL

\* What a commit adds is the whole batch of one request.
THEOREM BatchesAreAtomic == Spec => WholeBatches
  <1>1. IngestInv /\ [Next]_vars =>
          [stored' # stored =>
             \E h \in Handlers : stored' = stored \cup ({tx[h].dev} \X tx[h].batch)]_vars
    <2> SUFFICES ASSUME IngestInv, NEW h \in Handlers, Serve(h), stored' # stored
                 PROVE  stored' = stored \cup ({tx[h].dev} \X tx[h].batch)
      BY DEF Next
    <2>1. Commit(h)
      BY DEF Serve, Begin, CheckActive, SkipRow, InsertRow, RollUp, ReadStreak, WriteStreak,
             Rollback
    <2>2. /\ TxInv(h) /\ Ready(h) /\ tx[h].fresh \subseteq tx[h].batch
          /\ stored' = stored \cup ({tx[h].dev} \X tx[h].fresh)
      BY <2>1, CommitFacts
    <2>3. \A r \in tx[h].batch : r \in tx[h].fresh \/ <<tx[h].dev, r>> \in stored
      BY <2>2 DEF TxInv, DoneIsThere, Ready
    <2>4. QED
      BY <2>2, <2>3
  <1>2. QED
    BY <1>1, IngestInvAlways, PTL DEF Spec, WholeBatches

-----------------------------------------------------------------------------
(***************************************************************************)
(* The limiter in front of the endpoint: what its token bucket promises,   *)
(* for every capacity, refill interval and number of devices and restarts. *)
(***************************************************************************)
LEMMA FullNat == Full \in Nat /\ Full >= Interval
  <1>1. \A c, i \in Nat \ {0} : c * i \in Nat /\ c * i >= i
    OBVIOUS
  <1>2. QED
    BY <1>1, RateLimitAssumption DEF Full

\* The bucket as allow would find it is between empty and full.
LEMMA RefilledBounds ==
    ASSUME LimitTypeOK, NEW d \in Callers
    PROVE  /\ Refilled(d).tokens \in 0..Full
           /\ Refilled(d).lastRefill \in Nat
           /\ Refilled(d).lastRefill <= now
           /\ Refilled(d) \in Bucket
  <1>1. CASE buckets[d] = NoBucket
    BY <1>1, FullNat DEF LimitTypeOK, Refilled, Bucket
  <1>2. CASE buckets[d] # NoBucket
    <2>1. /\ buckets[d].tokens \in 0..Full
          /\ buckets[d].lastRefill \in Nat
          /\ buckets[d].lastRefill <= now
          /\ now \in Nat
      BY <1>2 DEF LimitTypeOK, Bucket
    <2>2. Least(Full, buckets[d].tokens + (now - buckets[d].lastRefill)) \in 0..Full
      BY <2>1, FullNat DEF Least
    <2>3. QED
      BY <1>2, <2>1, <2>2 DEF Refilled, Bucket
  <1>3. QED
    BY <1>1, <1>2

\* A bucket is well formed, and never holds more than Capacity tokens.
THEOREM LimitTypeCorrect == LimitSpec => []LimitTypeOK
  <1>1. LimitInit => LimitTypeOK
    BY FullNat DEF LimitInit, LimitTypeOK, NoBucket, Bucket
  <1>2. LimitTypeOK /\ [LimitNext]_limitVars => LimitTypeOK'
    <2> SUFFICES ASSUME LimitTypeOK, [LimitNext]_limitVars PROVE LimitTypeOK'
      OBVIOUS
    <2>1. CASE Tick
      <3>1. \A d \in Callers : opened[d] \in Int /\ buckets[d].lastRefill \in Int
        BY DEF LimitTypeOK, Bucket, NoBucket
      <3>2. \A d \in Callers : opened[d] <= now + 1 /\ buckets[d].lastRefill <= now + 1
        BY <3>1 DEF LimitTypeOK
      <3>3. QED
        BY <2>1, <3>2 DEF Tick, LimitTypeOK
    <2>2. CASE Restart
      BY <2>2 DEF Restart, LimitTypeOK, NoBucket, Bucket
    <2>3. ASSUME NEW d \in Callers, Admit(d)
          PROVE  LimitTypeOK'
      <3>1. [tokens |-> Refilled(d).tokens - Interval,
             lastRefill |-> Refilled(d).lastRefill] \in Bucket
        BY <2>3, RefilledBounds, FullNat, RateLimitAssumption DEF Admit, Bucket
      <3>2. spent' \in [Callers -> Nat]
        BY <2>3, RateLimitAssumption DEF Admit, LimitTypeOK
      <3>3. QED
        BY <2>3, <3>1, <3>2, RefilledBounds DEF Admit, LimitTypeOK
    <2>4. ASSUME NEW d \in Callers, Refuse(d)
          PROVE  LimitTypeOK'
      BY <2>4, RefilledBounds DEF Refuse, LimitTypeOK
    <2>5. ASSUME NEW d \in Callers, OpenWindow(d)
          PROVE  LimitTypeOK'
      BY <2>5 DEF OpenWindow, LimitTypeOK
    <2>6. CASE UNCHANGED limitVars
      BY <2>6 DEF limitVars, LimitTypeOK
    <2>7. QED
      BY <2>1, <2>2, <2>3, <2>4, <2>5, <2>6 DEF LimitNext
  <1>3. QED
    BY <1>1, <1>2, PTL DEF LimitSpec

-----------------------------------------------------------------------------
\* The strengthening: what was granted in the window and what is left in the
\* bucket share the supply of the window, from above and from below.
WindowInv ==
    \A d \in Callers :
        /\ opened[d] = -1 => spent[d] = 0 /\ starts[d] = 1
        /\ opened[d] >= 0 =>
             /\ spent[d] + Refilled(d).tokens <= starts[d] * Full + (now - opened[d])
             /\ Refilled(d).tokens + spent[d] >= Least(Full, now - opened[d])

LEMMA OneMoreStart == \A k, f \in Nat : (k + 1) * f = k * f + f
  OBVIOUS

LEMMA WindowTick ==
    ASSUME LimitTypeOK, WindowInv, Tick
    PROVE  WindowInv'
  <1> SUFFICES ASSUME NEW d \in Callers, opened[d] >= 0
               PROVE  /\ (spent[d] + Refilled(d).tokens <= starts[d] * Full + (now - opened[d]))'
                      /\ (Refilled(d).tokens + spent[d] >= Least(Full, now - opened[d]))'
    BY DEF WindowInv, Tick
  <1>1. /\ now \in Nat /\ opened[d] \in Nat /\ spent[d] \in Nat
        /\ now' = now + 1
        /\ UNCHANGED <<buckets, opened, spent, starts>>
        /\ starts[d] * Full \in Nat
    <2>1. starts[d] \in Nat
      BY DEF LimitTypeOK
    <2>2. \A k, f \in Nat : k * f \in Nat
      OBVIOUS
    <2>3. QED
      BY <2>1, <2>2, FullNat DEF Tick, LimitTypeOK
  <1>2. /\ Refilled(d).tokens \in Nat
        /\ Refilled(d).tokens' = Least(Full, Refilled(d).tokens + 1)
    <2>1. CASE buckets[d] = NoBucket
      BY <1>1, <2>1, FullNat DEF Refilled, Least
    <2>2. CASE buckets[d] # NoBucket
      <3>1. buckets[d].tokens \in 0..Full /\ buckets[d].lastRefill \in Nat
        BY <2>2 DEF LimitTypeOK, Bucket
      <3>2. buckets[d].lastRefill <= now
        BY DEF LimitTypeOK
      <3>3. QED
        BY <1>1, <2>2, <3>1, <3>2, FullNat DEF Refilled, Least
    <2>3. QED
      BY <2>1, <2>2
  <1>3. /\ spent[d] + Refilled(d).tokens <= starts[d] * Full + (now - opened[d])
        /\ Refilled(d).tokens + spent[d] >= Least(Full, now - opened[d])
        /\ opened[d] <= now
    BY DEF WindowInv, LimitTypeOK
  <1> DEFINE t == Refilled(d).tokens
             bound == starts[d] * Full
  <1>4. /\ t' + spent[d] >= Least(Full, now + 1 - opened[d])
        /\ spent[d] + t' <= bound + (now + 1 - opened[d])
    <2> HIDE DEF t, bound
    <2>1. t \in Nat /\ t' = Least(Full, t + 1) /\ bound \in Nat
      BY <1>1, <1>2 DEF t, bound
    <2>2. spent[d] + t <= bound + (now - opened[d])
          /\ t + spent[d] >= Least(Full, now - opened[d])
      BY <1>3 DEF t, bound
    <2>3. QED
      BY <1>1, <1>3, <2>1, <2>2, FullNat DEF Least
  <1>5. QED
    BY <1>1, <1>4

\* The bucket as the next call finds it, after a call at the same moment.
LEMMA RefilledAgain ==
    ASSUME LimitTypeOK, NEW d \in Callers, NEW n \in 0..Full,
           buckets'[d] = [tokens |-> n, lastRefill |-> Refilled(d).lastRefill],
           now' = now
    PROVE  Refilled(d).tokens' = n
  <1>1. Refilled(d).lastRefill = now
    BY DEF Refilled
  <1>2. buckets'[d] # NoBucket
    <2>1. n # -1
      OBVIOUS
    <2>2. QED
      BY <2>1 DEF NoBucket
  <1>3. Refilled(d).tokens' = Least(Full, n + (now - now))
    BY <1>1, <1>2 DEF Refilled
  <1>4. QED
    BY <1>3, FullNat DEF Least, LimitTypeOK

LEMMA WindowStep ==
    ASSUME LimitTypeOK, WindowInv, [LimitNext]_limitVars
    PROVE  WindowInv'
  <1>1. CASE Tick
    BY <1>1, WindowTick
  <1>2. CASE Restart
    <2> SUFFICES ASSUME NEW d \in Callers PROVE
            /\ opened'[d] = -1 => spent'[d] = 0 /\ starts'[d] = 1
            /\ opened'[d] >= 0 =>
                 /\ spent'[d] + Refilled(d).tokens' <= starts'[d] * Full + (now' - opened'[d])
                 /\ Refilled(d).tokens' + spent'[d] >= Least(Full, now' - opened'[d])
      BY DEF WindowInv
    <2>1. /\ UNCHANGED <<now, opened, spent>>
          /\ Refilled(d).tokens' = Full
          /\ starts'[d] = IF opened[d] >= 0 THEN starts[d] + 1 ELSE starts[d]
      BY <1>2 DEF Restart, Refilled
    <2>2. CASE opened[d] = -1
      BY <2>1, <2>2 DEF WindowInv
    <2>3. CASE opened[d] >= 0
      <3>1. /\ spent[d] \in Nat /\ now \in Nat /\ opened[d] \in Nat
            /\ starts[d] \in Nat /\ opened[d] <= now
        BY <2>3 DEF LimitTypeOK
      <3>2. starts'[d] * Full = starts[d] * Full + Full /\ starts[d] * Full \in Nat
        <4>1. \A k, f \in Nat : k * f \in Nat
          OBVIOUS
        <4>2. QED
          BY <2>1, <2>3, <3>1, <4>1, OneMoreStart, FullNat
      <3>3. spent[d] + Refilled(d).tokens <= starts[d] * Full + (now - opened[d])
        BY <2>3 DEF WindowInv
      <3>4. Refilled(d).tokens \in Nat
        BY RefilledBounds, FullNat
      <3> DEFINE bound == starts[d] * Full
      <3>5. spent[d] + Full <= (bound + Full) + (now - opened[d])
        <4> HIDE DEF bound
        <4>1. bound \in Nat /\ spent[d] + Refilled(d).tokens <= bound + (now - opened[d])
          BY <3>2, <3>3 DEF bound
        <4>2. QED
          BY <3>1, <3>4, <4>1, FullNat
      <3>6. Full + spent[d] >= Least(Full, now - opened[d])
        BY <3>1, FullNat DEF Least
      <3>7. QED
        BY <2>1, <2>3, <3>1, <3>2, <3>5, <3>6
    <2>4. QED
      BY <2>2, <2>3 DEF LimitTypeOK
  <1>3. ASSUME NEW d \in Callers, Admit(d)
        PROVE  WindowInv'
    <2>1. /\ Refilled(d).tokens \in 0..Full
          /\ Refilled(d).tokens - Interval \in 0..Full
      BY <1>3, RefilledBounds, FullNat, RateLimitAssumption DEF Admit
    <2>2. Refilled(d).tokens' = Refilled(d).tokens - Interval
      BY <1>3, <2>1, RefilledAgain DEF Admit, LimitTypeOK
    <2>3. /\ UNCHANGED <<now, opened, starts>>
          /\ \A c \in Callers \ {d} : buckets'[c] = buckets[c] /\ spent'[c] = spent[c]
          /\ spent'[d] = IF opened[d] >= 0 THEN spent[d] + Interval ELSE spent[d]
      BY <1>3 DEF Admit, LimitTypeOK
    <2>4. \A c \in Callers \ {d} : Refilled(c)' = Refilled(c)
      BY <2>3 DEF Refilled
    <2>5. spent[d] \in Nat /\ Interval \in Nat
      BY RateLimitAssumption DEF LimitTypeOK
    <2>6. opened[d] >= 0 =>
            spent'[d] + Refilled(d).tokens' = spent[d] + Refilled(d).tokens
      BY <2>1, <2>2, <2>3, <2>5, FullNat
    <2>7. opened[d] >= 0 =>
            Refilled(d).tokens' + spent'[d] = Refilled(d).tokens + spent[d]
      BY <2>1, <2>2, <2>3, <2>5, FullNat
    <2>8. opened[d] = -1 => spent'[d] = spent[d]
      BY <2>3
    <2>9. QED
      BY <2>3, <2>4, <2>6, <2>7, <2>8 DEF WindowInv
  <1>4. ASSUME NEW d \in Callers, Refuse(d)
        PROVE  WindowInv'
    <2>1. buckets'[d] = [tokens |-> Refilled(d).tokens,
                         lastRefill |-> Refilled(d).lastRefill]
      BY <1>4 DEF Refuse, LimitTypeOK, Refilled
    <2>2. Refilled(d).tokens' = Refilled(d).tokens
      BY <1>4, <2>1, RefilledBounds, RefilledAgain DEF Refuse
    <2>3. /\ UNCHANGED <<now, opened, starts, spent>>
          /\ \A c \in Callers \ {d} : buckets'[c] = buckets[c]
      BY <1>4 DEF Refuse, LimitTypeOK
    <2>4. \A c \in Callers \ {d} : Refilled(c)' = Refilled(c)
      BY <2>3 DEF Refilled
    <2>5. QED
      BY <2>2, <2>3, <2>4 DEF WindowInv
  <1>5. ASSUME NEW d \in Callers, OpenWindow(d)
        PROVE  WindowInv'
    <2>1. /\ UNCHANGED <<now, buckets, spent, starts>>
          /\ opened'[d] = now
          /\ \A c \in Callers \ {d} : opened'[c] = opened[c]
          /\ opened[d] = -1
      BY <1>5 DEF OpenWindow, LimitTypeOK
    <2>2. \A c \in Callers : Refilled(c)' = Refilled(c)
      BY <2>1 DEF Refilled
    <2>3. spent[d] = 0 /\ starts[d] = 1 /\ now \in Nat
      BY <2>1 DEF WindowInv, LimitTypeOK
    <2>4. Refilled(d).tokens \in 0..Full
      BY RefilledBounds
    <2>5. /\ spent'[d] + Refilled(d).tokens' <= starts'[d] * Full + (now' - opened'[d])
          /\ Refilled(d).tokens' + spent'[d] >= Least(Full, now' - opened'[d])
          /\ opened'[d] # -1
      BY <2>1, <2>2, <2>3, <2>4, FullNat DEF Least
    <2>6. QED
      BY <2>1, <2>2, <2>5 DEF WindowInv
  <1>6. CASE UNCHANGED limitVars
    BY <1>6 DEF limitVars, WindowInv, Refilled
  <1>7. QED
    BY <1>1, <1>2, <1>3, <1>4, <1>5, <1>6 DEF LimitNext

LEMMA WindowAlways == LimitSpec => []WindowInv
  <1>1. LimitInit => WindowInv
    <2> SUFFICES ASSUME LimitInit, NEW d \in Callers
                 PROVE  opened[d] = -1 /\ ~(opened[d] >= 0) /\ spent[d] = 0 /\ starts[d] = 1
      BY DEF WindowInv
    <2>1. QED
      BY DEF LimitInit
  <1>2. LimitTypeOK /\ WindowInv /\ [LimitNext]_limitVars => WindowInv'
    BY WindowStep
  <1>3. QED
    BY <1>1, <1>2, LimitTypeCorrect, PTL DEF LimitSpec

\* No window grants more than its bursts and its refill.
THEOREM FloodBound == LimitSpec => []FloodIsStopped
  <1>1. LimitTypeOK /\ WindowInv => FloodIsStopped
    <2> SUFFICES ASSUME LimitTypeOK, WindowInv, NEW d \in Callers, opened[d] >= 0
                 PROVE  spent[d] <= starts[d] * Full + (now - opened[d])
      BY DEF FloodIsStopped
    <2>1. Refilled(d).tokens \in Nat /\ spent[d] \in Nat
      BY RefilledBounds, FullNat DEF LimitTypeOK
    <2>2. spent[d] + Refilled(d).tokens <= starts[d] * Full + (now - opened[d])
      BY DEF WindowInv
    <2>3. starts[d] * Full + (now - opened[d]) \in Int
      BY FullNat DEF LimitTypeOK
    <2> DEFINE supply == starts[d] * Full + (now - opened[d])
    <2> HIDE DEF supply
    <2>4. spent[d] <= supply
      BY <2>1, <2>2, <2>3 DEF supply
    <2>5. QED
      BY <2>4 DEF supply
  <1>2. QED
    BY <1>1, LimitTypeCorrect, WindowAlways, PTL

-----------------------------------------------------------------------------
\* Grants come in whole tokens.
WholeTokens == \A d \in Callers : \E k \in Nat : spent[d] = k * Interval

LEMMA WholeTokensAlways == LimitSpec => []WholeTokens
  <1>1. LimitInit => WholeTokens
    <2>1. 0 = 0 * Interval
      BY RateLimitAssumption
    <2>2. QED
      BY <2>1 DEF LimitInit, WholeTokens
  <1>2. WholeTokens /\ LimitTypeOK /\ [LimitNext]_limitVars => WholeTokens'
    <2> SUFFICES ASSUME WholeTokens, LimitTypeOK, [LimitNext]_limitVars PROVE WholeTokens'
      OBVIOUS
    <2>1. CASE UNCHANGED spent
      BY <2>1 DEF WholeTokens
    <2>2. ASSUME NEW d \in Callers, Admit(d), ~ UNCHANGED spent
          PROVE  WholeTokens'
      <3>1. /\ spent'[d] = spent[d] + Interval
            /\ \A c \in Callers \ {d} : spent'[c] = spent[c]
        BY <2>2 DEF Admit, LimitTypeOK
      <3>2. PICK k \in Nat : spent[d] = k * Interval
        BY DEF WholeTokens
      <3>3. k + 1 \in Nat /\ spent'[d] = (k + 1) * Interval
        BY <3>1, <3>2, OneMoreStart, RateLimitAssumption
      <3>4. QED
        BY <3>1, <3>3 DEF WholeTokens
    <2>3. QED
      BY <2>1, <2>2 DEF LimitNext, Tick, Restart, Refuse, OpenWindow, limitVars
  <1>3. QED
    BY <1>1, <1>2, LimitTypeCorrect, PTL DEF LimitSpec

LEMMA MoreTokens ==
    ASSUME NEW c \in Nat, NEW k \in Nat, NEW i \in Nat, c > k
    PROVE  c * i >= k * i + i
  <1>1. PICK m \in Nat : c = (k + 1) + m
    <2>1. c - (k + 1) \in Nat /\ c = (k + 1) + (c - (k + 1))
      OBVIOUS
    <2>2. QED
      BY <2>1
  <1>2. ((k + 1) + m) * i = (k * i + i) + m * i
    OBVIOUS
  <1>3. m * i \in Nat /\ k * i \in Nat
    OBVIOUS
  <1>4. QED
    BY <1>1, <1>2, <1>3

\* A refusal follows Capacity grants within the time a bucket takes to fill.
THEOREM NoEarlyRefusal == LimitSpec => NormalUsePasses
  <1>1. ASSUME LimitTypeOK, WindowInv, WholeTokens, NEW d \in Callers, Refuse(d),
               opened[d] >= 0, now - opened[d] >= Full
        PROVE  spent[d] >= Full
    <2>1. Refilled(d).tokens \in Nat /\ spent[d] \in Nat /\ Interval \in Nat
      BY <1>1, RefilledBounds, FullNat, RateLimitAssumption DEF LimitTypeOK
    <2>2. Refilled(d).tokens < Interval
      BY <1>1 DEF Refuse
    <2>3. Refilled(d).tokens + spent[d] >= Full
      BY <1>1, FullNat DEF WindowInv, Least, LimitTypeOK
    <2>4. spent[d] + Interval > Full
      BY <2>1, <2>2, <2>3, FullNat
    <2>5. PICK k \in Nat : spent[d] = k * Interval
      BY <1>1 DEF WholeTokens
    <2>6. ~ (Capacity > k)
      <3> SUFFICES ASSUME Capacity > k PROVE FALSE
        OBVIOUS
      <3>1. Full >= spent[d] + Interval
        BY <2>1, <2>5, MoreTokens, RateLimitAssumption DEF Full
      <3>2. QED
        BY <2>1, <2>4, <3>1, FullNat
    <2>7. CASE Capacity = k
      BY <2>1, <2>5, <2>7 DEF Full
    <2>8. CASE k > Capacity
      <3>1. spent[d] >= Full + Interval
        BY <2>5, <2>8, MoreTokens, RateLimitAssumption DEF Full
      <3>2. QED
        BY <2>1, <3>1, FullNat
    <2>9. QED
      BY <2>6, <2>7, <2>8, RateLimitAssumption
  <1>2. LimitTypeOK /\ WindowInv /\ WholeTokens =>
          [\A d \in Callers :
             Refuse(d) /\ opened[d] >= 0 /\ now - opened[d] >= Full => spent[d] >= Full]_limitVars
    BY <1>1
  <1>3. QED
    BY <1>2, LimitTypeCorrect, WindowAlways, WholeTokensAlways, PTL DEF NormalUsePasses
=============================================================================
