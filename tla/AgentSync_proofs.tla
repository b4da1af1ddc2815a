--------------------------- MODULE AgentSync_proofs ---------------------------
(***************************************************************************)
(* Proofs about AgentSync for every number of devices, threads, apps,      *)
(* minutes and rows, and every batch size.                                 *)
(***************************************************************************)
EXTENDS AgentSync, SequenceTheorems, TLAPS

-----------------------------------------------------------------------------
(***************************************************************************)
(* What the operators of the model do to the rows.                         *)
(***************************************************************************)

\* Appending a row keeps the rows that are there.
LEMMA AppendRow ==
    ASSUME buffer \in Seq(Row), NEW r \in Row
    PROVE  /\ Append(buffer, r) \in Seq(Row)
           /\ Len(Append(buffer, r)) = Len(buffer) + 1
           /\ DOMAIN Append(buffer, r) = DOMAIN buffer \cup {Len(buffer) + 1}
           /\ DOMAIN buffer = 1..Len(buffer)
           /\ Len(buffer) \in Nat
           /\ \A i \in DOMAIN buffer : Append(buffer, r)[i] = buffer[i]
           /\ Append(buffer, r)[Len(buffer) + 1] = r
  OBVIOUS

\* Every row is a row, and its minute a number.
LEMMA RowTypes ==
    ASSUME TypeOK
    PROVE  /\ bucket \in Int
           /\ \A i \in DOMAIN buffer : buffer[i] \in Row /\ buffer[i].min \in Int
  <1>1. /\ buffer \in [1..Len(buffer) -> Row]
        /\ DOMAIN buffer = 1..Len(buffer)
    BY LenProperties DEF TypeOK
  <1>2. \A i \in DOMAIN buffer : buffer[i] \in Row
    BY <1>1
  <1>3. QED
    BY <1>2 DEF TypeOK, Row, Minutes

\* Marking rows synced changes nothing else about them.
LEMMA MarkRows ==
    ASSUME buffer \in Seq(Row), NEW ids
    PROVE  /\ Marked(ids) \in Seq(Row)
           /\ Len(Marked(ids)) = Len(buffer)
           /\ DOMAIN Marked(ids) = DOMAIN buffer
           /\ \A i \in DOMAIN buffer :
                /\ Marked(ids)[i].min = buffer[i].min
                /\ Marked(ids)[i].app = buffer[i].app
                /\ Marked(ids)[i].synced <=> (buffer[i].synced \/ i \in ids)
  <1>1. /\ Len(buffer) \in Nat
        /\ DOMAIN buffer = 1..Len(buffer)
        /\ buffer \in [1..Len(buffer) -> Row]
    BY LenProperties
  <1>2. Marked(ids) \in [1..Len(buffer) -> Row]
    BY <1>1 DEF Marked, Row
  <1>3. Marked(ids) \in Seq(Row) /\ Len(Marked(ids)) = Len(buffer)
    BY <1>1, <1>2
  <1>4. QED
    BY <1>1, <1>3 DEF Marked, Row

\* A committed batch adds rows of the batch to one device, at most one per
\* key, and leaves every key of the batch stored.
LEMMA IngestEffect ==
    ASSUME TypeOK, NEW d \in Devices, NEW ids \in SUBSET (DOMAIN buffer),
           IngestBatch(d, ids)
    PROVE  \E S \in SUBSET ids :
             /\ \A i \in S, j \in buckets[d] : Key(i) # Key(j)
             /\ \A i, j \in S : Key(i) = Key(j) => i = j
             /\ \A i \in ids : \E j \in buckets'[d] : Key(j) = Key(i)
             /\ buckets'[d] = buckets[d] \cup S
             /\ buckets' \in [Devices -> SUBSET (DOMAIN buffer)]
             /\ credits' \in [Devices -> [RowIds -> Nat]]
             /\ \A c \in Devices \ {d} :
                  buckets'[c] = buckets[c] /\ credits'[c] = credits[c]
             /\ \A i \in RowIds :
                  credits'[d][i] = IF i \in S THEN credits[d][i] + 1
                                              ELSE credits[d][i]
  <1>1. PICK S \in Insertable(d, ids) :
          /\ buckets' = [buckets EXCEPT ![d] = @ \cup S]
          /\ credits' = Credit(d, S)
    BY DEF IngestBatch
  <1>2. /\ S \in SUBSET ids
        /\ \A i \in S, j \in buckets[d] : Key(i) # Key(j)
        /\ \A i, j \in S : Key(i) = Key(j) => i = j
        /\ \A i \in ids : \E j \in S \cup buckets[d] : Key(j) = Key(i)
    BY <1>1 DEF Insertable
  <1>3. /\ buckets' \in [Devices -> SUBSET (DOMAIN buffer)]
        /\ buckets'[d] = buckets[d] \cup S
        /\ \A c \in Devices \ {d} : buckets'[c] = buckets[c]
    BY <1>1, <1>2 DEF TypeOK
  <1>4. /\ credits' \in [Devices -> [RowIds -> Nat]]
        /\ \A c \in Devices \ {d} : credits'[c] = credits[c]
        /\ \A i \in RowIds :
             credits'[d][i] = IF i \in S THEN credits[d][i] + 1
                                         ELSE credits[d][i]
    BY <1>1 DEF TypeOK, Credit
  <1>5. \A i \in ids : \E j \in buckets'[d] : Key(j) = Key(i)
    BY <1>2, <1>3
  <1>6. S \in SUBSET ids
    BY <1>2
  <1>7. WITNESS S \in SUBSET ids
  <1>8. QED
    BY <1>2, <1>3, <1>4, <1>5

-----------------------------------------------------------------------------
(***************************************************************************)
(* Type correctness.                                                       *)
(***************************************************************************)

\* Types are preserved by every step of the agent's own thread of control.
LEMMA AgentStepTypes ==
    ASSUME TypeOK, Agent \/ Account
    PROVE  TypeOK'
  <1>1. ASSUME NEW a \in Apps, FlushRow(a)
        PROVE  TypeOK'
    <2>1. DEFINE r == [min |-> bucket, app |-> a, synced |-> FALSE]
    <2>2. r \in Row
      BY DEF TypeOK, Row
    <2>3. /\ buffer' \in Seq(Row)
          /\ Len(buffer') <= MaxRows
          /\ DOMAIN buffer \subseteq DOMAIN buffer'
      BY <1>1, <2>2, AppendRow, ConstantsAssumption DEF TypeOK, FlushRow
    <2>4. /\ strays \subseteq [dev : issued, ids : SUBSET (DOMAIN buffer')]
          /\ buckets \in [Devices -> SUBSET (DOMAIN buffer')]
          /\ \A w \in Workers : worker[w].ids \subseteq DOMAIN buffer'
      BY <2>3 DEF TypeOK
    <2>5. QED
      BY <1>1, <2>3, <2>4 DEF FlushRow, TypeOK, backendVars, historyVars
  <1>2. ASSUME NEW m \in Minutes, OpenBucket(m)
        PROVE  TypeOK'
    BY <1>2 DEF OpenBucket, TypeOK, backendVars, historyVars
  <1>3. CASE Stop
    <2>1. worker' \in [Workers -> Pass]
      BY <1>3 DEF Stop, Idle, Pass
    <2>2. \A w \in Workers : worker'[w] = Idle
      BY <1>3 DEF Stop
    <2>3. strays' \subseteq [dev : issued, ids : SUBSET (DOMAIN buffer)]
      BY <1>3 DEF Stop, TypeOK, Pass
    <2>4. QED
      BY <1>3, <2>1, <2>2, <2>3 DEF Stop, TypeOK, Idle, backendVars, historyVars
  <1>4. ASSUME NEW m \in Minutes, Start(m)
        PROVE  TypeOK'
    BY <1>4 DEF Start, TypeOK, backendVars
  <1>5. ASSUME NEW d \in Devices, RegisterDevice(d)
        PROVE  TypeOK'
    <2>1. strays \subseteq [dev : issued', ids : SUBSET (DOMAIN buffer)]
      BY <1>5 DEF RegisterDevice, TypeOK
    <2>2. QED
      BY <1>5, <2>1 DEF RegisterDevice, TypeOK, historyVars
  <1>6. CASE StoreToken
    BY <1>6 DEF StoreToken, TypeOK, backendVars, historyVars
  <1>7. CASE RegistrationLost
    BY <1>7 DEF RegistrationLost, TypeOK, backendVars, historyVars
  <1>8. CASE SignOut
    BY <1>8 DEF SignOut, TypeOK, backendVars
  <1>9. QED
    BY <1>1, <1>2, <1>3, <1>4, <1>5, <1>6, <1>7, <1>8 DEF Agent, Account

\* And by every step of a sync pass or of the network.
LEMMA SyncStepTypes ==
    ASSUME TypeOK, (\E w \in Workers : Sync(w)) \/ Network
    PROVE  TypeOK'
  <1>1. ASSUME NEW w \in Workers, ReadToken(w)
        PROVE  TypeOK'
    <2>1. token \in issued /\ issued \subseteq Devices
      BY <1>1 DEF ReadToken, TypeOK
    <2>2. QED
      BY <1>1, <2>1 DEF ReadToken, TypeOK, Pass, agentVars, backendVars,
                        historyVars
  <1>2. ASSUME NEW w \in Workers, PostBatch(w)
        PROVE  TypeOK'
    <2>1. PICK B \in Batches :
            worker' = [worker EXCEPT ![w] =
              IF B = {} THEN Idle ELSE [@ EXCEPT !.pc = "wire", !.ids = B]]
      BY <1>2 DEF PostBatch
    <2>2. B \subseteq DOMAIN buffer /\ B \subseteq RowIds
      BY LenProperties, ConstantsAssumption
      DEF Batches, Unsynced, TypeOK, RowIds
    <2>3. worker'[w] \in Pass
      BY <2>1, <2>2 DEF TypeOK, Pass, Idle
    <2>4. /\ worker'[w].pc # "idle" => worker'[w].dev \in issued
          /\ worker'[w].ids \subseteq DOMAIN buffer
      <3>1. CASE B = {}
        BY <2>1, <3>1 DEF TypeOK, Idle
      <3>2. CASE B # {}
        <4>1. worker'[w] = [worker[w] EXCEPT !.pc = "wire", !.ids = B]
          BY <2>1, <3>2 DEF TypeOK
        <4>2. worker'[w].dev = worker[w].dev /\ worker'[w].ids = B
          BY <4>1 DEF TypeOK, Pass
        <4>3. QED
          BY <1>2, <2>2, <4>2 DEF PostBatch, TypeOK
      <3>3. QED
        BY <3>1, <3>2
    <2>5. \A v \in Workers \ {w} : worker'[v] = worker[v]
      BY <2>1 DEF TypeOK
    <2>6. worker' \in [Workers -> Pass]
      BY <2>1, <2>3 DEF TypeOK
    <2>7. QED
      BY <1>2, <2>4, <2>5, <2>6 DEF PostBatch, TypeOK, agentVars, backendVars,
                                    historyVars
  <1>3. ASSUME NEW w \in Workers, Handle(w)
        PROVE  TypeOK'
    <2>1. /\ worker[w].dev \in Devices
          /\ worker[w].ids \in SUBSET (DOMAIN buffer)
      BY <1>3 DEF Handle, TypeOK
    <2>2. /\ buckets' \in [Devices -> SUBSET (DOMAIN buffer)]
          /\ credits' \in [Devices -> [RowIds -> Nat]]
      BY <1>3, <2>1, IngestEffect DEF Handle
    <2>3. QED
      BY <1>3, <2>2 DEF Handle, TypeOK, Pass, agentVars, historyVars
  <1>4. ASSUME NEW w \in Workers, ReadFails(w) \/ Refuse(w) \/ AnswerLost(w)
        PROVE  TypeOK'
    <2>1. /\ worker' = [worker EXCEPT ![w] = Idle]
          /\ UNCHANGED <<agentVars, strays, backendVars, historyVars>>
      BY <1>4 DEF ReadFails, Refuse, AnswerLost
    <2>2. QED
      BY <2>1 DEF TypeOK, Pass, Idle, agentVars, backendVars, historyVars
  <1>5. ASSUME NEW w \in Workers, TimeOut(w)
        PROVE  TypeOK'
    BY <1>5 DEF TimeOut, TypeOK, Pass, Idle, agentVars, backendVars, historyVars
  <1>6. ASSUME NEW w \in Workers, MarkSynced(w)
        PROVE  TypeOK'
    <2>1. /\ buffer' \in Seq(Row)
          /\ Len(buffer') = Len(buffer)
          /\ DOMAIN buffer' = DOMAIN buffer
      BY <1>6, MarkRows DEF MarkSynced, TypeOK
    <2>2. QED
      BY <1>6, <2>1 DEF MarkSynced, TypeOK, Pass, Idle, backendVars, historyVars
  <1>7. ASSUME NEW m \in strays, HandleStray(m)
        PROVE  TypeOK'
    <2>1. m.dev \in Devices /\ m.ids \in SUBSET (DOMAIN buffer)
      BY DEF TypeOK
    <2>2. /\ buckets' \in [Devices -> SUBSET (DOMAIN buffer)]
          /\ credits' \in [Devices -> [RowIds -> Nat]]
      BY <1>7, <2>1, IngestEffect DEF HandleStray
    <2>3. QED
      BY <1>7, <2>2 DEF HandleStray, TypeOK, agentVars, historyVars
  <1>8. ASSUME NEW m \in strays, DropStray(m)
        PROVE  TypeOK'
    BY <1>8 DEF DropStray, TypeOK, agentVars, backendVars, historyVars
  <1>9. QED
    BY <1>1, <1>2, <1>3, <1>4, <1>5, <1>6, <1>7, <1>8 DEF Sync, Network

\* Every state the model reaches is well typed, and every token in use is one
\* the backend issued.
THEOREM TypeCorrect == Spec => []TypeOK
  <1>1. Init => TypeOK
    <2> SUFFICES ASSUME Init PROVE TypeOK
      OBVIOUS
    <2>1. buffer \in Seq(Row) /\ Len(buffer) <= MaxRows /\ DOMAIN buffer = {}
      BY ConstantsAssumption DEF Init
    <2>2. bucket \in Minutes /\ written \subseteq Apps
      BY ConstantsAssumption DEF Init, Minutes
    <2>3. worker \in [Workers -> Pass] /\ \A w \in Workers : worker[w] = Idle
      BY DEF Init, Idle, Pass
    <2>4. /\ buckets \in [Devices -> SUBSET (DOMAIN buffer)]
          /\ credits \in [Devices -> [RowIds -> Nat]]
      BY DEF Init
    <2>5. QED
      BY <2>1, <2>2, <2>3, <2>4 DEF Init, TypeOK, Idle
  <1>2. TypeOK /\ [Next]_vars => TypeOK'
    <2>1. CASE Next
      BY <2>1, AgentStepTypes, SyncStepTypes DEF Next
    <2>2. CASE UNCHANGED vars
      BY <2>2 DEF vars, agentVars, backendVars, historyVars, TypeOK
    <2>3. QED
      BY <2>1, <2>2
  <1>3. QED
    BY <1>1, <1>2, PTL DEF Spec

-----------------------------------------------------------------------------
(***************************************************************************)
(* The totals: every stored row is in them once.                           *)
(***************************************************************************)

\* No step changes the minute and app of a row that exists.
LEMMA KeysStable ==
    ASSUME TypeOK, [Next]_vars
    PROVE  /\ DOMAIN buffer \subseteq DOMAIN buffer'
           /\ \A i \in DOMAIN buffer : Key(i)' = Key(i)
  <1>1. ASSUME NEW a \in Apps, FlushRow(a)
        PROVE  /\ DOMAIN buffer \subseteq DOMAIN buffer'
               /\ \A i \in DOMAIN buffer : buffer'[i] = buffer[i]
    <2>1. [min |-> bucket, app |-> a, synced |-> FALSE] \in Row
      BY DEF TypeOK, Row
    <2>2. QED
      BY <1>1, <2>1, AppendRow DEF FlushRow, TypeOK
  <1>2. ASSUME NEW w \in Workers, MarkSynced(w)
        PROVE  /\ DOMAIN buffer \subseteq DOMAIN buffer'
               /\ \A i \in DOMAIN buffer :
                    buffer'[i].min = buffer[i].min /\ buffer'[i].app = buffer[i].app
    BY <1>2, MarkRows DEF MarkSynced, TypeOK
  <1>3. CASE UNCHANGED buffer
    BY <1>3 DEF Key
  <1>4. QED
    BY <1>1, <1>2, <1>3
    DEF Key, Next, Agent, Account, Sync, Network, OpenBucket, Stop, Start,
        RegisterDevice, StoreToken, RegistrationLost, SignOut, ReadToken,
        PostBatch, ReadFails, Handle, Refuse, TimeOut, AnswerLost, HandleStray, DropStray,
        vars, agentVars

\* The backend's tables change only when it handles a batch.
LEMMA BackendSteps ==
    ASSUME TypeOK, [Next]_vars
    PROVE  \/ UNCHANGED <<buckets, credits>>
           \/ \E w \in Workers : Handle(w)
           \/ \E m \in strays : HandleStray(m)
  BY DEF Next, Agent, Account, Sync, Network, FlushRow, OpenBucket, Stop, Start,
         RegisterDevice, StoreToken, RegistrationLost, SignOut, ReadToken,
         PostBatch, ReadFails, Refuse, TimeOut, AnswerLost, MarkSynced, DropStray,
         vars, agentVars, backendVars

\* One batch keeps the totals in step with the stored rows.
LEMMA IngestKeepsTotals ==
    ASSUME TypeOK, RollupsMatchBuckets, NEW d \in Devices,
           NEW ids \in SUBSET (DOMAIN buffer), IngestBatch(d, ids),
           UNCHANGED buffer
    PROVE  RollupsMatchBuckets'
  <1>1. PICK S \in SUBSET ids :
          /\ \A i \in S, j \in buckets[d] : Key(i) # Key(j)
          /\ \A i, j \in S : Key(i) = Key(j) => i = j
          /\ buckets'[d] = buckets[d] \cup S
          /\ \A c \in Devices \ {d} :
               buckets'[c] = buckets[c] /\ credits'[c] = credits[c]
          /\ \A i \in RowIds :
               credits'[d][i] = IF i \in S THEN credits[d][i] + 1
                                           ELSE credits[d][i]
    BY IngestEffect
  <1>2. \A i \in DOMAIN buffer : Key(i)' = Key(i)
    BY DEF Key
  <1>3. \A c \in Devices : buckets[c] \subseteq DOMAIN buffer
    BY DEF TypeOK
  <1>4. S \cap buckets[d] = {}
    BY <1>1
  <1>5. \A i \in RowIds : credits'[d][i] = IF i \in buckets'[d] THEN 1 ELSE 0
    BY <1>1, <1>4 DEF RollupsMatchBuckets
  <1>6. \A i, j \in buckets'[d] : Key(i) = Key(j) => i = j
    BY <1>1 DEF RollupsMatchBuckets
  <1>7. \A i, j \in buckets'[d] : Key(i)' = Key(j)' => i = j
    BY <1>1, <1>2, <1>3, <1>6
  <1>8. ASSUME NEW c \in Devices \ {d}
        PROVE  /\ \A i \in RowIds :
                    credits'[c][i] = IF i \in buckets'[c] THEN 1 ELSE 0
               /\ \A i, j \in buckets'[c] : Key(i)' = Key(j)' => i = j
    BY <1>1, <1>2, <1>3, <1>8 DEF RollupsMatchBuckets
  <1>9. QED
    BY <1>5, <1>7, <1>8 DEF RollupsMatchBuckets

\* The daily totals hold every stored row exactly once, and no device has two
\* stored rows for a minute and app, whatever the passes do.
THEOREM TotalsCorrect == Spec => []RollupsMatchBuckets
  <1>1. Init => RollupsMatchBuckets
    BY DEF Init, RollupsMatchBuckets
  <1>2. TypeOK /\ RollupsMatchBuckets /\ [Next]_vars => RollupsMatchBuckets'
    <2> SUFFICES ASSUME TypeOK, RollupsMatchBuckets, [Next]_vars
                 PROVE  RollupsMatchBuckets'
      OBVIOUS
    <2>1. CASE UNCHANGED <<buckets, credits>>
      <3>1. \A d \in Devices : buckets[d] \subseteq DOMAIN buffer
        BY DEF TypeOK
      <3>2. \A i \in DOMAIN buffer : Key(i)' = Key(i)
        BY KeysStable
      <3>3. QED
        BY <2>1, <3>1, <3>2 DEF RollupsMatchBuckets
    <2>2. ASSUME NEW w \in Workers, Handle(w)
          PROVE  RollupsMatchBuckets'
      <3>1. /\ worker[w].dev \in Devices
            /\ worker[w].ids \in SUBSET (DOMAIN buffer)
            /\ IngestBatch(worker[w].dev, worker[w].ids)
            /\ UNCHANGED buffer
        BY <2>2 DEF Handle, TypeOK, agentVars
      <3>2. QED
        BY <3>1, IngestKeepsTotals
    <2>3. ASSUME NEW m \in strays, HandleStray(m)
          PROVE  RollupsMatchBuckets'
      <3>1. /\ m.dev \in Devices
            /\ m.ids \in SUBSET (DOMAIN buffer)
            /\ IngestBatch(m.dev, m.ids)
            /\ UNCHANGED buffer
        BY <2>3 DEF HandleStray, TypeOK, agentVars
      <3>2. QED
        BY <3>1, IngestKeepsTotals
    <2>4. QED
      BY <2>1, <2>2, <2>3, BackendSteps
  <1>3. QED
    BY <1>1, <1>2, TypeCorrect, PTL DEF Spec

-----------------------------------------------------------------------------
(***************************************************************************)
(* A synced row is counted.  The strengthening: so is every row of a pass  *)
(* that has its 200 and has not marked its rows yet.                       *)
(***************************************************************************)
AckedIsCounted ==
    \A w \in Workers : worker[w].pc = "ok" =>
        \A i \in worker[w].ids : \E j \in buckets[worker[w].dev] : Key(j) = Key(i)

\* A stored row stays stored.
LEMMA BucketsGrow ==
    ASSUME TypeOK, [Next]_vars
    PROVE  \A d \in Devices : buckets[d] \subseteq buckets'[d]
  <1>1. ASSUME NEW c \in Devices, NEW ids \in SUBSET (DOMAIN buffer),
               IngestBatch(c, ids)
        PROVE  \A d \in Devices : buckets[d] \subseteq buckets'[d]
    BY <1>1, IngestEffect
  <1>2. ASSUME NEW w \in Workers, Handle(w)
        PROVE  \A d \in Devices : buckets[d] \subseteq buckets'[d]
    <2>1. worker[w].dev \in Devices /\ worker[w].ids \in SUBSET (DOMAIN buffer)
      BY <1>2 DEF Handle, TypeOK
    <2>2. QED
      BY <1>1, <1>2, <2>1 DEF Handle
  <1>3. ASSUME NEW m \in strays, HandleStray(m)
        PROVE  \A d \in Devices : buckets[d] \subseteq buckets'[d]
    <2>1. m.dev \in Devices /\ m.ids \in SUBSET (DOMAIN buffer)
      BY DEF TypeOK
    <2>2. QED
      BY <1>1, <1>3, <2>1 DEF HandleStray
  <1>4. QED
    BY <1>2, <1>3, BackendSteps

\* A row becomes synced only in the pass that got a 200 for it.
LEMMA SyncedSteps ==
    ASSUME TypeOK, [Next]_vars
    PROVE  \A i \in DOMAIN buffer' : buffer'[i].synced =>
             /\ i \in DOMAIN buffer
             /\ \/ buffer[i].synced
                \/ \E w \in Workers : worker[w].pc = "ok" /\ i \in worker[w].ids
  <1>1. ASSUME NEW a \in Apps, FlushRow(a),
               NEW i \in DOMAIN buffer', buffer'[i].synced
        PROVE  i \in DOMAIN buffer /\ buffer[i].synced
    <2>1. [min |-> bucket, app |-> a, synced |-> FALSE] \in Row
      BY DEF TypeOK, Row
    <2>2. QED
      BY <1>1, <2>1, AppendRow DEF FlushRow, TypeOK
  <1>2. ASSUME NEW w \in Workers, MarkSynced(w),
               NEW i \in DOMAIN buffer', buffer'[i].synced
        PROVE  /\ i \in DOMAIN buffer
               /\ buffer[i].synced \/ (worker[w].pc = "ok" /\ i \in worker[w].ids)
    BY <1>2, MarkRows DEF MarkSynced, TypeOK
  <1>3. CASE UNCHANGED buffer
    BY <1>3
  <1>4. QED
    BY <1>1, <1>2, <1>3
    DEF Next, Agent, Account, Sync, Network, OpenBucket, Stop, Start,
        RegisterDevice, StoreToken, RegistrationLost, SignOut, ReadToken,
        PostBatch, ReadFails, Handle, Refuse, TimeOut, AnswerLost, HandleStray, DropStray,
        vars, agentVars

\* A pass has its 200 because the backend just handled it, or had it already.
LEMMA AckSteps ==
    ASSUME TypeOK, [Next]_vars, NEW w \in Workers, worker'[w].pc = "ok"
    PROVE  /\ worker'[w].dev = worker[w].dev
           /\ worker'[w].ids = worker[w].ids
           /\ worker[w].pc = "ok" \/ Handle(w)
  <1>1. CASE UNCHANGED worker
    BY <1>1
  <1>2. CASE Stop
    BY <1>2 DEF Stop, Idle
  <1>3. ASSUME NEW v \in Workers, Sync(v)
        PROVE  /\ worker'[w].dev = worker[w].dev
               /\ worker'[w].ids = worker[w].ids
               /\ worker[w].pc = "ok" \/ Handle(w)
    <2>1. CASE v # w
      BY <1>3, <2>1
      DEF Sync, ReadToken, PostBatch, ReadFails, Handle, Refuse, TimeOut, AnswerLost,
          MarkSynced, TypeOK
    <2>2. CASE v = w
      <3>1. CASE Handle(w)
        BY <3>1 DEF Handle, TypeOK, Pass
      <3>2. CASE PostBatch(w)
        <4>1. PICK B \in Batches :
                worker' = [worker EXCEPT ![w] =
                  IF B = {} THEN Idle ELSE [@ EXCEPT !.pc = "wire", !.ids = B]]
          BY <3>2 DEF PostBatch
        <4>2. worker'[w].pc # "ok"
          BY <4>1 DEF TypeOK, Pass, Idle
        <4>3. QED
          BY <4>2
      <3>3. CASE ReadToken(w) \/ ReadFails(w) \/ Refuse(w) \/ TimeOut(w) \/ AnswerLost(w)
                  \/ MarkSynced(w)
        BY <3>3 DEF ReadToken, ReadFails, Refuse, TimeOut, AnswerLost, MarkSynced, Idle,
                    TypeOK
      <3>4. QED
        BY <1>3, <2>2, <3>1, <3>2, <3>3 DEF Sync
    <2>3. QED
      BY <2>1, <2>2
  <1>4. QED
    BY <1>1, <1>2, <1>3
    DEF Next, Agent, Account, Network, FlushRow, OpenBucket, Start,
        RegisterDevice, StoreToken, RegistrationLost, SignOut, HandleStray,
        DropStray, vars

LEMMA SyncedStep ==
    ASSUME TypeOK, SyncedIsCounted, AckedIsCounted, [Next]_vars
    PROVE  SyncedIsCounted' /\ AckedIsCounted'
  <1>1. /\ \A i \in DOMAIN buffer : i \in DOMAIN buffer' /\ Key(i)' = Key(i)
        /\ \A d \in Devices : buckets[d] \subseteq buckets'[d]
        /\ \A d \in Devices : buckets[d] \subseteq DOMAIN buffer
    BY KeysStable, BucketsGrow DEF TypeOK
  <1>2. SyncedIsCounted'
    <2> SUFFICES ASSUME NEW i \in DOMAIN buffer', buffer'[i].synced
                 PROVE  \E d \in Devices : \E j \in buckets'[d] : Key(j)' = Key(i)'
      BY DEF SyncedIsCounted
    <2>1. \E d \in Devices : \E j \in buckets[d] : Key(j) = Key(i)
      <3>1. CASE i \in DOMAIN buffer /\ buffer[i].synced
        BY <3>1 DEF SyncedIsCounted
      <3>2. ASSUME NEW w \in Workers, worker[w].pc = "ok", i \in worker[w].ids
            PROVE  \E d \in Devices : \E j \in buckets[d] : Key(j) = Key(i)
        <4>1. worker[w].dev \in Devices
          BY <3>2 DEF TypeOK
        <4>2. QED
          BY <3>2, <4>1 DEF AckedIsCounted
      <3>3. QED
        BY <3>1, <3>2, SyncedSteps
    <2>2. i \in DOMAIN buffer
      BY SyncedSteps
    <2>3. QED
      BY <1>1, <2>1, <2>2
  <1>3. AckedIsCounted'
    <2> SUFFICES ASSUME NEW w \in Workers, worker'[w].pc = "ok",
                        NEW i \in worker'[w].ids
                 PROVE  \E j \in buckets'[worker'[w].dev] : Key(j)' = Key(i)'
      BY DEF AckedIsCounted
    <2>1. /\ worker'[w].dev = worker[w].dev
          /\ worker'[w].ids = worker[w].ids
          /\ worker[w].pc = "ok" \/ Handle(w)
      BY AckSteps
    <2>2. /\ worker[w].dev \in Devices
          /\ i \in DOMAIN buffer
          /\ worker[w].ids \in SUBSET (DOMAIN buffer)
      BY <2>1 DEF Handle, TypeOK
    <2>3. CASE worker[w].pc = "ok"
      BY <1>1, <2>1, <2>2, <2>3 DEF AckedIsCounted
    <2>4. CASE Handle(w)
      <3>1. \E j \in buckets'[worker[w].dev] : Key(j) = Key(i)
        BY <2>1, <2>2, <2>4, IngestEffect DEF Handle
      <3>2. \A j \in DOMAIN buffer : Key(j)' = Key(j)
        BY <1>1
      <3>3. TypeOK'
        BY <2>4, SyncStepTypes DEF Sync
      <3>4. buckets'[worker[w].dev] \subseteq DOMAIN buffer
        BY <2>2, <2>4, <3>3 DEF Handle, agentVars, TypeOK
      <3>5. QED
        BY <2>1, <2>2, <3>1, <3>2, <3>4
    <2>5. QED
      BY <2>1, <2>3, <2>4
  <1>4. QED
    BY <1>2, <1>3

\* The agent never gives up a row the backend does not count.
THEOREM NothingForgotten == Spec => []SyncedIsCounted
  <1>1. Init => SyncedIsCounted /\ AckedIsCounted
    BY DEF Init, Idle, SyncedIsCounted, AckedIsCounted
  <1>2. TypeOK /\ SyncedIsCounted /\ AckedIsCounted /\ [Next]_vars
          => SyncedIsCounted' /\ AckedIsCounted'
    BY SyncedStep
  <1>3. QED
    BY <1>1, <1>2, TypeCorrect, PTL DEF Spec

-----------------------------------------------------------------------------
(***************************************************************************)
(* While no restart reopens a flushed minute, rows have distinct keys, so  *)
(* the stored row that counts for a synced row is that row itself.         *)
(***************************************************************************)
FlushInv ==
    /\ \A i \in DOMAIN buffer : buffer[i].min <= bucket
    /\ ~reopened =>
         /\ \A i \in DOMAIN buffer : buffer[i].min = bucket => buffer[i].app \in written
         /\ \A i, j \in DOMAIN buffer : Key(i) = Key(j) => i = j

LEMMA FlushStep ==
    ASSUME TypeOK, FlushInv, [Next]_vars
    PROVE  FlushInv'
  <1>1. ASSUME NEW a \in Apps, FlushRow(a)
        PROVE  FlushInv'
    <2>1. DEFINE n == Len(buffer) + 1
    <2>2. [min |-> bucket, app |-> a, synced |-> FALSE] \in Row
      BY DEF TypeOK, Row
    <2>3. /\ DOMAIN buffer' = DOMAIN buffer \cup {n}
          /\ \A i \in DOMAIN buffer : buffer'[i] = buffer[i]
          /\ buffer'[n].min = bucket /\ buffer'[n].app = a
      BY <1>1, <2>2, AppendRow DEF FlushRow, TypeOK
    <2>4. bucket \in Int
      BY DEF TypeOK, Minutes
    <2>5. a \notin written /\ written' = written \cup {a} /\ bucket' = bucket
          /\ reopened' = reopened
      BY <1>1 DEF FlushRow, historyVars
    <2>6. \A i \in DOMAIN buffer' : buffer'[i].min <= bucket'
      BY <2>3, <2>4, <2>5 DEF FlushInv
    <2>7. ASSUME ~reopened'
          PROVE  \A i \in DOMAIN buffer' :
                   buffer'[i].min = bucket' => buffer'[i].app \in written'
      BY <2>3, <2>5, <2>7 DEF FlushInv
    <2>8. ASSUME ~reopened', NEW i \in DOMAIN buffer', NEW j \in DOMAIN buffer',
                 Key(i)' = Key(j)'
          PROVE  i = j
      <3>1. /\ buffer'[i].min = buffer'[j].min
            /\ buffer'[i].app = buffer'[j].app
        BY <2>8 DEF Key
      <3>2. CASE i \in DOMAIN buffer /\ j \in DOMAIN buffer
        BY <2>3, <2>5, <2>8, <3>1, <3>2 DEF FlushInv, Key
      <3>3. CASE i = n /\ j \in DOMAIN buffer
        BY <2>3, <2>5, <2>8, <3>1, <3>3 DEF FlushInv
      <3>4. CASE j = n /\ i \in DOMAIN buffer
        BY <2>3, <2>5, <2>8, <3>1, <3>4 DEF FlushInv
      <3>5. QED
        BY <2>3, <3>2, <3>3, <3>4
    <2>9. QED
      BY <2>6, <2>7, <2>8 DEF FlushInv
  <1>2. ASSUME NEW m \in Minutes, OpenBucket(m)
        PROVE  FlushInv'
    <2>1. /\ bucket \in Int /\ m \in Int
          /\ \A i \in DOMAIN buffer : buffer[i].min \in Int
      BY RowTypes DEF Minutes
    <2>2. /\ \A i \in DOMAIN buffer : buffer[i].min < m
          /\ UNCHANGED <<buffer, reopened>> /\ bucket' = m
      BY <1>2, <2>1 DEF OpenBucket, FlushInv, historyVars
    <2>3. QED
      BY <2>1, <2>2 DEF FlushInv, Key
  <1>3. ASSUME NEW m \in Minutes, Start(m)
        PROVE  FlushInv'
    <2>1. /\ bucket \in Int /\ m \in Int
          /\ \A i \in DOMAIN buffer : buffer[i].min \in Int
      BY RowTypes DEF Minutes
    <2>2. /\ UNCHANGED buffer /\ bucket' = m /\ m >= bucket
          /\ reopened' = (reopened \/ (m = bucket /\ written # {}))
      BY <1>3 DEF Start
    <2>3. \A i \in DOMAIN buffer' : buffer'[i].min <= bucket'
      BY <2>1, <2>2 DEF FlushInv
    <2>4. ASSUME ~reopened'
          PROVE  \A i \in DOMAIN buffer' :
                   buffer'[i].min = bucket' => buffer'[i].app \in written'
      <3>1. CASE m = bucket
        BY <2>2, <2>4, <3>1 DEF FlushInv
      <3>2. CASE m > bucket
        BY <2>1, <2>2, <3>2 DEF FlushInv
      <3>3. QED
        BY <2>1, <2>2, <3>1, <3>2
    <2>5. ASSUME ~reopened'
          PROVE  \A i, j \in DOMAIN buffer' : Key(i)' = Key(j)' => i = j
      BY <2>2, <2>5 DEF FlushInv, Key
    <2>6. QED
      BY <2>3, <2>4, <2>5 DEF FlushInv
  <1>4. ASSUME NEW w \in Workers, MarkSynced(w)
        PROVE  FlushInv'
    <2>1. /\ DOMAIN buffer' = DOMAIN buffer
          /\ \A i \in DOMAIN buffer :
               buffer'[i].min = buffer[i].min /\ buffer'[i].app = buffer[i].app
      BY <1>4, MarkRows DEF MarkSynced, TypeOK
    <2>2. \A i \in DOMAIN buffer : Key(i)' = Key(i)
      BY <2>1 DEF Key
    <2>3. UNCHANGED <<bucket, written, reopened>>
      BY <1>4 DEF MarkSynced, historyVars
    <2>4. QED
      BY <2>1, <2>2, <2>3 DEF FlushInv
  <1>5. CASE UNCHANGED <<buffer, bucket, written, reopened>>
    BY <1>5 DEF FlushInv, Key
  <1>6. QED
    BY <1>1, <1>2, <1>3, <1>4, <1>5
    DEF Next, Agent, Account, Sync, Network, Stop, RegisterDevice, StoreToken,
        RegistrationLost, SignOut, ReadToken, PostBatch, ReadFails, Handle, Refuse,
        TimeOut, AnswerLost, HandleStray, DropStray, vars, agentVars,
        historyVars

\* Without a reopened minute, no synced row's counts are missing from the
\* backend.
THEOREM NothingLost == Spec => []SyncedIsKept
  <1>1. Init => FlushInv
    BY DEF Init, FlushInv
  <1>2. TypeOK /\ FlushInv /\ [Next]_vars => FlushInv'
    BY FlushStep
  <1>3. TypeOK /\ FlushInv /\ SyncedIsCounted => SyncedIsKept
    BY DEF TypeOK, FlushInv, SyncedIsCounted, SyncedIsKept
  <1>4. QED
    BY <1>1, <1>2, <1>3, TypeCorrect, NothingForgotten, PTL DEF Spec

\* A row the agent never sends again is safe with the backend.
THEOREM SyncedRowsAreSafe == Spec => []SyncedIsSafe
  BY NothingForgotten, NothingLost, PTL DEF SyncedIsSafe

-----------------------------------------------------------------------------
(***************************************************************************)
(* While every sign-out finds nothing in flight, everything in flight, and *)
(* everything counted but not yet acknowledged, belongs to the device      *)
(* whose token is stored now.                                              *)
(***************************************************************************)
ExposureInv ==
    /\ registering # NoDevice => token = NoDevice
    /\ ~tainted =>
         /\ \A w \in Workers : worker[w].pc # "idle" =>
              /\ worker[w].dev = token
              /\ \A d \in Devices : \A i \in worker[w].ids \cap buckets[d] : d = token
         /\ \A m \in strays :
              /\ m.dev = token
              /\ \A d \in Devices : \A i \in m.ids \cap buckets[d] : d = token
         /\ \A d \in Devices : \A i \in Unsynced \cap buckets[d] : d = token
         /\ \A c, d \in Devices : buckets[c] \cap buckets[d] # {} => c = d

\* Handling a request of the current device keeps the invariant: all it stores
\* is stored under that device.
LEMMA ExposureIngest ==
    ASSUME TypeOK, ExposureInv, NEW d \in Devices,
           NEW ids \in SUBSET (DOMAIN buffer), IngestBatch(d, ids),
           ~tainted => d = token,
           ~tainted => \A c \in Devices : \A i \in ids \cap buckets[c] : c = token
    PROVE  ~tainted =>
             /\ \A c \in Devices : buckets'[c] # buckets[c] => c = token
             /\ \A b, c \in Devices : buckets'[b] \cap buckets'[c] # {} => b = c
  <1>1. PICK S \in SUBSET ids :
          /\ buckets'[d] = buckets[d] \cup S
          /\ \A c \in Devices \ {d} : buckets'[c] = buckets[c]
    BY IngestEffect
  <1>2. ASSUME ~tainted
        PROVE  \A c \in Devices : buckets'[c] # buckets[c] => c = token
    BY <1>1, <1>2
  <1>3. ASSUME ~tainted, NEW b \in Devices, NEW c \in Devices,
               NEW i \in buckets'[b] \cap buckets'[c]
        PROVE  b = c
    <2>1. d = token
      BY <1>3
    <2>2. CASE i \in S
      BY <1>1, <1>3, <2>1, <2>2
    <2>3. CASE i \notin S
      BY <1>1, <1>3, <2>3 DEF ExposureInv
    <2>4. QED
      BY <2>2, <2>3
  <1>4. QED
    BY <1>2, <1>3

LEMMA ExposureStep ==
    ASSUME TypeOK, ExposureInv, [Next]_vars
    PROVE  ExposureInv'
  <1> USE ConstantsAssumption
  <1>1. ASSUME NEW a \in Apps, FlushRow(a)
        PROVE  ExposureInv'
    <2>1. [min |-> bucket, app |-> a, synced |-> FALSE] \in Row
      BY DEF TypeOK, Row
    <2>2. /\ DOMAIN buffer' = DOMAIN buffer \cup {Len(buffer) + 1}
          /\ Len(buffer) + 1 \notin DOMAIN buffer
          /\ \A i \in DOMAIN buffer : buffer'[i] = buffer[i]
      BY <1>1, <2>1, AppendRow DEF FlushRow, TypeOK
    <2>3. \A d \in Devices : Unsynced' \cap buckets[d] \subseteq Unsynced
      BY <2>2 DEF Unsynced, TypeOK
    <2>4. QED
      BY <1>1, <2>3 DEF FlushRow, ExposureInv, backendVars, historyVars
  <1>2. ASSUME NEW m \in Minutes, OpenBucket(m) \/ Start(m)
        PROVE  ExposureInv'
    BY <1>2 DEF OpenBucket, Start, ExposureInv, Unsynced, backendVars, historyVars
  <1>3. CASE Stop
    <2>1. \A w \in Workers : worker'[w].pc = "idle"
      BY <1>3 DEF Stop, Idle
    <2>2. \A m \in strays' : m \in strays \/ \E w \in Workers :
             /\ worker[w].pc = "wire"
             /\ m.dev = worker[w].dev /\ m.ids = worker[w].ids
      BY <1>3 DEF Stop
    <2>3. UNCHANGED <<token, buckets, tainted, buffer>> /\ registering' = NoDevice
      BY <1>3 DEF Stop, backendVars, historyVars
    <2>4. QED
      BY <2>1, <2>2, <2>3 DEF ExposureInv, Unsynced
  <1>4. ASSUME NEW d \in Devices, RegisterDevice(d)
        PROVE  ExposureInv'
    BY <1>4 DEF RegisterDevice, ExposureInv, Unsynced, historyVars
  <1>5. CASE StoreToken
    <2>1. token = NoDevice /\ NoDevice \notin Devices /\ issued \subseteq Devices
      BY <1>5 DEF StoreToken, ExposureInv, TypeOK
    <2>2. ASSUME ~tainted
          PROVE  /\ \A w \in Workers : worker[w].pc = "idle"
                 /\ strays = {}
                 /\ \A d \in Devices : Unsynced \cap buckets[d] = {}
                 /\ \A c, d \in Devices : buckets[c] \cap buckets[d] # {} => c = d
      BY <2>1, <2>2 DEF ExposureInv, TypeOK
    <2>3. /\ UNCHANGED <<worker, strays, buckets, buffer, tainted>>
          /\ registering' = NoDevice
      BY <1>5 DEF StoreToken, backendVars, historyVars
    <2>4. QED
      BY <2>2, <2>3 DEF ExposureInv, Unsynced
  <1>6. CASE RegistrationLost
    BY <1>6 DEF RegistrationLost, ExposureInv, Unsynced, backendVars, historyVars
  <1>7. CASE SignOut
    <2>1. /\ UNCHANGED <<worker, strays, buckets, buffer, registering>>
          /\ token' = NoDevice
          /\ tainted' = (tainted \/ ~Quiescent)
      BY <1>7 DEF SignOut, backendVars
    <2>2. ASSUME ~tainted'
          PROVE  /\ \A w \in Workers : worker[w].pc = "idle"
                 /\ strays = {}
                 /\ \A d \in Devices : Unsynced \cap buckets[d] = {}
                 /\ \A c, d \in Devices : buckets[c] \cap buckets[d] # {} => c = d
      BY <2>1, <2>2 DEF ExposureInv, Quiescent
    <2>3. QED
      BY <2>1, <2>2 DEF ExposureInv, Unsynced
  <1>8. ASSUME NEW w \in Workers, ReadToken(w)
        PROVE  ExposureInv'
    <2>1. /\ worker'[w].dev = token /\ worker'[w].ids = {}
          /\ \A v \in Workers \ {w} : worker'[v] = worker[v]
          /\ UNCHANGED <<strays, buckets, buffer, tainted, token, registering>>
      BY <1>8 DEF ReadToken, TypeOK, agentVars, backendVars, historyVars
    <2>2. QED
      BY <2>1 DEF ExposureInv, Unsynced
  <1>9. ASSUME NEW w \in Workers, PostBatch(w)
        PROVE  ExposureInv'
    <2>1. PICK B \in Batches :
            worker' = [worker EXCEPT ![w] =
              IF B = {} THEN Idle ELSE [@ EXCEPT !.pc = "wire", !.ids = B]]
      BY <1>9 DEF PostBatch
    <2>2. B \subseteq Unsynced
      BY DEF Batches
    <2>3. \/ worker'[w].pc = "idle"
          \/ worker'[w].dev = worker[w].dev /\ worker'[w].ids = B
      BY <2>1 DEF TypeOK, Pass, Idle
    <2>4. /\ \A v \in Workers \ {w} : worker'[v] = worker[v]
          /\ UNCHANGED <<strays, buckets, buffer, tainted, token, registering>>
          /\ worker[w].pc # "idle"
      BY <1>9, <2>1 DEF PostBatch, TypeOK, agentVars, backendVars, historyVars
    <2>5. QED
      BY <2>2, <2>3, <2>4 DEF ExposureInv, Unsynced
  <1>10. ASSUME NEW w \in Workers, Handle(w)
         PROVE  ExposureInv'
    <2>1. /\ worker[w].dev \in Devices
          /\ worker[w].ids \in SUBSET (DOMAIN buffer)
          /\ IngestBatch(worker[w].dev, worker[w].ids)
          /\ \A v \in Workers :
               /\ worker'[v].dev = worker[v].dev /\ worker'[v].ids = worker[v].ids
               /\ worker'[v].pc # "idle" => worker[v].pc # "idle"
          /\ UNCHANGED <<strays, buffer, tainted, token, registering>>
      BY <1>10 DEF Handle, TypeOK, Pass, agentVars, historyVars
    <2>2. ~tainted => worker[w].dev = token
      BY <1>10 DEF Handle, ExposureInv
    <2>3. ~tainted => \A c \in Devices : \A i \in worker[w].ids \cap buckets[c] : c = token
      BY <1>10 DEF Handle, ExposureInv
    <2>4. ~tainted =>
             /\ \A c \in Devices : buckets'[c] # buckets[c] => c = token
             /\ \A b, c \in Devices : buckets'[b] \cap buckets'[c] # {} => b = c
      BY <2>1, <2>2, <2>3, ExposureIngest
    <2>5. QED
      BY <2>1, <2>4 DEF ExposureInv, Unsynced
  <1>11. ASSUME NEW w \in Workers, ReadFails(w) \/ Refuse(w) \/ AnswerLost(w)
         PROVE  ExposureInv'
    <2>1. /\ worker' = [worker EXCEPT ![w] = Idle]
          /\ UNCHANGED <<strays, buckets, buffer, tainted, token, registering>>
      BY <1>11 DEF ReadFails, Refuse, AnswerLost, agentVars, backendVars, historyVars
    <2>2. QED
      BY <2>1 DEF ExposureInv, Unsynced, TypeOK, Idle
  <1>12. ASSUME NEW w \in Workers, TimeOut(w)
         PROVE  ExposureInv'
    <2>1. /\ worker' = [worker EXCEPT ![w] = Idle]
          /\ worker[w].pc = "wire"
          /\ strays' = strays \cup {[dev |-> worker[w].dev, ids |-> worker[w].ids]}
          /\ UNCHANGED <<buckets, buffer, tainted, token, registering>>
      BY <1>12 DEF TimeOut, agentVars, backendVars, historyVars
    <2>2. QED
      BY <2>1 DEF ExposureInv, Unsynced, TypeOK, Idle
  <1>13. ASSUME NEW w \in Workers, MarkSynced(w)
         PROVE  ExposureInv'
    <2>1. Unsynced' \subseteq Unsynced
      BY <1>13, MarkRows DEF MarkSynced, TypeOK, Unsynced
    <2>2. /\ worker' = [worker EXCEPT ![w] = Idle]
          /\ UNCHANGED <<strays, buckets, tainted, token, registering>>
      BY <1>13 DEF MarkSynced, backendVars, historyVars
    <2>3. QED
      BY <2>1, <2>2 DEF ExposureInv, TypeOK, Idle
  <1>14. ASSUME NEW m \in strays, HandleStray(m)
         PROVE  ExposureInv'
    <2>1. /\ m.dev \in Devices /\ m.ids \in SUBSET (DOMAIN buffer)
          /\ IngestBatch(m.dev, m.ids)
          /\ strays' \subseteq strays
          /\ UNCHANGED <<worker, buffer, tainted, token, registering>>
      BY <1>14 DEF HandleStray, TypeOK, agentVars, historyVars
    <2>2. ~tainted =>
             /\ \A c \in Devices : buckets'[c] # buckets[c] => c = token
             /\ \A b, c \in Devices : buckets'[b] \cap buckets'[c] # {} => b = c
      BY <2>1, ExposureIngest DEF ExposureInv
    <2>3. QED
      BY <2>1, <2>2 DEF ExposureInv, Unsynced
  <1>15. ASSUME NEW m \in strays, DropStray(m)
         PROVE  ExposureInv'
    BY <1>15 DEF DropStray, ExposureInv, Unsynced, agentVars, backendVars,
                 historyVars
  <1>16. CASE UNCHANGED vars
    BY <1>16 DEF ExposureInv, Unsynced, vars, agentVars, backendVars, historyVars
  <1>17. QED
    BY <1>1, <1>2, <1>3, <1>4, <1>5, <1>6, <1>7, <1>8, <1>9, <1>10, <1>11,
       <1>12, <1>13, <1>14, <1>15, <1>16
    DEF Next, Agent, Account, Sync, Network

\* Without such a sign-out, nothing is counted under two devices.
THEOREM NoDoubleCount == Spec => []CountedOnce
  <1>1. Init => ExposureInv
    BY DEF Init, ExposureInv, Idle
  <1>2. TypeOK /\ ExposureInv /\ [Next]_vars => ExposureInv'
    BY ExposureStep
  <1>3. ExposureInv => CountedOnce
    BY DEF ExposureInv, CountedOnce
  <1>4. QED
    BY <1>1, <1>2, <1>3, TypeCorrect, PTL DEF Spec

-----------------------------------------------------------------------------
(***************************************************************************)
(* Every step of the sync path is a step, or a stutter, of the ledger.     *)
(***************************************************************************)

\* What the ledger sees of a row.
RecordedRows == [i \in DOMAIN buffer |-> Key(i)]
CountedKeys  == UNION {{<<d, Key(i)>> : i \in buckets[d]} : d \in Devices}
SettledRows  == {i \in DOMAIN buffer : buffer[i].synced}

\* Steps that leave every row and table alone leave the ledger alone.
LEMMA LedgerStutter ==
    ASSUME UNCHANGED <<buffer, buckets>>
    PROVE  UNCHANGED L!vars
  BY DEF L!vars, Key

LEMMA RecordedTypes ==
    ASSUME TypeOK
    PROVE  RecordedRows \in Seq(Minutes \X Apps) /\ Len(RecordedRows) = Len(buffer)
  <1>1. /\ Len(buffer) \in Nat
        /\ DOMAIN buffer = 1..Len(buffer)
        /\ \A i \in DOMAIN buffer : buffer[i] \in Row
    BY LenProperties DEF TypeOK
  <1>2. \A i \in DOMAIN buffer : Key(i) \in Minutes \X Apps
    BY <1>1 DEF Key, Row
  <1>3. RecordedRows \in [1..Len(buffer) -> Minutes \X Apps]
    BY <1>1, <1>2 DEF RecordedRows
  <1>4. QED
    BY <1>1, <1>3

LEMMA LedgerRecord ==
    ASSUME TypeOK, NEW a \in Apps, FlushRow(a)
    PROVE  L!Record(<<bucket, a>>)
  <1> DEFINE r == [min |-> bucket, app |-> a, synced |-> FALSE]
  <1>2. r \in Row
    BY DEF TypeOK, Row
  <1>3. /\ buffer' \in Seq(Row)
        /\ Len(buffer') = Len(buffer) + 1
        /\ DOMAIN buffer' = DOMAIN buffer \cup {Len(buffer) + 1}
        /\ DOMAIN buffer = 1..Len(buffer)
        /\ Len(buffer) \in Nat
        /\ \A i \in DOMAIN buffer : buffer'[i] = buffer[i]
        /\ buffer'[Len(buffer) + 1] = r
    BY <1>2, AppendRow DEF FlushRow, TypeOK
  <1>4. /\ \A i \in DOMAIN buffer : Key(i)' = Key(i)
        /\ \A i : i = Len(buffer) + 1 => Key(i)' = <<bucket, a>>
    <2>1. \A i \in DOMAIN buffer : Key(i)' = Key(i)
      BY <1>3 DEF Key
    <2>2. \A i : i = Len(buffer) + 1 => Key(i)' = <<r.min, r.app>>
      BY <1>3 DEF Key
    <2>3. QED
      BY <2>1, <2>2
  <1>5. RecordedRows' = Append(RecordedRows, <<bucket, a>>)
    <2> DEFINE e == <<bucket, a>>
               k == Append(RecordedRows, e)
    <2>1. /\ DOMAIN RecordedRows' = DOMAIN buffer'
          /\ \A i \in DOMAIN buffer' : RecordedRows'[i] = Key(i)'
          /\ \A i \in DOMAIN buffer : RecordedRows[i] = Key(i)
      BY DEF RecordedRows
    <2>2. RecordedRows \in Seq(Minutes \X Apps) /\ Len(RecordedRows) = Len(buffer)
      BY <1>3, RecordedTypes
    <2>3. e \in Minutes \X Apps
      BY DEF TypeOK
    <2> HIDE DEF e
    <2>4. /\ k \in Seq(Minutes \X Apps)
          /\ Len(k) = Len(buffer) + 1
          /\ \A i \in 1..Len(buffer) : k[i] = RecordedRows[i]
          /\ k[Len(buffer) + 1] = e
      BY <2>2, <2>3, AppendProperties
    <2>5. DOMAIN k = DOMAIN buffer'
      BY <1>3, <2>4, LenProperties
    <2>6. \A i \in DOMAIN buffer' : RecordedRows'[i] = k[i]
      BY <1>3, <1>4, <2>1, <2>4 DEF e
    <2>7. RecordedRows' = [i \in DOMAIN buffer' |-> k[i]]
      BY <2>6 DEF RecordedRows
    <2>8. k = [i \in DOMAIN buffer' |-> k[i]]
      BY <1>3, <2>4, <2>5, LenProperties
    <2>9. QED
      BY <2>7, <2>8 DEF e
  <1>6. CountedKeys' = CountedKeys
    <2>1. \A d \in Devices : buckets[d] \subseteq DOMAIN buffer
      BY DEF TypeOK
    <2>2. buckets' = buckets
      BY DEF FlushRow, backendVars
    <2>3. \A d \in Devices :
            {<<d, Key(i)'>> : i \in buckets'[d]} = {<<d, Key(i)>> : i \in buckets[d]}
      BY <1>4, <2>1, <2>2
    <2>4. QED
      BY <2>3 DEF CountedKeys
  <1>7. SettledRows' = SettledRows
    BY <1>3 DEF SettledRows
  <1>8. QED
    BY <1>5, <1>6, <1>7 DEF L!Record, RecordedRows, CountedKeys, SettledRows

LEMMA LedgerCount ==
    ASSUME TypeOK, NEW d \in Devices, NEW ids \in SUBSET (DOMAIN buffer),
           IngestBatch(d, ids), UNCHANGED buffer
    PROVE  L!Count(d)
  <1>1. PICK S \in SUBSET ids :
          /\ buckets'[d] = buckets[d] \cup S
          /\ \A c \in Devices \ {d} : buckets'[c] = buckets[c]
    BY IngestEffect
  <1>2. \A i : Key(i)' = Key(i)
    BY DEF Key
  <1>3. CountedKeys' = CountedKeys \cup {<<d, RecordedRows[i]>> : i \in S}
    <2>1. {<<d, RecordedRows[i]>> : i \in S} = {<<d, Key(i)>> : i \in S}
      BY <1>1 DEF RecordedRows
    <2>2. \A x : x \in CountedKeys' <=>
            \E c \in Devices : \E i \in buckets'[c] : x = <<c, Key(i)>>
      BY <1>2 DEF CountedKeys
    <2>3. \A x : x \in CountedKeys <=>
            \E c \in Devices : \E i \in buckets[c] : x = <<c, Key(i)>>
      BY DEF CountedKeys
    <2>4. \A x : x \in CountedKeys' <=>
            x \in CountedKeys \/ \E i \in S : x = <<d, Key(i)>>
      BY <1>1, <2>2, <2>3
    <2>5. QED
      BY <2>1, <2>4
  <1>4. S \in SUBSET (DOMAIN RecordedRows)
    BY <1>1 DEF RecordedRows
  <1>5. UNCHANGED <<RecordedRows, SettledRows>>
    BY <1>2 DEF RecordedRows, SettledRows
  <1>6. QED
    BY <1>3, <1>4, <1>5 DEF L!Count, RecordedRows, CountedKeys, SettledRows

LEMMA LedgerSettle ==
    ASSUME TypeOK, AckedIsCounted, NEW w \in Workers, MarkSynced(w)
    PROVE  L!Settle
  <1>1. /\ worker[w].pc = "ok" /\ worker[w].dev \in Devices
        /\ worker[w].ids \in SUBSET (DOMAIN buffer)
    BY DEF MarkSynced, TypeOK
  <1>2. /\ DOMAIN buffer' = DOMAIN buffer
        /\ \A i \in DOMAIN buffer :
             /\ Key(i)' = Key(i)
             /\ buffer'[i].synced <=> (buffer[i].synced \/ i \in worker[w].ids)
    BY MarkRows DEF MarkSynced, TypeOK, Key
  <1>3. \A i \in worker[w].ids : <<worker[w].dev, RecordedRows[i]>> \in CountedKeys
    BY <1>1 DEF AckedIsCounted, RecordedRows, CountedKeys
  <1>4. SettledRows' = SettledRows \cup worker[w].ids
    BY <1>1, <1>2 DEF SettledRows
  <1>5. RecordedRows' = RecordedRows
    BY <1>2 DEF RecordedRows
  <1>6. CountedKeys' = CountedKeys
    <2>1. /\ \A d \in Devices : buckets[d] \subseteq DOMAIN buffer
          /\ buckets' = buckets
      BY DEF TypeOK, MarkSynced, backendVars
    <2>2. \A d \in Devices :
            {<<d, Key(i)'>> : i \in buckets'[d]} = {<<d, Key(i)>> : i \in buckets[d]}
      BY <1>2, <2>1
    <2>3. QED
      BY <2>2 DEF CountedKeys
  <1>7. /\ worker[w].ids \in SUBSET (DOMAIN RecordedRows)
        /\ \A i \in worker[w].ids : \E d \in Devices :
             <<d, RecordedRows[i]>> \in CountedKeys
    BY <1>1, <1>3 DEF RecordedRows
  <1>8. QED
    BY <1>4, <1>5, <1>6, <1>7 DEF L!Settle, RecordedRows, CountedKeys, SettledRows

LEMMA LedgerStep ==
    ASSUME TypeOK, AckedIsCounted, [Next]_vars
    PROVE  [L!Next]_(L!vars)
  <1>1. ASSUME NEW a \in Apps, FlushRow(a)
        PROVE  L!Next
    <2>1. <<bucket, a>> \in Minutes \X Apps
      BY DEF TypeOK
    <2>2. QED
      BY <1>1, <2>1, LedgerRecord DEF L!Next
  <1>2. ASSUME NEW w \in Workers, Handle(w)
        PROVE  L!Next
    <2>1. /\ worker[w].dev \in Devices
          /\ worker[w].ids \in SUBSET (DOMAIN buffer)
          /\ IngestBatch(worker[w].dev, worker[w].ids)
          /\ UNCHANGED buffer
      BY <1>2 DEF Handle, TypeOK, agentVars
    <2>2. QED
      BY <2>1, LedgerCount DEF L!Next
  <1>3. ASSUME NEW m \in strays, HandleStray(m)
        PROVE  L!Next
    <2>1. /\ m.dev \in Devices
          /\ m.ids \in SUBSET (DOMAIN buffer)
          /\ IngestBatch(m.dev, m.ids)
          /\ UNCHANGED buffer
      BY <1>3 DEF HandleStray, TypeOK, agentVars
    <2>2. QED
      BY <2>1, LedgerCount DEF L!Next
  <1>4. ASSUME NEW w \in Workers, MarkSynced(w)
        PROVE  L!Next
    BY <1>4, LedgerSettle DEF L!Next
  <1>5. CASE UNCHANGED <<buffer, buckets>>
    BY <1>5, LedgerStutter
  <1>6. QED
    BY <1>1, <1>2, <1>3, <1>4, <1>5
    DEF Next, Agent, Account, Sync, Network, OpenBucket, Stop, Start,
        RegisterDevice, StoreToken, RegistrationLost, SignOut, ReadToken,
        PostBatch, ReadFails, Refuse, TimeOut, AnswerLost, DropStray, vars, agentVars,
        backendVars

\* The sync path implements the ledger: whatever the network and the user do,
\* an entry is recorded, then counted, and only then settled.
THEOREM ImplementsLedger == Spec => LedgerSpec
  <1>1. Init => L!Init
    <2> SUFFICES ASSUME Init PROVE L!Init
      OBVIOUS
    <2>1. DOMAIN buffer = {} /\ buffer = <<>> /\ \A d \in Devices : buckets[d] = {}
      BY DEF Init
    <2>2. RecordedRows = <<>>
      BY <2>1 DEF RecordedRows
    <2>3. CountedKeys = {}
      BY <2>1 DEF CountedKeys
    <2>4. SettledRows = {}
      BY <2>1 DEF SettledRows
    <2>5. QED
      BY <2>2, <2>3, <2>4 DEF L!Init, RecordedRows, CountedKeys, SettledRows
  <1>2. Init => SyncedIsCounted /\ AckedIsCounted
    BY DEF Init, Idle, SyncedIsCounted, AckedIsCounted
  <1>3. TypeOK /\ SyncedIsCounted /\ AckedIsCounted /\ [Next]_vars
          => SyncedIsCounted' /\ AckedIsCounted'
    BY SyncedStep
  <1>4. TypeOK /\ AckedIsCounted /\ [Next]_vars => [L!Next]_(L!vars)
    BY LedgerStep
  <1>5. QED
    BY <1>1, <1>2, <1>3, <1>4, TypeCorrect, PTL DEF Spec, LedgerSpec, L!Spec

=============================================================================
