------------------------------ MODULE AgentSync ------------------------------
(***************************************************************************)
(* The path a minute of activity takes from the desktop agent's SQLite     *)
(* file to the backend's totals, and everything that can interrupt it.     *)
(*                                                                         *)
(* The agent flushes one row per app and minute into events_buffer.  Sync  *)
(* passes (a periodic thread, the "Sync now" button, the pass that follows *)
(* a sign-in) run concurrently and unsynchronised: each reads the device   *)
(* token, reads a batch of unsynced rows, POSTs it, and marks the rows     *)
(* synced if the answer is 200.  The backend ingests a batch in one        *)
(* transaction and drops rows whose (device, minute, app) it already has.  *)
(* Requests and answers get lost, the app is killed and restarted, and the *)
(* user signs out and in again, which registers a NEW device.              *)
(*                                                                         *)
(* The counts a row carries are abstracted to the row's identity: what     *)
(* matters is which rows reached activity_buckets, and how many times each *)
(* was added to daily_rollups.                                             *)
(***************************************************************************)
EXTENDS Integers, Sequences, FiniteSets

CONSTANTS
    Devices,      \* device rows the backend can issue, one token each
    NoDevice,     \* device_token is unset or ""
    Workers,      \* threads that can be inside sync_once
    Periodic,     \* the one of them that runs by itself (keycount-sync)
    Apps,         \* app names
    MaxMinute,    \* bound: the minutes are 0..MaxMinute
    MaxRows,      \* bound: rows ever written to events_buffer
    BatchLimit    \* SYNC_BATCH, rows per request

ASSUME ConstantsAssumption ==
    /\ NoDevice \notin Devices
    /\ Periodic \in Workers
    /\ MaxMinute \in Nat
    /\ MaxRows \in Nat
    /\ BatchLimit \in Nat \ {0}

VARIABLES
    buffer,       \* events_buffer: sequence of rows, the index is the id
    bucket,       \* bucket_start of the counts being flushed
    written,      \* apps already written for that bucket by this process
    running,      \* the agent process is up
    token,        \* settings.device_token
    registering,  \* device whose registration answer is on its way
    worker,       \* per thread: where it is in sync_once, and with what
    strays,       \* requests still on the wire whose client gave up
    issued,       \* devices table
    buckets,      \* activity_buckets, as the local rows stored per device
    credits,      \* times a row was added to daily_rollups, per device
    tainted,      \* history: a sign-out happened with rows in flight
    reopened      \* history: a restart reopened an already flushed minute

agentVars   == <<buffer, bucket, written, running, token, registering>>
backendVars == <<issued, buckets, credits>>
historyVars == <<tainted, reopened>>
vars == <<agentVars, worker, strays, backendVars, historyVars>>

-----------------------------------------------------------------------------
RowIds  == 1..MaxRows
Minutes == 0..MaxMinute
Row     == [min : Minutes, app : Apps, synced : BOOLEAN]
Pass    == [pc : {"idle", "token", "wire", "ok"},
            dev : Devices \cup {NoDevice},
            ids : SUBSET RowIds]

Idle == [pc |-> "idle", dev |-> NoDevice, ids |-> {}]

\* What the backend's uniqueness rule sees of a row, besides the device.
Key(i) == <<buffer[i].min, buffer[i].app>>

Unsynced == {i \in DOMAIN buffer : ~buffer[i].synced}

\* Fault: the LIMIT is applied before the rows already synced are filtered out.
Batches_LimitFirst ==
    {B \cap Unsynced : B \in {C \in SUBSET DOMAIN buffer :
        /\ \/ C = DOMAIN buffer /\ Cardinality(C) <= BatchLimit
           \/ Cardinality(C) = BatchLimit
        /\ \A i \in C, j \in DOMAIN buffer \ C : buffer[i].min <= buffer[j].min}}

\* unsynced_batch: oldest minutes first, at most BatchLimit rows; rows of one
\* minute come in no particular order.
Batches ==
    {B \in SUBSET Unsynced :
        /\ \/ B = Unsynced /\ Cardinality(B) <= BatchLimit
           \/ Cardinality(B) = BatchLimit
        /\ \A i \in B, j \in Unsynced \ B : buffer[i].min <= buffer[j].min}

\* ON CONFLICT DO NOTHING over one batch: the rows that get inserted are one
\* per key the device does not have yet, whichever comes first in the batch.
Insertable(d, ids) ==
    {S \in SUBSET ids :
        /\ \A i \in S, j \in buckets[d] : Key(i) # Key(j)
        /\ \A i, j \in S : Key(i) = Key(j) => i = j
        /\ \A i \in ids : \E j \in S \cup buckets[d] : Key(j) = Key(i)}

\* daily_rollups += the row's counts, for every row inserted just now.
Credit(d, S) ==
    [credits EXCEPT ![d] = [i \in RowIds |-> IF i \in S THEN @[i] + 1 ELSE @[i]]]

\* Fault: rows the conflict clause skipped are rolled up all the same.
IngestBatch_SkipsCounted(d, ids) ==
    \E S \in Insertable(d, ids) :
        /\ buckets' = [buckets EXCEPT ![d] = @ \cup S]
        /\ credits' = Credit(d, ids)

\* handleIngestBatch as one committed transaction.
IngestBatch(d, ids) ==
    \E S \in Insertable(d, ids) :
        /\ buckets' = [buckets EXCEPT ![d] = @ \cup S]
        /\ credits' = Credit(d, S)

\* Fault: whatever is unsynced by now is marked, not the ids that were sent.
Marked_AllRows(ids) ==
    [i \in DOMAIN buffer |-> [buffer[i] EXCEPT !.synced = TRUE]]

\* mark_synced: one local transaction over the ids the pass had read.
Marked(ids) ==
    [i \in DOMAIN buffer |->
        IF i \in ids THEN [buffer[i] EXCEPT !.synced = TRUE] ELSE buffer[i]]

\* Nothing posted is still unaccounted for locally.
Quiescent ==
    /\ \A w \in Workers : worker[w].pc = "idle"
    /\ strays = {}
    /\ \A d \in Devices : buckets[d] \cap Unsynced = {}

-----------------------------------------------------------------------------
Init ==
    /\ buffer = <<>>
    /\ bucket = 0
    /\ written = {}
    /\ running = TRUE
    /\ token = NoDevice
    /\ registering = NoDevice
    /\ worker = [w \in Workers |-> Idle]
    /\ strays = {}
    /\ issued = {}
    /\ buckets = [d \in Devices |-> {}]
    /\ credits = [d \in Devices |-> [i \in RowIds |-> 0]]
    /\ tainted = FALSE
    /\ reopened = FALSE

\* insert_bucket, called once per app by a flush.  Each call is its own SQLite
\* statement, so a sync pass can read the rows of half a flush.
FlushRow(a) ==
    /\ running
    /\ a \notin written
    /\ Len(buffer) < MaxRows
    /\ buffer' = Append(buffer, [min |-> bucket, app |-> a, synced |-> FALSE])
    /\ written' = written \cup {a}
    /\ UNCHANGED <<bucket, running, token, registering, worker, strays,
                   backendVars, historyVars>>

\* Fault: a flush interval below a minute.
OpenBucket_SameMinute(m) ==
    /\ running
    /\ m >= bucket
    /\ bucket' = m
    /\ written' = {}
    /\ UNCHANGED <<buffer, running, token, registering, worker, strays,
                   backendVars, historyVars>>

\* A flush at least FLUSH_INTERVAL_S after the last one opens a later minute.
OpenBucket(m) ==
    /\ running
    /\ m > bucket
    /\ bucket' = m
    /\ written' = {}
    /\ UNCHANGED <<buffer, running, token, registering, worker, strays,
                   backendVars, historyVars>>

\* Quit or crash: the threads die, their requests stay on the wire.
Stop ==
    /\ running
    /\ running' = FALSE
    /\ registering' = NoDevice
    /\ worker' = [w \in Workers |-> Idle]
    /\ strays' = strays \cup
         {[dev |-> worker[w].dev, ids |-> worker[w].ids] :
             w \in {v \in Workers : worker[v].pc = "wire"}}
    /\ UNCHANGED <<buffer, bucket, written, token, backendVars, historyVars>>

\* Tracker::new opens the bucket of the current minute, which can be the very
\* minute the previous process flushed on its way out.
Start(m) ==
    /\ ~running
    /\ m >= bucket
    /\ running' = TRUE
    /\ bucket' = m
    /\ written' = {}
    /\ reopened' = (reopened \/ (m = bucket /\ written # {}))
    /\ UNCHANGED <<buffer, token, registering, worker, strays, backendVars,
                   tainted>>

-----------------------------------------------------------------------------
\* Fault: the sign-in form also shows to a user who is signed in.
RegisterDevice_Again(d) ==
    /\ running
    /\ registering = NoDevice
    /\ d \notin issued
    /\ issued' = issued \cup {d}
    /\ registering' = d
    /\ UNCHANGED <<buffer, bucket, written, running, token, worker, strays,
                   buckets, credits, historyVars>>

\* register_device, backend half: login, then a new device row and token.
\* The sign-in form only shows while no token is stored.
RegisterDevice(d) ==
    /\ running
    /\ token = NoDevice
    /\ registering = NoDevice
    /\ d \notin issued
    /\ issued' = issued \cup {d}
    /\ registering' = d
    /\ UNCHANGED <<buffer, bucket, written, running, token, worker, strays,
                   buckets, credits, historyVars>>

\* register_device, local half: set_setting("device_token", ...).
StoreToken ==
    /\ registering # NoDevice
    /\ token' = registering
    /\ registering' = NoDevice
    /\ UNCHANGED <<buffer, bucket, written, running, worker, strays,
                   backendVars, historyVars>>

\* The answer never arrives: an orphan device row stays on the backend.
RegistrationLost ==
    /\ registering # NoDevice
    /\ registering' = NoDevice
    /\ UNCHANGED <<buffer, bucket, written, running, token, worker, strays,
                   backendVars, historyVars>>

\* sign_out blanks the token and touches no sync pass under way.
SignOut ==
    /\ running
    /\ token # NoDevice
    /\ token' = NoDevice
    /\ tainted' = (tainted \/ ~Quiescent)
    /\ UNCHANGED <<buffer, bucket, written, running, registering, worker,
                   strays, backendVars, reopened>>

-----------------------------------------------------------------------------
\* Fault: the blank token sign_out leaves behind is taken for a token.
ReadToken_Blank(w) ==
    /\ running
    /\ worker[w].pc = "idle"
    /\ worker' = [worker EXCEPT ![w] = [pc |-> "token", dev |-> token, ids |-> {}]]
    /\ UNCHANGED <<agentVars, strays, backendVars, historyVars>>

\* run_sync / the periodic thread: take the token, or give up without one.
ReadToken(w) ==
    /\ running
    /\ worker[w].pc = "idle"
    /\ token # NoDevice
    /\ worker' = [worker EXCEPT ![w] = [pc |-> "token", dev |-> token, ids |-> {}]]
    /\ UNCHANGED <<agentVars, strays, backendVars, historyVars>>

\* sync_once: read a batch and POST it; an empty batch ends the pass.
PostBatch(w) ==
    /\ worker[w].pc = "token"
    /\ \E B \in Batches :
         worker' = [worker EXCEPT ![w] =
             IF B = {} THEN Idle ELSE [@ EXCEPT !.pc = "wire", !.ids = B]]
    /\ UNCHANGED <<agentVars, strays, backendVars, historyVars>>

\* The batch cannot be read: the pass ends with an error.
ReadFails(w) ==
    /\ worker[w].pc = "token"
    /\ worker' = [worker EXCEPT ![w] = Idle]
    /\ UNCHANGED <<agentVars, strays, backendVars, historyVars>>

\* The backend commits the batch and answers 200.
Handle(w) ==
    /\ worker[w].pc = "wire"
    /\ IngestBatch(worker[w].dev, worker[w].ids)
    /\ worker' = [worker EXCEPT ![w].pc = "ok"]
    /\ UNCHANGED <<agentVars, strays, issued, historyVars>>

\* Fault: post_json does not fail on an error status, and nobody looks at it.
Refuse_StatusIgnored(w) ==
    /\ worker[w].pc = "wire"
    /\ worker' = [worker EXCEPT ![w].pc = "ok"]
    /\ UNCHANGED <<agentVars, strays, backendVars, historyVars>>

\* Any other outcome the client learns of: 401, 429, 5xx, or never reached.
Refuse(w) ==
    /\ worker[w].pc = "wire"
    /\ worker' = [worker EXCEPT ![w] = Idle]
    /\ UNCHANGED <<agentVars, strays, backendVars, historyVars>>

\* The 60 s client timeout fires first; the request may still be handled.
TimeOut(w) ==
    /\ worker[w].pc = "wire"
    /\ strays' = strays \cup {[dev |-> worker[w].dev, ids |-> worker[w].ids]}
    /\ worker' = [worker EXCEPT ![w] = Idle]
    /\ UNCHANGED <<agentVars, backendVars, historyVars>>

\* The 200 is lost, or mark_synced fails: the rows stay unsynced.
AnswerLost(w) ==
    /\ worker[w].pc = "ok"
    /\ worker' = [worker EXCEPT ![w] = Idle]
    /\ UNCHANGED <<agentVars, strays, backendVars, historyVars>>

\* mark_synced on the ids of this pass.
MarkSynced(w) ==
    /\ worker[w].pc = "ok"
    /\ buffer' = Marked(worker[w].ids)
    /\ worker' = [worker EXCEPT ![w] = Idle]
    /\ UNCHANGED <<bucket, written, running, token, registering, strays,
                   backendVars, historyVars>>

HandleStray(m) ==
    /\ IngestBatch(m.dev, m.ids)
    /\ strays' = strays \ {m}
    /\ UNCHANGED <<agentVars, worker, issued, historyVars>>

DropStray(m) ==
    /\ strays' = strays \ {m}
    /\ UNCHANGED <<agentVars, worker, backendVars, historyVars>>

-----------------------------------------------------------------------------
Agent ==
    \/ \E a \in Apps : FlushRow(a)
    \/ \E m \in Minutes : OpenBucket(m)
    \/ Stop
    \/ \E m \in Minutes : Start(m)

Account ==
    \/ \E d \in Devices : RegisterDevice(d)
    \/ StoreToken
    \/ RegistrationLost
    \/ SignOut

Sync(w) ==
    \/ ReadToken(w)
    \/ PostBatch(w)
    \/ ReadFails(w)
    \/ Handle(w)
    \/ Refuse(w)
    \/ TimeOut(w)
    \/ AnswerLost(w)
    \/ MarkSynced(w)

Network == \E m \in strays : HandleStray(m) \/ DropStray(m)

Next == Agent \/ Account \/ (\E w \in Workers : Sync(w)) \/ Network

Spec == Init /\ [][Next]_vars

-----------------------------------------------------------------------------
(***************************************************************************)
(* Properties.                                                             *)
(***************************************************************************)

\* Types, and: a pass or a request only ever carries a token the backend
\* issued, and ids of rows that exist.
TypeOK ==
    /\ buffer \in Seq(Row)
    /\ Len(buffer) <= MaxRows
    /\ bucket \in Minutes
    /\ written \subseteq Apps
    /\ running \in BOOLEAN
    /\ token \in issued \cup {NoDevice}
    /\ registering \in issued \cup {NoDevice}
    /\ worker \in [Workers -> Pass]
    /\ \A w \in Workers :
         /\ worker[w].pc # "idle" => worker[w].dev \in issued
         /\ worker[w].ids \subseteq DOMAIN buffer
    /\ strays \subseteq [dev : issued, ids : SUBSET (DOMAIN buffer)]
    /\ issued \subseteq Devices
    /\ buckets \in [Devices -> SUBSET (DOMAIN buffer)]
    /\ credits \in [Devices -> [RowIds -> Nat]]
    /\ tainted \in BOOLEAN
    /\ reopened \in BOOLEAN

\* However often, and by however many concurrent passes, a row is sent: the
\* daily totals hold each stored row exactly once and nothing else, and a
\* device has one stored row per minute and app.
RollupsMatchBuckets ==
    \A d \in Devices :
        /\ \A i \in RowIds : credits[d][i] = IF i \in buckets[d] THEN 1 ELSE 0
        /\ \A i, j \in buckets[d] : Key(i) = Key(j) => i = j

\* The agent stops resending a row only when some device of the backend has a
\* stored row for its minute and app.
SyncedIsCounted ==
    \A i \in DOMAIN buffer : buffer[i].synced =>
        \E d \in Devices : \E j \in buckets[d] : Key(j) = Key(i)

\* As long as no restart reopened a minute that had already been flushed, the
\* counts of every synced row are themselves on the backend: neither crashes,
\* lost answers, stray requests nor concurrent passes lose one.
SyncedIsKept ==
    ~reopened => \A i \in DOMAIN buffer : buffer[i].synced =>
                     \E d \in Devices : i \in buckets[d]

\* What the agent marks as synced, and so never sends again, is safe with the
\* backend: its minute always, its counts if no restart reopened the minute
\* (sync.rs:173-183, ingest.go:138).
SyncedIsSafe == SyncedIsCounted /\ SyncedIsKept

\* As long as nobody signed out while a row was on its way or unacknowledged,
\* no row's counts are stored, and so totalled, under two devices.
CountedOnce ==
    ~tainted => \A c, d \in Devices : buckets[c] \cap buckets[d] # {} => c = d

\* The whole path keeps the promise of the abstract ledger: rows are only
\* appended, entries are only counted if a row holds them, and a row is settled
\* only after its entry is counted.
L == INSTANCE Ledger WITH
        Entries  <- Minutes \X Apps,
        recorded <- [i \in DOMAIN buffer |-> Key(i)],
        counted  <- UNION {{<<d, Key(i)>> : i \in buckets[d]} : d \in Devices},
        settled  <- {i \in DOMAIN buffer : buffer[i].synced}

LedgerSpec == L!Spec

-----------------------------------------------------------------------------
(***************************************************************************)
(* Liveness.  Only the periodic thread is scheduled to start a pass: it    *)
(* sleeps SYNC_INTERVAL and runs sync_once for as long as the process      *)
(* lives.  A pass that started goes on to its end, because the HTTP client *)
(* has a global timeout.  Strong fairness says that neither SQLite nor the *)
(* backend fails every single attempt of that thread.                      *)
(***************************************************************************)
Fairness ==
    /\ WF_vars(ReadToken(Periodic))
    /\ SF_vars(PostBatch(Periodic))
    /\ SF_vars(Handle(Periodic))
    /\ SF_vars(MarkSynced(Periodic))

FairSpec == Spec /\ Fairness

\* If the agent ends up running and signed in for good, every row it ever
\* wrote is eventually synced: full batches, lost answers, competing manual
\* passes and earlier sign-outs delay it but never strand it.
EventuallySynced ==
    <>[](running /\ token # NoDevice) =>
        \A i \in RowIds : [](i \in DOMAIN buffer => <>(i \notin Unsynced))

=============================================================================
