------------------------------ MODULE RateLimit -------------------------------
(***************************************************************************)
(* The token bucket in front of the ingest endpoint, one per device, kept  *)
(* in memory behind a mutex, so that allow is one step.  Tokens are        *)
(* counted in refill ticks: a token is Interval of them, a full bucket     *)
(* Capacity tokens, and every tick that passes adds one.  The code keeps   *)
(* the same quantity as a float64 number of tokens.                        *)
(*                                                                         *)
(* The promises of a token bucket are about windows of time.  OpenWindow   *)
(* starts to watch a device at any moment and spent is what it was granted *)
(* since, so an invariant over spent speaks of every window.               *)
(***************************************************************************)
EXTENDS Integers

CONSTANTS
    Callers,      \* the devices that call
    Capacity,     \* ingestBucketCapacity, in tokens
    Interval,     \* ingestRefillInterval, in ticks
    MaxTime,      \* bound: the clock stops here
    MaxStarts     \* bound: times the backend starts

ASSUME RateLimitAssumption ==
    /\ Capacity \in Nat \ {0}
    /\ Interval \in Nat \ {0}
    /\ MaxTime \in Nat
    /\ MaxStarts \in Nat

VARIABLES
    now,          \* the clock
    buckets,      \* per device: its bucket, or NoBucket before its first request
    opened,       \* history: when the device's window was opened, -1 if not yet
    spent,        \* history: ticks' worth of tokens granted in the window
    starts        \* history: times the backend started in the window, plus one

limitVars == <<now, buckets, opened, spent, starts>>

Full == Capacity * Interval

NoBucket == [tokens |-> -1, lastRefill |-> -1]

Bucket == [tokens : 0..Full, lastRefill : Nat] \cup {NoBucket}

Least(m, n) == IF m <= n THEN m ELSE n

LimitInit ==
    /\ now = 0
    /\ buckets = [d \in Callers |-> NoBucket]
    /\ opened = [d \in Callers |-> -1]
    /\ spent = [d \in Callers |-> 0]
    /\ starts = [d \in Callers |-> 1]

Tick ==
    /\ now < MaxTime
    /\ now' = now + 1
    /\ UNCHANGED <<buckets, opened, spent, starts>>

\* Fault: the bucket is refilled without a lid.
Refilled_NoLid(d) ==
    IF buckets[d] = NoBucket THEN [tokens |-> Full, lastRefill |-> now]
    ELSE [tokens |-> buckets[d].tokens + (now - buckets[d].lastRefill),
          lastRefill |-> now]

\* Fault: the time since the last request is rounded down to whole tokens.
Refilled_WholeTokens(d) ==
    IF buckets[d] = NoBucket THEN [tokens |-> Full, lastRefill |-> now]
    ELSE [tokens |-> Least(Full, buckets[d].tokens
                + Interval * ((now - buckets[d].lastRefill) \div Interval)),
          lastRefill |-> now]

\* The device's bucket as allow finds it, refilled up to now.
Refilled(d) ==
    IF buckets[d] = NoBucket THEN [tokens |-> Full, lastRefill |-> now]
    ELSE [tokens |-> Least(Full, buckets[d].tokens + (now - buckets[d].lastRefill)),
          lastRefill |-> now]

\* allow answers true and takes a token.
Admit(d) ==
    /\ Refilled(d).tokens >= Interval
    /\ buckets' = [buckets EXCEPT ![d] =
            [tokens |-> Refilled(d).tokens - Interval,
             lastRefill |-> Refilled(d).lastRefill]]
    /\ spent' = IF opened[d] >= 0 THEN [spent EXCEPT ![d] = @ + Interval] ELSE spent
    /\ UNCHANGED <<now, opened, starts>>

\* allow answers false: 429.
Refuse(d) ==
    /\ Refilled(d).tokens < Interval
    /\ buckets' = [buckets EXCEPT ![d] = Refilled(d)]
    /\ UNCHANGED <<now, opened, spent, starts>>

\* The backend starts over with no buckets at all.
Restart ==
    /\ \A d \in Callers : starts[d] < MaxStarts
    /\ buckets' = [d \in Callers |-> NoBucket]
    /\ starts' = [d \in Callers |-> IF opened[d] >= 0 THEN starts[d] + 1 ELSE starts[d]]
    /\ UNCHANGED <<now, opened, spent>>

OpenWindow(d) ==
    /\ opened[d] = -1
    /\ opened' = [opened EXCEPT ![d] = now]
    /\ UNCHANGED <<now, buckets, spent, starts>>

LimitNext ==
    \/ Tick
    \/ Restart
    \/ \E d \in Callers : Admit(d) \/ Refuse(d) \/ OpenWindow(d)

LimitSpec == LimitInit /\ [][LimitNext]_limitVars

-----------------------------------------------------------------------------
LimitTypeOK ==
    /\ now \in Nat
    /\ buckets \in [Callers -> Bucket]
    /\ opened \in [Callers -> Nat \cup {-1}]
    /\ spent \in [Callers -> Nat]
    /\ starts \in [Callers -> Nat \ {0}]
    /\ \A d \in Callers : opened[d] <= now /\ buckets[d].lastRefill <= now

\* In no window of time is a device granted more than a full bucket, plus what
\* refills in that time, plus a full bucket for each restart of the backend.
FloodIsStopped ==
    \A d \in Callers : opened[d] >= 0 =>
        spent[d] <= starts[d] * Full + (now - opened[d])

\* A device is refused only if it was granted Capacity requests within the
\* last Capacity * Interval ticks, whenever those began: a device that sends
\* at its normal pace is never turned away.
NormalUsePasses ==
    [][\A d \in Callers :
         Refuse(d) /\ opened[d] >= 0 /\ now - opened[d] >= Full => spent[d] >= Full]_limitVars
=============================================================================
