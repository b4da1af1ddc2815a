------------------------------- MODULE Streaks --------------------------------
(***************************************************************************)
(* One user's streaks row as the active rows of ingested batches update    *)
(* it, one transaction at a time (Ingest has the concurrent ones), while   *)
(* the calendar moves on.  Days reach the backend in any order: a second   *)
(* device that was offline delivers its days late.                         *)
(***************************************************************************)
EXTENDS StreakRule

CONSTANT MaxDay      \* bound: the days are 0..MaxDay

ASSUME MaxDayAssumption == MaxDay \in Nat

VARIABLES
    row,       \* the user's row in streaks
    today,        \* the user's calendar day
    active,       \* history: days with an ingested active row
    ordered       \* history: no day came in before a later one was counted

streaksVars == <<row, today, active, ordered>>

Calendar   == 0..MaxDay
RunLengths == 1..(MaxDay + 1)

StreaksInit ==
    /\ row = NoStreak
    /\ today = 0
    /\ active = {}
    /\ ordered = TRUE

\* An active row of a past or the present day is ingested.
IngestDay(day) ==
    /\ day <= today
    /\ row' = UpdatedStreak(row, day)
    /\ active' = active \cup {day}
    /\ ordered' = (ordered /\ \A d \in active : d <= day)
    /\ UNCHANGED today

Midnight ==
    /\ today < MaxDay
    /\ today' = today + 1
    /\ UNCHANGED <<row, active, ordered>>

StreaksNext == Midnight \/ \E day \in Calendar : IngestDay(day)

StreaksSpec == StreaksInit /\ [][StreaksNext]_streaksVars

-----------------------------------------------------------------------------
StreaksTypeOK ==
    /\ row \in StreakRow(Calendar)
    /\ today \in Calendar
    /\ active \subseteq 0..today
    /\ ordered \in BOOLEAN
    /\ active = {} <=> row = NoStreak

\* In whatever order the days come in, a streak the user is shown happened.
NothingInvented == Happened(row, active)

\* If the days come in in order, the row is exact: the last active day, the
\* whole run that ends there, and no longer run anywhere.
ExactInOrder ==
    ordered /\ row # NoStreak =>
        /\ \A d \in active : d <= row.last
        /\ row.last - row.current \notin active
        /\ \A d \in active : \A n \in RunLengths :
             IsRun(active, d, n) => n <= row.longest

\* What the row says of the days ingested is true, in whatever order they came,
\* and if they came in order it is all there is to say (streaks.go:13-51).
StreaksTrue == NothingInvented /\ ExactInOrder

\* The best streak ever is never taken back, whatever day comes in.
LongestKept == [][row'.longest >= row.longest]_streaksVars
=============================================================================
