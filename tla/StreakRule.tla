------------------------------ MODULE StreakRule ------------------------------
(***************************************************************************)
(* The streak rule of the backend (updateStreak): a day that follows the   *)
(* last active day extends the current streak, the last active day itself  *)
(* changes nothing, and any other day, later or earlier, starts over at 1. *)
(* A calendar day is its number; isNextDay is "one more".                  *)
(***************************************************************************)
EXTENDS Integers

\* No row in streaks yet; a row's current_streak is at least 1.
NoStreak == [current |-> 0, longest |-> 0, last |-> 0]

StreakRow(Days) ==
    [current : Nat \ {0}, longest : Nat \ {0}, last : Days] \cup {NoStreak}

isNextDay(last, day) == day = last + 1

Larger(m, n) == IF m >= n THEN m ELSE n

\* Fault: any later day extends the streak.
UpdatedStreak_AnyLaterDay(s, day) ==
    IF s = NoStreak THEN [current |-> 1, longest |-> 1, last |-> day]
    ELSE IF s.last = day THEN s
    ELSE LET n == IF day > s.last THEN s.current + 1 ELSE 1
         IN  [current |-> n, longest |-> Larger(s.longest, n), last |-> day]

\* Fault: the longest streak is only raised when the next one starts.
UpdatedStreak_LongestLate(s, day) ==
    IF s = NoStreak THEN [current |-> 1, longest |-> 1, last |-> day]
    ELSE IF s.last = day THEN s
    ELSE [current |-> IF isNextDay(s.last, day) THEN s.current + 1 ELSE 1,
          longest |-> Larger(s.longest, s.current),
          last    |-> day]

\* Fault: a gap leaves a streak of no days.
UpdatedStreak_ResetToZero(s, day) ==
    IF s = NoStreak THEN [current |-> 1, longest |-> 1, last |-> day]
    ELSE IF s.last = day THEN s
    ELSE LET n == IF isNextDay(s.last, day) THEN s.current + 1 ELSE 0
         IN  [current |-> n, longest |-> Larger(s.longest, n), last |-> day]

\* updateStreak on the row it read.
UpdatedStreak(s, day) ==
    IF s = NoStreak THEN [current |-> 1, longest |-> 1, last |-> day]
    ELSE IF s.last = day THEN s
    ELSE LET n == IF isNextDay(s.last, day) THEN s.current + 1 ELSE 1
         IN  [current |-> n, longest |-> Larger(s.longest, n), last |-> day]

\* The n days that end with day d are all in S.
IsRun(S, d, n) == (d - n + 1)..d \subseteq S

\* The streaks of row s are runs of the given days: the current one ends at the
\* day last counted, the longest one somewhere.
Happened(s, days) ==
    s # NoStreak =>
        /\ IsRun(days, s.last, s.current)
        /\ \E d \in days : IsRun(days, d, s.longest)
=============================================================================
