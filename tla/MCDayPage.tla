------------------------------ MODULE MCDayPage ------------------------------
\* Days of two hours, weeks of three days, a window of four days.  The page is
\* opened in its sixth or seventh day; of the days before it one holds only a
\* click, one only mouse travel, and today no rows at all.
EXTENDS DayPage

Row(k, c) == [keys |-> k, clicks |-> c]

MCPast == <<2, "a">> :> Row(0, 1)
       @@ <<3, "a">> :> Row(1, 0)
       @@ <<6, "a">> :> Row(0, 1)
       @@ <<7, "b">> :> Row(0, 0)
       @@ <<9, "a">> :> Row(1, 0)
       @@ <<9, "b">> :> Row(1, 0)

MCDeliveries == {[late |-> 1, app |-> "b", counts |-> Row(2, 1)]}

MCZones == {-1, 1}
=============================================================================
