------------------------------- MODULE MCIngest -------------------------------
(***************************************************************************)
(* Ingest for a user with two devices.  The first has a minute with two    *)
(* active apps and one with mouse travel alone, and a later day; the       *)
(* second is active on that later day too, and once more after a gap.      *)
(***************************************************************************)
EXTENDS Ingest

CONSTANTS d1, d2

MCRow(m, a, active) == [min |-> m, app |-> a, active |-> active]

MCRecorded ==
    [d \in {d1, d2} |->
        IF d = d1
        THEN {MCRow(0, "a", TRUE), MCRow(0, "b", TRUE), MCRow(0, "c", FALSE),
              MCRow(2, "a", TRUE)}
        ELSE {MCRow(2, "a", TRUE), MCRow(6, "a", TRUE)}]
=============================================================================
