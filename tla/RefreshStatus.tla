----------------------------- MODULE RefreshStatus -----------------------------
(***************************************************************************)
(* The "how fresh is this" readout beside "Check for updates", as the      *)
(* record its component keeps: when the payload last changed, whether "No  *)
(* new sync yet" is on, the payload seen last ({} before the first), and   *)
(* whether a click waits for its fetch.  A time is a positive number.      *)
(***************************************************************************)
EXTENDS Naturals

Mounted == [synced |-> 0, notice |-> FALSE, prev |-> {}, pending |-> FALSE]

\* Fault: the click is not forgotten once its fetch has settled.
Settled_KeepsPending(s, data, dataUpdatedAt) ==
    IF dataUpdatedAt = 0 THEN s
    ELSE IF s.prev # {data}
    THEN [s EXCEPT !.synced = dataUpdatedAt, !.notice = FALSE, !.prev = {data}]
    ELSE [s EXCEPT !.notice = s.notice \/ s.pending]

\* The effect, run when dataUpdatedAt has changed (and on mounting): a payload
\* that differs moves the time; one that does not is announced after a click.
Settled(s, data, dataUpdatedAt) ==
    IF dataUpdatedAt = 0 THEN [s EXCEPT !.pending = FALSE]
    ELSE IF s.prev # {data}
    THEN [synced |-> dataUpdatedAt, notice |-> FALSE, prev |-> {data}, pending |-> FALSE]
    ELSE [s EXCEPT !.notice = s.notice \/ s.pending, !.pending = FALSE]

handleClick(s) == [s EXCEPT !.pending = TRUE, !.notice = FALSE]

\* NO_NEW_SYNC_DISPLAY_MS have passed.
NoticeOver(s) == [s EXCEPT !.notice = FALSE]

label(s, isFetching) ==
    IF isFetching THEN "Checking..."
    ELSE IF s.notice THEN "No new sync yet"
    ELSE IF s.synced # 0 THEN "Last sync"
    ELSE "Not synced yet"
=============================================================================
