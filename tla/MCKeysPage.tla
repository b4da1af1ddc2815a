------------------------------ MODULE MCKeysPage ------------------------------
\* Two programs, each with presses of two days of a key that is on the drawn
\* keyboard and of one that is not; the first in two apps, the second in one.
\* The limit is one key: it cuts some answers and leaves others whole.
EXTENDS KeysPage

MCPressed == <<"p", "a", "editor", 5>> :> 1
          @@ <<"p", "f1", "editor", 5>> :> 1
          @@ <<"p", "a", "browser", 4>> :> 2
          @@ <<"q", "a", "mail", 4>> :> 3
          @@ <<"q", "f1", "mail", 5>> :> 1
=============================================================================
