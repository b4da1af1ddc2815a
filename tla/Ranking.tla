-------------------------------- MODULE Ranking --------------------------------
(***************************************************************************)
(* ORDER BY ... DESC: the ranked lists of the backend and of the local     *)
(* keys server.                                                            *)
(***************************************************************************)
EXTENDS Integers, FiniteSets

\* What f gives a number to, each once, the largest number first.  The queries
\* leave open which of two equals comes first; it is always the same one here.
Ranking(f) ==
    CHOOSE s \in [1..Cardinality(DOMAIN f) -> DOMAIN f] :
        \A i, j \in 1..Cardinality(DOMAIN f) : i < j => s[i] # s[j] /\ f[s[i]] >= f[s[j]]
=============================================================================
