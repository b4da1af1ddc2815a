--------------------------------- MODULE Sums ---------------------------------
(***************************************************************************)
(* Sums of the values of a function, for totals over apps, minutes, rows.  *)
(***************************************************************************)
EXTENDS Integers, FiniteSetsExt

\* The sum of f[x] for the x of a finite set.
SumOn(f, S) == MapThenSumSet(LAMBDA x : f[x], S)

SumOver(f) == SumOn(f, DOMAIN f)
=============================================================================
