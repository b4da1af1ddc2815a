------------------------------- MODULE MCSession -------------------------------
(***************************************************************************)
(* Two tabs; the first has two calls that can fail together, the one of    *)
(* the second can also be a sign-in with a wrong password.                 *)
(***************************************************************************)
EXTENDS Session, TLC

CONSTANTS t1, t2, c1, c2, c3

MCTabOf == [c \in {c1, c2, c3} |-> IF c = c3 THEN t2 ELSE t1]

Symmetry == Permutations({c1, c2})
=============================================================================
