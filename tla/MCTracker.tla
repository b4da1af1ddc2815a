------------------------------ MODULE MCTracker -------------------------------
(***************************************************************************)
(* Tracker on a small instance; the apps are interchangeable.              *)
(***************************************************************************)
EXTENDS Tracker, TLC

Symmetry == Permutations(Apps)
=============================================================================
