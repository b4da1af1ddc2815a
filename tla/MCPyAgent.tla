------------------------------ MODULE MCPyAgent -------------------------------
(***************************************************************************)
(* PyAgent on a small instance; the apps are interchangeable.              *)
(***************************************************************************)
EXTENDS PyAgent, TLC

Symmetry == Permutations(Apps)
=============================================================================
