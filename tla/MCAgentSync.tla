----------------------------- MODULE MCAgentSync -----------------------------
(***************************************************************************)
(* AgentSync on a small instance.  Devices and apps are interchangeable;   *)
(* rows and minutes are ordered, and Periodic names one worker.             *)
(***************************************************************************)
EXTENDS AgentSync, TLC

Symmetry == Permutations(Devices) \cup Permutations(Apps)
=============================================================================
