-------------------------- MODULE MCUsagePolling ----------------------------
(* Values for the constants of UsagePolling.                               *)
EXTENDS UsagePolling, TLC

Symmetry == Permutations(Vms) \cup Permutations(Runs)
=============================================================================
