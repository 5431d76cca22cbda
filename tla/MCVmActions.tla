---------------------------- MODULE MCVmActions -----------------------------
(* Values for the constants of VmActions; the slots are interchangeable.   *)
EXTENDS VmActions, TLC

Symmetry == Permutations(Calls)
=============================================================================
