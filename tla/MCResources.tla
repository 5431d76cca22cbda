---------------------------- MODULE MCResources -----------------------------
(* Values for the constants of Resources; the slots are interchangeable.   *)
EXTENDS Resources, TLC

Symmetry == Permutations(Reads)
=============================================================================
