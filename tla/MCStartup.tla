----------------------------- MODULE MCStartup ------------------------------
(* Values for the constants of Startup.                                    *)
EXTENDS Startup, TLC

Symmetry == Permutations(VmNames)
=============================================================================
