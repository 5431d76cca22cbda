-------------------------- MODULE MCConsoleStates ---------------------------
(* Values for the constants of ConsoleStates.  Machines with the same      *)
(* kinds of consoles are interchangeable.                                  *)
EXTENDS ConsoleStates, TLC

Symmetry == Permutations(Keys \ WithVnc)
=============================================================================
