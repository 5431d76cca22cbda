-------------------------- MODULE MCMachineDialogs --------------------------
(* Instances of MachineDialogs: all values are in the .cfg files.           *)
EXTENDS MachineDialogs
=============================================================================
