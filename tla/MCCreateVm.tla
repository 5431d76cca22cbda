----------------------------- MODULE MCCreateVm -----------------------------
(* Instances of CreateVm: all values are in the .cfg files.                 *)
EXTENDS CreateVm
=============================================================================
