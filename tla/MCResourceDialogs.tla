------------------------- MODULE MCResourceDialogs --------------------------
(* Instances of ResourceDialogs: all values are in the .cfg files.          *)
EXTENDS ResourceDialogs
=============================================================================
