------------------------------ MODULE MCVmList ------------------------------
(* VmList for TLC.  Whether calls time out at all is chosen once, at the   *)
(* start, so that one run covers the behaviours with and without timeouts. *)
EXTENDS VmList

VARIABLE patient    \* no call is given up in this behaviour

MCInit == Init /\ patient \in BOOLEAN

MCNext ==
    /\ Next
    /\ patient => ~TimesOut
    /\ UNCHANGED patient

(* Where a call may time out it may be answered as well, so that the       *)
(* fairness of VmList can be met without timeouts.                         *)
MCSpec == MCInit /\ [][MCNext]_<<vars, patient>> /\ Fairness

(* SettledListIsComplete, where no call is given up: a read that fails     *)
(* because its domain went away never wins over the news that it is back   *)
(* (domainGet, domainGetAll).                                              *)
PatientListIsComplete == patient => SettledListIsComplete

(* RowsConverge, where no call is given up: if a domain stops changing,    *)
(* the page soon shows it as it is, and for good (domainGet,               *)
(* startEventMonitorDomains).                                              *)
PatientRowsConverge == patient => RowsConverge
=============================================================================
