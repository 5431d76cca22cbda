------------------------ MODULE MCOverviewDialogs -------------------------
(* Instances of OverviewDialogs: two disks, an interface, a redirected and *)
(* a host device; six processors; up to four other machines with a vsock.  *)
EXTENDS OverviewDialogs

MCDisks == <<"sda", "sdb">>
MCIfaces == <<"nic">>
MCRedirs == <<>>
MCHosts == <<"usb">>
MCOsBoots == {<<>>, <<"network", "disk">>, <<"disk", "cdrom", "network", "network">>}
=============================================================================
