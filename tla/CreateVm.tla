------------------------------ MODULE CreateVm ------------------------------
(* From the Create button to the machine: domainCreate and domainInstall    *)
(* (libvirtApi/domain.ts), the placeholder that stands for a machine until  *)
(* libvirt has it (create-vm-dialog/uiState.ts), and install_machine.py.    *)
(* One behaviour is about the form, which closes when it hands over its     *)
(* parameters, or about the creation of several machines.                   *)
EXTENDS CreateForm

CONSTANTS
    VmNames,        \* names of machines, all of one connection
    Slots,          \* bound: creations and installations at the same time
    MaxCreations,   \* bound: creations, and timers that are set
    MaxInstalls,    \* bound: installations by the Install button
    MaxDeletions,   \* bound: machines that are deleted
    NoVm, NoJob

States == {"running", "shut off"}
Machine == [uuid : Nat, state : States, installPhase : BOOLEAN, toInstall : BOOLEAN]
Row == [state : States, installPhase : BOOLEAN, installInProgress : BOOLEAN]

\* A creation goes through the first four steps, an installation through the others.
CreationSteps == {"download", "create", "describe", "define"}
InstallationSteps == {"prevXML", "reinstall", "installing"}
Job == [name : VmNames, uuid : Nat, start : BOOLEAN, step : CreationSteps \cup InstallationSteps]

ASSUME CreateVmAssumption ==
    /\ NoVm \notin Machine /\ NoJob \notin Job
    /\ MaxCreations \in Nat /\ MaxInstalls \in Nat /\ MaxDeletions \in Nat

VARIABLES
    subject,
    machines,       \* what libvirt has, by name: [uuid, state, installPhase, toInstall], or NoVm
    rows,           \* the machines of the page, as read; with installInProgress
    unread,         \* names whose machine has changed since it was read
    uivms,          \* placeholders: "no", "creating" or "downloading"
    timeouts,       \* the timer that is known for a name, 0 for none
    timers,         \* timers that run, <<name, number>>
    jobs,           \* a creation or an installation in each slot, or NoJob
    vanished,       \* for the properties: names of machines deleted before they were read
    creations, installs, deletions      \* counters of the bounds

pageVars == <<rows, uivms, timeouts, timers>>
vmVars == <<subject, machines, rows, unread, uivms, timeouts, timers, jobs, vanished,
            creations, installs, deletions>>
vars == <<formVars, vmVars>>

Init ==
    /\ FormInit
    /\ subject \in {"form", "creation"}
    /\ subject = "creation" => form.type = "file" /\ token.saved = 0 /\ known = {}
    /\ machines = [n \in VmNames |-> NoVm]
    /\ rows = [n \in VmNames |-> NoVm]
    /\ unread = {}
    /\ uivms = [n \in VmNames |-> "no"]
    /\ timeouts = [n \in VmNames |-> 0]
    /\ timers = {}
    /\ jobs = [s \in Slots |-> NoJob]
    /\ vanished = {}
    /\ creations = 0 /\ installs = 0 /\ deletions = 0

-----------------------------------------------------------------------------
(* Placeholders.                                                           *)

\* The timer of an earlier creation of that name is forgotten, but goes on.
setVmCreateInProgress(n) ==
    /\ uivms' = [uivms EXCEPT ![n] = "creating"]
    /\ timers' = timers \cup {<<n, creations + 1>>}
    /\ timeouts' = [timeouts EXCEPT ![n] = creations + 1]

clearVmUiState(n) ==
    /\ uivms' = [uivms EXCEPT ![n] = "no"]
    /\ timers' = timers \ {<<n, timeouts[n]>>}
    /\ timeouts' = [timeouts EXCEPT ![n] = 0]

CleanupTimeout ==
    \E t \in timers :
        /\ uivms' = [uivms EXCEPT ![t[1]] = "no"]
        /\ timers' = timers \ {t, <<t[1], timeouts[t[1]]>>}
        /\ timeouts' = [timeouts EXCEPT ![t[1]] = 0]
        /\ UNCHANGED <<formVars, subject, machines, rows, unread, jobs, vanished, creations, installs, deletions>>

-----------------------------------------------------------------------------
(* Creation.                                                               *)

Free(s) == jobs[s] = NoJob
Goes(s, step) == jobs' = [jobs EXCEPT ![s].step = step]
Ends(s) == jobs' = [jobs EXCEPT ![s] = NoJob]

\* An image of Red Hat is downloaded first.
domainCreate ==
    \E s \in Slots, n \in VmNames, download \in BOOLEAN, start \in BOOLEAN :
        /\ Free(s) /\ creations < MaxCreations
        /\ creations' = creations + 1
        /\ jobs' = [jobs EXCEPT ![s] = [name |-> n, uuid |-> creations + 1, start |-> start,
                                        step |-> IF download THEN "download" ELSE "create"]]
        /\ setVmCreateInProgress(n)
        /\ UNCHANGED <<formVars, subject, machines, rows, unread, vanished, installs, deletions>>

\* Also when the placeholder has been removed, which comes back.
updateImageDownloadProgress ==
    \E s \in Slots :
        /\ ~Free(s) /\ jobs[s].step = "download"
        /\ uivms' = [uivms EXCEPT ![jobs[s].name] = "downloading"]
        /\ UNCHANGED <<formVars, subject, machines, rows, unread, timeouts, timers, jobs, vanished,
                       creations, installs, deletions>>

ImageIsThere ==
    \E s \in Slots :
        /\ ~Free(s) /\ jobs[s].step = "download"
        /\ Goes(s, "create")
        /\ UNCHANGED <<formVars, subject, machines, pageVars, unread, vanished, creations, installs, deletions>>

\* Faulty: leaves the placeholder to its timer.
CreationFailsQuietly ==
    \E s \in Slots :
        /\ ~Free(s) /\ jobs[s].step \in CreationSteps
        /\ Ends(s)
        /\ UNCHANGED <<formVars, subject, machines, pageVars, unread, vanished, creations, installs, deletions>>

\* The download, virt-install, or what follows it.
CreationFails ==
    \E s \in Slots :
        /\ ~Free(s) /\ jobs[s].step \in CreationSteps
        /\ Ends(s)
        /\ clearVmUiState(jobs[s].name)
        /\ UNCHANGED <<formVars, subject, machines, rows, unread, vanished, creations, installs, deletions>>

Defined(n, vm) ==
    /\ machines' = [machines EXCEPT ![n] = vm]
    /\ unread' = unread \cup {n}

\* virt-install defines the machine and starts it, and returns when it is installed;
\* or it only describes it.
create_vm ==
    \E s \in Slots :
        /\ ~Free(s) /\ jobs[s].step = "create" /\ machines[jobs[s].name] = NoVm
        /\ IF jobs[s].start
           THEN /\ Defined(jobs[s].name, [uuid |-> jobs[s].uuid, state |-> "running",
                                          installPhase |-> FALSE, toInstall |-> FALSE])
                /\ Goes(s, "describe")
           ELSE Goes(s, "define") /\ UNCHANGED <<machines, unread>>
        /\ UNCHANGED <<formVars, subject, pageVars, vanished, creations, installs, deletions>>

\* A machine that was deleted while being installed is let go.
assert_vm_exists ==
    \E s \in Slots :
        /\ ~Free(s) /\ jobs[s].step = "describe"
        /\ IF machines[jobs[s].name] # NoVm THEN Goes(s, "define") ELSE Ends(s)
        /\ UNCHANGED <<formVars, subject, machines, pageVars, unread, vanished, creations, installs, deletions>>

\* A name belongs to one machine; defining one that is gone brings it back.
CanDefine(n, uuid) == IF machines[n] = NoVm THEN TRUE ELSE machines[n].uuid = uuid

StateOf(n) == IF machines[n] = NoVm THEN "shut off" ELSE machines[n].state

\* Machines that are not started get the Install button.
inject_metadata ==
    \E s \in Slots :
        LET n == jobs[s].name
        IN  /\ ~Free(s) /\ jobs[s].step = "define" /\ CanDefine(n, jobs[s].uuid)
            /\ Defined(n, [uuid |-> jobs[s].uuid, state |-> StateOf(n),
                           installPhase |-> ~jobs[s].start, toInstall |-> ~jobs[s].start])
            /\ Ends(s)
            /\ UNCHANGED <<formVars, subject, pageVars, vanished, creations, installs, deletions>>

-----------------------------------------------------------------------------
(* The Install button.                                                     *)

domainInstall ==
    \E s \in Slots, n \in VmNames :
        /\ Free(s) /\ rows[n] # NoVm
        /\ rows[n].state # "running" /\ rows[n].installPhase /\ ~rows[n].installInProgress
        /\ installs < MaxInstalls /\ installs' = installs + 1
        /\ rows' = [rows EXCEPT ![n].installInProgress = TRUE]
        /\ jobs' = [jobs EXCEPT ![s] = [name |-> n, uuid |-> 0, start |-> TRUE, step |-> "prevXML"]]
        /\ UNCHANGED <<formVars, subject, machines, unread, uivms, timeouts, timers, vanished, creations, deletions>>

InstallEnds(s) ==
    /\ Ends(s)
    /\ rows' = IF rows[jobs[s].name] = NoVm THEN rows
               ELSE [rows EXCEPT ![jobs[s].name].installInProgress = FALSE]

\* The description of the machine is kept, for its metadata.
prevXML ==
    \E s \in Slots :
        /\ ~Free(s) /\ jobs[s].step = "prevXML"
        /\ IF machines[jobs[s].name] = NoVm THEN InstallEnds(s)
           ELSE /\ jobs' = [jobs EXCEPT ![s].step = "reinstall", ![s].uuid = machines[jobs[s].name].uuid]
                /\ UNCHANGED rows
        /\ UNCHANGED <<formVars, subject, machines, unread, uivms, timeouts, timers, vanished,
                       creations, installs, deletions>>

IsMachineOf(s) == machines[jobs[s].name] # NoVm /\ machines[jobs[s].name].uuid = jobs[s].uuid

\* virt-install takes over a machine that is off, and drops the metadata.
reinstall ==
    \E s \in Slots :
        LET n == jobs[s].name
        IN  /\ ~Free(s) /\ jobs[s].step = "reinstall" /\ IsMachineOf(s) /\ machines[n].state = "shut off"
            /\ Defined(n, [machines[n] EXCEPT !.state = "running", !.installPhase = FALSE])
            /\ Goes(s, "installing")
            /\ UNCHANGED <<formVars, subject, pageVars, vanished, creations, installs, deletions>>

\* Faulty: the description is not restored.
install_vm_failsQuietly ==
    \E s \in Slots :
        /\ ~Free(s) /\ jobs[s].step \in {"reinstall", "installing"}
        /\ InstallEnds(s)
        /\ UNCHANGED <<formVars, subject, machines, unread, uivms, timeouts, timers, vanished,
                       creations, installs, deletions>>

\* virt-install fails, before or after it has begun: the machine is defined as it was,
\* also when it was deleted meanwhile.
install_vm_fails ==
    \E s \in Slots :
        LET n == jobs[s].name
        IN  /\ ~Free(s) /\ jobs[s].step \in {"reinstall", "installing"}
            /\ IF CanDefine(n, jobs[s].uuid)
               THEN Defined(n, [uuid |-> jobs[s].uuid, state |-> StateOf(n), installPhase |-> TRUE, toInstall |-> TRUE])
               ELSE UNCHANGED <<machines, unread>>
            /\ InstallEnds(s)
            /\ UNCHANGED <<formVars, subject, uivms, timeouts, timers, vanished, creations, installs, deletions>>

\* The installation is over: the metadata say so.
install_vm ==
    \E s \in Slots :
        LET n == jobs[s].name
        IN  /\ ~Free(s) /\ jobs[s].step = "installing"
            /\ IF IsMachineOf(s)
               THEN Defined(n, [machines[n] EXCEPT !.toInstall = FALSE])
               ELSE UNCHANGED <<machines, unread>>
            /\ InstallEnds(s)
            /\ UNCHANGED <<formVars, subject, uivms, timeouts, timers, vanished, creations, installs, deletions>>

-----------------------------------------------------------------------------
(* What the page reads, and what others do.                                *)

\* A row keeps what domainGet does not set.
domainGet ==
    \E n \in unread :
        /\ unread' = unread \ {n}
        /\ IF machines[n] = NoVm
           THEN rows' = [rows EXCEPT ![n] = NoVm] /\ UNCHANGED <<uivms, timeouts, timers>>
           ELSE /\ rows' = [rows EXCEPT ![n] = [state |-> machines[n].state, installPhase |-> machines[n].installPhase,
                                                installInProgress |-> IF rows[n] = NoVm THEN FALSE ELSE rows[n].installInProgress]]
                /\ clearVmUiState(n)
        /\ UNCHANGED <<formVars, subject, machines, jobs, vanished, creations, installs, deletions>>

\* A machine stops.
Stops ==
    \E n \in VmNames :
        /\ machines[n] # NoVm /\ machines[n].state = "running"
        /\ Defined(n, [machines[n] EXCEPT !.state = "shut off"])
        /\ UNCHANGED <<formVars, subject, pageVars, jobs, vanished, creations, installs, deletions>>

IsDeleted ==
    \E n \in VmNames :
        /\ machines[n] # NoVm /\ deletions < MaxDeletions
        /\ deletions' = deletions + 1
        /\ machines' = [machines EXCEPT ![n] = NoVm]
        /\ unread' = unread \cup {n}
        /\ vanished' = IF n \in unread THEN vanished \cup {n} ELSE vanished
        /\ UNCHANGED <<formVars, subject, pageVars, jobs, creations, installs>>

CreationNext ==
    \/ domainCreate \/ updateImageDownloadProgress \/ ImageIsThere \/ CreationFails
    \/ create_vm \/ assert_vm_exists \/ inject_metadata
    \/ domainInstall \/ prevXML \/ reinstall \/ install_vm_fails \/ install_vm
    \/ domainGet \/ Stops \/ IsDeleted \/ CleanupTimeout

Next ==
    \/ subject = "form" /\ FormNext /\ UNCHANGED vmVars
    \/ subject = "creation" /\ CreationNext

Spec == Init /\ [][Next]_vars

-----------------------------------------------------------------------------
(* Properties.                                                             *)

\* What each variable of the creation of machines holds (domain.ts, uiState.ts).
TypeOK ==
    /\ subject \in {"form", "creation"}
    /\ machines \in [VmNames -> Machine \cup {NoVm}]
    /\ rows \in [VmNames -> Row \cup {NoVm}]
    /\ unread \subseteq VmNames /\ vanished \subseteq VmNames
    /\ uivms \in [VmNames -> {"no", "creating", "downloading"}]
    /\ timeouts \in [VmNames -> Nat] /\ timers \subseteq VmNames \X Nat
    /\ jobs \in [Slots -> Job \cup {NoJob}]
    /\ creations \in Nat /\ installs \in Nat /\ deletions \in Nat

IsUnderWay(n) == \E s \in Slots : ~Free(s) /\ jobs[s].name = n

\* A placeholder does not stay for good: a timer will remove it, or the end of a
\* creation, or the read of its machine.  (A machine that is deleted before it was
\* read at all can leave one whose timer has been used up by a long download.)
PlaceholderHasAnEnd ==
    \A n \in VmNames :
        uivms[n] # "no" => \/ \E t \in timers : t[1] = n
                           \/ IsUnderWay(n)
                           \/ n \in unread /\ machines[n] # NoVm
                           \/ n \in vanished

\* install_machine.py: a machine that was created to be installed later and is not
\* installed has the Install button, whatever fails on the way: "so that the user can
\* re-attempt installation".
InstallCanBeRepeated ==
    \A n \in VmNames :
        machines[n] # NoVm /\ machines[n].toInstall /\ ~IsUnderWay(n) => machines[n].installPhase
=============================================================================
