--------------------------- MODULE CreateVmProofs ---------------------------
(* Theorems about CreateForm and CreateVm, for any tokens, names, slots and *)
(* bounds.                                                                 *)
EXTENDS CreateVm, TLAPS

LEMMA Bounds == MaxCreations \in Nat /\ MaxInstalls \in Nat /\ MaxDeletions \in Nat
BY Zenon, CreateVmAssumption

LEMMA Specials == NoVm \notin Machine /\ NoJob \notin Job
BY Zenon, CreateVmAssumption

\* A slot that is not free has a job, and a name that is not free has a machine.
LEMMA SlotsHaveJobs ==
    ASSUME TypeOK, NEW s \in Slots, ~Free(s)
    PROVE  jobs[s] \in Job /\ jobs[s].name \in VmNames /\ jobs[s].uuid \in Nat
BY DEF TypeOK, Free, Job

\* What becomes of a job in a step of its own.
LEMMA GoesTypes ==
    ASSUME TypeOK, NEW s \in Slots, ~Free(s), NEW step \in CreationSteps \cup InstallationSteps, Goes(s, step)
    PROVE  /\ jobs' \in [Slots -> Job \cup {NoJob}]
           /\ jobs'[s] \in Job /\ jobs'[s] = [jobs[s] EXCEPT !.step = step]
           /\ \A r \in Slots \ {s} : jobs'[r] = jobs[r]
<1>1. jobs[s] \in Job
  BY SlotsHaveJobs
<1>2. [jobs[s] EXCEPT !.step = step] \in Job
  BY <1>1 DEF Job
<1>3. jobs' = [jobs EXCEPT ![s] = [jobs[s] EXCEPT !.step = step]]
  BY DEF Goes, TypeOK
<1>4. QED
  BY <1>2, <1>3 DEF TypeOK

LEMMA EndsTypes ==
    ASSUME TypeOK, NEW s \in Slots, Ends(s)
    PROVE  /\ jobs' \in [Slots -> Job \cup {NoJob}]
           /\ jobs'[s] = NoJob
           /\ \A r \in Slots \ {s} : jobs'[r] = jobs[r]
BY DEF Ends, TypeOK

LEMMA DefinedTypes ==
    ASSUME TypeOK, NEW n \in VmNames, NEW vm \in Machine, Defined(n, vm)
    PROVE  /\ machines' \in [VmNames -> Machine \cup {NoVm}]
           /\ unread' = unread \cup {n} /\ unread' \subseteq VmNames
           /\ machines'[n] = vm /\ machines'[n] # NoVm
           /\ \A m \in VmNames \ {n} : machines'[m] = machines[m]
BY Specials DEF Defined, TypeOK

LEMMA ClearTypes ==
    ASSUME TypeOK, NEW n \in VmNames, clearVmUiState(n)
    PROVE  /\ uivms' \in [VmNames -> {"no", "creating", "downloading"}]
           /\ timeouts' \in [VmNames -> Nat] /\ timers' \subseteq VmNames \X Nat
           /\ uivms'[n] = "no"
           /\ \A m \in VmNames \ {n} : /\ uivms'[m] = uivms[m]
                                       /\ \A t \in timers : t[1] = m => t \in timers'
BY DEF clearVmUiState, TypeOK

LEMMA StateTypes == ASSUME TypeOK, NEW n \in VmNames PROVE StateOf(n) \in States
BY DEF StateOf, TypeOK, Machine, States

\* The rows after an installation has ended.
LEMMA InstallEndsTypes ==
    ASSUME TypeOK, NEW s \in Slots, ~Free(s), InstallEnds(s)
    PROVE  rows' \in [VmNames -> Row \cup {NoVm}] /\ Ends(s)
<1>1. jobs[s].name \in VmNames
  BY SlotsHaveJobs
<1>2. QED
  BY <1>1 DEF InstallEnds, TypeOK, Row

-----------------------------------------------------------------------------
(* Type correctness, action by action.                                     *)

\* Steps of a creation.
LEMMA CreationTypes ==
    TypeOK /\ (\/ domainCreate \/ updateImageDownloadProgress \/ ImageIsThere \/ CreationFails
               \/ create_vm \/ assert_vm_exists \/ inject_metadata) => TypeOK'
<1> SUFFICES ASSUME TypeOK,
                    \/ domainCreate \/ updateImageDownloadProgress \/ ImageIsThere \/ CreationFails
                    \/ create_vm \/ assert_vm_exists \/ inject_metadata
             PROVE  TypeOK'
  OBVIOUS
<1>1. CASE domainCreate
  <2> PICK s \in Slots, n \in VmNames, download \in BOOLEAN, start \in BOOLEAN :
        /\ creations' = creations + 1
        /\ jobs' = [jobs EXCEPT ![s] = [name |-> n, uuid |-> creations + 1, start |-> start,
                                        step |-> IF download THEN "download" ELSE "create"]]
        /\ setVmCreateInProgress(n)
        /\ UNCHANGED <<formVars, subject, machines, rows, unread, vanished, installs, deletions>>
    BY <1>1 DEF domainCreate
  <2>1. [name |-> n, uuid |-> creations + 1, start |-> start,
         step |-> IF download THEN "download" ELSE "create"] \in Job
    BY DEF Job, TypeOK, CreationSteps
  <2>2. uivms' \in [VmNames -> {"no", "creating", "downloading"}] /\ timeouts' \in [VmNames -> Nat]
        /\ timers' \subseteq VmNames \X Nat
    BY DEF setVmCreateInProgress, TypeOK
  <2>3. QED
    BY <2>1, <2>2 DEF TypeOK
<1>2. CASE updateImageDownloadProgress
  BY <1>2, SlotsHaveJobs DEF updateImageDownloadProgress, TypeOK
<1>3. CASE ImageIsThere
  <2> PICK s \in Slots : ~Free(s) /\ Goes(s, "create")
    BY <1>3 DEF ImageIsThere
  <2>1. jobs' \in [Slots -> Job \cup {NoJob}]
    BY GoesTypes DEF CreationSteps
  <2>2. QED
    BY <1>3, <2>1 DEF ImageIsThere, TypeOK, pageVars
<1>4. CASE CreationFails
  <2> PICK s \in Slots : ~Free(s) /\ Ends(s) /\ clearVmUiState(jobs[s].name)
    BY <1>4 DEF CreationFails
  <2>1. jobs' \in [Slots -> Job \cup {NoJob}] /\ jobs[s].name \in VmNames
    BY EndsTypes, SlotsHaveJobs
  <2>2. QED
    BY <1>4, <2>1, ClearTypes DEF CreationFails, TypeOK
<1>5. CASE create_vm
  <2> PICK s \in Slots :
        /\ ~Free(s)
        /\ IF jobs[s].start
           THEN /\ Defined(jobs[s].name, [uuid |-> jobs[s].uuid, state |-> "running",
                                          installPhase |-> FALSE, toInstall |-> FALSE])
                /\ Goes(s, "describe")
           ELSE Goes(s, "define") /\ UNCHANGED <<machines, unread>>
    BY <1>5 DEF create_vm
  <2>1. jobs' \in [Slots -> Job \cup {NoJob}]
    BY GoesTypes DEF CreationSteps
  <2>2. /\ jobs[s].name \in VmNames
        /\ [uuid |-> jobs[s].uuid, state |-> "running", installPhase |-> FALSE, toInstall |-> FALSE] \in Machine
    BY SlotsHaveJobs DEF Machine, States
  <2>3. machines' \in [VmNames -> Machine \cup {NoVm}] /\ unread' \subseteq VmNames
    BY <2>2, DefinedTypes DEF TypeOK
  <2>4. QED
    BY <1>5, <2>1, <2>3 DEF create_vm, TypeOK, pageVars
<1>6. CASE assert_vm_exists
  <2> PICK s \in Slots : ~Free(s) /\ (Goes(s, "define") \/ Ends(s))
    BY <1>6 DEF assert_vm_exists
  <2>1. jobs' \in [Slots -> Job \cup {NoJob}]
    BY GoesTypes, EndsTypes DEF CreationSteps
  <2>2. QED
    BY <1>6, <2>1 DEF assert_vm_exists, TypeOK, pageVars
<1>7. CASE inject_metadata
  <2> PICK s \in Slots :
        /\ ~Free(s) /\ Ends(s)
        /\ Defined(jobs[s].name, [uuid |-> jobs[s].uuid, state |-> StateOf(jobs[s].name),
                                  installPhase |-> ~jobs[s].start, toInstall |-> ~jobs[s].start])
    BY <1>7 DEF inject_metadata
  <2>1. /\ jobs[s].name \in VmNames
        /\ [uuid |-> jobs[s].uuid, state |-> StateOf(jobs[s].name),
            installPhase |-> ~jobs[s].start, toInstall |-> ~jobs[s].start] \in Machine
    BY SlotsHaveJobs, StateTypes DEF Machine
  <2>2. /\ machines' \in [VmNames -> Machine \cup {NoVm}] /\ unread' \subseteq VmNames
        /\ jobs' \in [Slots -> Job \cup {NoJob}]
    BY <2>1, DefinedTypes, EndsTypes
  <2>3. QED
    BY <1>7, <2>2 DEF inject_metadata, TypeOK, pageVars
<1>8. QED
  BY <1>1, <1>2, <1>3, <1>4, <1>5, <1>6, <1>7

\* Steps of an installation.
LEMMA InstallationTypes ==
    TypeOK /\ (domainInstall \/ prevXML \/ reinstall \/ install_vm_fails \/ install_vm) => TypeOK'
<1> SUFFICES ASSUME TypeOK, domainInstall \/ prevXML \/ reinstall \/ install_vm_fails \/ install_vm
             PROVE  TypeOK'
  OBVIOUS
<1>1. CASE domainInstall
  <2> PICK s \in Slots, n \in VmNames :
        /\ rows[n] # NoVm /\ installs' = installs + 1
        /\ rows' = [rows EXCEPT ![n].installInProgress = TRUE]
        /\ jobs' = [jobs EXCEPT ![s] = [name |-> n, uuid |-> 0, start |-> TRUE, step |-> "prevXML"]]
        /\ UNCHANGED <<formVars, subject, machines, unread, uivms, timeouts, timers, vanished, creations, deletions>>
    BY <1>1 DEF domainInstall
  <2>1. [name |-> n, uuid |-> 0, start |-> TRUE, step |-> "prevXML"] \in Job
    BY DEF Job, InstallationSteps
  <2>2. rows' \in [VmNames -> Row \cup {NoVm}]
    BY DEF TypeOK, Row
  <2>3. QED
    BY <2>1, <2>2 DEF TypeOK
<1>2. CASE prevXML
  <2> PICK s \in Slots :
        /\ ~Free(s)
        /\ IF machines[jobs[s].name] = NoVm THEN InstallEnds(s)
           ELSE /\ jobs' = [jobs EXCEPT ![s].step = "reinstall", ![s].uuid = machines[jobs[s].name].uuid]
                /\ UNCHANGED rows
    BY <1>2 DEF prevXML
  <2>1. CASE machines[jobs[s].name] = NoVm
    BY <1>2, <2>1, InstallEndsTypes, EndsTypes DEF prevXML, TypeOK
  <2>2. CASE machines[jobs[s].name] # NoVm
    <3>1. jobs[s] \in Job /\ machines[jobs[s].name].uuid \in Nat
      BY <2>2, SlotsHaveJobs DEF TypeOK, Machine
    <3>2. [[jobs[s] EXCEPT !.step = "reinstall"] EXCEPT !.uuid = machines[jobs[s].name].uuid] \in Job
      BY <3>1 DEF Job, InstallationSteps
    <3>3. jobs' \in [Slots -> Job \cup {NoJob}]
      BY <2>2, <3>2 DEF TypeOK
    <3>4. QED
      BY <1>2, <2>2, <3>3 DEF prevXML, TypeOK
  <2>3. QED
    BY <2>1, <2>2
<1>3. CASE reinstall
  <2> PICK s \in Slots :
        /\ ~Free(s) /\ IsMachineOf(s) /\ Goes(s, "installing")
        /\ Defined(jobs[s].name, [machines[jobs[s].name] EXCEPT !.state = "running", !.installPhase = FALSE])
    BY <1>3 DEF reinstall
  <2>1. /\ jobs[s].name \in VmNames
        /\ [machines[jobs[s].name] EXCEPT !.state = "running", !.installPhase = FALSE] \in Machine
    BY SlotsHaveJobs DEF Machine, States, IsMachineOf, TypeOK
  <2>2. /\ machines' \in [VmNames -> Machine \cup {NoVm}] /\ unread' \subseteq VmNames
        /\ jobs' \in [Slots -> Job \cup {NoJob}]
    BY <2>1, DefinedTypes, GoesTypes DEF InstallationSteps
  <2>3. QED
    BY <1>3, <2>2 DEF reinstall, TypeOK, pageVars
<1>4. CASE install_vm_fails
  <2> PICK s \in Slots :
        /\ ~Free(s) /\ InstallEnds(s)
        /\ \/ Defined(jobs[s].name, [uuid |-> jobs[s].uuid, state |-> StateOf(jobs[s].name),
                                     installPhase |-> TRUE, toInstall |-> TRUE])
           \/ UNCHANGED <<machines, unread>>
    BY <1>4 DEF install_vm_fails
  <2>1. /\ jobs[s].name \in VmNames
        /\ [uuid |-> jobs[s].uuid, state |-> StateOf(jobs[s].name),
            installPhase |-> TRUE, toInstall |-> TRUE] \in Machine
    BY SlotsHaveJobs, StateTypes DEF Machine
  <2>2. /\ machines' \in [VmNames -> Machine \cup {NoVm}] /\ unread' \subseteq VmNames
        /\ jobs' \in [Slots -> Job \cup {NoJob}] /\ rows' \in [VmNames -> Row \cup {NoVm}]
    BY <2>1, DefinedTypes, EndsTypes, InstallEndsTypes DEF TypeOK
  <2>3. QED
    BY <1>4, <2>2 DEF install_vm_fails, TypeOK
<1>5. CASE install_vm
  <2> PICK s \in Slots :
        /\ ~Free(s) /\ InstallEnds(s)
        /\ \/ IsMachineOf(s) /\ Defined(jobs[s].name, [machines[jobs[s].name] EXCEPT !.toInstall = FALSE])
           \/ UNCHANGED <<machines, unread>>
    BY <1>5 DEF install_vm
  <2>1. /\ jobs[s].name \in VmNames
        /\ IsMachineOf(s) => [machines[jobs[s].name] EXCEPT !.toInstall = FALSE] \in Machine
    BY SlotsHaveJobs DEF Machine, IsMachineOf, TypeOK
  <2>2. /\ machines' \in [VmNames -> Machine \cup {NoVm}] /\ unread' \subseteq VmNames
        /\ jobs' \in [Slots -> Job \cup {NoJob}] /\ rows' \in [VmNames -> Row \cup {NoVm}]
    BY <2>1, DefinedTypes, EndsTypes, InstallEndsTypes DEF TypeOK
  <2>3. QED
    BY <1>5, <2>2 DEF install_vm, TypeOK
<1>6. QED
  BY <1>1, <1>2, <1>3, <1>4, <1>5

\* What the page reads, timers, and what others do.
LEMMA OtherTypes == TypeOK /\ (domainGet \/ Stops \/ IsDeleted \/ CleanupTimeout) => TypeOK'
<1> SUFFICES ASSUME TypeOK, domainGet \/ Stops \/ IsDeleted \/ CleanupTimeout PROVE TypeOK'
  OBVIOUS
<1>1. CASE domainGet
  <2> PICK n \in unread :
        /\ unread' = unread \ {n}
        /\ IF machines[n] = NoVm
           THEN rows' = [rows EXCEPT ![n] = NoVm] /\ UNCHANGED <<uivms, timeouts, timers>>
           ELSE /\ rows' = [rows EXCEPT ![n] = [state |-> machines[n].state, installPhase |-> machines[n].installPhase,
                                                installInProgress |-> IF rows[n] = NoVm THEN FALSE ELSE rows[n].installInProgress]]
                /\ clearVmUiState(n)
    BY <1>1 DEF domainGet
  <2>1. n \in VmNames
    BY DEF TypeOK
  <2>2. CASE machines[n] = NoVm
    BY <1>1, <2>1, <2>2 DEF domainGet, TypeOK
  <2>3. CASE machines[n] # NoVm
    <3>1. [state |-> machines[n].state, installPhase |-> machines[n].installPhase,
           installInProgress |-> IF rows[n] = NoVm THEN FALSE ELSE rows[n].installInProgress] \in Row
      BY <2>1, <2>3 DEF TypeOK, Machine, Row
    <3>2. rows' \in [VmNames -> Row \cup {NoVm}]
      BY <2>3, <3>1 DEF TypeOK
    <3>3. QED
      BY <1>1, <2>1, <2>3, <3>2, ClearTypes DEF domainGet, TypeOK
  <2>4. QED
    BY <2>2, <2>3
<1>2. CASE Stops
  <2> PICK n \in VmNames : machines[n] # NoVm /\ Defined(n, [machines[n] EXCEPT !.state = "shut off"])
    BY <1>2 DEF Stops
  <2>1. [machines[n] EXCEPT !.state = "shut off"] \in Machine
    BY DEF TypeOK, Machine, States
  <2>2. QED
    BY <1>2, <2>1, DefinedTypes DEF Stops, TypeOK, pageVars
<1>3. CASE IsDeleted
  BY <1>3 DEF IsDeleted, TypeOK, pageVars
<1>4. CASE CleanupTimeout
  <2> PICK t \in timers :
        /\ uivms' = [uivms EXCEPT ![t[1]] = "no"]
        /\ timers' = timers \ {t, <<t[1], timeouts[t[1]]>>}
        /\ timeouts' = [timeouts EXCEPT ![t[1]] = 0]
    BY <1>4 DEF CleanupTimeout
  <2>1. t[1] \in VmNames
    BY DEF TypeOK
  <2>2. QED
    BY <1>4, <2>1 DEF CleanupTimeout, TypeOK
<1>5. QED
  BY <1>1, <1>2, <1>3, <1>4

LEMMA NextTypes == TypeOK /\ [Next]_vars => TypeOK'
<1>1. CASE FormNext /\ UNCHANGED vmVars
  BY <1>1 DEF vmVars, TypeOK
<1>2. CASE CreationNext
  BY <1>2, CreationTypes, InstallationTypes, OtherTypes DEF CreationNext
<1>3. CASE UNCHANGED vars
  BY <1>3 DEF vars, vmVars, TypeOK
<1>4. QED
  BY <1>1, <1>2, <1>3 DEF Next

(* Every variable of the creation has its type (domain.ts, uiState.ts,     *)
(* install_machine.py).                                                    *)
THEOREM TypeCorrect == Spec => []TypeOK
<1>1. Init => TypeOK
  BY DEF Init, TypeOK
<1>2. QED
  BY <1>1, NextTypes, PTL DEF Spec

-----------------------------------------------------------------------------
(* Detection: whatever is under way is about the source asked for last, and *)
(* when nothing is, a system that was detected is that of this source.      *)

Found == detection.running = {} /\ osFrom # "user" => osFrom = asked

DetectionInv ==
    /\ detection = [due |-> detection.due, running |-> detection.running]
    /\ detection.running \subseteq {asked}
    /\ Found

\* What a step that does not end a detection may do.
Unasked ==
    /\ asked' = asked
    /\ detection' = [detection EXCEPT !.due = detection'.due]
    /\ osFrom' \in {osFrom, "user"}

LEMMA UnaskedKeeps == DetectionInv /\ Unasked => DetectionInv'
<1> SUFFICES ASSUME DetectionInv, Unasked PROVE DetectionInv'
  OBVIOUS
<1>1. detection'.running = detection.running /\ detection' = [due |-> detection'.due, running |-> detection.running]
  BY DEF DetectionInv, Unasked
<1>2. QED
  BY <1>1 DEF DetectionInv, Unasked, Found

LEMMA FormStepsDetect == DetectionInv /\ FormNext => DetectionInv'
<1> SUFFICES ASSUME DetectionInv, FormNext PROVE DetectionInv'
  OBVIOUS
<1>1. CASE \/ onSourceType \/ ChooseConnection \/ EnterStorage \/ EnterMemory \/ EnterName \/ EnterUsers
           \/ setOfflineTokenHelper \/ getAccessTokenDebounce \/ AccessIsGranted \/ AccessIsDenied
           \/ onCreateClicked \/ MachineAppears
  <2>1. UNCHANGED <<detection, asked, osFrom>>
    BY <1>1 DEF onSourceType, ChooseConnection, EnterStorage, EnterMemory, EnterName, EnterUsers, UserEnters,
                setOfflineTokenHelper, getAccessTokenDebounce, AccessIsGranted, AccessIsDenied,
                onCreateClicked, MachineAppears
  <2>2. QED
    BY <2>1 DEF DetectionInv, Found
<1>2. CASE onSource
  <2>1. Unasked
    <3>1. PICK s : detection' = IF form.type \in {"url", "file"} THEN [detection EXCEPT !.due = s] ELSE detection
      BY <1>2 DEF onSource
    <3>2. detection' = [detection EXCEPT !.due = detection'.due]
      BY <3>1 DEF DetectionInv
    <3>3. QED
      BY <1>2, <3>2 DEF onSource, UserEnters, Unasked
  <2>2. QED
    BY <2>1, UnaskedKeeps
<1>3. CASE onSystem
  <2>1. Unasked
    BY <1>3 DEF onSystem, UserEnters, Unasked, DetectionInv
  <2>2. QED
    BY <2>1, UnaskedKeeps
<1>4. CASE onOsAutodetect
  BY <1>4 DEF onOsAutodetect, Started, DetectionInv, Found
<1>5. CASE DetectionReturns \/ DetectionFails
  <2> PICK s \in detection.running :
        /\ detection' = [detection EXCEPT !.running = @ \ {s}]
        /\ asked' = asked /\ osFrom' \in {s, "user"}
    BY <1>5 DEF DetectionReturns, DetectionFails
  <2>1. detection' = [due |-> detection.due, running |-> detection.running \ {s}]
    BY DEF DetectionInv
  <2>2. QED
    BY <2>1 DEF DetectionInv, Found
<1>6. QED
  BY <1>1, <1>2, <1>3, <1>4, <1>5 DEF FormNext

\* Once the form has handed over a machine, creating it leaves the form alone.
LEMMA CreationKeepsForm == CreationNext => UNCHANGED formVars
BY DEF CreationNext, domainCreate, updateImageDownloadProgress, ImageIsThere, CreationFails, create_vm,
       assert_vm_exists, inject_metadata, domainInstall, prevXML, reinstall, install_vm_fails, install_vm,
       domainGet, Stops, IsDeleted, CleanupTimeout

(* A slow detection never replaces the result of a later one: in a quiet    *)
(* form the system is that of the source looked at last, or the user's      *)
(* choice (createVmDialog.tsx onOsAutodetect).                              *)
THEOREM LastDetectionCounts == Spec => []DetectionIsOfLastSource
<1>1. Init => DetectionInv
  BY DEF Init, FormInit, DetectionInv, Found
<1>2. DetectionInv /\ [Next]_vars => DetectionInv'
  <2>1. CASE FormNext
    BY <2>1, FormStepsDetect
  <2>2. CASE UNCHANGED formVars
    BY <2>2 DEF formVars, DetectionInv, Found
  <2>3. QED
    BY <2>1, <2>2, CreationKeepsForm DEF Next, vars
<1>3. DetectionInv => DetectionIsOfLastSource
  BY DEF DetectionInv, Found, DetectionIsOfLastSource
<1>4. QED
  BY <1>1, <1>2, <1>3, PTL DEF Spec

-----------------------------------------------------------------------------
(* Placeholders.  What holds one up is its timer, a creation that will clear *)
(* it if it fails and will have the machine read if it does not, or such a  *)
(* reading.  A creation that waits for virt-install to return holds nothing *)
(* up, since it may end quietly: by then its machine is to be read.         *)

HoldsUp(s, n) == ~Free(s) /\ jobs[s].name = n /\ jobs[s].step \in {"download", "create", "define"}

Supported(n) ==
    \/ \E t \in timers : t[1] = n
    \/ \E s \in Slots : HoldsUp(s, n)
    \/ n \in unread /\ machines[n] # NoVm
    \/ n \in vanished

PlaceholderInv == \A n \in VmNames : uivms[n] # "no" => Supported(n)

LEMMA JobSteps ==
    ASSUME TypeOK, NEW s \in Slots, ~Free(s), NEW step \in CreationSteps \cup InstallationSteps, Goes(s, step),
           NEW n
    PROVE  /\ \A r \in Slots : r # s /\ HoldsUp(r, n) => HoldsUp(r, n)'
           /\ jobs[s].name = n /\ step \in {"download", "create", "define"} => HoldsUp(s, n)'
           /\ jobs[s].name # n => ~HoldsUp(s, n)
<1>1. /\ jobs'[s] \in Job /\ jobs'[s] = [jobs[s] EXCEPT !.step = step]
      /\ \A r \in Slots \ {s} : jobs'[r] = jobs[r]
  BY GoesTypes
<1>2. jobs'[s].name = jobs[s].name /\ jobs'[s].step = step /\ jobs'[s] # NoJob
  BY <1>1, SlotsHaveJobs, Specials DEF Job
<1>3. QED
  BY <1>1, <1>2 DEF HoldsUp, Free

LEMMA JobEnds ==
    ASSUME TypeOK, NEW s \in Slots, Ends(s), NEW n
    PROVE  /\ \A r \in Slots : r # s /\ HoldsUp(r, n) => HoldsUp(r, n)'
           /\ jobs[s].name # n => ~HoldsUp(s, n)
BY EndsTypes DEF HoldsUp, Free

\* A creation that begins sets a timer.
LEMMA CreateKeepsPlaceholders == TypeOK /\ PlaceholderInv /\ domainCreate => PlaceholderInv'
<1> SUFFICES ASSUME TypeOK, PlaceholderInv, domainCreate, NEW m \in VmNames, uivms'[m] # "no"
             PROVE  Supported(m)'
  BY DEF PlaceholderInv
<1> PICK s \in Slots, n \in VmNames, download \in BOOLEAN, start \in BOOLEAN :
        /\ Free(s)
        /\ jobs' = [jobs EXCEPT ![s] = [name |-> n, uuid |-> creations + 1, start |-> start,
                                        step |-> IF download THEN "download" ELSE "create"]]
        /\ setVmCreateInProgress(n)
        /\ UNCHANGED <<formVars, subject, machines, rows, unread, vanished, installs, deletions>>
  BY DEF domainCreate
<1>1. CASE m = n
  <2>1. <<n, creations + 1>> \in timers' /\ <<n, creations + 1>>[1] = m
    BY <1>1 DEF setVmCreateInProgress
  <2>2. QED
    BY <2>1, Zenon DEF Supported
<1>2. CASE m # n
  <2>1. uivms'[m] = uivms[m] /\ timers \subseteq timers'
    BY <1>2 DEF setVmCreateInProgress, TypeOK
  <2>2. Supported(m)
    BY <2>1 DEF PlaceholderInv
  <2>3. \A r \in Slots : HoldsUp(r, m) => HoldsUp(r, m)'
    BY DEF HoldsUp, Free, TypeOK
  <2>4. QED
    BY <2>1, <2>2, <2>3 DEF Supported
<1>3. QED
  BY <1>1, <1>2

LEMMA CreationKeepsPlaceholders ==
    TypeOK /\ PlaceholderInv
        /\ (\/ updateImageDownloadProgress \/ ImageIsThere \/ CreationFails
            \/ create_vm \/ assert_vm_exists \/ inject_metadata)
    => PlaceholderInv'
<1> SUFFICES ASSUME TypeOK, PlaceholderInv, NEW m \in VmNames, uivms'[m] # "no",
                    \/ updateImageDownloadProgress \/ ImageIsThere \/ CreationFails
                    \/ create_vm \/ assert_vm_exists \/ inject_metadata
             PROVE  Supported(m)'
  BY DEF PlaceholderInv
<1>1. CASE updateImageDownloadProgress
  <2> PICK s \in Slots :
        /\ ~Free(s) /\ jobs[s].step = "download"
        /\ uivms' = [uivms EXCEPT ![jobs[s].name] = "downloading"]
        /\ UNCHANGED <<formVars, subject, machines, rows, unread, timeouts, timers, jobs, vanished,
                       creations, installs, deletions>>
    BY <1>1 DEF updateImageDownloadProgress
  <2>1. CASE m = jobs[s].name
    BY <2>1 DEF Supported, HoldsUp, Free
  <2>2. CASE m # jobs[s].name
    <3>1. uivms'[m] = uivms[m]
      BY <2>2 DEF TypeOK
    <3>2. QED
      BY <3>1 DEF PlaceholderInv, Supported, HoldsUp, Free
  <2>3. QED
    BY <2>1, <2>2
<1>2. CASE ImageIsThere
  <2> PICK s \in Slots : ~Free(s) /\ jobs[s].step = "download" /\ Goes(s, "create")
    BY <1>2 DEF ImageIsThere
  <2>1. Supported(m) /\ UNCHANGED <<timers, unread, machines, vanished>>
    BY <1>2 DEF ImageIsThere, PlaceholderInv, pageVars
  <2>2. \A r \in Slots : HoldsUp(r, m) => HoldsUp(r, m)'
    BY JobSteps DEF CreationSteps
  <2>3. QED
    BY <2>1, <2>2 DEF Supported
<1>3. CASE CreationFails
  <2> PICK s \in Slots : /\ ~Free(s) /\ Ends(s) /\ clearVmUiState(jobs[s].name)
                         /\ UNCHANGED <<unread, machines, vanished>>
    BY <1>3 DEF CreationFails
  <2>1. jobs[s].name \in VmNames
    BY SlotsHaveJobs
  <2>2. /\ m # jobs[s].name /\ uivms'[m] = uivms[m]
        /\ \A t \in timers : t[1] = m => t \in timers'
    BY <2>1, ClearTypes
  <2>3. Supported(m)
    BY <2>2 DEF PlaceholderInv
  <2>4. \A r \in Slots : HoldsUp(r, m) => HoldsUp(r, m)'
    BY <2>2, JobEnds
  <2>5. QED
    BY <2>2, <2>3, <2>4 DEF Supported
<1>4. CASE create_vm
  <2> PICK s \in Slots :
        /\ ~Free(s)
        /\ IF jobs[s].start
           THEN /\ Defined(jobs[s].name, [uuid |-> jobs[s].uuid, state |-> "running",
                                          installPhase |-> FALSE, toInstall |-> FALSE])
                /\ Goes(s, "describe")
           ELSE Goes(s, "define") /\ UNCHANGED <<machines, unread>>
    BY <1>4 DEF create_vm
  <2>1. Supported(m) /\ UNCHANGED <<timers, vanished>>
    BY <1>4 DEF create_vm, PlaceholderInv, pageVars
  <2>2. CASE jobs[s].start
    <3>1. /\ jobs[s].name \in VmNames
          /\ [uuid |-> jobs[s].uuid, state |-> "running", installPhase |-> FALSE, toInstall |-> FALSE] \in Machine
      BY SlotsHaveJobs DEF Machine, States
    <3>2. /\ unread' = unread \cup {jobs[s].name} /\ machines'[jobs[s].name] # NoVm
          /\ \A k \in VmNames \ {jobs[s].name} : machines'[k] = machines[k]
      BY <2>2, <3>1, DefinedTypes
    <3>3. CASE m = jobs[s].name
      BY <3>2, <3>3 DEF Supported
    <3>4. CASE m # jobs[s].name
      <4>1. \A r \in Slots : HoldsUp(r, m) => HoldsUp(r, m)'
        BY <2>2, <3>4, JobSteps DEF CreationSteps
      <4>2. QED
        BY <2>1, <3>2, <3>4, <4>1 DEF Supported
    <3>5. QED
      BY <3>3, <3>4
  <2>3. CASE ~jobs[s].start
    <3>1. \A r \in Slots : HoldsUp(r, m) => HoldsUp(r, m)'
      BY <2>3, JobSteps DEF CreationSteps
    <3>2. QED
      BY <2>1, <2>3, <3>1 DEF Supported
  <2>4. QED
    BY <2>2, <2>3
<1>5. CASE assert_vm_exists
  <2> PICK s \in Slots : ~Free(s) /\ jobs[s].step = "describe" /\ (Goes(s, "define") \/ Ends(s))
    BY <1>5 DEF assert_vm_exists
  <2>1. Supported(m) /\ UNCHANGED <<timers, unread, machines, vanished>>
    BY <1>5 DEF assert_vm_exists, PlaceholderInv, pageVars
  <2>2. ~HoldsUp(s, m)
    BY DEF HoldsUp
  <2>3. \A r \in Slots : HoldsUp(r, m) => HoldsUp(r, m)'
    BY <2>2, JobSteps, JobEnds DEF CreationSteps
  <2>4. QED
    BY <2>1, <2>3 DEF Supported
<1>6. CASE inject_metadata
  <2> PICK s \in Slots :
        /\ ~Free(s) /\ Ends(s)
        /\ Defined(jobs[s].name, [uuid |-> jobs[s].uuid, state |-> StateOf(jobs[s].name),
                                  installPhase |-> ~jobs[s].start, toInstall |-> ~jobs[s].start])
    BY <1>6 DEF inject_metadata
  <2>1. Supported(m) /\ UNCHANGED <<timers, vanished>>
    BY <1>6 DEF inject_metadata, PlaceholderInv, pageVars
  <2>2. /\ jobs[s].name \in VmNames
        /\ [uuid |-> jobs[s].uuid, state |-> StateOf(jobs[s].name),
            installPhase |-> ~jobs[s].start, toInstall |-> ~jobs[s].start] \in Machine
    BY SlotsHaveJobs, StateTypes DEF Machine
  <2>3. /\ unread' = unread \cup {jobs[s].name} /\ machines'[jobs[s].name] # NoVm
        /\ \A k \in VmNames \ {jobs[s].name} : machines'[k] = machines[k]
    BY <2>2, DefinedTypes
  <2>4. CASE m = jobs[s].name
    BY <2>3, <2>4 DEF Supported
  <2>5. CASE m # jobs[s].name
    <3>1. \A r \in Slots : HoldsUp(r, m) => HoldsUp(r, m)'
      BY <2>5, JobEnds
    <3>2. QED
      BY <2>1, <2>3, <2>5, <3>1 DEF Supported
  <2>6. QED
    BY <2>4, <2>5
<1>7. QED
  BY <1>1, <1>2, <1>3, <1>4, <1>5, <1>6

\* Installations hold up no placeholder, and only define machines.
LEMMA InstallationKeepsPlaceholders ==
    TypeOK /\ PlaceholderInv /\ (domainInstall \/ prevXML \/ reinstall \/ install_vm_fails \/ install_vm)
    => PlaceholderInv'
<1> SUFFICES ASSUME TypeOK, PlaceholderInv, NEW m \in VmNames, uivms'[m] # "no",
                    domainInstall \/ prevXML \/ reinstall \/ install_vm_fails \/ install_vm
             PROVE  Supported(m)'
  BY DEF PlaceholderInv
<1>1. UNCHANGED <<uivms, timers, vanished>> /\ Supported(m)
  BY DEF PlaceholderInv, domainInstall, prevXML, reinstall, install_vm_fails, install_vm, pageVars
<1>2. PICK s \in Slots :
        /\ Free(s) \/ jobs[s].step \in InstallationSteps
        /\ \A r \in Slots \ {s} : jobs'[r] = jobs[r]
        /\ \/ UNCHANGED <<machines, unread>>
           \/ \E n \in VmNames, vm \in Machine : Defined(n, vm)
  <2>1. CASE domainInstall
    BY <2>1 DEF domainInstall, TypeOK
  <2>2. CASE prevXML
    <3> PICK s \in Slots :
          /\ ~Free(s) /\ jobs[s].step = "prevXML" /\ UNCHANGED <<machines, unread>>
          /\ \/ InstallEnds(s)
             \/ jobs' = [jobs EXCEPT ![s].step = "reinstall", ![s].uuid = machines[jobs[s].name].uuid]
      BY <2>2 DEF prevXML
    <3>1. \A r \in Slots \ {s} : jobs'[r] = jobs[r]
      BY InstallEndsTypes, EndsTypes DEF TypeOK
    <3>2. QED
      BY <3>1 DEF InstallationSteps
  <2>3. CASE reinstall
    <3> PICK s \in Slots :
          /\ ~Free(s) /\ jobs[s].step = "reinstall" /\ IsMachineOf(s) /\ Goes(s, "installing")
          /\ Defined(jobs[s].name, [machines[jobs[s].name] EXCEPT !.state = "running", !.installPhase = FALSE])
      BY <2>3 DEF reinstall
    <3>1. /\ jobs[s].name \in VmNames
          /\ [machines[jobs[s].name] EXCEPT !.state = "running", !.installPhase = FALSE] \in Machine
      BY SlotsHaveJobs DEF Machine, States, IsMachineOf, TypeOK
    <3>2. \A r \in Slots \ {s} : jobs'[r] = jobs[r]
      BY GoesTypes DEF InstallationSteps
    <3>3. QED
      BY <3>1, <3>2 DEF InstallationSteps
  <2>4. CASE install_vm_fails
    <3> PICK s \in Slots :
          /\ ~Free(s) /\ jobs[s].step \in {"reinstall", "installing"} /\ InstallEnds(s)
          /\ \/ Defined(jobs[s].name, [uuid |-> jobs[s].uuid, state |-> StateOf(jobs[s].name),
                                       installPhase |-> TRUE, toInstall |-> TRUE])
             \/ UNCHANGED <<machines, unread>>
      BY <2>4 DEF install_vm_fails
    <3>1. /\ jobs[s].name \in VmNames
          /\ [uuid |-> jobs[s].uuid, state |-> StateOf(jobs[s].name),
              installPhase |-> TRUE, toInstall |-> TRUE] \in Machine
      BY SlotsHaveJobs, StateTypes DEF Machine
    <3>2. \A r \in Slots \ {s} : jobs'[r] = jobs[r]
      BY InstallEndsTypes, EndsTypes
    <3>3. QED
      BY <3>1, <3>2 DEF InstallationSteps
  <2>5. CASE install_vm
    <3> PICK s \in Slots :
          /\ ~Free(s) /\ jobs[s].step = "installing" /\ InstallEnds(s)
          /\ \/ IsMachineOf(s) /\ Defined(jobs[s].name, [machines[jobs[s].name] EXCEPT !.toInstall = FALSE])
             \/ UNCHANGED <<machines, unread>>
      BY <2>5 DEF install_vm
    <3>1. /\ jobs[s].name \in VmNames
          /\ IsMachineOf(s) => [machines[jobs[s].name] EXCEPT !.toInstall = FALSE] \in Machine
      BY SlotsHaveJobs DEF Machine, IsMachineOf, TypeOK
    <3>2. \A r \in Slots \ {s} : jobs'[r] = jobs[r]
      BY InstallEndsTypes, EndsTypes
    <3>3. QED
      BY <3>1, <3>2 DEF InstallationSteps
  <2>6. QED
    BY <2>1, <2>2, <2>3, <2>4, <2>5
<1>3. \A r \in Slots : HoldsUp(r, m) => HoldsUp(r, m)'
  BY <1>2 DEF HoldsUp, Free, InstallationSteps
<1>4. m \in unread /\ machines[m] # NoVm => m \in unread' /\ machines'[m] # NoVm
  BY <1>2, DefinedTypes
<1>5. QED
  BY <1>1, <1>3, <1>4 DEF Supported

\* A reading clears what it had held up, and a machine that is deleted before it
\* was read is remembered.
LEMMA OthersKeepPlaceholders ==
    TypeOK /\ PlaceholderInv /\ (domainGet \/ Stops \/ IsDeleted \/ CleanupTimeout) => PlaceholderInv'
<1> SUFFICES ASSUME TypeOK, PlaceholderInv, NEW m \in VmNames, uivms'[m] # "no",
                    domainGet \/ Stops \/ IsDeleted \/ CleanupTimeout
             PROVE  Supported(m)'
  BY DEF PlaceholderInv
<1>1. jobs' = jobs
  BY DEF domainGet, Stops, IsDeleted, CleanupTimeout
<1>2. \A r \in Slots : HoldsUp(r, m) => HoldsUp(r, m)'
  BY <1>1 DEF HoldsUp, Free
<1>3. CASE domainGet
  <2> PICK n \in unread :
        /\ unread' = unread \ {n} /\ UNCHANGED <<machines, vanished>>
        /\ IF machines[n] = NoVm THEN UNCHANGED <<uivms, timers>> ELSE clearVmUiState(n)
    BY <1>3 DEF domainGet
  <2>1. n \in VmNames
    BY DEF TypeOK
  <2>2. CASE machines[n] = NoVm
    BY <1>2, <2>2 DEF PlaceholderInv, Supported
  <2>3. CASE machines[n] # NoVm
    <3>1. m # n /\ uivms'[m] = uivms[m] /\ \A t \in timers : t[1] = m => t \in timers'
      BY <2>1, <2>3, ClearTypes
    <3>2. Supported(m)
      BY <3>1 DEF PlaceholderInv
    <3>3. QED
      BY <1>2, <3>1, <3>2 DEF Supported
  <2>4. QED
    BY <2>2, <2>3
<1>4. CASE Stops
  <2> PICK n \in VmNames : machines[n] # NoVm /\ Defined(n, [machines[n] EXCEPT !.state = "shut off"])
    BY <1>4 DEF Stops
  <2>1. [machines[n] EXCEPT !.state = "shut off"] \in Machine
    BY DEF TypeOK, Machine, States
  <2>2. Supported(m) /\ UNCHANGED <<timers, vanished>>
    BY <1>4 DEF Stops, pageVars, PlaceholderInv
  <2>3. QED
    BY <1>2, <2>1, <2>2, DefinedTypes DEF Supported
<1>5. CASE IsDeleted
  <2> PICK n \in VmNames :
        /\ machines' = [machines EXCEPT ![n] = NoVm]
        /\ unread' = unread \cup {n}
        /\ vanished' = IF n \in unread THEN vanished \cup {n} ELSE vanished
    BY <1>5 DEF IsDeleted
  <2>1. Supported(m) /\ UNCHANGED timers
    BY <1>5 DEF IsDeleted, pageVars, PlaceholderInv
  <2>2. m \in unread /\ machines[m] # NoVm => m \in vanished' \/ (m \in unread' /\ machines'[m] # NoVm)
    BY DEF TypeOK
  <2>3. QED
    BY <1>2, <2>1, <2>2 DEF Supported
<1>6. CASE CleanupTimeout
  <2> PICK t \in timers :
        /\ uivms' = [uivms EXCEPT ![t[1]] = "no"]
        /\ timers' = timers \ {t, <<t[1], timeouts[t[1]]>>}
        /\ UNCHANGED <<machines, unread, vanished>>
    BY <1>6 DEF CleanupTimeout
  <2>1. t[1] \in VmNames
    BY DEF TypeOK
  <2>2. m # t[1] /\ uivms'[m] = uivms[m]
    BY <2>1 DEF TypeOK
  <2>3. \A u \in timers : u[1] = m => u \in timers'
    BY <2>2
  <2>4. Supported(m)
    BY <2>2 DEF PlaceholderInv
  <2>5. QED
    BY <1>2, <2>3, <2>4 DEF Supported
<1>7. QED
  BY <1>3, <1>4, <1>5, <1>6

(* A placeholder does not stay for good, however creations of one name,     *)
(* their failures, downloads, timers, readings and deletions follow each    *)
(* other (uiState.ts, domain.ts).                                           *)
THEOREM PlaceholdersEnd == Spec => []PlaceholderHasAnEnd
<1>1. Init => PlaceholderInv
  BY DEF Init, PlaceholderInv
<1>2. TypeOK /\ PlaceholderInv /\ [Next]_vars => PlaceholderInv'
  <2>1. ASSUME UNCHANGED <<machines, uivms, timers, jobs, unread, vanished>>
        PROVE  PlaceholderInv => PlaceholderInv'
    BY <2>1 DEF PlaceholderInv, Supported, HoldsUp, Free
  <2>2. TypeOK /\ PlaceholderInv /\ CreationNext => PlaceholderInv'
    BY CreateKeepsPlaceholders, CreationKeepsPlaceholders, InstallationKeepsPlaceholders, OthersKeepPlaceholders
    DEF CreationNext
  <2>3. QED
    BY <2>1, <2>2 DEF Next, vars, vmVars
<1>3. PlaceholderInv => PlaceholderHasAnEnd
  BY DEF PlaceholderInv, Supported, HoldsUp, PlaceholderHasAnEnd, IsUnderWay
<1>4. QED
  BY <1>1, <1>2, <1>3, TypeCorrect, PTL DEF Spec

-----------------------------------------------------------------------------
(* Installation.  While a machine that is still to be installed has lost    *)
(* its Install button, a job installs this very machine, not another one of *)
(* its name: only then will the end of the job find it.                     *)

Installs(s, n) ==
    ~Free(s) /\ jobs[s].name = n /\ jobs[s].step = "installing" /\ jobs[s].uuid = machines[n].uuid

Repeatable(vm) == vm.toInstall => vm.installPhase

InstallInv ==
    \A n \in VmNames :
        machines[n] # NoVm /\ ~Repeatable(machines[n]) => \E s \in Slots : Installs(s, n)

\* A step that touches no machine and no job that installs.
LEMMA NoInstallStep ==
    ASSUME InstallInv, UNCHANGED machines,
           NEW s \in Slots, Free(s) \/ jobs[s].step # "installing",
           \A r \in Slots \ {s} : jobs'[r] = jobs[r]
    PROVE  InstallInv'
BY DEF InstallInv, Installs, Free

\* A step that defines a machine that has the button, or that it was installed.
LEMMA RepeatableStep ==
    ASSUME TypeOK, InstallInv, NEW s \in Slots, NEW n \in VmNames, NEW vm \in Machine,
           ~Free(s), jobs[s].name = n, Repeatable(vm), Defined(n, vm),
           \A r \in Slots \ {s} : jobs'[r] = jobs[r]
    PROVE  InstallInv'
<1> SUFFICES ASSUME NEW m \in VmNames, machines'[m] # NoVm, ~Repeatable(machines'[m])
             PROVE  \E r \in Slots : Installs(r, m)'
  BY DEF InstallInv
<1>1. m # n /\ machines'[m] = machines[m]
  BY DefinedTypes
<1>2. PICK r \in Slots : Installs(r, m)
  BY <1>1 DEF InstallInv
<1>3. r # s
  BY <1>1, <1>2 DEF Installs
<1>4. QED
  BY <1>1, <1>2, <1>3 DEF Installs, Free

LEMMA CreationKeepsInstall ==
    TypeOK /\ InstallInv
        /\ (\/ domainCreate \/ updateImageDownloadProgress \/ ImageIsThere \/ CreationFails
            \/ create_vm \/ assert_vm_exists \/ inject_metadata)
    => InstallInv'
<1> SUFFICES ASSUME TypeOK, InstallInv,
                    \/ domainCreate \/ updateImageDownloadProgress \/ ImageIsThere \/ CreationFails
                    \/ create_vm \/ assert_vm_exists \/ inject_metadata
             PROVE  InstallInv'
  OBVIOUS
<1>1. CASE domainCreate
  BY <1>1, NoInstallStep DEF domainCreate, TypeOK
<1>2. CASE updateImageDownloadProgress
  BY <1>2, NoInstallStep DEF updateImageDownloadProgress
<1>3. CASE ImageIsThere
  <2> PICK s \in Slots : ~Free(s) /\ jobs[s].step = "download" /\ Goes(s, "create") /\ UNCHANGED machines
    BY <1>3 DEF ImageIsThere
  <2>1. \A r \in Slots \ {s} : jobs'[r] = jobs[r]
    BY GoesTypes DEF CreationSteps
  <2>2. QED
    BY <2>1, NoInstallStep
<1>4. CASE CreationFails
  <2> PICK s \in Slots : ~Free(s) /\ jobs[s].step \in CreationSteps /\ Ends(s) /\ UNCHANGED machines
    BY <1>4 DEF CreationFails
  <2>1. jobs[s].step # "installing" /\ \A r \in Slots \ {s} : jobs'[r] = jobs[r]
    BY EndsTypes DEF CreationSteps
  <2>2. QED
    BY <2>1, NoInstallStep
<1>5. CASE create_vm
  <2> PICK s \in Slots :
        /\ ~Free(s) /\ jobs[s].step = "create"
        /\ \/ /\ Defined(jobs[s].name, [uuid |-> jobs[s].uuid, state |-> "running",
                                        installPhase |-> FALSE, toInstall |-> FALSE])
              /\ Goes(s, "describe")
           \/ Goes(s, "define") /\ UNCHANGED machines
    BY <1>5 DEF create_vm
  <2>1. \A r \in Slots \ {s} : jobs'[r] = jobs[r]
    BY GoesTypes DEF CreationSteps
  <2>2. /\ jobs[s].name \in VmNames
        /\ [uuid |-> jobs[s].uuid, state |-> "running", installPhase |-> FALSE, toInstall |-> FALSE] \in Machine
    BY SlotsHaveJobs DEF Machine, States
  <2>3. QED
    BY <2>1, <2>2, NoInstallStep, RepeatableStep DEF Repeatable
<1>6. CASE assert_vm_exists
  <2> PICK s \in Slots :
        ~Free(s) /\ jobs[s].step = "describe" /\ (Goes(s, "define") \/ Ends(s)) /\ UNCHANGED machines
    BY <1>6 DEF assert_vm_exists
  <2>1. \A r \in Slots \ {s} : jobs'[r] = jobs[r]
    BY GoesTypes, EndsTypes DEF CreationSteps
  <2>2. QED
    BY <2>1, NoInstallStep
<1>7. CASE inject_metadata
  <2> PICK s \in Slots :
        /\ ~Free(s) /\ Ends(s)
        /\ Defined(jobs[s].name, [uuid |-> jobs[s].uuid, state |-> StateOf(jobs[s].name),
                                  installPhase |-> ~jobs[s].start, toInstall |-> ~jobs[s].start])
    BY <1>7 DEF inject_metadata
  <2>1. /\ jobs[s].name \in VmNames
        /\ [uuid |-> jobs[s].uuid, state |-> StateOf(jobs[s].name),
            installPhase |-> ~jobs[s].start, toInstall |-> ~jobs[s].start] \in Machine
        /\ \A r \in Slots \ {s} : jobs'[r] = jobs[r]
    BY SlotsHaveJobs, StateTypes, EndsTypes DEF Machine
  <2>2. QED
    BY <2>1, RepeatableStep DEF Repeatable
<1>8. QED
  BY <1>1, <1>2, <1>3, <1>4, <1>5, <1>6, <1>7

\* The end of an installation finds its machine, or is not the one that installs it.
LEMMA InstallationKeepsInstall ==
    TypeOK /\ InstallInv /\ (domainInstall \/ prevXML \/ reinstall \/ install_vm_fails \/ install_vm) => InstallInv'
<1> SUFFICES ASSUME TypeOK, InstallInv, domainInstall \/ prevXML \/ reinstall \/ install_vm_fails \/ install_vm
             PROVE  InstallInv'
  OBVIOUS
<1>1. CASE domainInstall
  BY <1>1, NoInstallStep DEF domainInstall, TypeOK
<1>2. CASE prevXML
  <2> PICK s \in Slots :
        /\ ~Free(s) /\ jobs[s].step = "prevXML" /\ UNCHANGED machines
        /\ \/ InstallEnds(s)
           \/ jobs' = [jobs EXCEPT ![s].step = "reinstall", ![s].uuid = machines[jobs[s].name].uuid]
    BY <1>2 DEF prevXML
  <2>1. \A r \in Slots \ {s} : jobs'[r] = jobs[r]
    BY InstallEndsTypes, EndsTypes DEF TypeOK
  <2>2. QED
    BY <2>1, NoInstallStep
<1>3. CASE reinstall
  <2> PICK s \in Slots :
        /\ ~Free(s) /\ jobs[s].step = "reinstall" /\ IsMachineOf(s) /\ Goes(s, "installing")
        /\ Defined(jobs[s].name, [machines[jobs[s].name] EXCEPT !.state = "running", !.installPhase = FALSE])
    BY <1>3 DEF reinstall
  <2> DEFINE n == jobs[s].name
             vm == [machines[n] EXCEPT !.state = "running", !.installPhase = FALSE]
  <2>1. n \in VmNames /\ machines[n] \in Machine /\ machines[n].uuid = jobs[s].uuid
    BY SlotsHaveJobs DEF IsMachineOf, TypeOK
  <2>2. vm \in Machine /\ vm.uuid = machines[n].uuid
    BY <2>1 DEF Machine, States
  <2>3. machines'[n] = vm /\ \A m \in VmNames \ {n} : machines'[m] = machines[m]
    BY <2>1, <2>2, DefinedTypes
  <2>4. jobs'[s] = [jobs[s] EXCEPT !.step = "installing"] /\ jobs'[s] # NoJob
        /\ \A r \in Slots \ {s} : jobs'[r] = jobs[r]
    BY GoesTypes, Specials DEF InstallationSteps
  <2>5. jobs'[s].name = n /\ jobs'[s].step = "installing" /\ jobs'[s].uuid = jobs[s].uuid
    BY <2>4, SlotsHaveJobs DEF Job
  <2>6. \A m \in VmNames : m = n => Installs(s, m)'
    BY <2>1, <2>2, <2>3, <2>4, <2>5 DEF Installs, Free
  <2>7. ASSUME NEW m \in VmNames \ {n}, NEW r \in Slots, Installs(r, m) PROVE Installs(r, m)'
    <3>1. r # s
      BY <2>7 DEF Installs
    <3>2. QED
      BY <2>3, <2>4, <2>7, <3>1 DEF Installs, Free
  <2>8. ASSUME NEW m \in VmNames, machines'[m] # NoVm, ~Repeatable(machines'[m])
        PROVE  \E r \in Slots : Installs(r, m)'
    <3>1. CASE m = n
      BY <2>6, <3>1
    <3>2. CASE m # n
      <4>1. \E r \in Slots : Installs(r, m)
        <5>1. m \in VmNames \ {n} /\ machines'[m] = machines[m]
          BY <2>3, <3>2
        <5>2. machines[m] # NoVm /\ ~Repeatable(machines[m])
          BY <2>8, <5>1
        <5>3. QED
          BY <5>2 DEF InstallInv
      <4>2. QED
        BY <2>7, <3>2, <4>1
    <3>3. QED
      BY <3>1, <3>2
  <2>9. QED
    BY <2>8 DEF InstallInv
<1>4. CASE install_vm_fails
  <2> PICK s \in Slots :
        /\ ~Free(s) /\ InstallEnds(s)
        /\ IF CanDefine(jobs[s].name, jobs[s].uuid)
           THEN Defined(jobs[s].name, [uuid |-> jobs[s].uuid, state |-> StateOf(jobs[s].name),
                                       installPhase |-> TRUE, toInstall |-> TRUE])
           ELSE UNCHANGED <<machines, unread>>
    BY <1>4 DEF install_vm_fails
  <2>1. /\ jobs[s].name \in VmNames
        /\ [uuid |-> jobs[s].uuid, state |-> StateOf(jobs[s].name), installPhase |-> TRUE, toInstall |-> TRUE] \in Machine
        /\ \A r \in Slots \ {s} : jobs'[r] = jobs[r]
    BY SlotsHaveJobs, StateTypes, InstallEndsTypes, EndsTypes DEF Machine
  <2>2. CASE CanDefine(jobs[s].name, jobs[s].uuid)
    BY <2>1, <2>2, RepeatableStep DEF Repeatable
  <2>3. CASE ~CanDefine(jobs[s].name, jobs[s].uuid)
    BY <2>1, <2>3 DEF CanDefine, InstallInv, Installs, Free
  <2>4. QED
    BY <2>2, <2>3
<1>5. CASE install_vm
  <2> PICK s \in Slots :
        /\ ~Free(s) /\ InstallEnds(s)
        /\ IF IsMachineOf(s)
           THEN Defined(jobs[s].name, [machines[jobs[s].name] EXCEPT !.toInstall = FALSE])
           ELSE UNCHANGED <<machines, unread>>
    BY <1>5 DEF install_vm
  <2>1. jobs[s].name \in VmNames /\ \A r \in Slots \ {s} : jobs'[r] = jobs[r]
    BY SlotsHaveJobs, InstallEndsTypes, EndsTypes
  <2>2. CASE IsMachineOf(s)
    <3>1. /\ [machines[jobs[s].name] EXCEPT !.toInstall = FALSE] \in Machine
          /\ Repeatable([machines[jobs[s].name] EXCEPT !.toInstall = FALSE])
      BY <2>1, <2>2 DEF Machine, IsMachineOf, TypeOK, Repeatable
    <3>2. QED
      BY <2>1, <2>2, <3>1, RepeatableStep
  <2>3. CASE ~IsMachineOf(s)
    BY <2>1, <2>3 DEF IsMachineOf, InstallInv, Installs, Free
  <2>4. QED
    BY <2>2, <2>3
<1>6. QED
  BY <1>1, <1>2, <1>3, <1>4, <1>5

LEMMA OthersKeepInstall == TypeOK /\ InstallInv /\ (domainGet \/ Stops \/ IsDeleted \/ CleanupTimeout) => InstallInv'
<1> SUFFICES ASSUME TypeOK, InstallInv, domainGet \/ Stops \/ IsDeleted \/ CleanupTimeout PROVE InstallInv'
  OBVIOUS
<1>1. jobs' = jobs
  BY DEF domainGet, Stops, IsDeleted, CleanupTimeout
<1>2. CASE domainGet \/ CleanupTimeout
  <2>1. machines' = machines
    BY <1>2 DEF domainGet, CleanupTimeout
  <2>2. QED
    BY <1>1, <2>1 DEF InstallInv, Installs, Free
<1>3. CASE Stops
  <2> PICK n \in VmNames : machines[n] # NoVm /\ Defined(n, [machines[n] EXCEPT !.state = "shut off"])
    BY <1>3 DEF Stops
  <2>1. machines[n] \in Machine
    BY DEF TypeOK
  <2>2. /\ machines'[n] = [machines[n] EXCEPT !.state = "shut off"]
        /\ \A m \in VmNames \ {n} : machines'[m] = machines[m]
    BY <2>1 DEF Defined, TypeOK
  <2>3. /\ machines'[n].uuid = machines[n].uuid /\ machines'[n].toInstall = machines[n].toInstall
        /\ machines'[n].installPhase = machines[n].installPhase
    BY <2>1, <2>2 DEF Machine
  <2>4. \A m \in VmNames, r \in Slots : Installs(r, m) => Installs(r, m)'
    BY <1>1, <2>2, <2>3 DEF Installs, Free
  <2>5. \A m \in VmNames : machines'[m] # NoVm /\ ~Repeatable(machines'[m]) => machines[m] # NoVm /\ ~Repeatable(machines[m])
    BY <2>2, <2>3 DEF Repeatable
  <2>6. QED
    BY <2>4, <2>5 DEF InstallInv
<1>4. CASE IsDeleted
  <2> PICK n \in VmNames : machines' = [machines EXCEPT ![n] = NoVm]
    BY <1>4 DEF IsDeleted
  <2>1. machines'[n] = NoVm /\ \A m \in VmNames \ {n} : machines'[m] = machines[m]
    BY DEF TypeOK
  <2>2. \A m \in VmNames, r \in Slots : m # n /\ Installs(r, m) => Installs(r, m)'
    BY <1>1, <2>1 DEF Installs, Free
  <2>3. \A m \in VmNames : machines'[m] # NoVm => m # n /\ machines'[m] = machines[m]
    BY <2>1
  <2>4. QED
    BY <2>2, <2>3 DEF InstallInv
<1>5. QED
  BY <1>2, <1>3, <1>4

(* A machine that is still to be installed has the Install button unless an *)
(* installation is under way, whatever fails, stops or is deleted and       *)
(* created anew meanwhile (install_machine.py install_vm).                  *)
THEOREM InstallIsNeverLost == Spec => []InstallCanBeRepeated
<1>1. Init => InstallInv
  BY DEF Init, InstallInv
<1>2. TypeOK /\ InstallInv /\ [Next]_vars => InstallInv'
  <2>1. ASSUME UNCHANGED <<machines, jobs>> PROVE InstallInv => InstallInv'
    BY <2>1 DEF InstallInv, Installs, Free
  <2>2. TypeOK /\ InstallInv /\ CreationNext => InstallInv'
    BY CreationKeepsInstall, InstallationKeepsInstall, OthersKeepInstall DEF CreationNext
  <2>3. QED
    BY <2>1, <2>2 DEF Next, vars, vmVars
<1>3. InstallInv => InstallCanBeRepeated
  BY DEF InstallInv, Installs, Repeatable, InstallCanBeRepeated, IsUnderWay
<1>4. QED
  BY <1>1, <1>2, <1>3, TypeCorrect, PTL DEF Spec

-----------------------------------------------------------------------------
(* The form: on every path through it, networks and pools are those of the  *)
(* connection, and what was suggested as a name was free.                   *)

Fits(f) ==
    /\ f \in Form
    /\ f.type = "pxe" => f.connection = "system" /\ f.source \in {"network", NoSource}
    /\ IsPool(f.pool) =>
        /\ f.pool \in PoolsOf(f.connection)
        /\ \E i \in DOMAIN VolumesOf(f.pool) : f.volume = VolumesOf(f.pool)[i]
    /\ f.os = NoSystem => f.suggested = NoName

SuggestsFree(f) == misses = 0 /\ f.suggested # NoName => <<f.connection, f.suggested>> \notin known

FormInv == FormTypeOK /\ Fits(form) /\ SuggestsFree(form) /\ PartsFitTogether

\* The first free suggestion is a suggestion, and free.
LEMMA SuggestionsAreFree ==
    ASSUME NEW c
    PROVE  /\ getVmName(c) \in {NoName, "os", "os-B"}
           /\ getVmName(c) # NoName => <<c, getVmName(c)>> \notin known
<1> DEFINE free == {i \in DOMAIN Names : <<c, Names[i]>> \notin known}
<1>1. DOMAIN Names = {1, 2} /\ Names[1] = "os" /\ Names[2] = "os-B"
  BY DEF Names
<1>2. CASE free = {}
  BY <1>2 DEF getVmName
<1>3. CASE free # {}
  <2>1. \E i \in free : \A j \in free : i <= j
    <3>1. CASE 1 \in free
      BY <1>1, <3>1
    <3>2. CASE 1 \notin free
      BY <1>1, <1>3, <3>2
    <3>3. QED
      BY <3>1, <3>2
  <2>2. PICK i \in free : getVmName(c) = Names[i]
    BY <1>3, <2>1 DEF getVmName
  <2>3. QED
    BY <1>1, <2>2
<1>4. QED
  BY <1>2, <1>3

\* Choosing a type keeps the form together.
LEMMA TypesFit ==
    ASSUME NEW f, Fits(f), NEW type \in Types, type = "pxe" => f.connection = "system",
           NEW g \in ChooseType(f, type)
    PROVE  /\ Fits(g) /\ g.connection = f.connection /\ g.suggested = f.suggested /\ g.type = type
           /\ g.os = f.os /\ g.pool = f.pool
<1>1. PICK h : h = [f EXCEPT !.type = type]
  OBVIOUS
<1>2. h \in Form
  BY <1>1 DEF Fits, Form
<1>3. /\ h.type = type /\ h.connection = f.connection /\ h.suggested = f.suggested /\ h.os = f.os
      /\ h.pool = f.pool /\ h.volume = f.volume /\ h.source = f.source
  BY <1>1 DEF Fits, Form
<1>4. CASE g = h /\ type # "pxe"
  BY <1>2, <1>3, <1>4 DEF Fits
<1>5. CASE \E s \in {"network", NoSource} : g = [h EXCEPT !.source = s]
  <2> PICK s \in {"network", NoSource} : g = [h EXCEPT !.source = s]
    BY <1>5
  <2>1. g \in Form
    BY <1>2 DEF Form
  <2>2. /\ g.type = type /\ g.connection = f.connection /\ g.suggested = f.suggested /\ g.os = f.os
        /\ g.pool = f.pool /\ g.volume = f.volume /\ g.source = s
    BY <1>2, <1>3 DEF Form
  <2>3. QED
    BY <2>1, <2>2 DEF Fits
<1>6. QED
  BY <1>1, <1>4, <1>5 DEF ChooseType

\* A choice of the user keeps the form together if it does before the token is entered.
LEMMA BecomesFits ==
    ASSUME FormTypeOK, NEW f, Fits(f), SuggestsFree(f), Becomes(f), known' = known, misses' = misses
    PROVE  Fits(form') /\ SuggestsFree(form)'
<1>1. token.saved \in Tokens \cup {0}
  BY DEF FormTypeOK, TokenRow
<1>2. CASE form' = f
  BY <1>2 DEF SuggestsFree
<1>3. CASE token.saved # 0 /\ form' = [f EXCEPT !.offline = token.saved]
  <2>1. form' \in Form
    BY <1>1, <1>3 DEF Fits, Form
  <2>2. /\ form'.type = f.type /\ form'.connection = f.connection /\ form'.source = f.source
        /\ form'.pool = f.pool /\ form'.volume = f.volume /\ form'.os = f.os /\ form'.suggested = f.suggested
    BY <1>3 DEF Fits, Form
  <2>3. QED
    BY <2>1, <2>2 DEF Fits, SuggestsFree
<1>4. QED
  BY <1>2, <1>3 DEF Becomes, WithToken

\* The token row that appears or goes keeps its types.
LEMMA BecomesTypes ==
    ASSUME FormTypeOK, NEW f, Becomes(f)
    PROVE  token' \in TokenRow
<1>1. token \in TokenRow /\ shown(f).token \in BOOLEAN
  BY DEF FormTypeOK, shown
<1>2. CASE shown(f).token /\ ~token.mounted
  <2>1. PICK checks : checks = IF token.saved # 0 THEN token.checks \cup {[token |-> token.saved, by |-> "load"]}
                               ELSE token.checks
    OBVIOUS
  <2>2. checks \in SUBSET [token : Tokens, by : {"load", "entry"}]
    BY <1>1, <2>1 DEF TokenRow
  <2>3. token' = [token EXCEPT !.mounted = TRUE, !.locked = token.saved # 0, !.checks = checks]
    BY <1>1, <1>2, <2>1 DEF Becomes, RowOf
  <2>4. QED
    BY <1>1, <2>2, <2>3 DEF TokenRow
<1>3. CASE ~(shown(f).token /\ ~token.mounted)
  <2>1. token' = [token EXCEPT !.mounted = shown(f).token, !.locked = token.locked /\ shown(f).token]
    BY <1>1, <1>3 DEF Becomes, RowOf
  <2>2. QED
    BY <1>1, <2>1 DEF TokenRow
<1>4. QED
  BY <1>2, <1>3

\* The choice of a connection: what belongs to the other one is given up.
LEMMA ConnectionFits ==
    ASSUME NEW f, Fits(f), NEW c \in Connections \ {f.connection}, NEW g \in onConnectionName(f, c)
    PROVE  Fits(g) /\ SuggestsFree(g)
<1> DEFINE From == IF f.type = "pxe" /\ c = "session" THEN ChooseType(f, "file") ELSE {f}
           On(h) == [h EXCEPT !.connection = c, !.pool = IF IsPool(@) THEN "new" ELSE @,
                              !.suggested = IF f.os # NoSystem THEN getVmName(c) ELSE @]
<1>0. onConnectionName(f, c) = {On(h) : h \in From}
  BY Zenon DEF onConnectionName
<1>1. PICK h \in From : g = On(h)
  <2> HIDE DEF From, On
  <2> QED
    BY <1>0
<1>2. /\ Fits(h) /\ h.os = f.os /\ h.suggested = f.suggested
      /\ h.type = "pxe" => c = "system"
  <2>1. CASE f.type = "pxe" /\ c = "session"
    BY <1>1, <2>1, TypesFit DEF Types
  <2>2. CASE ~(f.type = "pxe" /\ c = "session")
    BY <1>1, <2>2 DEF Connections
  <2>3. QED
    BY <2>1, <2>2
<1>3. PICK pool \in {"new", "NoStorage"} : pool = IF IsPool(h.pool) THEN "new" ELSE h.pool
  BY <1>2 DEF Fits, Form, IsPool
<1>4. PICK name \in {NoName, "os", "os-B"} : name = IF f.os # NoSystem THEN getVmName(c) ELSE h.suggested
  BY <1>2, SuggestionsAreFree DEF Fits, Form
<1>5. g = [h EXCEPT !.connection = c, !.pool = pool, !.suggested = name]
  BY <1>1, <1>2, <1>3, <1>4 DEF Fits, Form
<1>6. g \in Form /\ g.connection = c /\ g.pool = pool /\ g.suggested = name
      /\ g.type = h.type /\ g.source = h.source /\ g.os = h.os
  BY <1>2, <1>5 DEF Fits, Form
<1>7. h.os = NoSystem => name = NoName
  BY <1>2, <1>4 DEF Fits
<1>8. name # NoName => <<c, name>> \notin known
  BY <1>2, <1>4, <1>7, SuggestionsAreFree
<1>9. QED
  BY <1>2, <1>3, <1>6, <1>7, <1>8 DEF Fits, SuggestsFree, IsPool

\* An operating system brings a name that is free.
LEMMA SystemFits ==
    ASSUME NEW f, Fits(f), NEW os \in Systems \cup {NoSystem}
    PROVE  Fits(WithSystem(f, os)) /\ SuggestsFree(WithSystem(f, os))
<1>1. PICK name \in {NoName, "os", "os-B"} : name = IF os = NoSystem THEN NoName ELSE getVmName(f.connection)
  BY SuggestionsAreFree
<1>2. PICK memory \in Nat : memory = minimumMemory(os)
  BY DEF minimumMemory
<1>3. PICK g : g = [f EXCEPT !.os = os, !.memory = memory, !.storage = 1, !.suggested = name]
  OBVIOUS
<1>4. g = WithSystem(f, os)
  BY <1>1, <1>2, <1>3 DEF WithSystem
<1>5. g \in Form /\ g.os = os /\ g.suggested = name /\ g.connection = f.connection /\ g.type = f.type
      /\ g.source = f.source /\ g.pool = f.pool /\ g.volume = f.volume
  BY <1>3 DEF Fits, Form
<1>6. Fits(g) /\ SuggestsFree(g)
  BY <1>1, <1>5, SuggestionsAreFree DEF Fits, SuggestsFree
<1>7. QED
  BY <1>4, <1>6

\* Every action of the form that leaves the machine uncreated, by what it does with
\* the form.
FormChanges ==
    \/ onSourceType \/ ChooseConnection \/ onSource \/ onSystem \/ EnterStorage
    \/ EnterMemory \/ EnterName \/ EnterUsers

LEMMA UserKeepsTogether ==
    ASSUME FormTypeOK, Fits(form), SuggestsFree(form), FormChanges
    PROVE  \E f : Fits(f) /\ SuggestsFree(f) /\ Becomes(f)
<1>1. form \in Form /\ Capacity \in Nat
  BY CreateFormAssumption DEF Fits
<1>2. CASE onSourceType
  <2> PICK t \in sourceTypes(form) \ {form.type} : \E f \in ChooseType(form, t) : Becomes(f)
    BY <1>2 DEF onSourceType
  <2> PICK f \in ChooseType(form, t) : Becomes(f)
    OBVIOUS
  <2>1. t \in Types /\ (t = "pxe" => form.connection = "system")
    BY DEF sourceTypes, Types
  <2>2. Fits(f) /\ f.connection = form.connection /\ f.suggested = form.suggested
    BY <2>1, TypesFit
  <2>3. QED
    BY <2>2 DEF SuggestsFree
<1>3. CASE ChooseConnection
  BY <1>3, ConnectionFits DEF ChooseConnection
<1>4. CASE onSource
  <2> PICK s \in (IF form.type = "pxe" THEN {"network"} ELSE Paths \cup Addresses) :
        Becomes([form EXCEPT !.source = s])
    BY <1>4 DEF onSource
  <2> PICK f : f = [form EXCEPT !.source = s]
    OBVIOUS
  <2>1. f \in Form /\ f.source = s /\ f.type = form.type /\ f.connection = form.connection /\ f.os = form.os
        /\ f.pool = form.pool /\ f.volume = form.volume /\ f.suggested = form.suggested
    BY <1>1 DEF Form, Sources
  <2>2. Fits(f) /\ SuggestsFree(f)
    BY <2>1 DEF Fits, SuggestsFree
  <2>3. QED
    BY <2>2
<1>5. CASE onSystem
  BY <1>5, SystemFits DEF onSystem
<1>6. CASE EnterStorage
  <2>1. CASE \E p \in {"new", "NoStorage"} \cup PoolsOf(form.connection) : Becomes(onStoragePool(form, p))
    <3> PICK p \in {"new", "NoStorage"} \cup PoolsOf(form.connection) : Becomes(onStoragePool(form, p))
      BY <2>1
    <3>1. p \in {"new", "NoStorage", "images", "home"}
      BY DEF PoolsOf
    <3>2. PICK v \in {"none", "v1", "v2", "v3"} : v = IF IsPool(p) THEN VolumesOf(p)[1] ELSE "none"
      BY <3>1 DEF IsPool, VolumesOf
    <3> PICK f : f = [form EXCEPT !.pool = p, !.volume = v]
      OBVIOUS
    <3>3. f = onStoragePool(form, p)
      BY <3>2 DEF onStoragePool
    <3>4. f \in Form /\ f.source = form.source /\ f.type = form.type /\ f.connection = form.connection
          /\ f.os = form.os /\ f.pool = p /\ f.volume = v /\ f.suggested = form.suggested
      BY <1>1, <3>1 DEF Form
    <3>5. IsPool(p) => p \in PoolsOf(form.connection) /\ 1 \in DOMAIN VolumesOf(p) /\ v = VolumesOf(p)[1]
      BY <3>2 DEF IsPool, VolumesOf
    <3>6. Fits(f) /\ SuggestsFree(f)
      BY <3>4, <3>5 DEF Fits, SuggestsFree
    <3>7. QED
      BY <3>3, <3>6
  <2>2. CASE IsPool(form.pool) /\ \E i \in DOMAIN VolumesOf(form.pool) : Becomes([form EXCEPT !.volume = VolumesOf(form.pool)[i]])
    <3> PICK i \in DOMAIN VolumesOf(form.pool) : Becomes([form EXCEPT !.volume = VolumesOf(form.pool)[i]])
      BY <2>2
    <3>1. PICK v \in {"none", "v1", "v2", "v3"} : v = VolumesOf(form.pool)[i]
      BY <2>2 DEF IsPool, VolumesOf
    <3> PICK f : f = [form EXCEPT !.volume = v]
      OBVIOUS
    <3>2. f \in Form /\ f.source = form.source /\ f.type = form.type /\ f.connection = form.connection
          /\ f.os = form.os /\ f.pool = form.pool /\ f.volume = v /\ f.suggested = form.suggested
      BY <1>1 DEF Form
    <3>3. Fits(f) /\ SuggestsFree(f)
      BY <3>1, <3>2 DEF Fits, SuggestsFree
    <3>4. QED
      BY <3>1, <3>3
  <2>3. CASE \E n \in {0, 1} : Becomes([form EXCEPT !.storage = n])
    <3> PICK n \in {0, 1} : Becomes([form EXCEPT !.storage = n])
      BY <2>3
    <3> PICK f : f = [form EXCEPT !.storage = n]
      OBVIOUS
    <3>1. f \in Form /\ f.source = form.source /\ f.type = form.type /\ f.connection = form.connection
          /\ f.os = form.os /\ f.pool = form.pool /\ f.volume = form.volume /\ f.suggested = form.suggested
      BY <1>1 DEF Form
    <3>2. QED
      BY <3>1 DEF Fits, SuggestsFree
  <2>4. QED
    BY <1>6, <2>1, <2>2, <2>3 DEF EnterStorage
<1>7. CASE EnterMemory \/ EnterName \/ EnterUsers
  <2>1. \E f : /\ Becomes(f) /\ f \in Form /\ f.source = form.source /\ f.type = form.type
               /\ f.connection = form.connection /\ f.os = form.os /\ f.pool = form.pool
               /\ f.volume = form.volume /\ f.suggested = form.suggested
    <3>1. CASE EnterMemory
      <4> PICK n \in {0, Capacity, Capacity + 1} : Becomes([form EXCEPT !.memory = n])
        BY <3>1 DEF EnterMemory
      <4>1. n \in Nat
        BY <1>1
      <4>2. QED
        BY <1>1, <4>1 DEF Form
    <3>2. CASE EnterName
      <4> PICK n \in {NoName, Names[1], "own"} : Becomes([form EXCEPT !.name = n])
        BY <3>2 DEF EnterName
      <4>1. n \in {NoName, "os", "own"}
        BY DEF Names
      <4>2. QED
        BY <1>1, <4>1 DEF Form
    <3>3. CASE EnterUsers
      <4> PICK u \in userFields(form) :
            Becomes([form EXCEPT !.users = IF u \in form.users THEN form.users \ {u} ELSE form.users \cup {u}])
        BY <3>3 DEF EnterUsers
      <4>1. u \in {"rootPassword", "login", "password", "keys"}
        BY DEF userFields
      <4>2. PICK us \in SUBSET {"rootPassword", "login", "password", "keys"} :
              us = IF u \in form.users THEN form.users \ {u} ELSE form.users \cup {u}
        BY <1>1, <4>1 DEF Form
      <4>3. Becomes([form EXCEPT !.users = us])
        BY <4>2
      <4>4. QED
        BY <1>1, <4>3 DEF Form
    <3>4. QED
      BY <1>7, <3>1, <3>2, <3>3
  <2>2. QED
    BY <2>1 DEF Fits, SuggestsFree
<1>8. QED
  BY <1>2, <1>3, <1>4, <1>5, <1>6, <1>7 DEF FormChanges

\* What the user does keeps the types.
LEMMA UserTypes == FormTypeOK /\ Fits(form) /\ SuggestsFree(form) /\ FormChanges => FormTypeOK'
<1> SUFFICES ASSUME FormTypeOK, Fits(form), SuggestsFree(form), FormChanges PROVE FormTypeOK'
  OBVIOUS
<1>1. PICK f : Fits(f) /\ SuggestsFree(f) /\ Becomes(f)
  BY UserKeepsTogether
<1>2. known' = known /\ misses' = misses /\ asked' = asked /\ edits' \in Nat
  BY DEF FormChanges, onSourceType, ChooseConnection, onSource, onSystem, EnterStorage, EnterMemory, EnterName,
         EnterUsers, UserEnters, FormTypeOK
<1>3. form' \in Form
  BY <1>1, <1>2, BecomesFits DEF Fits
<1>4. token' \in TokenRow
  BY <1>1, BecomesTypes
<1>5. detection' \in [due : Sources \cup {NoSource}, running : SUBSET Sources]
  <2>1. CASE onSource
    <3>1. PICK s : /\ s \in (IF form.type = "pxe" THEN {"network"} ELSE Sources)
                   /\ detection' = IF form.type \in {"url", "file"} THEN [detection EXCEPT !.due = s] ELSE detection
      BY <2>1 DEF onSource, Sources
    <3>2. QED
      BY <3>1 DEF FormTypeOK
  <2>2. CASE ~onSource
    BY <2>2 DEF FormChanges, onSourceType, ChooseConnection, onSystem, EnterStorage, EnterMemory, EnterName,
                EnterUsers, FormTypeOK
  <2>3. QED
    BY <2>1, <2>2
<1>6. osFrom' \in Sources \cup {"user"}
  BY DEF FormChanges, onSourceType, ChooseConnection, onSource, onSystem, EnterStorage, EnterMemory, EnterName,
         EnterUsers, FormTypeOK
<1>7. QED
  BY <1>2, <1>3, <1>4, <1>5, <1>6 DEF FormTypeOK

\* The answers about sources keep the form together.
LEMMA DetectionKeepsForm ==
    FormInv /\ (onOsAutodetect \/ DetectionReturns \/ DetectionFails) => FormInv'
<1> SUFFICES ASSUME FormInv, onOsAutodetect \/ DetectionReturns \/ DetectionFails PROVE FormInv'
  OBVIOUS
<1>1. FormTypeOK /\ Fits(form) /\ SuggestsFree(form)
  BY DEF FormInv
<1>2. CASE onOsAutodetect
  <2>1. detection.due \in Sources
    BY <1>1, <1>2 DEF onOsAutodetect, FormTypeOK
  <2>2. detection' \in [due : Sources \cup {NoSource}, running : SUBSET Sources]
    BY <1>2, <2>1 DEF onOsAutodetect, Started
  <2>3. QED
    BY <1>2, <2>1, <2>2 DEF onOsAutodetect, FormInv, FormTypeOK, SuggestsFree, PartsFitTogether
<1>3. CASE DetectionReturns
  <2> PICK s \in detection.running :
        /\ IsOpen
        /\ detection' = [detection EXCEPT !.running = @ \ {s}]
        /\ IF osinfoDetect(s) # NoSystem
           THEN Becomes(WithSystem(form, osinfoDetect(s))) /\ osFrom' = s
           ELSE UNCHANGED <<form, token>> /\ osFrom' = "user"
        /\ UNCHANGED <<known, created, asked, edits, misses>>
    BY <1>3 DEF DetectionReturns
  <2>1. s \in Sources /\ detection' \in [due : Sources \cup {NoSource}, running : SUBSET Sources]
    BY <1>1 DEF FormTypeOK
  <2>2. CASE osinfoDetect(s) # NoSystem
    <3>1. osinfoDetect(s) \in Systems \cup {NoSystem}
      BY DEF osinfoDetect, Systems
    <3>2. PICK f : f = WithSystem(form, osinfoDetect(s)) /\ Becomes(f) /\ Fits(f) /\ SuggestsFree(f)
      BY <1>1, <2>2, <3>1, SystemFits
    <3>3. Fits(form') /\ SuggestsFree(form)'
      BY <1>1, <3>2, BecomesFits
    <3>4. token' \in TokenRow
      BY <1>1, <3>2, BecomesTypes
    <3>5. FormTypeOK'
      BY <1>1, <2>1, <2>2, <3>3, <3>4 DEF FormTypeOK, Fits
    <3>6. QED
      BY <3>3, <3>5 DEF FormInv, PartsFitTogether, IsOpen
  <2>3. CASE osinfoDetect(s) = NoSystem
    BY <2>1, <2>3 DEF FormInv, FormTypeOK, SuggestsFree, PartsFitTogether
  <2>4. QED
    BY <2>2, <2>3
<1>4. CASE DetectionFails
  <2>1. detection' \in [due : Sources \cup {NoSource}, running : SUBSET Sources]
    BY <1>1, <1>4 DEF DetectionFails, FormTypeOK
  <2>2. QED
    BY <1>4, <2>1 DEF DetectionFails, FormInv, FormTypeOK, SuggestsFree, PartsFitTogether
<1>5. QED
  BY <1>2, <1>3, <1>4

\* A step that changes only tokens keeps the form together.
LEMMA TokenStepFits ==
    ASSUME FormInv, IsOpen, UNCHANGED <<known, created, osFrom, asked, detection>>,
           edits' \in Nat, misses' \in {misses, misses + 1}, token' \in TokenRow,
           NEW offline \in Tokens \cup {0}, NEW access \in Tokens \cup {0},
           form' = [form EXCEPT !.offline = offline, !.access = access]
    PROVE  FormInv'
<1>1. FormTypeOK /\ Fits(form) /\ SuggestsFree(form) /\ form \in Form /\ misses \in Nat
  BY DEF FormInv, Fits, FormTypeOK
<1>2. form' \in Form /\ form'.source = form.source /\ form'.type = form.type
      /\ form'.connection = form.connection /\ form'.os = form.os /\ form'.pool = form.pool
      /\ form'.volume = form.volume /\ form'.suggested = form.suggested
  BY <1>1 DEF Form
<1>3. FormTypeOK'
  BY <1>1, <1>2 DEF FormTypeOK
<1>4. Fits(form')
  BY <1>1, <1>2 DEF Fits
<1>5. SuggestsFree(form)'
  BY <1>1, <1>2 DEF SuggestsFree
<1>6. QED
  BY <1>3, <1>4, <1>5 DEF FormInv, PartsFitTogether, IsOpen

\* Such are the entries of tokens and the answers to them.
LEMMA TokensKeepForm ==
    FormInv /\ (setOfflineTokenHelper \/ getAccessTokenDebounce \/ AccessIsGranted \/ AccessIsDenied) => FormInv'
<1> SUFFICES ASSUME FormInv, setOfflineTokenHelper \/ getAccessTokenDebounce \/ AccessIsGranted \/ AccessIsDenied
             PROVE  FormInv'
  OBVIOUS
<1>1. form \in Form /\ token \in TokenRow /\ edits \in Nat
  BY DEF FormInv, FormTypeOK
<1>2. form.offline \in Tokens \cup {0} /\ form.access \in Tokens \cup {0}
  BY <1>1 DEF Form
<1>3. CASE setOfflineTokenHelper
  <2> PICK t \in Tokens \cup {0} :
        /\ form' = [form EXCEPT !.offline = t, !.access = 0]
        /\ token' = IF t = 0 THEN token ELSE [token EXCEPT !.due = t]
    BY <1>3 DEF setOfflineTokenHelper
  <2>1. token' \in TokenRow
    BY <1>1 DEF TokenRow
  <2>2. IsOpen /\ UNCHANGED <<known, created, osFrom, asked, detection, misses>> /\ edits' = edits + 1
    BY <1>3 DEF setOfflineTokenHelper, UserEnters
  <2>3. edits' \in Nat /\ misses' \in {misses, misses + 1} /\ 0 \in Tokens \cup {0}
    BY <1>1, <2>2
  <2>4. QED
    BY <2>1, <2>2, <2>3, TokenStepFits
<1>4. CASE getAccessTokenDebounce
  <2>1. token.due \in Tokens /\ token' = [token EXCEPT !.due = 0, !.checks = token.checks \cup {[token |-> token.due, by |-> "entry"]}]
    BY <1>1, <1>4 DEF getAccessTokenDebounce, TokenRow
  <2>2. token' \in TokenRow
    <3>1. PICK checks : checks = token.checks \cup {[token |-> token.due, by |-> "entry"]}
      OBVIOUS
    <3>2. checks \in SUBSET [token : Tokens, by : {"load", "entry"}]
      BY <1>1, <2>1, <3>1 DEF TokenRow
    <3>3. token' = [token EXCEPT !.due = 0, !.checks = checks]
      BY <2>1, <3>1
    <3>4. QED
      BY <1>1, <3>2, <3>3 DEF TokenRow
  <2>3. form' = [form EXCEPT !.offline = form.offline, !.access = form.access]
    BY <1>1, <1>4 DEF getAccessTokenDebounce, Form
  <2>4. IsOpen /\ UNCHANGED <<known, created, osFrom, asked, detection, misses, edits>>
    BY <1>4 DEF getAccessTokenDebounce
  <2>5. QED
    BY <1>1, <1>2, <2>2, <2>3, <2>4, TokenStepFits
<1>5. CASE AccessIsGranted
  <2> PICK c \in token.checks :
        /\ form' = [form EXCEPT !.access = c.token]
        /\ token' = [token EXCEPT !.checks = @ \ {c}, !.locked = IF c.by = "load" THEN FALSE ELSE @,
                                  !.saved = IF c.by = "entry" THEN c.token ELSE @]
    BY <1>5 DEF AccessIsGranted
  <2>1. c.token \in Tokens
    BY <1>1 DEF TokenRow
  <2>2. \E locked \in BOOLEAN, saved \in Tokens \cup {0} :
          token' = [token EXCEPT !.checks = token.checks \ {c}, !.locked = locked, !.saved = saved]
    BY <1>1, <2>1 DEF TokenRow
  <2>3. token' \in TokenRow
    BY <1>1, <2>2 DEF TokenRow
  <2>4. form' = [form EXCEPT !.offline = form.offline, !.access = c.token]
    BY <1>1 DEF Form
  <2>5. IsOpen /\ UNCHANGED <<known, created, osFrom, asked, detection, misses, edits>>
    BY <1>5 DEF AccessIsGranted
  <2>6. QED
    BY <1>1, <1>2, <2>1, <2>3, <2>4, <2>5, TokenStepFits
<1>6. CASE AccessIsDenied
  <2> PICK c \in token.checks :
        /\ form' = IF c.by = "load" THEN [form EXCEPT !.offline = 0] ELSE [form EXCEPT !.access = 0]
        /\ token' = IF c.by = "load" THEN [token EXCEPT !.checks = @ \ {c}, !.locked = FALSE, !.saved = 0]
                    ELSE [token EXCEPT !.checks = @ \ {c}]
    BY <1>6 DEF AccessIsDenied
  <2>1. token' \in TokenRow
    BY <1>1 DEF TokenRow
  <2>2. \/ form' = [form EXCEPT !.offline = 0, !.access = form.access]
        \/ form' = [form EXCEPT !.offline = form.offline, !.access = 0]
    BY <1>1 DEF Form
  <2>3. IsOpen /\ UNCHANGED <<known, created, osFrom, asked, detection, edits>> /\ misses' = misses + 1
    BY <1>6 DEF AccessIsDenied
  <2>4. QED
    BY <1>1, <1>2, <2>1, <2>2, <2>3, TokenStepFits
<1>7. QED
  BY <1>3, <1>4, <1>5, <1>6

\* What the buttons hand over is what a form that fits together holds.
LEMMA CreateKeepsForm == FormInv /\ onCreateClicked => FormInv'
<1> SUFFICES ASSUME FormInv, onCreateClicked PROVE FormInv'
  OBVIOUS
<1>1. FormTypeOK /\ Fits(form) /\ SuggestsFree(form) /\ form \in Form
  BY DEF FormInv, Fits
<1>2. PICK start \in BOOLEAN :
        /\ IsOpen /\ CanCreate(form, start)
        /\ IF validateParams(form)
           THEN created' = vmParams(form, start) /\ UNCHANGED form
           ELSE form' = [form EXCEPT !.validate = TRUE] /\ UNCHANGED created
        /\ UNCHANGED <<detection, token, known, osFrom, asked, edits, misses>>
  BY DEF onCreateClicked
<1>3. CASE validateParams(form)
  <2>1. created' = vmParams(form, start) /\ form' = form
    BY <1>2, <1>3
  <2>2. SourceIsValid(form) /\ NameIsValid(form)
        /\ (form.type = "os" /\ needsRHToken(form.os) => form.offline # 0)
    BY <1>3 DEF validateParams
  <2>3. /\ created'.type = form.type /\ created'.connection = form.connection /\ created'.source = form.source
        /\ created'.pool = form.pool /\ created'.volume = form.volume /\ created'.os = form.os
        /\ created'.access = form.access /\ created'.start = start
        /\ created'.name = IF form.name = NoName THEN form.suggested ELSE form.name
        /\ created'.unattended = (form.type # "cloud" /\ isUnattended(form))
    BY <2>1 DEF vmParams
  <2>4. created'.type = "pxe" => created'.connection = "system" /\ created'.source = "network"
    BY <1>1, <2>2, <2>3 DEF Fits, SourceIsValid
  <2>5. created'.type \in {"file", "cloud", "disk_image"} => created'.source \in Paths
    BY <2>2, <2>3 DEF SourceIsValid
  <2>6. IsPool(created'.pool) =>
            /\ created'.pool \in PoolsOf(created'.connection)
            /\ \E i \in DOMAIN VolumesOf(created'.pool) : created'.volume = VolumesOf(created'.pool)[i]
    BY <1>1, <2>3 DEF Fits
  <2>7. created'.type = "os" /\ needsRHToken(created'.os) => created'.access # 0
    BY <1>2, <2>2, <2>3 DEF CanCreate, downloadingRhelDisabled
  <2>8. created'.type = "os" /\ created'.unattended => created'.start
    BY <1>2, <2>3 DEF CanCreate
  <2>9. misses = 0 => <<created'.connection, created'.name>> \notin known
    BY <1>1, <2>2, <2>3 DEF NameIsValid, SuggestsFree
  <2>10. PartsFitTogether'
    BY <1>2, <2>4, <2>5, <2>6, <2>7, <2>8, <2>9 DEF PartsFitTogether
  <2>11. QED
    BY <1>1, <1>2, <2>1, <2>10 DEF FormInv, FormTypeOK, SuggestsFree
<1>4. CASE ~validateParams(form)
  <2>1. created' = created /\ form' = [form EXCEPT !.validate = TRUE]
    BY <1>2, <1>4
  <2>2. form' \in Form /\ form'.source = form.source /\ form'.type = form.type
        /\ form'.connection = form.connection /\ form'.os = form.os /\ form'.pool = form.pool
        /\ form'.volume = form.volume /\ form'.suggested = form.suggested
    BY <1>1, <2>1 DEF Form
  <2>3. FormTypeOK'
    BY <1>1, <1>2, <2>2 DEF FormTypeOK
  <2>4. Fits(form') /\ SuggestsFree(form)'
    BY <1>1, <1>2, <2>2 DEF Fits, SuggestsFree
  <2>5. QED
    BY <1>2, <2>1, <2>3, <2>4 DEF FormInv, PartsFitTogether, IsOpen
<1>5. QED
  BY <1>3, <1>4

LEMMA FormStepsFit == FormInv /\ FormNext => FormInv'
<1> SUFFICES ASSUME FormInv, FormNext PROVE FormInv'
  OBVIOUS
<1>1. CASE FormChanges
  <2>1. FormTypeOK /\ Fits(form) /\ SuggestsFree(form)
    BY DEF FormInv
  <2>2. IsOpen /\ created' = created /\ known' = known /\ misses' = misses
    BY <1>1 DEF FormChanges, onSourceType, ChooseConnection, onSource, onSystem, EnterStorage, EnterMemory,
                EnterName, EnterUsers, UserEnters
  <2>3. PICK f : Fits(f) /\ SuggestsFree(f) /\ Becomes(f)
    BY <1>1, <2>1, UserKeepsTogether
  <2>4. Fits(form') /\ SuggestsFree(form)'
    BY <2>1, <2>2, <2>3, BecomesFits
  <2>5. FormTypeOK'
    BY <1>1, <2>1, UserTypes
  <2>6. QED
    BY <2>2, <2>4, <2>5 DEF FormInv, PartsFitTogether, IsOpen
<1>2. CASE MachineAppears
  <2>1. known' \subseteq Connections \X {"os", "os-B"}
    BY <1>2 DEF MachineAppears, FormInv, FormTypeOK, Names
  <2>2. misses' \in Nat /\ misses' # 0
    BY <1>2 DEF MachineAppears, FormInv, FormTypeOK
  <2>3. QED
    BY <1>2, <2>1, <2>2 DEF MachineAppears, FormInv, FormTypeOK, SuggestsFree, PartsFitTogether, IsOpen
<1>3. QED
  BY <1>1, <1>2, DetectionKeepsForm, TokensKeepForm, CreateKeepsForm DEF FormNext, FormChanges

LEMMA FormInitFits == FormInit => FormInv
<1> SUFFICES ASSUME FormInit PROVE FormInv
  OBVIOUS
<1> PICK t \in {"os", "file", "disk_image"} :
       form = [connection |-> "system", type |-> t, source |-> NoSource, os |-> NoSystem,
               name |-> NoName, suggested |-> NoName, offline |-> 0, access |-> 0,
               pool |-> "new", volume |-> "none", storage |-> 1, memory |-> 1, users |-> {},
               validate |-> FALSE]
  BY DEF FormInit, ToForm
<1>1. form \in Form
  BY DEF Form, Connections, Types
<1>2. form.suggested = NoName /\ form.type # "pxe" /\ ~IsPool(form.pool) /\ created = NoMachine
  BY DEF FormInit, IsPool
<1>3. token \in TokenRow
  BY DEF FormInit, TokenRow
<1>4. FormTypeOK
  BY <1>1, <1>3 DEF FormInit, FormTypeOK, Connections
<1>5. QED
  BY <1>1, <1>2, <1>4 DEF FormInv, Fits, SuggestsFree, PartsFitTogether

\* The invariant of the form is inductive.
LEMMA FormInvHolds == Spec => []FormInv
<1>1. Init => FormInv
  BY FormInitFits DEF Init
<1>2. FormInv /\ [Next]_vars => FormInv'
  <2>1. ASSUME UNCHANGED formVars PROVE FormInv => FormInv'
    BY <2>1 DEF formVars, FormInv, FormTypeOK, SuggestsFree, PartsFitTogether
  <2>2. QED
    BY <2>1, FormStepsFit, CreationKeepsForm DEF Next, vars
<1>3. QED
  BY <1>1, <1>2, PTL DEF Spec

(* The state of the dialog keeps its types (createVmDialog.tsx).            *)
THEOREM FormTypeCorrect == Spec => []FormTypeOK
BY FormInvHolds, PTL DEF FormInv

(* However the user goes back and forth, and whichever answers about sources *)
(* and tokens come in between, what the form hands over fits together        *)
(* (createVmDialog.tsx onCreateClicked).                                     *)
THEOREM PartsAlwaysFit == Spec => []PartsFitTogether
BY FormInvHolds, PTL DEF FormInv
=============================================================================
