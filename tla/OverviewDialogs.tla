-------------------------- MODULE OverviewDialogs ---------------------------
(* The dialogs of the overview card of a machine that compute what they    *)
(* save: memory (memoryModal.tsx), processors (cpuModal.tsx), boot order   *)
(* (bootOrder.tsx, libvirt-xml-update.ts) and vsock (vsock.tsx).  One      *)
(* behaviour is about one of them, its subject.  A dialog takes a copy of  *)
(* the machine when it opens, the user edits a form, and saving is a plan  *)
(* of calls each of which may fail.                                        *)
EXTENDS Integers, Sequences, FiniteSets

CONSTANTS
    Subjects,           \* the dialogs of this instance
    MiB, GiB,           \* in KiB: the units of the memory dialog
    MinMemory,          \* minAllowedMemory
    NodeMaxMemory,      \* memory of the host
    MaxVcpu,            \* what the hypervisor supports
    Disks, Ifaces, Redirs, Hosts,   \* bootable devices, in the order of the XML
    OsBoots,            \* possible <os><boot> lists
    Cids,               \* vsock identifiers that other machines may have
    Typed,              \* identifiers that the user types
    NoForm, NoJob

AllSubjects == {"memory", "cpu", "boot", "vsock"}

ASSUME OverviewDialogsAssumption ==
    /\ Subjects \subseteq AllSubjects
    /\ MiB \in Nat \ {0} /\ GiB \in Nat \ {0}
    /\ MinMemory \in Nat \ {0} /\ NodeMaxMemory \in Nat
    /\ MinMemory <= NodeMaxMemory
    /\ MaxVcpu \in Nat \ {0}
    /\ Cids \subseteq Nat /\ Typed \subseteq Nat

VARIABLES
    subject,    \* which dialog this behaviour is about
    conf,       \* the configuration libvirt holds
    running,    \* whether the machine runs
    used,       \* vsock identifiers of the other machines
    form,       \* the open dialog, or NoForm
    job         \* a save under way, or NoJob

vars == <<subject, conf, running, used, form, job>>

Least(a, b) == IF a <= b THEN a ELSE b
Greatest(a, b) == IF a >= b THEN a ELSE b
RangeOf(s) == {s[i] : i \in DOMAIN s}

-----------------------------------------------------------------------------
(* Memory.  Values are in KiB, the user sees them rounded down to a unit.  *)

MemoryForm(vm) ==
    [memory |-> vm.currentMemory, maxMemory |-> vm.memory, unit |-> MiB, maxUnit |-> MiB]

\* What a field accepts, slider or text: its bounds in its unit, in KiB again.
Enterable(lowest, highest, unit) ==
    LET lo == lowest \div unit
        hi == highest \div unit
    IN  {Least(v, hi) * unit : v \in lo .. Greatest(lo, hi)}

EnterMemory(f, kib, isRunning) ==
    IF kib <= f.maxMemory THEN [f EXCEPT !.memory = Greatest(kib, MinMemory)]
    ELSE IF isRunning THEN f
    ELSE [f EXCEPT !.memory = Least(kib, NodeMaxMemory), !.maxMemory = Least(kib, NodeMaxMemory)]

\* Faulty: the allocation does not follow.
EnterMaxMemoryOnly(f, kib) ==
    [f EXCEPT !.maxMemory = IF kib < NodeMaxMemory THEN Greatest(kib, MinMemory) ELSE NodeMaxMemory]

EnterMaxMemory(f, kib) ==
    [f EXCEPT !.maxMemory = IF kib < NodeMaxMemory THEN Greatest(kib, MinMemory) ELSE NodeMaxMemory,
              !.memory = IF kib < f.memory THEN Greatest(kib, MinMemory) ELSE f.memory]

MemoryEdits(f, vm, wasRunning) ==
    {EnterMemory(f, kib, wasRunning) : kib \in Enterable(MinMemory, f.maxMemory, f.unit)}
    \cup (IF wasRunning THEN {}
          ELSE {EnterMaxMemory(f, kib) : kib \in Enterable(MinMemory, NodeMaxMemory, f.maxUnit)})
    \cup {[f EXCEPT !.unit = u] : u \in {MiB, GiB}}
    \cup {[f EXCEPT !.maxUnit = u] : u \in {MiB, GiB}}

\* Faulty: does not wait for the second call.
MemoryPlanClosing(f, vm) ==
    [calls |-> IF vm.memory # f.maxMemory THEN <<"setMaxMemory">>
               ELSE IF vm.currentMemory # f.memory THEN <<"setMemory">> ELSE <<>>,
     closes |-> TRUE]

\* save(): the second call depends on the new maximum, not on the new memory,
\* and the dialog closes only after that call.
MemoryPlan(f, vm) ==
    IF vm.memory # f.maxMemory
    THEN [calls |-> IF vm.currentMemory # f.maxMemory THEN <<"setMaxMemory", "setMemory">>
                                                      ELSE <<"setMaxMemory">>,
          closes |-> vm.currentMemory # f.maxMemory]
    ELSE [calls |-> IF vm.currentMemory # f.memory THEN <<"setMemory">> ELSE <<>>,
          closes |-> TRUE]

-----------------------------------------------------------------------------
(* Processors.                                                             *)

dividers(n) == {1} \cup {i \in 2 .. n : n % i = 0}
LargestOf(divs) == CHOOSE d \in divs : \A e \in divs : e <= d
clamp(v, max, min) == IF v < min THEN min ELSE IF v > max THEN max ELSE v
KeepOr(v, divs) == IF v \in divs THEN v ELSE LargestOf(divs)

CpuForm(vm) == vm

onMaxChange(f, vm, v) ==
    LET m == clamp(v, MaxVcpu, 1)
        s == IF vm.sockets = f.sockets THEN LargestOf(dividers(m)) ELSE KeepOr(f.sockets, dividers(m))
        c == KeepOr(f.cores, dividers(m \div s))
    IN  [max |-> m, count |-> IF m < f.count THEN m ELSE f.count,
         sockets |-> s, cores |-> c, threads |-> m \div (c * s)]

\* An empty field counts as zero, and changes nothing else.
onMaxEmpty(f) == [f EXCEPT !.max = 0]
onCountSelect(f, v) == [f EXCEPT !.count = clamp(v, f.max, 1)]
onCountEmpty(f) == [f EXCEPT !.count = 0]

onSocketChange(f, v) ==
    LET c == KeepOr(f.cores, dividers(f.max \div v))
    IN  [f EXCEPT !.sockets = v, !.cores = c, !.threads = f.max \div (v * c)]

onThreadsChange(f, v) ==
    LET s == KeepOr(f.sockets, dividers(f.max \div v))
    IN  [f EXCEPT !.sockets = s, !.threads = v, !.cores = f.max \div (s * v)]

\* Faulty: keeps the sockets.
onCoresChangeOnly(f, v) == [f EXCEPT !.cores = v, !.threads = f.max \div (f.sockets * v)]

onCoresChange(f, v) ==
    LET s == KeepOr(f.sockets, dividers(f.max \div v))
    IN  [f EXCEPT !.sockets = s, !.cores = v, !.threads = f.max \div (s * v)]

CpuEdits(f, vm) ==
    {onMaxChange(f, vm, v) : v \in 0 .. MaxVcpu + 1} \cup {onMaxEmpty(f), onCountEmpty(f)}
    \cup {onCountSelect(f, v) : v \in {1, MaxVcpu + 1}}
    \cup {onSocketChange(f, v) : v \in dividers(f.max)}
    \cup {onThreadsChange(f, v) : v \in dividers(f.max)}
    \cup {onCoresChange(f, v) : v \in dividers(f.max)}

-----------------------------------------------------------------------------
(* Boot order.  conf.order gives a device its <boot order>, 0 for none;    *)
(* conf.osBoot is the old list of device types in <os>.                    *)

AllDevices == Disks \o Ifaces \o Redirs \o Hosts
IsHost(d) == d \in RangeOf(Hosts)

\* Each device of a machine is there once.
ASSUME BootAssumption ==
    /\ \A s \in {Disks, Ifaces, Redirs, Hosts} : s \in Seq(RangeOf(s))
    /\ \A i, j \in DOMAIN AllDevices : AllDevices[i] = AllDevices[j] => i = j
    /\ \A b \in OsBoots : b \in Seq(RangeOf(b))

\* The elements of a sequence that are in S, in their order.
Among(s, S) ==
    LET places == {i \in DOMAIN s : s[i] \in S}
    IN  [k \in 1 .. Cardinality(places) |->
            s[CHOOSE i \in places : Cardinality({j \in places : j < i}) = k - 1]]

\* The n-th entry for disks takes the n-th disk, whichever kind of disk it asks
\* for; one for which there is no disk left takes none.
OsOrders(devices, osBoot, types) ==
    {p \in RangeOf(devices) \X DOMAIN osBoot :
        LET n == Cardinality({j \in 1 .. p[2] : osBoot[j] \in types})
        IN  osBoot[p[2]] \in types /\ n <= Len(devices) /\ p[1] = devices[n]}

Orders(c) ==
    LET os == OsOrders(Disks, c.osBoot, {"disk", "fd", "cdrom"})
              \cup OsOrders(Ifaces, c.osBoot, {"network"})
        byOs == {p[1] : p \in os}
    IN  os \cup {<<d, c.order[d]>> : d \in {e \in RangeOf(AllDevices) \ byOs : c.order[e] # 0}}

\* The devices that have an order, by their order.
BootSequence(c) ==
    LET o == Orders(c)
    IN  [i \in 1 .. Cardinality(o) |->
            (CHOOSE p \in o : Cardinality({q \in o : q[2] < p[2]}) = i - 1)[1]]

getSortedBootOrderDevices(c) ==
    LET first == BootSequence(c)
    IN  first \o Among(AllDevices, RangeOf(AllDevices) \ RangeOf(first))

BootForm(vm) ==
    [devices |-> getSortedBootOrderDevices(vm), checked |-> RangeOf(BootSequence(vm))]

Swapped(s, i, j) == [s EXCEPT ![i] = s[j], ![j] = s[i]]
onToggleDevice(f, d) ==
    [f EXCEPT !.checked = IF d \in @ THEN @ \ {d} ELSE @ \cup {d}]
moveUp(f, i) == [f EXCEPT !.devices = Swapped(@, i, i - 1)]
moveDown(f, i) == [f EXCEPT !.devices = Swapped(@, i, i + 1)]

BootEdits(f) ==
    {onToggleDevice(f, d) : d \in RangeOf(AllDevices)}
    \cup {moveUp(f, i) : i \in {k \in 2 .. Len(f.devices) : f.devices[k] \in f.checked}}
    \cup {moveDown(f, i) : i \in {k \in 1 .. Len(f.devices) - 1 : f.devices[k + 1] \in f.checked}}

Chosen(f) == Among(f.devices, f.checked)

\* The index of a device counts from zero; of a host device, zero counts as none.
updateBootOrder(devices) ==
    [osBoot |-> <<>>,
     order |-> [d \in RangeOf(AllDevices) |->
        IF d \notin RangeOf(devices) \/ (IsHost(d) /\ devices[1] = d) THEN 0
        ELSE CHOOSE i \in DOMAIN devices : devices[i] = d]]

-----------------------------------------------------------------------------
(* Vsock.                                                                  *)

MIN_VSOCK_CID == 3

\* sort() without a comparison orders numbers as texts: 10 before 3.
TextRank(n) == IF n < 10 THEN n * 100 ELSE (n \div 10) * 100 + (n % 10) * 10 + 1
SortedAsText(S) ==
    [i \in 1 .. Cardinality(S) |->
        CHOOSE n \in S : Cardinality({m \in S : TextRank(m) < TextRank(n)}) = i - 1]

\* Faulty: counts the identifiers in use.
getNextAvailableVsockCIDOnce(S) ==
    IF MIN_VSOCK_CID \in S THEN MIN_VSOCK_CID + Cardinality(S) ELSE MIN_VSOCK_CID

\* The loop: a hit takes the next identifier and goes back to the second element.
\* The place in the list and the identifier tried are the two parts of "at".
getNextAvailableVsockCID(S) ==
    LET taken == SortedAsText(S)
        scan[at \in (1 .. Greatest(Cardinality(S), 1) + 1) \X Nat] ==
            IF at[1] > Len(taken) THEN at[2]
            ELSE IF taken[at[1]] = at[2] THEN scan[<<2, at[2] + 1>>]
            ELSE scan[<<at[1] + 1, at[2]>>]
    IN  scan[<<1, MIN_VSOCK_CID>>]

VsockForm(vm) ==
    [auto |-> IF vm.attached THEN vm.auto ELSE TRUE, address |-> vm.address, vms |-> FALSE]

VsockEdits(f) ==
    {[f EXCEPT !.auto = ~@]}
    \cup (IF f.auto THEN {} ELSE {[f EXCEPT !.address = v] : v \in Typed}
                                 \cup {[f EXCEPT !.address = Greatest(@, MIN_VSOCK_CID)]})

\* The list of machines arrives; an address that was not configured is filled in.
VmsArrive(f, vm) ==
    [f EXCEPT !.vms = TRUE, !.address = IF vm.address = 0 THEN getNextAvailableVsockCID(used) ELSE @]

vsockUsage(f) == f.vms /\ ~f.auto /\ f.address \in used

-----------------------------------------------------------------------------
FormOf(vm) ==
    CASE subject = "memory" -> MemoryForm(vm)
      [] subject = "cpu" -> CpuForm(vm)
      [] subject = "boot" -> BootForm(vm)
      [] subject = "vsock" -> VsockForm(vm)

Edits(f) ==
    CASE subject = "memory" -> MemoryEdits(f.values, f.vm, f.wasRunning)
      [] subject = "cpu" -> CpuEdits(f.values, f.vm)
      [] subject = "boot" -> BootEdits(f.values)
      [] subject = "vsock" -> VsockEdits(f.values)

Plan(f) ==
    CASE subject = "memory" -> MemoryPlan(f.values, f.vm)
      [] subject = "cpu" -> [calls |-> <<"cpu", "vcpu">>, closes |-> TRUE]
      [] subject = "boot" -> [calls |-> <<"defineOrder">>, closes |-> TRUE]
      [] subject = "vsock" -> [calls |-> <<"vsock">>, closes |-> TRUE]

\* libvirt and virt-xml: what a call refuses, and the configuration after it.
Accepts(call, f) ==
    /\ call = "setMemory" => f.values.memory <= conf.memory /\ (f.wasRunning => running)
    /\ call = "vcpu" => /\ f.values.count \in 1 .. f.values.max
                        /\ f.values.sockets * f.values.cores * f.values.threads = f.values.max
    /\ call = "vsock" => f.values.auto \/ f.values.address >= MIN_VSOCK_CID

After(call, f) ==
    CASE call = "setMaxMemory" ->
            [memory |-> f.values.maxMemory, currentMemory |-> Least(conf.currentMemory, f.values.maxMemory)]
      [] call = "setMemory" -> [conf EXCEPT !.currentMemory = f.values.memory]
      [] call = "cpu" -> [conf EXCEPT !.sockets = 1, !.threads = 1, !.cores = conf.max]
      [] call = "vcpu" -> f.values
      [] call = "defineOrder" -> updateBootOrder(Chosen(f.values))
      [] call = "vsock" -> [attached |-> TRUE, auto |-> f.values.auto, address |-> f.values.address]

-----------------------------------------------------------------------------
MachineConfs(s) ==
    CASE s = "memory" -> {[memory |-> m, currentMemory |-> c] :
                             m \in 1 .. NodeMaxMemory + 1, c \in 1 .. NodeMaxMemory + 1}
      [] s = "cpu" -> [max : 1 .. MaxVcpu, count : 1 .. MaxVcpu, sockets : 1 .. MaxVcpu,
                       cores : 1 .. MaxVcpu, threads : 1 .. MaxVcpu]
      [] s = "boot" -> {[osBoot |-> b, order |-> [d \in RangeOf(AllDevices) |-> 0]] : b \in OsBoots}
      [] s = "vsock" -> {[attached |-> FALSE, auto |-> FALSE, address |-> 0]}
                        \cup {[attached |-> TRUE, auto |-> a, address |-> v] :
                                a \in BOOLEAN, v \in Typed \ (0 .. MIN_VSOCK_CID - 1)}

\* What libvirt admits as a configuration.
IsConf(s, c) ==
    /\ s = "memory" => c.currentMemory <= c.memory
    /\ s = "cpu" => c.count <= c.max /\ c.sockets * c.cores * c.threads = c.max

Init ==
    /\ subject \in Subjects
    /\ conf \in {c \in MachineConfs(subject) : IsConf(subject, c)}
    /\ running \in IF subject \in {"memory", "boot"} THEN BOOLEAN ELSE {FALSE}
    /\ used \in IF subject = "vsock" THEN SUBSET Cids ELSE {{}}
    /\ form = NoForm
    /\ job = NoJob

\* The page shows the machine as it is; boot order is only edited when it is off.
Open ==
    /\ form = NoForm
    /\ subject = "boot" => ~running
    /\ form' = [values |-> FormOf(conf), vm |-> conf, wasRunning |-> running]
    /\ UNCHANGED <<subject, conf, running, used, job>>

\* Edits wait until a save is over: a bound of the model.
Edit ==
    /\ form # NoForm /\ job = NoJob
    /\ \E v \in Edits(form) : form' = [form EXCEPT !.values = v]
    /\ UNCHANGED <<subject, conf, running, used, job>>

VmsAreKnown ==
    /\ subject = "vsock" /\ form # NoForm
    /\ ~form.values.vms
    /\ form' = [form EXCEPT !.values = VmsArrive(form.values, form.vm)]
    /\ UNCHANGED <<subject, conf, running, used, job>>

\* Saving, one at a time.  "base" is there for the properties: what the save began with.
Save ==
    /\ form # NoForm /\ job = NoJob
    /\ job' = [form |-> form, base |-> conf, step |-> 1]
    /\ UNCHANGED <<subject, conf, running, used, form>>

\* Cancel, also while a save is under way, which goes on.
Cancel ==
    /\ form # NoForm
    /\ form' = NoForm
    /\ UNCHANGED <<subject, conf, running, used, job>>

CurrentCall == Plan(job.form).calls[job.step]
IsDone == job.step > Len(Plan(job.form).calls)

CallReturns ==
    /\ job # NoJob /\ ~IsDone
    /\ Accepts(CurrentCall, job.form)
    /\ conf' = After(CurrentCall, job.form)
    /\ job' = [job EXCEPT !.step = @ + 1]
    /\ UNCHANGED <<subject, running, used, form>>

\* A call fails, refused or for another reason: the dialog says so, if it is still
\* open, and stays open.
CallFails ==
    /\ job # NoJob /\ ~IsDone
    /\ job' = NoJob
    /\ UNCHANGED <<subject, conf, running, used, form>>

\* Dialogs.close() closes whichever dialog is open.
Finish ==
    /\ job # NoJob /\ IsDone
    /\ job' = NoJob
    /\ form' = IF Plan(job.form).closes THEN NoForm ELSE form
    /\ UNCHANGED <<subject, conf, running, used>>

\* Whether the machine runs matters to memory and boot order only.
StartOrStop ==
    /\ subject \in {"memory", "boot"}
    /\ running' = ~running
    /\ UNCHANGED <<subject, conf, used, form, job>>

Next == Open \/ Edit \/ VmsAreKnown \/ Save \/ Cancel
        \/ CallReturns \/ CallFails \/ Finish \/ StartOrStop

Spec == Init /\ [][Next]_vars

-----------------------------------------------------------------------------
(* Properties.                                                             *)

\* Whatever is entered in whichever unit, the dialog of a machine within the
\* limits never shows more memory than the maximum, nor either beyond what the
\* host has or below the least allowed (memoryModal.tsx onValueChanged).
MemoryIsLegal ==
    subject = "memory" /\ form # NoForm =>
        LET f == form.values
            vm == form.vm
        IN  /\ MinMemory <= vm.memory => f.memory <= f.maxMemory
            /\ MinMemory <= vm.currentMemory => MinMemory <= f.memory
            /\ vm.memory <= NodeMaxMemory => f.maxMemory <= NodeMaxMemory

\* cpuModal.tsx: after any sequence of changes of the four linked fields, the
\* number of processors is the product of the topology, as long as it is given.
TopologyMatches ==
    subject = "cpu" /\ form # NoForm /\ form.values.max # 0 =>
        form.values.sockets * form.values.cores * form.values.threads = form.values.max

\* What the user has asked for by the form v, saved over configuration c.
SavedAs(v, c) ==
    CASE subject = "memory" -> c.memory = v.maxMemory /\ c.currentMemory = v.memory
      [] subject = "cpu" -> c = v
      [] subject = "boot" -> BootSequence(c) = Chosen(v)
      [] subject = "vsock" -> c.attached /\ c.auto = v.auto /\ c.address = v.address

HostGoesFirst(v) == subject = "boot" /\ Len(Chosen(v)) > 0 /\ IsHost(Chosen(v)[1])

\* A dialog closes by itself only after everything it shows has been saved: one
\* that saves in two calls stays open when the second fails or is not made.
\* The dialog must have been opened with the configuration it then changed; one
\* that is saved again after a failure still compares with what it was opened
\* with.  And a host device that is put first loses its place (libvirt-xml-update.ts:239).
ClosesOnlyWhenSaved ==
    [][job # NoJob /\ IsDone /\ job' = NoJob /\ Plan(job.form).closes
            /\ job.base = job.form.vm /\ ~HostGoesFirst(job.form.values)
        => SavedAs(job.form.values, conf)]_vars

\* vsock.tsx: the identifier suggested is one that no other machine has.  Texts
\* are compared, so that this holds as long as all have one digit.
SuggestionIsFree ==
    (\A n \in used : n < 10) => getNextAvailableVsockCID(used) \notin used
=============================================================================
