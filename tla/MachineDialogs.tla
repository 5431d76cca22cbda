--------------------------- MODULE MachineDialogs ---------------------------
(* The dialogs that change one machine by calls of libvirt and virt-xml:    *)
(* its devices (components/vm/disks, nics, hostdevs, filesystems,           *)
(* overview/watchdog.tsx), its snapshots, and the machine as a whole        *)
(* (delete, rename, clone and migrate), with libvirtApi/domain.ts and       *)
(* snapshot.ts.  A machine has a live configuration and the one of its next *)
(* boot.  A dialog keeps the machine as the page showed it when it opened,  *)
(* and saving is a plan of calls of which any may fail.  One behaviour is   *)
(* about one kind of dialog, its subject.                                   *)
EXTENDS Integers, Sequences

CONSTANTS
    Subjects,       \* what the dialogs of this instance are about
    MaxId,          \* names of devices, images, snapshots and machines
    External,       \* whether the hypervisor can make external snapshots
    MaxDialogs,     \* bound: dialogs opened
    MaxFails,       \* bound: calls that fail by accident
    MaxOutside,     \* bound: changes by others
    NoDialog, NoJob

AllSubjects == {"disk", "media", "nic", "hostdev", "filesystem", "watchdog", "snapshot", "machine"}

VARIABLES
    subject,
    machine,    \* what libvirt holds
    row,        \* the machine as the page has read it
    dialog,     \* the open dialog, or NoDialog
    job,        \* a plan under way, or NoJob
    shown,      \* the names of the snapshots that the page shows
    listings,   \* readings of snapshots under way: the names each has listed
    unread,     \* for the properties: snapshots have changed behind these readings
    disturbed,  \* for the properties: others have acted since the dialog opened
    opened, fails, outside     \* counters of the bounds

vars == <<subject, machine, row, dialog, job, shown, listings, unread, disturbed, opened, fails, outside>>

States == {"shutoff", "running", "paused", "gone"}
Devices == [id : Nat, v : {0, 1}, img : Nat]
Kinds == {"internal", "diskOnly", "withMemory"}
Snapshots == [id : Nat, kind : Kinds, state : States]
Machine == [state : States, persistent : BOOLEAN, live : Seq(Devices), inactive : Seq(Devices),
            images : SUBSET Nat, memory : BOOLEAN, name : Nat, others : SUBSET Nat,
            elsewhere : {"no", "temporary", "permanent"}, snaps : SUBSET Snapshots]
Row == [state : States, persistent : BOOLEAN, live : Seq(Devices), inactive : Seq(Devices),
        memory : BOOLEAN, name : Nat]
DeviceOps == {"add", "edit", "remove", "insert", "eject"}
SnapshotOps == {"create", "remove", "revert"}
MachineOps == {"delete", "rename", "clone", "migrate"}
Dialog == [op : DeviceOps \cup SnapshotOps \cup MachineOps, nr : Nat, vm : Row, id : Nat, place : Nat,
           chosen : Nat, v : {0, 1}, new : Nat, img : Nat, image : {"none", "create", "existing", "delete"},
           always : BOOLEAN, failed : BOOLEAN, snapshots : SUBSET Nat]
Job == [d : Dialog, step : Nat \ {0}, doc : Seq(Devices)]

ASSUME MachineDialogsAssumption ==
    /\ Subjects \subseteq AllSubjects
    /\ External \in BOOLEAN
    /\ MaxId \in Nat \ {0} /\ MaxDialogs \in Nat /\ MaxFails \in Nat /\ MaxOutside \in Nat
    /\ NoDialog \notin Dialog /\ NoJob \notin Job

\* The dialogs that the page has for each subject.
OpsOf(s) ==
    CASE s \in {"disk", "nic", "watchdog"} -> {"add", "edit", "remove"}
      [] s = "media" -> {"insert", "eject"}
      [] s \in {"hostdev", "filesystem"} -> {"add", "remove"}
      [] s = "snapshot" -> SnapshotOps
      [] s = "machine" -> MachineOps

TypeOK ==
    /\ subject \in Subjects
    /\ machine \in Machine /\ row \in Row
    /\ dialog \in Dialog \cup {NoDialog} /\ job \in Job \cup {NoJob}
    /\ dialog # NoDialog => dialog.op \in OpsOf(subject)
    /\ job # NoJob => job.d.op \in OpsOf(subject)
    /\ shown \subseteq Nat /\ listings \in Seq(SUBSET Nat)
    /\ unread \in BOOLEAN /\ disturbed \in BOOLEAN
    /\ opened \in 0 .. MaxDialogs /\ fails \in 0 .. MaxFails /\ outside \in 0 .. MaxOutside

Ids == 1 .. MaxId
IdsOf(list) == {list[i].id : i \in DOMAIN list}
Has(list, id) == id \in IdsOf(list)
PlaceOf(list, id) == CHOOSE i \in DOMAIN list : list[i].id = id
ValueOf(list, id) == list[PlaceOf(list, id)].v
Active(m) == m.state \in {"running", "paused"}
SnapshotNames(m) == {s.id : s \in m.snaps}

\* Machines without snapshots are not read for them.
HasSnapshots == subject \in {"snapshot", "machine"}
MaxListings == 2        \* bound: readings at the same time

\* The two XML documents of a machine: libvirt gives the same one twice when the
\* machine is off or transient.
LiveOf(m) == IF Active(m) THEN m.live ELSE m.inactive
InactiveOf(m) == IF m.persistent THEN m.inactive ELSE m.live

\* What a read brings (domainGet, parseDomainDumpxml).
View(m) == [state |-> m.state, persistent |-> m.persistent, live |-> LiveOf(m),
            inactive |-> InactiveOf(m), memory |-> m.memory, name |-> m.name]

\* Undefined machines are forgotten by libvirt; transient ones when they stop.
Gone(m) == [m EXCEPT !.state = "gone", !.persistent = FALSE, !.live = <<>>, !.inactive = <<>>, !.snaps = {}]
Stopped(m) == IF m.persistent THEN [m EXCEPT !.state = "shutoff", !.live = <<>>] ELSE Gone(m)

domainIsRunning(state) == state \in {"running", "paused"}

-----------------------------------------------------------------------------
(* What each dialog does.  d.vm is the machine when it opened, d.id the     *)
(* device it is about, d.v and d.new its new setting and name.             *)

Step(do, options) == [do |-> do, opt |-> options]
NoOptions == [update |-> FALSE, noDefine |-> FALSE]

\* Faulty: forgets whether the device is persistent.
hotplugExtraOptionsAlways(vm, devicePersistent) ==
    [update |-> vm.state = "running", noDefine |-> vm.state = "running" /\ ~vm.persistent]

hotplugExtraOptions(vm, devicePersistent) ==
    [update |-> vm.state = "running",
     noDefine |-> vm.state = "running" /\ ~(vm.persistent /\ devicePersistent)]

virtXmlHotAdd(d) == Step("add", hotplugExtraOptions(d.vm, d.always))
virtXmlHotEdit(d) == Step("edit", hotplugExtraOptions(d.vm, TRUE))
virtXmlHotRemove(d, devicePersistent) == Step("remove", hotplugExtraOptions(d.vm, devicePersistent))

\* Read the inactive XML, then define what the callback has made of it.
domainModifyXML == <<Step("get", NoOptions), Step("define", NoOptions)>>

\* vda, vdb, ...: the first target that no disk of the row has, 0 for none.
getNextAvailableTarget(existing) ==
    IF Ids \subseteq existing THEN 0
    ELSE CHOOSE i \in Ids \ existing : \A j \in 1 .. i - 1 : j \in existing

add_disk(d) ==
    (IF d.image = "create" THEN <<Step("createVolume", NoOptions)>> ELSE <<>>) \o <<virtXmlHotAdd(d)>>

saveDisk(d) == <<Step("edit", NoOptions)>>

\* Faulty: the image goes first.
onRemoveDiskImageFirst(d) ==
    (IF d.image = "delete" THEN <<Step("deleteStorage", NoOptions)>> ELSE <<>>)
    \o <<virtXmlHotRemove(d, Has(d.vm.inactive, d.id)), Step("read", NoOptions)>>

onRemoveDisk(d) ==
    <<virtXmlHotRemove(d, Has(d.vm.inactive, d.id)), Step("read", NoOptions)>>
    \o (IF d.image = "delete" THEN <<Step("deleteStorage", NoOptions)>> ELSE <<>>)

insert_media(d) == <<virtXmlHotEdit(d)>>
domainEjectDisk(d) == <<Step("updateDevice", [live |-> d.vm.state = "running", force |-> d.failed]),
                        Step("read", NoOptions)>>

addNIC(d) == <<virtXmlHotAdd(d)>>

\* The setting 1 stands for port forwards: virt-xml sets them but does not remove them.
saveNIC(d) == <<Step("edit", NoOptions)>> \o domainModifyXML

removeNIC(d) == <<virtXmlHotRemove(d, Has(d.vm.inactive, d.id))>>

\* Faulty: virt-xml counts from one.
NumberInXMLFromZero(d) == d.place - 1

\* An interface is removed by its number in the captured live list.
NumberInXML(d) == d.place

domainAttachHostDevices(d) == <<Step("add", [update |-> d.vm.state # "shutoff", noDefine |-> FALSE])>>

\* Faulty: the live device goes first.
domainDetachHostDeviceLiveFirst(d) ==
    (IF d.vm.state # "shutoff" THEN <<Step("detachLive", NoOptions)>> ELSE <<>>)
    \o <<Step("detachConfig", NoOptions)>>

domainDetachHostDevice(d) ==
    <<Step("detachConfig", NoOptions)>>
    \o (IF d.vm.state # "shutoff" THEN <<Step("detachLive", NoOptions)>> ELSE <<>>)

addFilesystem(d) ==
    (IF d.vm.memory THEN <<>> ELSE <<Step("memorybacking", NoOptions)>>) \o <<virtXmlHotAdd(d)>>
removeFilesystem(d) == <<virtXmlHotRemove(d, TRUE)>>

setWatchdog(d, hotplug) ==
    IF d.op = "edit" THEN Step("edit", NoOptions)
    ELSE Step("add", [update |-> hotplug, noDefine |-> hotplug])
setWatchdogColdplug(d) == <<setWatchdog(d, FALSE)>>
setWatchdogHotplug(d) ==
    <<setWatchdog(d, TRUE)>> \o (IF d.vm.persistent THEN setWatchdogColdplug(d) ELSE <<>>)

\* d.failed: hotplugging has failed, and the button left is "Apply on next boot".
saveWatchdog(d) ==
    IF (d.failed \/ d.vm.state # "running") /\ d.vm.persistent
    THEN setWatchdogColdplug(d) ELSE setWatchdogHotplug(d)
detachWatchdog(d) == <<virtXmlHotRemove(d, TRUE)>>

\* Internal or external, with the memory or not: what the flags and the memory path ask for.
snapshotKind(memoryPath) ==
    IF memoryPath THEN "withMemory" ELSE IF External THEN "diskOnly" ELSE "internal"

Refreshed == <<Step("listSnapshots", NoOptions), Step("read", NoOptions)>>

\* Faulty: no memory is kept of external snapshots.
snapshotCreateNoMemory(d) == <<Step("createSnapshot", [kind |-> snapshotKind(FALSE)])>> \o Refreshed

\* A disk-only snapshot of a machine that runs is refused.
snapshotCreate(d) ==
    LET kind == snapshotKind(External /\ d.vm.state = "running")
    IN  IF d.vm.state = "running" /\ kind = "diskOnly" THEN <<Step("refuse", NoOptions)>>
        ELSE <<Step("createSnapshot", [kind |-> kind])>> \o Refreshed

\* Faulty: relies on an event, which libvirt does not send for snapshots.
snapshotDeleteUnread(d) == <<Step("deleteSnapshots", [names |-> {d.id}])>>

snapshotDelete(d) == <<Step("deleteSnapshots", [names |-> {d.id}])>> \o Refreshed

\* The second attempt is forced.
snapshotRevert(d) == <<Step("revert", [force |-> d.failed]), Step("read", NoOptions)>>

\* The machine is stopped when it was not shut off as the dialog opened.
domainDelete(d) ==
    (IF d.vm.state # "shutoff" THEN <<Step("destroy", NoOptions)>> ELSE <<>>)
    \o <<Step("undefine", [wasLive |-> d.vm.state # "shutoff"])>>

\* The snapshots that were shown go first, all at once; the images last, when the
\* dialog is closed already.
onDelete(d) ==
    <<Step("deleteSnapshots", [names |-> d.snapshots])>> \o domainDelete(d)
    \o <<Step("close", NoOptions)>>
    \o (IF d.image = "delete" THEN <<Step("deleteStorage", NoOptions)>> ELSE <<>>)

onRename(d) == <<Step("rename", NoOptions)>>
onClone(d) == <<Step("clone", NoOptions)>>

\* A permanent migration defines the machine there and undefines it here.
domainMigrateToUri(d) ==
    <<Step("migrate", [persistDest |-> d.always, undefineSource |-> d.always]), Step("read", NoOptions)>>

Plan(d) ==
    CASE d.op = "add" /\ subject = "disk" -> add_disk(d)
      [] d.op = "edit" /\ subject = "disk" -> saveDisk(d)
      [] d.op = "remove" /\ subject = "disk" -> onRemoveDisk(d)
      [] d.op = "insert" -> insert_media(d)
      [] d.op = "eject" -> domainEjectDisk(d)
      [] d.op = "add" /\ subject = "nic" -> addNIC(d)
      [] d.op = "edit" /\ subject = "nic" -> saveNIC(d)
      [] d.op = "remove" /\ subject = "nic" -> removeNIC(d)
      [] d.op = "add" /\ subject = "hostdev" -> domainAttachHostDevices(d)
      [] d.op = "remove" /\ subject = "hostdev" -> domainDetachHostDevice(d)
      [] d.op = "add" /\ subject = "filesystem" -> addFilesystem(d)
      [] d.op = "remove" /\ subject = "filesystem" -> removeFilesystem(d)
      [] d.op \in {"add", "edit"} /\ subject = "watchdog" -> saveWatchdog(d)
      [] d.op = "remove" /\ subject = "watchdog" -> detachWatchdog(d)
      [] d.op = "create" -> snapshotCreate(d)
      [] d.op = "remove" /\ subject = "snapshot" -> snapshotDelete(d)
      [] d.op = "revert" -> snapshotRevert(d)
      [] d.op = "delete" -> onDelete(d)
      [] d.op = "rename" -> onRename(d)
      [] d.op = "clone" -> onClone(d)
      [] d.op = "migrate" -> domainMigrateToUri(d)

-----------------------------------------------------------------------------
(* libvirt and virt-xml.  A step gives [ok, m]: whether it succeeds, and    *)
(* the machine after it, which may have changed although it fails.         *)

\* A network interface is removed by number; everything else is found by name.
\* 0 when there is none.
Located(list, d) ==
    IF subject = "nic" /\ d.op = "remove"
    THEN IF NumberInXML(d) <= Len(list) THEN NumberInXML(d) ELSE 0
    ELSE IF Has(list, d.id) THEN PlaceOf(list, d.id) ELSE 0

\* No two disks have one target.
IsFree(list, d) == subject = "disk" /\ d.new # d.id => ~Has(list, d.new)

CanChange(list, do, d) ==
    CASE do = "add" -> ~Has(list, d.id)
      [] do = "edit" -> Located(list, d) # 0 /\ IsFree(list, d)
      [] do = "remove" -> Located(list, d) # 0

Without(list, i) == SubSeq(list, 1, i - 1) \o SubSeq(list, i + 1, Len(list))

NewValue(old, d) == IF subject = "nic" /\ old = 1 THEN 1 ELSE d.v

Change(list, do, d) ==
    LET i == Located(list, d)
    IN  CASE do = "add" -> Append(list, [id |-> d.id, v |-> d.v, img |-> d.img])
          [] do = "edit" -> [list EXCEPT ![i] = [id |-> d.new, v |-> NewValue(list[i].v, d), img |-> list[i].img]]
          [] do = "remove" -> Without(list, i)

ConfigChanged(m, do, d) ==
    [m EXCEPT !.persistent = TRUE, !.inactive = Change(InactiveOf(m), do, d)]

\* The live half comes first and is not undone; defining a transient machine makes
\* it persistent; an update of a machine that is off does nothing.
virtXml(m, do, opt, d) ==
    LET update == opt.update /\ Active(m)
        liveOk == update => CanChange(m.live, do, d)
        n == IF update /\ liveOk THEN [m EXCEPT !.live = Change(m.live, do, d)] ELSE m
        configOk == CanChange(InactiveOf(n), do, d)
    IN  IF ~liveOk THEN [ok |-> FALSE, m |-> m]
        ELSE IF opt.noDefine THEN [ok |-> TRUE, m |-> n]
        ELSE [ok |-> configOk, m |-> IF configOk THEN ConfigChanged(n, do, d) ELSE n]

\* Without the live flag, the flags are CONFIG if the disk is in the inactive XML
\* of a machine that was persistent, and otherwise whatever is current.
UpdateDevice(m, opt, d) ==
    LET config == d.vm.persistent /\ Has(InactiveOf(m), d.id)
        live == opt.live \/ (~config /\ Active(m))
        both == config \/ ~live
        setTo(list) == IF Has(list, d.id) THEN [list EXCEPT ![PlaceOf(list, d.id)].v = 0] ELSE list
    IN  IF (live /\ ~(Active(m) /\ Has(m.live, d.id))) \/ (both /\ ~Has(m.inactive, d.id))
        THEN [ok |-> FALSE, m |-> m]
        ELSE [ok |-> TRUE,
              m |-> [m EXCEPT !.live = IF live THEN setTo(@) ELSE @, !.inactive = IF both THEN setTo(@) ELSE @]]

DeviceCalls(m, s, d, doc) ==
    CASE s.do \in {"add", "edit", "remove"} -> virtXml(m, s.do, s.opt, d)
      [] s.do = "updateDevice" -> UpdateDevice(m, s.opt, d)
      [] s.do = "memorybacking" -> [ok |-> TRUE, m |-> [m EXCEPT !.memory = TRUE]]
      [] s.do = "detachConfig" ->
            IF m.persistent
            THEN [ok |-> TRUE, m |-> IF Has(m.inactive, d.id)
                                     THEN [m EXCEPT !.inactive = Without(@, PlaceOf(@, d.id))] ELSE m]
            ELSE [ok |-> ~Has(m.live, d.id), m |-> m]
      [] s.do = "detachLive" ->
            IF Active(m) /\ Has(m.live, d.id)
            THEN [ok |-> TRUE, m |-> [m EXCEPT !.live = Without(@, PlaceOf(@, d.id))]]
            ELSE [ok |-> FALSE, m |-> m]
      [] s.do = "define" ->
            [ok |-> TRUE, m |-> IF d.v = 0 /\ Has(doc, d.id) /\ ValueOf(doc, d.id) # 0
                                THEN [m EXCEPT !.inactive = [doc EXCEPT ![PlaceOf(doc, d.id)].v = 0]] ELSE m]

\* Some kinds of snapshot are for machines that run, or return to where they ran.
Snapshot(m, id, kind) ==
    [id |-> id, kind |-> kind, state |-> IF kind = "diskOnly" THEN "shutoff" ELSE m.state]

InState(m, state) ==
    IF state = "shutoff" THEN Stopped(m) ELSE [m EXCEPT !.state = state, !.live = LiveOf(m)]

\* Deletions go on when one of them fails.
SnapshotCalls(m, s, d) ==
    CASE s.do = "createSnapshot" ->
            IF m.state = "gone" \/ d.id \in SnapshotNames(m) \/ (s.opt.kind = "withMemory" /\ ~Active(m))
            THEN [ok |-> FALSE, m |-> m]
            ELSE [ok |-> TRUE, m |-> [m EXCEPT !.snaps = @ \cup {Snapshot(m, d.id, s.opt.kind)}]]
      [] s.do = "deleteSnapshots" ->
            [ok |-> s.opt.names \subseteq SnapshotNames(m),
             m |-> [m EXCEPT !.snaps = {x \in @ : x.id \notin s.opt.names}]]
      [] s.do = "revert" ->
            LET to == {x.state : x \in {y \in m.snaps : y.id = d.id /\ (y.state = "shutoff" => m.persistent)}}
            IN  IF to = {} THEN [ok |-> FALSE, m |-> m]
                ELSE [ok |-> TRUE, m |-> InState(m, CHOOSE x \in to : TRUE)]

\* Undefining a machine that is running again makes it transient.
MachineCalls(m, s, d) ==
    CASE s.do = "destroy" -> [ok |-> Active(m), m |-> IF Active(m) THEN Stopped(m) ELSE m]
      [] s.do = "undefine" ->
            CASE m.state = "gone" -> [ok |-> s.opt.wasLive, m |-> m]
              [] m.persistent /\ Active(m) ->
                    [ok |-> TRUE, m |-> [m EXCEPT !.persistent = FALSE, !.inactive = <<>>]]
              [] m.persistent /\ ~Active(m) -> [ok |-> TRUE, m |-> Gone(m)]
              [] OTHER -> [ok |-> FALSE, m |-> m]
      [] s.do = "rename" ->
            IF m.state # "shutoff" \/ d.new \in m.others THEN [ok |-> FALSE, m |-> m]
            ELSE [ok |-> TRUE, m |-> [m EXCEPT !.name = d.new]]
      [] s.do = "clone" ->
            IF m.state # "shutoff" \/ d.new \in m.others \cup {m.name} THEN [ok |-> FALSE, m |-> m]
            ELSE [ok |-> TRUE, m |-> [m EXCEPT !.others = @ \cup {d.new}]]
      [] s.do = "migrate" ->
            IF ~Active(m) THEN [ok |-> FALSE, m |-> m]
            ELSE LET there == [m EXCEPT !.elsewhere = IF s.opt.persistDest THEN "permanent" ELSE "temporary"]
                 IN  [ok |-> TRUE, m |-> IF s.opt.undefineSource THEN Gone(there) ELSE Stopped(there)]

Does(m, s, d, doc) ==
    CASE s.do \in {"get", "read", "listSnapshots", "close"} -> [ok |-> TRUE, m |-> m]
      [] s.do = "refuse" -> [ok |-> FALSE, m |-> m]
      [] s.do = "createVolume" -> [ok |-> d.img \notin m.images, m |-> [m EXCEPT !.images = @ \cup {d.img}]]
      [] s.do = "deleteStorage" -> [ok |-> TRUE, m |-> [m EXCEPT !.images = @ \ {d.img}]]
      [] s.do \in {"createSnapshot", "deleteSnapshots", "revert"} -> SnapshotCalls(m, s, d)
      [] s.do \in {"destroy", "undefine", "rename", "clone", "migrate"} -> MachineCalls(m, s, d)
      [] OTHER -> IF m.state = "gone" THEN [ok |-> FALSE, m |-> m] ELSE DeviceCalls(m, s, d, doc)

-----------------------------------------------------------------------------
(* The dialogs, as the page opens them: an enabled button of the row.       *)

NewDialog(op, id) ==
    [op |-> op, nr |-> opened + 1, vm |-> row, id |-> id, place |-> 0, chosen |-> id, v |-> 0,
     new |-> id, img |-> 0, image |-> "none", always |-> row.persistent, failed |-> FALSE,
     snapshots |-> shown]

IsOff == row.state = "shutoff"
CanDetach == row.state \in {"shutoff", "running"}
Known == IdsOf(row.live)

\* "Always attach" is only asked for a persistent machine that runs.
Permanence(default) == IF row.persistent /\ domainIsRunning(row.state) THEN BOOLEAN ELSE {default}

\* The volumes that no disk of the row uses; pools are read again as the dialog opens.
getFilteredVolumes == machine.images \ {row.live[k].img : k \in DOMAIN row.live}

\* The sources of a new disk: a volume with any name is created, or one is chosen.  A
\* path entered by hand is like a chosen volume, if the machine does not use it yet.
CreateNew == {[image |-> "create", img |-> i] : i \in Ids}
UseExisting == {[image |-> "existing", img |-> i] : i \in getFilteredVolumes}

AddDisk ==
    {[NewDialog("add", getNextAvailableTarget(Known)) EXCEPT !.img = s.img, !.image = s.image, !.always = a] :
        s \in CreateNew \cup UseExisting, a \in Permanence(row.persistent)}

\* Another bus gives another target, which a machine that runs does not offer.
EditDisk ==
    IF ~row.persistent THEN {}
    ELSE {[NewDialog("edit", i) EXCEPT !.v = v, !.new = n] :
            i \in Known \cap IdsOf(row.inactive), v \in {0, 1},
            n \in {0} \cup (IF IsOff THEN {getNextAvailableTarget(Known)} ELSE {})}

RemoveDiskModal ==
    IF ~CanDetach THEN {}
    ELSE {[NewDialog("remove", row.live[k].id) EXCEPT !.img = row.live[k].img, !.image = how] :
            k \in DOMAIN row.live, how \in {"none", "delete"}}

MediaDialogs ==
    {[NewDialog(IF row.live[k].v = 0 THEN "insert" ELSE "eject", row.live[k].id) EXCEPT !.v = 1 - row.live[k].v] :
        k \in DOMAIN row.live}

AddNIC == {[NewDialog("add", i) EXCEPT !.v = v, !.always = a] :
            i \in Ids \ Known, v \in {0, 1}, a \in Permanence(FALSE)}

\* The row's place in the live list picks the interface in the inactive one.
EditNICModal ==
    {[NewDialog("edit", row.inactive[k].id) EXCEPT !.chosen = row.live[k].id, !.v = v, !.new = n] :
        k \in {j \in DOMAIN row.live : /\ row.persistent /\ j <= Len(row.inactive)
                                       /\ Has(row.inactive, row.live[j].id)},
        v \in {0, 1}, n \in {0} \cup (IF IsOff THEN Ids \ Known ELSE {})}

RemoveNIC ==
    IF ~CanDetach THEN {}
    ELSE {[NewDialog("remove", row.live[k].id) EXCEPT !.place = k] : k \in DOMAIN row.live}

AddHostDev == {NewDialog("add", i) : i \in Ids \ Known}
RemoveHostDev == {NewDialog("remove", i) : i \in Known}

\* Shared directories need shared memory, which is set together with the first one.
VmFilesystemActions ==
    IF row.memory \/ IsOff THEN {NewDialog("add", i) : i \in Ids \ Known} ELSE {}
RemoveFilesystem == {NewDialog("remove", i) : i \in Known}

WatchdogModal ==
    IF row.live = <<>> THEN {[NewDialog("add", 1) EXCEPT !.v = v] : v \in {0, 1}}
    ELSE {NewDialog("remove", 1)}
         \cup (IF row.persistent THEN {[NewDialog("edit", 1) EXCEPT !.v = v] : v \in {0, 1}} ELSE {})

CreateSnapshotModal == {NewDialog("create", i) : i \in Ids \ shown}
SnapshotDialogs == CreateSnapshotModal \cup {NewDialog(op, i) : i \in shown, op \in {"remove", "revert"}}

\* The storage of the machine may be deleted with it.
DeleteDialog ==
    {[NewDialog("delete", 1) EXCEPT !.img = 1, !.image = how] :
        how \in IF Has(row.live, 1) THEN {"none", "delete"} ELSE {"none"}}
RenameDialog == {[NewDialog("rename", 1) EXCEPT !.new = n] : n \in Ids}
CloneDialog == {[NewDialog("clone", 1) EXCEPT !.new = n] : n \in Ids}
MigrateDialog == {[NewDialog("migrate", 1) EXCEPT !.always = a] : a \in BOOLEAN}

\* Only persistent machines are deleted, only machines that are off renamed and
\* cloned, and only others migrated.
MachineActions ==
    (IF row.persistent THEN DeleteDialog ELSE {})
    \cup (IF IsOff THEN RenameDialog \cup CloneDialog ELSE MigrateDialog)

\* "new" is 0 when the name stays.
Named(d) == IF d.new = 0 THEN [d EXCEPT !.new = d.id] ELSE d

Dialogs ==
    {Named(d) : d \in
        CASE subject = "disk" -> {a \in AddDisk \cup EditDisk \cup RemoveDiskModal : a.id # 0}
          [] subject = "media" -> MediaDialogs
          [] subject = "nic" -> AddNIC \cup EditNICModal \cup RemoveNIC
          [] subject = "hostdev" -> AddHostDev \cup RemoveHostDev
          [] subject = "filesystem" -> VmFilesystemActions \cup RemoveFilesystem
          [] subject = "watchdog" -> WatchdogModal
          [] subject = "snapshot" -> SnapshotDialogs
          [] subject = "machine" -> MachineActions}

-----------------------------------------------------------------------------
Device(v) == [id |-> 1, v |-> v, img |-> IF subject \in {"disk", "machine"} THEN 1 ELSE 0]

\* A machine that runs unchanged since it was started.
Machines ==
    {m \in {[state |-> st, persistent |-> p, inactive |-> IF p THEN l ELSE <<>>,
             live |-> IF st = "shutoff" THEN <<>> ELSE l,
             images |-> IF subject \in {"disk", "machine"} THEN {1} ELSE {},
             memory |-> mem, name |-> 1, others |-> IF subject = "machine" THEN {2} ELSE {},
             elsewhere |-> "no", snaps |-> sn] :
                st \in {"shutoff", "running", "paused"}, p \in BOOLEAN,
                l \in {<<>>} \cup (IF subject = "snapshot" THEN {} ELSE {<<Device(0)>>, <<Device(1)>>}),
                mem \in IF subject = "filesystem" THEN BOOLEAN ELSE {TRUE},
                sn \in {{}} \cup (IF ~HasSnapshots THEN {} ELSE
                        {{[id |-> 1, kind |-> "internal", state |-> k]} : k \in {"shutoff", "running"}})} :
        m.persistent \/ Active(m)}

Init ==
    /\ subject \in Subjects
    /\ machine \in Machines
    /\ row = View(machine)
    /\ dialog = NoDialog /\ job = NoJob
    /\ shown = SnapshotNames(machine) /\ listings = <<>> /\ unread = FALSE
    /\ disturbed = FALSE
    /\ opened = 0 /\ fails = 0 /\ outside = 0

\* The news of the machine that are read in the background.
Lists ==
    IF HasSnapshots
    THEN /\ Len(listings) < MaxListings
         /\ listings' = Append(listings, SnapshotNames(machine))
         /\ unread' = (unread /\ listings # <<>>)
    ELSE UNCHANGED <<listings, unread>>

SnapshotsChange(willBeRead) ==
    unread' = (unread \/ (machine'.snaps # machine.snaps /\ (listings # <<>> \/ ~willBeRead)))

Open ==
    /\ dialog = NoDialog /\ opened < MaxDialogs /\ row.state # "gone"
    /\ \E d \in Dialogs : dialog' = d
    /\ opened' = opened + 1
    /\ disturbed' = (job # NoJob \/ row # View(machine) \/ shown # SnapshotNames(machine))
    /\ UNCHANGED <<subject, machine, row, job, shown, listings, unread, fails, outside>>

\* One save at a time: a bound of the model.
Save ==
    /\ dialog # NoDialog /\ job = NoJob
    /\ job' = [d |-> dialog, step |-> 1, doc |-> <<>>]
    /\ UNCHANGED <<subject, machine, row, dialog, shown, listings, unread, disturbed, opened, fails, outside>>

\* Also while a save is under way, which goes on.
Cancel ==
    /\ dialog # NoDialog
    /\ dialog' = NoDialog
    /\ UNCHANGED <<subject, machine, row, job, shown, listings, unread, disturbed, opened, fails, outside>>

Calls == Plan(job.d)
IsDone == job.step > Len(Calls)
Call == Calls[job.step]
Answer == Does(machine, Call, job.d, job.doc)

\* A failed ejection or return to a snapshot offers to force it, a failed hotplug
\* of a watchdog to add it to the configuration only.
AfterFailure(d, step) ==
    [d EXCEPT !.failed = \/ @ \/ d.op \in {"eject", "revert"}
                         \/ /\ subject = "watchdog" /\ d.op \in {"add", "edit"} /\ d.vm.persistent
                            /\ step = 1 /\ saveWatchdog(d) = setWatchdogHotplug(d)]

Fail ==
    /\ job' = NoJob
    /\ dialog' = IF dialog = job.d THEN AfterFailure(dialog, job.step) ELSE dialog

\* Dialogs.close() closes whichever dialog is open.
CallReturns ==
    /\ job # NoJob /\ ~IsDone /\ Answer.ok
    /\ machine' = Answer.m
    /\ row' = IF Call.do = "read" THEN View(machine) ELSE row
    /\ IF Call.do \in {"read", "listSnapshots"} THEN Lists
       ELSE SnapshotsChange(job.d.op \in {"create", "remove"}) /\ UNCHANGED listings
    /\ job' = [job EXCEPT !.step = @ + 1, !.doc = IF Call.do = "get" THEN InactiveOf(machine) ELSE @]
    /\ dialog' = IF Call.do = "close" THEN NoDialog ELSE dialog
    /\ UNCHANGED <<subject, shown, disturbed, opened, fails, outside>>

CallIsRefused ==
    /\ job # NoJob /\ ~IsDone /\ ~Answer.ok
    /\ machine' = Answer.m
    /\ SnapshotsChange(FALSE)
    /\ Fail
    /\ UNCHANGED <<subject, row, shown, listings, disturbed, opened, fails, outside>>

\* What an accident leaves: nothing is done, or only the live half, or only some of
\* the snapshots are deleted.
HalfDone ==
    CASE Call.do \in {"add", "edit", "remove"} /\ Call.opt.update /\ ~Call.opt.noDefine /\ machine.state # "gone" ->
            {virtXml(machine, Call.do, [update |-> TRUE, noDefine |-> TRUE], job.d).m}
      [] Call.do = "deleteSnapshots" ->
            {[machine EXCEPT !.snaps = {x \in @ : x.id \notin some}] : some \in SUBSET Call.opt.names}
      [] OTHER -> {}

\* A failed deletion of an image is a warning, and a read reports its own failures.
CallFails ==
    /\ job # NoJob /\ ~IsDone /\ Call.do \notin {"read", "listSnapshots", "close", "refuse"}
    /\ fails < MaxFails /\ fails' = fails + 1
    /\ machine' \in {machine} \cup HalfDone
    /\ SnapshotsChange(FALSE)
    /\ IF Call.do = "deleteStorage"
       THEN job' = [job EXCEPT !.step = @ + 1] /\ UNCHANGED dialog
       ELSE Fail
    /\ UNCHANGED <<subject, row, shown, listings, disturbed, opened, outside>>

\* Deleting a machine has closed its dialog already.
Finish ==
    /\ job # NoJob /\ IsDone
    /\ job' = NoJob
    /\ dialog' = IF job.d.op = "delete" THEN dialog ELSE NoDialog
    /\ UNCHANGED <<subject, machine, row, shown, listings, unread, disturbed, opened, fails, outside>>

\* domainGet: the machine, and then its snapshots in the background.
domainGet ==
    /\ row # View(machine) \/ shown # SnapshotNames(machine)
    /\ row' = View(machine)
    /\ Lists
    /\ UNCHANGED <<subject, machine, dialog, job, shown, disturbed, opened, fails, outside>>

\* A reading is done when every snapshot it had listed is read; those deleted
\* meanwhile are left out.  Readings finish in any order.
snapshotGetAll ==
    \E i \in DOMAIN listings :
        /\ shown' = listings[i] \cap SnapshotNames(machine)
        /\ listings' = Without(listings, i)
        /\ UNCHANGED <<subject, machine, row, dialog, job, unread, disturbed, opened, fails, outside>>

\* An error leaves none.
snapshotGetAllFails ==
    \E i \in DOMAIN listings :
        /\ fails < MaxFails /\ fails' = fails + 1
        /\ shown' = {} /\ unread' = TRUE
        /\ listings' = Without(listings, i)
        /\ UNCHANGED <<subject, machine, row, dialog, job, disturbed, opened, outside>>

\* Others start, stop, pause and resume the machine, change its configuration, and
\* make and delete snapshots.
PowerChanged ==
    CASE machine.state = "shutoff" -> {[machine EXCEPT !.state = "running", !.live = machine.inactive]}
      [] Active(machine) -> {[machine EXCEPT !.state = s] : s \in {"running", "paused"} \ {machine.state}}
                            \cup {Stopped(machine)}
      [] machine.state = "gone" -> {}

ConfigEdited ==
    IF ~machine.persistent THEN {}
    ELSE {[machine EXCEPT !.inactive = Without(@, k)] : k \in DOMAIN machine.inactive}
         \cup {[machine EXCEPT !.inactive[k].v = 1 - @] : k \in DOMAIN machine.inactive}

SnapshotsEdited ==
    IF subject # "snapshot" \/ machine.state = "gone" THEN {}
    ELSE {[machine EXCEPT !.snaps = @ \ {x}] : x \in machine.snaps}
         \cup {[machine EXCEPT !.snaps = @ \cup {Snapshot(machine, i, "internal")}] :
                    i \in Ids \ SnapshotNames(machine)}

Outside ==
    /\ outside < MaxOutside /\ outside' = outside + 1
    /\ machine' \in PowerChanged \cup ConfigEdited \cup SnapshotsEdited
    /\ SnapshotsChange(FALSE)
    /\ disturbed' = TRUE
    /\ UNCHANGED <<subject, row, dialog, job, shown, listings, opened, fails>>

Next == Open \/ Save \/ Cancel \/ CallReturns \/ CallIsRefused \/ CallFails
        \/ Finish \/ domainGet \/ snapshotGetAll \/ snapshotGetAllFails \/ Outside

Spec == Init /\ [][Next]_vars

-----------------------------------------------------------------------------
(* Properties.                                                             *)

\* Where a list has the devices that dialog d is not about.
OtherPlaces(list, d) == {i \in DOMAIN list : list[i].id \notin {d.chosen, d.new}}

\* These devices are the same in another list, and in the same order.
SameOthers(old, new, d) ==
    \E f \in [OtherPlaces(old, d) -> OtherPlaces(new, d)] :
        /\ \A i \in OtherPlaces(old, d) : new[f[i]] = old[i]
        /\ \A i, j \in OtherPlaces(old, d) : i < j => f[i] < f[j]
        /\ \A k \in OtherPlaces(new, d) : \E i \in OtherPlaces(old, d) : f[i] = k

Names(list) == [i \in DOMAIN list |-> list[i].id]
AreDifferent(list) == \A i, j \in DOMAIN list : list[i].id = list[j].id => i = j
Undisturbed == ~disturbed

\* Whatever a dialog saves, and however it fails half way, the other devices of
\* the machine stay as they are, in the running machine and in its configuration.
\* An interface is removed by number, and its configuration written back as it was
\* read: for interfaces nobody must interfere, and both lists must be as captured.
OthersAreKept ==
    [][job # NoJob /\ machine' # machine /\ outside' = outside
            /\ subject \notin {"snapshot", "machine"} /\ (subject = "nic" => Undisturbed)
            /\ (subject = "nic" /\ job.d.op = "remove" =>
                    Names(job.d.vm.live) = Names(LiveOf(machine)) /\ Names(job.d.vm.live) = Names(InactiveOf(machine)))
        => /\ SameOthers(LiveOf(machine), LiveOf(machine'), job.d)
           /\ SameOthers(InactiveOf(machine), InactiveOf(machine'), job.d)]_vars

\* What the dialog asks for has come true in a list.
Achieved(d, list) ==
    CASE d.op = "add" -> Has(list, d.id)
      [] d.op = "remove" -> ~Has(list, d.chosen)
      [] OTHER -> Has(list, d.new) /\ ValueOf(list, d.new) = d.v

\* Who saves from a dialog of a machine that is as it was read.
IsCurrent(d) == Undisturbed /\ machine.state = d.vm.state

\* A dialog that has saved closes only when the machine is as asked: the running
\* machine if it runs (edits, and a watchdog that could not be hotplugged, wait for
\* the next start), the configuration if the
\* device belongs to it, and a device that is not to be "always attached" is not
\* in it.  Left out: paused machines, where only configurations are changed; and
\* interfaces of machines whose lists differ or repeat a MAC address, or that get
\* another one.
DevicesAreDone ==
    [][job # NoJob /\ IsDone /\ job' = NoJob /\ IsCurrent(job.d) /\ machine.state # "paused"
            /\ subject \notin {"snapshot", "machine"}
            /\ (subject = "nic" => job.d.id = job.d.chosen /\ (job.d.op = "edit" => job.d.new = job.d.id)
                                   /\ Names(job.d.vm.live) = Names(job.d.vm.inactive)
                                   /\ AreDifferent(job.d.vm.live))
        => LET d == job.d
               lasting == d.always \/ d.vm.state = "shutoff"
           IN  /\ machine.state = "running" /\ d.op # "edit" /\ ~(subject = "watchdog" /\ d.failed)
                    => Achieved(d, machine.live)
               /\ machine.persistent /\ (d.op = "add" => lasting) /\ (d.op = "eject" => Has(d.vm.inactive, d.id))
                    => Achieved(d, machine.inactive)
               /\ machine.persistent /\ d.op = "add" /\ ~lasting /\ ~Has(d.vm.inactive, d.id)
                    => ~Has(machine.inactive, d.id)]_vars

\* What a dialog about snapshots or the whole machine has asked for has come true.
IsSo(d) ==
    CASE d.op = "create" -> \E s \in machine.snaps : s.id = d.id /\ (s.kind = "diskOnly" => d.vm.state # "running")
      [] d.op = "remove" -> d.id \notin SnapshotNames(machine)
      [] d.op = "revert" -> \E s \in machine.snaps : s.id = d.id /\ s.state = machine.state
      [] d.op = "delete" -> machine.state = "gone"
      [] d.op = "rename" -> machine.name = d.new
      [] d.op = "clone" -> d.new \in machine.others
      [] d.op = "migrate" -> /\ ~Active(machine)
                             /\ machine.elsewhere = IF d.always THEN "permanent" ELSE "temporary"
                             /\ machine.persistent = (d.vm.persistent /\ ~d.always)

\* A dialog about snapshots or the whole machine is done only when what it has asked
\* for has come true; in particular, snapshots of a running machine have its memory
\* ("We really don't want to make disk only snapshots of running machines by
\* accident", snapshot.ts).
DoneIsSo ==
    [][job # NoJob /\ IsDone /\ job' = NoJob /\ Undisturbed /\ subject \in {"snapshot", "machine"}
        => IsSo(job.d)]_vars

\* The page shows the snapshots that there are, unless they have changed behind its
\* readings (by others, during one, or by a deletion that failed half way) or a
\* reading has failed.
SnapshotsShownExist ==
    job = NoJob /\ listings = <<>> /\ ~unread /\ machine.state # "gone" => shown = SnapshotNames(machine)

\* vmDiskColumns.tsx: an image is deleted only when no disk of the machine, as it
\* runs or as it is configured, has it any more.  (No other disk may have had it when
\* the dialog opened, and the disk must not be about to get another target at the
\* next start: it is not known to be the same disk then.)
DeletedImageIsUnused ==
    [][job # NoJob /\ machine'.images # machine.images /\ Call.do = "deleteStorage" /\ IsCurrent(job.d)
            /\ (\A list \in {job.d.vm.live, job.d.vm.inactive} : \A k \in DOMAIN list :
                    list[k].img = job.d.img => list[k].id = job.d.id)
        => \A list \in {LiveOf(machine), InactiveOf(machine)} :
                \A k \in DOMAIN list : list[k].img # job.d.img]_vars

\* What becomes of machine m when plan d is carried out without accidents.
Outcome(m, d) ==
    LET p == Plan(d)
        run[i \in 0 .. Len(p)] ==
            IF i = 0 THEN [ok |-> TRUE, m |-> m, at |-> 0]
            ELSE IF ~run[i - 1].ok THEN run[i - 1]
            ELSE LET a == Does(run[i - 1].m, p[i], d, <<>>) IN [ok |-> a.ok, m |-> a.m, at |-> i]
    IN  run[Len(p)]

\* Saving again, and once more when that fails.
Retried(m, d) ==
    LET first == Outcome(m, d)
        second == Outcome(first.m, AfterFailure(d, first.at))
    IN  IF first.ok THEN first ELSE second

\* Detaching a host device, ejecting a medium and adding a watchdog can be half
\* done: the dialog that has stayed open can finish, by its own means, what it has
\* begun (a watchdog that could not be hotplugged, at the next boot).  It must have
\* been opened for a machine that runs as it is configured.
CanBeRepeated ==
    dialog # NoDialog /\ job = NoJob /\ IsCurrent(dialog) /\ machine.persistent
            /\ machine.state # "paused" /\ dialog.vm.live = dialog.vm.inactive
            /\ \/ subject = "hostdev" /\ dialog.op = "remove"
               \/ dialog.op = "eject" /\ Has(machine.inactive, dialog.id)
               \/ subject = "watchdog" /\ dialog.op = "add"
        => LET r == Retried(machine, dialog)
           IN  /\ r.ok
               /\ Active(r.m) /\ subject # "watchdog" => Achieved(dialog, r.m.live)
               /\ Achieved(dialog, r.m.inactive)

\* vmNicsCard.tsx:534: "let's detach it by the index of <interface> in array of
\* VM's XML <devices>", which is the interface of that row; nobody has interfered.
OnlyTheChosenIsTouched ==
    [][job # NoJob /\ subject = "nic" /\ Undisturbed /\ machine' # machine /\ outside' = outside
        => SameOthers(InactiveOf(machine), InactiveOf(machine'), job.d)]_vars
=============================================================================
