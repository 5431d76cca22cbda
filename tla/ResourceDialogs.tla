-------------------------- MODULE ResourceDialogs ---------------------------
(* The buttons and dialogs of one storage pool and of one network           *)
(* (components/storagePools, components/networks, with libvirtApi/          *)
(* storagePool.ts, storageVolume.ts and network.ts), after the forms of     *)
(* ResourceForms have been filled in.  Each hands libvirt a plan of calls,  *)
(* which may fail half way.  libvirt says nothing of an autostart setting,  *)
(* a volume or a host entry that has changed, so the page must ask.  The    *)
(* reading itself is the subject of Resources, and one step here.           *)
EXTENDS ResourceForms

CONSTANTS
    MaxActs,        \* bound: buttons pressed
    MaxFails,       \* bound: calls that fail by accident
    MaxOutside,     \* bound: changes by others
    NoDialog, NoJob

VARIABLES
    object,     \* what libvirt holds
    usage,      \* volumes of the pool that machines use, by the pool's name or by path
    row,        \* the object as the page has read it
    rowUsage,   \* the usage that the page knows
    tab,        \* StoragePoolVolumesTab: its rows, and those that are selected
    dialog,     \* the open dialog of Dialogs.show, or NoDialog
    jobs,       \* plans under way
    made,       \* the path of the last object that was defined
    cleanup,    \* pools being undefined because setting them up has failed
    news,       \* the page will read the object
    behind,     \* for the properties: something has changed that nobody says
    disturbed,  \* for the properties: others, or another job, have acted beside a job
    surprise,   \* for the properties: volumes taken since the page has read the machines
    settled,    \* for the properties: pools whose creation is done, or which others
                \* have kept from being cleaned up
    acts, fails, outside    \* counters of the bounds

libvirt == <<object, made, usage>>
page == <<row, rowUsage, tab, dialog>>
history == <<behind, disturbed, surprise, settled>>
bounds == <<acts, fails, outside>>
vars == <<subject, formVars, libvirt, page, jobs, cleanup, news, history, bounds>>

Volumes == {1, 2}
Slots == {1, 2}     \* buttons of an open dialog can be pressed again
\* Entries for hosts, one for each family of the address element that has them.
Hosts == {4, 6}
FamilyOf(h) == IF h = 4 THEN "ipv4" ELSE "ipv6"

States == {"gone", "inactive", "active"}
Object == [id : Nat, state : States, persistent : BOOLEAN, autostart : BOOLEAN, volumes : SUBSET Volumes,
           live : SUBSET Hosts, config : SUBSET Hosts, families : Seq(Families)]
Row == [id : Nat, state : States, persistent : BOOLEAN, autostart : BOOLEAN, volumes : SUBSET Volumes,
        hosts : SUBSET Hosts, families : Seq(Families)]
Usage == [byPool : SUBSET Volumes, byPath : SUBSET Volumes]

VolumeOps == {"createVolume", "deleteVolumes"}
HostOps == {"addHost", "removeHost"}
Ops == {"create", "activate", "deactivate", "delete", "autostart"} \cup VolumeOps \cup HostOps

\* What was opened or pressed, and what was chosen there: volumes or hosts.
Dialog == {d \in [op : Ops, nr : Nat, id : Nat, row : Row, usage : Usage, all : BOOLEAN,
                  chosen : SUBSET (Volumes \cup Hosts)] :
             /\ d.op \in VolumeOps => d.chosen \subseteq Volumes
             /\ d.op \in HostOps => d.chosen \subseteq Hosts}
Job == [d : Dialog, volumes : SUBSET Volumes, step : Nat \ {0}, failed : BOOLEAN, new : Nat]

ASSUME ResourceDialogsAssumption ==
    /\ MaxActs \in Nat /\ MaxFails \in Nat /\ MaxOutside \in Nat
    /\ NoJob \notin Job

TypeOK ==
    /\ FormTypeOK
    /\ object \in Object /\ made \in Nat /\ usage \in Usage
    /\ row \in Row /\ rowUsage \in Usage
    /\ tab \in [rows : SUBSET Volumes, selected : SUBSET Volumes]
    /\ dialog \in Dialog \cup {NoDialog}
    /\ jobs \in [Slots -> Job \cup {NoJob}]
    /\ cleanup \subseteq Nat /\ settled \subseteq Nat /\ surprise \subseteq Volumes
    /\ news \in BOOLEAN /\ behind \in BOOLEAN /\ disturbed \in BOOLEAN
    /\ acts \in 0..MaxActs /\ fails \in 0..MaxFails /\ outside \in 0..MaxOutside

Gone == [id |-> 0, state |-> "gone", persistent |-> FALSE, autostart |-> FALSE, volumes |-> {},
         live |-> {}, config |-> {}, families |-> <<>>]
Active(o) == o.state = "active"

\* What a reading shows: volumes of active pools, and the entries that the running
\* network has if it runs.
View(o) ==
    [id |-> o.id, state |-> o.state, persistent |-> o.persistent, autostart |-> o.autostart,
     volumes |-> IF Active(o) THEN o.volumes ELSE {}, hosts |-> IF Active(o) THEN o.live ELSE o.config,
     families |-> o.families]

NoUsage == [byPool |-> {}, byPath |-> {}]
Used(u) == u.byPool \cup u.byPath

-----------------------------------------------------------------------------
(* What the buttons do.  d.row and d.usage are what the page showed when    *)
(* the dialog opened.  The first part of a plan deletes volumes at once.    *)

Plan(volumes, calls) == [volumes |-> volumes, calls |-> calls]
NoVolumes(calls) == Plan({}, calls)

storagePoolCreate(d) == NoVolumes(<<"define", "autostart">>)
networkCreate(d) == NoVolumes(<<"define">>)
StoragePoolActivate(d) == NoVolumes(<<"start">>)
StoragePoolDeactivate(d) == NoVolumes(<<"stop">>)

deactivateAndUndefine(d) == IF Active(d.row) THEN <<"stop", "undefine">> ELSE <<"undefine">>

StoragePoolDeletePlan(d) == Plan(IF d.all THEN d.row.volumes ELSE {}, deactivateAndUndefine(d))
networkDeletePlan(d) == NoVolumes(deactivateAndUndefine(d))

storageVolumeCreate(d) == NoVolumes(<<"createVolume", "refresh">>)

\* Faulty: relies on a signal, which libvirt does not send for volumes.
storageVolumeListDeleteUnread(d) == Plan(d.chosen, <<>>)

\* The pool is read again once all are deleted.
storageVolumeListDelete(d) == Plan(d.chosen, <<"refresh">>)

\* Lookup by name; then a reading of the object, by its path.
networkChangeAutostart(d) == NoVolumes(<<"setAutostart", "read">>)
StaticHostEntries(d) == NoVolumes(<<"updateHosts", "read">>)

PlanOf(d) ==
    CASE d.op = "create" -> IF subject = "pool" THEN storagePoolCreate(d) ELSE networkCreate(d)
      [] d.op = "activate" -> StoragePoolActivate(d)
      [] d.op = "deactivate" -> StoragePoolDeactivate(d)
      [] d.op = "delete" -> IF subject = "pool" THEN StoragePoolDeletePlan(d) ELSE networkDeletePlan(d)
      [] d.op = "createVolume" -> storageVolumeCreate(d)
      [] d.op = "deleteVolumes" -> storageVolumeListDelete(d)
      [] d.op = "autostart" -> networkChangeAutostart(d)
      [] d.op \in {"addHost", "removeHost"} -> StaticHostEntries(d)

-----------------------------------------------------------------------------
(* libvirt.  A call gives [ok, o]; most calls are about the object of the   *)
(* path that the page knows, those with a name about whichever has it.      *)

Stopped(o) == IF o.persistent THEN [o EXCEPT !.state = "inactive", !.live = {}] ELSE Gone

\* A network that runs goes on without its configuration.
Undefined(o) ==
    IF Active(o) THEN [o EXCEPT !.persistent = FALSE, !.autostart = FALSE, !.config = {}] ELSE Gone

\* Faulty: the running network only.
UpdateFlagsLive(d) == IF Active(d.row) THEN {"live"} ELSE {"config"}

UpdateFlags(d) == {"config"} \cup (IF Active(d.row) THEN {"live"} ELSE {})

\* The page counts address elements as if IPv4 was first and IPv6 second.
parentIndex(h) == IF FamilyOf(h) = "ipv4" THEN 1 ELSE 2
IsElementOf(o, h) == parentIndex(h) \in DOMAIN o.families /\ o.families[parentIndex(h)] = FamilyOf(h)

\* Entries are changed in all that the flags say, or in none.
UpdateHosts(o, d) ==
    LET adds == d.op = "addHost"
        change(hosts) == IF adds THEN hosts \cup d.chosen ELSE hosts \ d.chosen
        fits(hosts) == IF adds THEN d.chosen \cap hosts = {} ELSE d.chosen \subseteq hosts
        flags == UpdateFlags(d)
    IN  [ok |-> /\ \A h \in d.chosen : IsElementOf(o, h)
                /\ "config" \in flags => o.persistent /\ fits(o.config)
                /\ "live" \in flags => Active(o) /\ fits(o.live),
         o |-> [o EXCEPT !.config = IF "config" \in flags THEN change(@) ELSE @,
                         !.live = IF "live" \in flags THEN change(@) ELSE @]]

ByName == {"define", "createVolume", "setAutostart"}

\* A new object has another path than any before.
Answer(o, call, d, id) ==
    IF call = "define"
    THEN [ok |-> o.state = "gone",
          o |-> [Gone EXCEPT !.id = made + 1, !.state = "inactive", !.persistent = TRUE, !.families = <<"ipv4">>]]
    ELSE IF call = "read" THEN [ok |-> TRUE, o |-> o]
    ELSE IF o.state = "gone" \/ (call \notin ByName /\ o.id # id) THEN [ok |-> FALSE, o |-> o]
    ELSE CASE call \in {"autostart", "setAutostart"} ->
                [ok |-> o.persistent, o |-> [o EXCEPT !.autostart = d.all]]
           [] call = "start" -> [ok |-> ~Active(o), o |-> [o EXCEPT !.state = "active", !.live = o.config]]
           [] call = "stop" -> [ok |-> Active(o), o |-> Stopped(o)]
           [] call = "undefine" ->
                [ok |-> o.persistent /\ (subject = "network" \/ ~Active(o)), o |-> Undefined(o)]
           [] call = "refresh" -> [ok |-> Active(o), o |-> o]
           [] call = "createVolume" ->
                [ok |-> Active(o) /\ d.chosen \cap o.volumes = {}, o |-> [o EXCEPT !.volumes = @ \cup d.chosen]]
           [] call = "updateHosts" -> UpdateHosts(o, d)

\* The calls after which libvirt sends a signal, and the readings of what is there.
BringsNews(call, d) ==
    call \in {"define", "start", "stop", "undefine", "refresh"} \/ (call = "read" /\ object.id = d.id)

-----------------------------------------------------------------------------
(* The page.                                                               *)

NewDialog(op) ==
    [op |-> op, nr |-> acts + 1, id |-> row.id, row |-> row, usage |-> rowUsage, all |-> FALSE, chosen |-> {}]

\* Faulty: volumes that are used by path are not looked for.
canDeleteOnlyWithoutVolumesNever(d) == FALSE

\* A volume of the pool is used by path: the pool may go, but not its volumes.
canDeleteOnlyWithoutVolumes(d) == d.usage.byPool = {} /\ d.row.volumes \cap Used(d.usage) # {}

\* No machine may use a volume through the pool.
canDelete == rowUsage.byPool = {}

isListed == row.state # "gone"

CreateDialog == {[NewDialog("create") EXCEPT !.all = a] : a \in BOOLEAN}

StoragePoolDelete ==
    IF isListed /\ canDelete /\ row.persistent
    THEN {[NewDialog("delete") EXCEPT !.all = a] : a \in {FALSE} \cup {row.volumes # {}}}
    ELSE {}

\* Not for pools of some types; the form is that of ResourceForms.
StorageVolumeCreate ==
    IF Active(row) THEN {[NewDialog("createVolume") EXCEPT !.chosen = {v}] : v \in Volumes} ELSE {}

\* An inline button: nothing opens.  A row that is selected must be known still, or
\* the tab cannot be drawn.
StorageVolumeDelete ==
    IF tab.selected # {} /\ tab.selected \subseteq row.volumes /\ tab.selected \cap Used(rowUsage) = {}
    THEN {[NewDialog("deleteVolumes") EXCEPT !.chosen = tab.selected]}
    ELSE {}

Switches ==
    IF ~isListed THEN {} ELSE {NewDialog(IF Active(row) THEN "deactivate" ELSE "activate")}

NetworkActions ==
    IF isListed /\ row.persistent THEN {NewDialog("delete")} ELSE {}

networkAutostart ==
    IF isListed /\ row.persistent THEN {[NewDialog("autostart") EXCEPT !.all = ~row.autostart]} ELSE {}

\* Entries are added to IPv4 only, and removed from both.
NetworkAddStaticHostEntries ==
    {[NewDialog("addHost") EXCEPT !.chosen = {h}] :
        h \in {x \in Hosts : FamilyOf(x) = "ipv4" /\ "ipv4" \in {row.families[i] : i \in DOMAIN row.families}}}
DHCPHost ==
    IF isListed THEN {[NewDialog("removeHost") EXCEPT !.chosen = {h}] : h \in row.hosts} ELSE {}

Dialogs ==
    CASE subject = "pool" -> CreateDialog \cup StoragePoolDelete \cup StorageVolumeCreate
      [] subject = "network" -> CreateDialog \cup NetworkActions \cup NetworkAddStaticHostEntries \cup DHCPHost
      [] OTHER -> {}

Buttons ==
    CASE subject = "pool" -> Switches \cup StorageVolumeDelete
      [] subject = "network" -> Switches \cup networkAutostart
      [] OTHER -> {}

\* Shown only while there is no other dialog; a bound counts what is opened or pressed.
Open ==
    /\ dialog = NoDialog /\ acts < MaxActs /\ acts' = acts + 1
    /\ \E d \in Dialogs : dialog' = d
    /\ UNCHANGED <<subject, formVars, libvirt, row, rowUsage, tab, jobs, cleanup, news, history, fails, outside>>

Cancel ==
    /\ dialog # NoDialog /\ dialog' = NoDialog
    /\ UNCHANGED <<subject, formVars, libvirt, row, rowUsage, tab, jobs, cleanup, news, history, bounds>>

Running(d) == \E s \in Slots : jobs[s] # NoJob /\ jobs[s].d = d

\* The buttons that are on while their plan is under way.
StaysEnabled(d) == d.op \in {"deleteVolumes", "autostart", "addHost"} \/ (subject = "pool" /\ d.op = "delete")

Begin(d) ==
    \E s \in Slots :
        /\ jobs[s] = NoJob /\ \A r \in Slots : r < s => jobs[r] # NoJob
        /\ jobs' = [jobs EXCEPT ![s] = [d |-> d, volumes |-> PlanOf(d).volumes, step |-> 1, failed |-> FALSE, new |-> 0]]
        /\ disturbed' = (d.row # View(object) \/ \E r \in Slots : jobs[r] # NoJob)

Save ==
    /\ dialog # NoDialog
    /\ StaysEnabled(dialog) \/ ~Running(dialog)
    /\ subject = "pool" /\ dialog.op = "delete" => ~(canDeleteOnlyWithoutVolumes(dialog) /\ dialog.all)
    /\ Begin(dialog)
    /\ UNCHANGED <<subject, formVars, libvirt, page, cleanup, news, behind, surprise, settled, bounds>>

\* Activate and Deactivate are off while they are under way.
Press ==
    /\ dialog = NoDialog /\ acts < MaxActs /\ acts' = acts + 1
    /\ \E d \in Buttons :
        /\ StaysEnabled(d) \/ \A s \in Slots : jobs[s] # NoJob => jobs[s].d.op \notin {"activate", "deactivate"}
        /\ Begin(d)
    /\ UNCHANGED <<subject, formVars, libvirt, page, cleanup, news, behind, surprise, settled, fails, outside>>

onSelect ==
    /\ dialog = NoDialog
    /\ \E v \in tab.rows : tab' = [tab EXCEPT !.selected = IF v \in @ THEN @ \ {v} ELSE @ \cup {v}]
    /\ UNCHANGED <<subject, formVars, libvirt, row, rowUsage, dialog, jobs, cleanup, news, history, bounds>>

\* A tab keeps its rows while their number stays, and their selection with them.
getDerivedStateFromProps(r) ==
    IF r.state = "gone" \/ Cardinality(r.volumes) # Cardinality(tab.rows)
    THEN [rows |-> r.volumes, selected |-> {}] ELSE tab

\* storagePoolGet, networkGet.
Reads ==
    /\ news
    /\ news' = FALSE /\ behind' = FALSE
    /\ row' = View(object)
    /\ tab' = getDerivedStateFromProps(View(object))
    /\ UNCHANGED <<subject, formVars, libvirt, rowUsage, dialog, jobs, cleanup, disturbed, surprise, settled, bounds>>

VmsAreRead ==
    /\ rowUsage # usage /\ rowUsage' = usage
    /\ surprise' = IF dialog = NoDialog /\ \A s \in Slots : jobs[s] = NoJob THEN {} ELSE surprise
    /\ UNCHANGED <<subject, formVars, libvirt, row, tab, dialog, jobs, cleanup, news, behind, disturbed, settled, bounds>>

-----------------------------------------------------------------------------
(* Jobs.                                                                   *)

Shows(j) == dialog # NoDialog /\ dialog = j.d

\* The error is shown at once; other deletions go on.
FailedJob(j, volumes) == IF volumes = {} THEN NoJob ELSE [j EXCEPT !.failed = TRUE, !.volumes = volumes]

\* Deletion is by the names of the pool and of the volume.
VolumeIsDeleted ==
    \E s \in Slots : jobs[s] # NoJob /\ \E v \in jobs[s].volumes :
        LET ok == Active(object) /\ v \in object.volumes
            rest == jobs[s].volumes \ {v}
        IN  /\ object' = IF ok THEN [object EXCEPT !.volumes = @ \ {v}] ELSE object
            /\ jobs' = [jobs EXCEPT ![s] = IF ok /\ ~@.failed THEN [@ EXCEPT !.volumes = rest] ELSE FailedJob(@, rest)]
            /\ behind' = (behind \/ ~ok \/ jobs[s].failed)
            /\ UNCHANGED <<subject, formVars, made, usage, page, cleanup, news, disturbed, surprise, settled, bounds>>

VolumeIsNotDeleted ==
    \E s \in Slots : jobs[s] # NoJob /\ \E v \in jobs[s].volumes :
        /\ fails < MaxFails /\ fails' = fails + 1
        /\ jobs' = [jobs EXCEPT ![s] = FailedJob(@, @.volumes \ {v})]
        /\ behind' = TRUE
        /\ UNCHANGED <<subject, formVars, libvirt, page, cleanup, news, disturbed, surprise, settled, acts, outside>>

Calls(j) == PlanOf(j.d).calls
IsDone(j) == j.volumes = {} /\ ~j.failed /\ j.step > Len(Calls(j))
IsCalling(j) == j.volumes = {} /\ ~j.failed /\ j.step <= Len(Calls(j))

\* Faulty: what was defined stays when its settings cannot be made.
CleanupNever(j) == {}

CleanupOf(j) == IF subject = "pool" /\ j.new # 0 THEN {j.new} ELSE {}

CallReturns ==
    \E s \in Slots : jobs[s] # NoJob /\ IsCalling(jobs[s]) /\
        LET j == jobs[s]
            call == Calls(j)[j.step]
            a == Answer(object, call, j.d, IF j.new = 0 THEN j.d.id ELSE j.new)
        IN  /\ IF a.ok
               THEN /\ object' = a.o
                    /\ jobs' = [jobs EXCEPT ![s] = [j EXCEPT !.step = @ + 1, !.new = IF call = "define" THEN made + 1 ELSE @]]
                    /\ made' = IF call = "define" THEN made + 1 ELSE made
                    /\ news' = (news \/ BringsNews(call, j.d))
                    /\ behind' = (behind \/ (call = "read" /\ object.id # j.d.id))
                    /\ UNCHANGED cleanup
               ELSE /\ jobs' = [jobs EXCEPT ![s] = NoJob]
                    /\ cleanup' = cleanup \cup CleanupOf(j)
                    /\ behind' = TRUE
                    /\ UNCHANGED <<object, made, news>>
            /\ UNCHANGED <<subject, formVars, usage, page, disturbed, surprise, settled, bounds>>

CallFails ==
    \E s \in Slots : jobs[s] # NoJob /\ IsCalling(jobs[s]) /\
        /\ fails < MaxFails /\ fails' = fails + 1
        /\ jobs' = [jobs EXCEPT ![s] = NoJob]
        /\ cleanup' = cleanup \cup CleanupOf(jobs[s])
        /\ behind' = TRUE
        /\ UNCHANGED <<subject, formVars, libvirt, page, news, disturbed, surprise, settled, acts, outside>>

\* Nobody waits for this call, or looks at its failure.
storagePoolUndefine ==
    \E id \in cleanup :
        /\ cleanup' = cleanup \ {id}
        /\ LET ok == object.id = id /\ object.state = "inactive"
           IN  /\ object' = IF ok THEN Gone ELSE object
               /\ news' = (news \/ ok)
               /\ settled' = IF ok THEN settled ELSE settled \cup {id}
        /\ UNCHANGED <<subject, formVars, made, usage, page, jobs, behind, disturbed, surprise, bounds>>

\* Dialogs.close() closes whichever dialog is open, inline buttons close none, and
\* the dialog for entries only closes one of its kind.
Closes(d) ==
    CASE d.op \in {"activate", "deactivate", "deleteVolumes", "autostart"} -> FALSE
      [] d.op = "addHost" -> dialog # NoDialog /\ dialog.op = "addHost"
      [] OTHER -> TRUE

Finish ==
    \E s \in Slots :
        /\ jobs[s] # NoJob /\ IsDone(jobs[s])
        /\ jobs' = [jobs EXCEPT ![s] = NoJob]
        /\ dialog' = IF Closes(jobs[s].d) THEN NoDialog ELSE dialog
        /\ settled' = IF jobs[s].d.op = "create" THEN settled \cup {jobs[s].new} ELSE settled
        /\ UNCHANGED <<subject, formVars, libvirt, row, rowUsage, tab, cleanup, news, behind, disturbed, surprise, bounds>>

-----------------------------------------------------------------------------
(* Others.                                                                 *)

Moved ==
    CASE object.state = "active" -> {Stopped(object)}
      [] object.state = "inactive" -> {[object EXCEPT !.state = "active", !.live = object.config], Gone}
      [] object.state = "gone" -> {}

\* libvirt says nothing of these.
ChangedQuietly ==
    IF object.state = "gone" THEN {}
    ELSE IF subject = "pool"
    THEN {[object EXCEPT !.volumes = IF v \in @ THEN @ \ {v} ELSE @ \cup {v}] : v \in Volumes \ Used(usage)}
    ELSE {[object EXCEPT !.config = {h}, !.live = IF Active(object) THEN {h} ELSE @] :
            h \in {x \in Hosts : \E i \in DOMAIN object.families : object.families[i] = FamilyOf(x)}}

OthersChange ==
    /\ subject \notin Forms
    /\ outside < MaxOutside /\ outside' = outside + 1
    /\ disturbed' = TRUE
    /\ \/ object' \in Moved /\ news' = TRUE /\ UNCHANGED behind
       \/ object' \in ChangedQuietly /\ behind' = TRUE /\ UNCHANGED news
    /\ UNCHANGED <<subject, formVars, made, usage, page, jobs, cleanup, surprise, settled, acts, fails>>

\* A machine gets a disk, or loses one.
VolumeIsTaken ==
    /\ subject = "pool" /\ outside < MaxOutside /\ outside' = outside + 1
    /\ \E v \in object.volumes \ Used(usage) :
        /\ usage' \in {[usage EXCEPT !.byPool = @ \cup {v}], [usage EXCEPT !.byPath = @ \cup {v}]}
        /\ surprise' = surprise \cup {v}
    /\ UNCHANGED <<subject, formVars, object, made, page, jobs, cleanup, news, behind, disturbed, settled, acts, fails>>

-----------------------------------------------------------------------------
Layouts == {<<"ipv4">>, <<"ipv6">>, <<"ipv4", "ipv6">>}

Objects ==
    IF subject \in Forms THEN {Gone}
    ELSE {Gone} \cup
         {o \in {[id |-> 1, state |-> st, persistent |-> p, autostart |-> FALSE, volumes |-> v,
                  live |-> IF st = "active" THEN h ELSE {}, config |-> IF p THEN h ELSE {},
                  families |-> layout] :
                    st \in {"active", "inactive"}, p \in BOOLEAN,
                    v \in IF subject = "pool" THEN SUBSET Volumes ELSE {{}},
                    h \in IF subject = "network" THEN SUBSET Hosts ELSE {{}},
                    layout \in IF subject = "network" THEN Layouts ELSE {<<>>}} :
            /\ o.persistent \/ Active(o)
            /\ \A h \in o.live \cup o.config : \E i \in DOMAIN o.families : o.families[i] = FamilyOf(h)}

\* Everything is read.
Init ==
    /\ subject \in Subjects
    /\ FormInit
    /\ object \in Objects
    /\ usage \in {NoUsage} \cup {[byPool |-> {}, byPath |-> {v}] : v \in object.volumes}
    /\ made = 1
    /\ row = View(object) /\ rowUsage = usage
    /\ tab = [rows |-> View(object).volumes, selected |-> {}]
    /\ dialog = NoDialog /\ jobs = [s \in Slots |-> NoJob] /\ cleanup = {}
    /\ news = FALSE /\ behind = FALSE /\ disturbed = FALSE /\ surprise = {} /\ settled = {1}
    /\ acts = 0 /\ fails = 0 /\ outside = 0

Fills ==
    /\ FormNext
    /\ UNCHANGED <<libvirt, page, jobs, cleanup, news, history, bounds>>

Next == Fills \/ Open \/ Cancel \/ Save \/ Press \/ onSelect \/ Reads \/ VmsAreRead
        \/ VolumeIsDeleted \/ VolumeIsNotDeleted \/ CallReturns \/ CallFails
        \/ storagePoolUndefine \/ Finish \/ OthersChange \/ VolumeIsTaken

Spec == Init /\ [][Next]_vars

-----------------------------------------------------------------------------
(* Properties.                                                             *)

IsSo(d) ==
    CASE d.op = "create" -> object.id = made /\ object.persistent /\ (subject = "pool" => object.autostart = d.all)
      [] d.op = "activate" -> Active(object)
      [] d.op = "deactivate" -> ~Active(object)
      [] d.op = "delete" -> object.state = "gone"
      [] d.op = "createVolume" -> d.chosen \subseteq object.volumes
      [] d.op = "deleteVolumes" -> d.chosen \cap object.volumes = {}
      [] d.op = "autostart" -> object.autostart = d.all
      [] d.op = "addHost" -> d.chosen \subseteq object.config /\ (Active(object) => d.chosen \subseteq object.live)
      [] d.op = "removeHost" -> d.chosen \cap (object.config \cup object.live) = {}

\* A dialog or button that reports success has done what it says, unless others or
\* another job of the page have acted meanwhile or what it showed was outdated: in
\* particular, an entry for a host is added and removed both in the running network
\* and for its next start (network.ts:186).
DoneIsSo ==
    [][\A s \in Slots : jobs[s] # NoJob /\ IsDone(jobs[s]) /\ jobs'[s] = NoJob /\ ~disturbed
            => IsSo(jobs[s].d)]_vars

\* storagePool.ts:59: a pool whose settings cannot be made does not stay; only
\* others can keep it, by starting it first.
NothingHalfMade ==
    subject = "pool" /\ object.state # "gone"
        => \/ object.id \in settled \cup cleanup
           \/ \E s \in Slots : jobs[s] # NoJob /\ jobs[s].new = object.id

\* The page deletes no volume that a machine uses, whether by the pool or by path,
\* unless the machine has got it after the page has last read the machines with no
\* dialog open (storagePoolDelete.tsx:41, storageVolumeDelete.tsx:51).
UsedVolumesStay ==
    [][object'.state # "gone" /\ outside' = outside
        => (object.volumes \ object'.volumes) \cap Used(usage) \subseteq surprise]_vars

\* When nothing is under way, the page shows the object as it is, although libvirt
\* sends no signal for volumes, entries and settings: whoever changes them asks for a
\* reading.  Left out are quiet changes by others, what a job that has failed had
\* already changed, a network that was replaced by one of its name before its switch
\* was used (the switch works by name, its reading by path), and whether a pool that was
\* made here starts with the host.
ListIsCurrent ==
    (\A s \in Slots : jobs[s] = NoJob) /\ ~news /\ ~behind
        => row = [View(object) EXCEPT !.autostart = IF subject = "pool" THEN row.autostart ELSE @]
=============================================================================
