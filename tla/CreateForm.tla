----------------------------- MODULE CreateForm -----------------------------
(* The dialog that creates or imports a machine (create-vm-dialog/          *)
(* createVmDialog.tsx): its fields and what depends on what, the detection  *)
(* of the operating system of an installation source, the tokens of Red Hat *)
(* images, and the parameters that the Create buttons hand over.  Sizes are *)
(* numbers of one unit; the unit of a field only changes how it is shown.   *)
EXTENDS Integers, Sequences, FiniteSets

CONSTANTS
    Tokens,         \* offline tokens that the user may have; 0 is none
    Capacity,       \* memory of the host
    MaxEdits,       \* bound: what the user enters
    MaxChecks,      \* bound: answers about sources and tokens that are not "yes"
    NoMachine       \* nothing is created yet

ASSUME CreateFormAssumption ==
    /\ Tokens \subseteq Nat \ {0}
    /\ Capacity \in Nat \ {0, 1} /\ MaxEdits \in Nat /\ MaxChecks \in Nat

VARIABLES
    form,       \* CreateVmModal.state
    detection,  \* due: the source whose detection waits for the user to pause;
                \* running: the sources that osinfo-detect looks at
    token,      \* OfflineTokenRow: whether it is locked, what is saved, the check that
                \* is due, the checks under way
    known,      \* the machines on the page, <<connection, name>>
    created,    \* what was handed over, or NoMachine
    osFrom,     \* for the properties: the source that the operating system was detected
                \* from, or "user"
    asked,      \* for the properties: the last source handed to osinfo-detect
    edits, misses       \* counters of the bounds

formVars == <<form, detection, token, known, created, osFrom, asked, edits, misses>>

Connections == {"system", "session"}
Paths == {"/a.iso", "/b.iso", "/tree"}
Addresses == {"http://a"}
NoSource == "none"
Systems == {"rhel", "other"}
NoSystem == "none"
Names == <<"os", "os-B">>
NoName == ""

\* osinfo-detect: what is recognised.
osinfoDetect(source) ==
    CASE source = "/a.iso" -> "rhel" [] source \in {"/b.iso", "http://a"} -> "other" [] OTHER -> NoSystem

needsRHToken(os) == os = "rhel"
isUnattendedInstallable(os) == os = "rhel"
minimumMemory(os) == IF os = "rhel" THEN 2 ELSE 1

\* Pools are those of the connection that have volumes; the other choices make a
\* new volume, or none.
PoolsOf(connection) == IF connection = "system" THEN {"images"} ELSE {"home"}
VolumesOf(pool) == CASE pool = "images" -> <<"v1", "v2">> [] pool = "home" -> <<"v3">>
IsPool(choice) == choice \in {"images", "home"}

\* The first suggestion that is free, NoName when there is none.
getVmName(connection) ==
    LET free == {i \in DOMAIN Names : <<connection, Names[i]>> \notin known}
    IN  IF free = {} THEN NoName ELSE Names[CHOOSE i \in free : \A j \in free : i <= j]

-----------------------------------------------------------------------------
(* The form.                                                               *)

shown(f) ==
    [unattended |-> f.type = "os" /\ isUnattendedInstallable(f.os),
     cloudInit |-> f.type = "cloud",
     token |-> f.type = "os" /\ needsRHToken(f.os)]

ToForm ==
    {[connection |-> "system", type |-> t, source |-> NoSource, os |-> NoSystem,
      name |-> NoName, suggested |-> NoName, offline |-> 0, access |-> 0,
      pool |-> "new", volume |-> "none", storage |-> 1, memory |-> 1, users |-> {},
      validate |-> FALSE] : t \in {"os", "file", "disk_image"}}

FormInit ==
    /\ form \in ToForm
    /\ detection = [due |-> NoSource, running |-> {}]
    /\ token \in [locked : {FALSE}, mounted : {FALSE}, saved : Tokens \cup {0}, due : {0}, checks : {{}}]
    /\ known \in {{}, {<<"system", "os">>}}
    /\ created = NoMachine
    /\ osFrom = "user" /\ asked = NoSource
    /\ edits = 0 /\ misses = 0

\* The token row is there while its system is chosen; each time it appears it loads
\* the token that was saved.
RowOf(f, t) ==
    IF shown(f).token /\ ~t.mounted
    THEN [t EXCEPT !.mounted = TRUE, !.locked = t.saved # 0,
                   !.checks = IF t.saved # 0 THEN @ \cup {[token |-> t.saved, by |-> "load"]} ELSE @]
    ELSE [t EXCEPT !.mounted = shown(f).token, !.locked = @ /\ shown(f).token]

\* The row that appears with a form that needs it enters the saved token.
WithToken(f) ==
    IF shown(f).token /\ ~token.mounted /\ token.saved # 0 THEN [f EXCEPT !.offline = token.saved] ELSE f

IsOpen == created = NoMachine

Becomes(f) ==
    /\ form' = WithToken(f)
    /\ token' = RowOf(f, token)

UserEnters ==
    /\ IsOpen /\ edits < MaxEdits
    /\ edits' = edits + 1
    /\ UNCHANGED <<known, created, asked, misses>>

ChooseType(f, type) ==
    LET g == [f EXCEPT !.type = type]
    IN  CASE type = "pxe" -> {[g EXCEPT !.source = s] : s \in {"network", NoSource}}
          [] type # "pxe" /\ f.type = "pxe" -> {[g EXCEPT !.source = NoSource]}
          [] OTHER -> {g}

sourceTypes(f) ==
    IF f.type = "disk_image" THEN {}
    ELSE {"os", "cloud", "file", "url"} \cup (IF f.connection = "system" THEN {"pxe"} ELSE {})

onSourceType ==
    /\ UserEnters
    /\ \E t \in sourceTypes(form) \ {form.type} : \E f \in ChooseType(form, t) : Becomes(f)
    /\ UNCHANGED <<detection, osFrom>>

\* Faulty: the pool of the other connection stays.
onConnectionKeepingPool(f, c) ==
    {[g EXCEPT !.connection = c, !.suggested = IF f.os # NoSystem THEN getVmName(c) ELSE @] :
        g \in IF f.type = "pxe" /\ c = "session" THEN ChooseType(f, "file") ELSE {f}}

\* There is no PXE for session connections, and pools belong to one connection.
onConnectionName(f, c) ==
    {[g EXCEPT !.connection = c, !.pool = IF IsPool(@) THEN "new" ELSE @,
               !.suggested = IF f.os # NoSystem THEN getVmName(c) ELSE @] :
        g \in IF f.type = "pxe" /\ c = "session" THEN ChooseType(f, "file") ELSE {f}}

ChooseConnection ==
    /\ UserEnters
    /\ \E c \in Connections \ {form.connection} : \E f \in onConnectionName(form, c) : Becomes(f)
    /\ UNCHANGED <<detection, osFrom>>

\* Installation media are looked at when the user pauses.
onSource ==
    /\ UserEnters
    /\ form.type # "os"
    /\ \E s \in IF form.type = "pxe" THEN {"network"} ELSE Paths \cup Addresses :
        /\ s # form.source
        /\ Becomes([form EXCEPT !.source = s])
        /\ detection' = IF form.type \in {"url", "file"} THEN [detection EXCEPT !.due = s] ELSE detection
    /\ UNCHANGED osFrom

\* A system brings the memory it needs, and a name for the machine.
WithSystem(f, os) ==
    [f EXCEPT !.os = os, !.memory = minimumMemory(os), !.storage = 1,
              !.suggested = IF os = NoSystem THEN NoName ELSE getVmName(f.connection)]

\* Locked while a source is looked at, except the list of systems to download.
onSystem ==
    /\ UserEnters
    /\ form.type = "os" \/ detection.running = {}
    /\ \E os \in (Systems \cup {NoSystem}) \ {form.os} : Becomes(WithSystem(form, os))
    /\ osFrom' = "user"
    /\ UNCHANGED detection

onStoragePool(f, choice) ==
    [f EXCEPT !.pool = choice, !.volume = IF IsPool(choice) THEN VolumesOf(choice)[1] ELSE "none"]

EnterStorage ==
    /\ UserEnters
    /\ form.type # "disk_image"
    /\ \/ \E p \in {"new"} \cup PoolsOf(form.connection) \cup (IF form.type = "cloud" THEN {} ELSE {"NoStorage"}) :
            Becomes(onStoragePool(form, p))
       \/ IsPool(form.pool) /\ \E i \in DOMAIN VolumesOf(form.pool) : Becomes([form EXCEPT !.volume = VolumesOf(form.pool)[i]])
       \/ form.pool = "new" /\ \E n \in {0, 1} : Becomes([form EXCEPT !.storage = n])
    /\ UNCHANGED <<detection, osFrom>>

EnterMemory ==
    /\ UserEnters
    /\ \E n \in {0, Capacity, Capacity + 1} : Becomes([form EXCEPT !.memory = n])
    /\ UNCHANGED <<detection, osFrom>>

EnterName ==
    /\ UserEnters
    /\ \E n \in {NoName, Names[1], "own"} : Becomes([form EXCEPT !.name = n])
    /\ UNCHANGED <<detection, osFrom>>

\* Passwords and keys are asked for by some rows, and stay when the row goes.
userFields(f) ==
    (IF shown(f).unattended \/ shown(f).cloudInit THEN {"rootPassword", "login", "password"} ELSE {})
    \cup (IF shown(f).cloudInit THEN {"keys"} ELSE {})

EnterUsers ==
    /\ UserEnters
    /\ \E u \in userFields(form) :
        Becomes([form EXCEPT !.users = IF u \in @ THEN @ \ {u} ELSE @ \cup {u}])
    /\ UNCHANGED <<detection, osFrom>>

-----------------------------------------------------------------------------
(* The operating system of the source.                                     *)

\* Faulty: an older detection goes on.
StartedBeside(running, source) == running \cup {source}

\* An older detection is cancelled.
Started(running, source) == {source}

onOsAutodetect ==
    /\ IsOpen /\ detection.due # NoSource
    /\ detection' = [due |-> NoSource, running |-> Started(detection.running, detection.due)]
    /\ asked' = detection.due
    /\ UNCHANGED <<form, token, known, created, osFrom, edits, misses>>

\* Whatever has become of the form meanwhile.
DetectionReturns ==
    \E s \in detection.running :
        /\ IsOpen
        /\ detection' = [detection EXCEPT !.running = @ \ {s}]
        /\ IF osinfoDetect(s) # NoSystem
           THEN Becomes(WithSystem(form, osinfoDetect(s))) /\ osFrom' = s
           ELSE UNCHANGED <<form, token>> /\ osFrom' = "user"
        /\ UNCHANGED <<known, created, asked, edits, misses>>

DetectionFails ==
    \E s \in detection.running :
        /\ IsOpen /\ misses < MaxChecks /\ misses' = misses + 1
        /\ detection' = [detection EXCEPT !.running = @ \ {s}]
        /\ osFrom' = "user"
        /\ UNCHANGED <<form, token, known, created, asked, edits>>

-----------------------------------------------------------------------------
(* Tokens: an offline token is exchanged for an access token.              *)

\* Only the last one that was typed is checked, when the user pauses.
setOfflineTokenHelper ==
    /\ UserEnters
    /\ shown(form).token /\ ~token.locked
    /\ \E t \in (Tokens \cup {0}) \ {form.offline} :
        /\ form' = [form EXCEPT !.offline = t, !.access = 0]
        /\ token' = IF t = 0 THEN token ELSE [token EXCEPT !.due = t]
    /\ UNCHANGED <<detection, osFrom>>

getAccessTokenDebounce ==
    /\ IsOpen /\ token.due # 0
    /\ token' = [token EXCEPT !.due = 0, !.checks = @ \cup {[token |-> token.due, by |-> "entry"]}]
    /\ UNCHANGED <<form, detection, known, created, osFrom, asked, edits, misses>>

\* Whatever is in the row meanwhile.
AccessIsGranted ==
    \E c \in token.checks :
        /\ IsOpen
        /\ form' = [form EXCEPT !.access = c.token]
        /\ token' = [token EXCEPT !.checks = @ \ {c}, !.locked = IF c.by = "load" THEN FALSE ELSE @,
                                  !.saved = IF c.by = "entry" THEN c.token ELSE @]
        /\ UNCHANGED <<detection, known, created, osFrom, asked, edits, misses>>

AccessIsDenied ==
    \E c \in token.checks :
        /\ IsOpen /\ misses < MaxChecks /\ misses' = misses + 1
        /\ form' = IF c.by = "load" THEN [form EXCEPT !.offline = 0] ELSE [form EXCEPT !.access = 0]
        /\ token' = IF c.by = "load" THEN [token EXCEPT !.checks = @ \ {c}, !.locked = FALSE, !.saved = 0]
                    ELSE [token EXCEPT !.checks = @ \ {c}]
        /\ UNCHANGED <<detection, known, created, osFrom, asked, edits>>

-----------------------------------------------------------------------------
(* The buttons.                                                            *)

SourceIsValid(f) ==
    CASE f.type = "os" -> TRUE
      [] f.type = "pxe" -> f.source # NoSource
      [] f.type \in {"file", "cloud", "disk_image"} -> f.source \in Paths
      [] f.type = "url" -> f.source \in Addresses

UsersAreValid(f) ==
    /\ "login" \in f.users <=> ("password" \in f.users \/ "keys" \in f.users)

NameIsValid(f) ==
    IF f.name = NoName THEN f.suggested # NoName ELSE <<f.connection, f.name>> \notin known

validateParams(f) ==
    /\ NameIsValid(f)
    /\ f.os # NoSystem
    /\ SourceIsValid(f)
    /\ f.type = "os" /\ needsRHToken(f.os) => f.offline # 0
    /\ f.memory \in 1 .. Capacity
    /\ f.pool = "new" => f.storage # 0
    /\ UsersAreValid(f)

isUnattended(f) == f.users \cap {"rootPassword", "login", "password"} # {}
downloadingRhelDisabled(f) == f.offline # 0 /\ f.access = 0

CanCreate(f, start) ==
    /\ f.validate => validateParams(f)
    /\ ~downloadingRhelDisabled(f)
    /\ ~start => ~(f.type = "os" /\ isUnattended(f))

vmParams(f, start) ==
    [connection |-> f.connection, name |-> IF f.name = NoName THEN f.suggested ELSE f.name,
     type |-> f.type, source |-> f.source, os |-> f.os, memory |-> f.memory,
     pool |-> f.pool, volume |-> f.volume, access |-> f.access, start |-> start,
     unattended |-> f.type # "cloud" /\ isUnattended(f)]

onCreateClicked ==
    /\ IsOpen
    /\ \E start \in BOOLEAN :
        /\ CanCreate(form, start)
        /\ IF validateParams(form)
           THEN created' = vmParams(form, start) /\ UNCHANGED form
           ELSE form' = [form EXCEPT !.validate = TRUE] /\ UNCHANGED created
    /\ UNCHANGED <<detection, token, known, osFrom, asked, edits, misses>>

\* Another machine is created meanwhile.
MachineAppears ==
    /\ IsOpen /\ \E c \in Connections, i \in DOMAIN Names : known' = known \cup {<<c, Names[i]>>}
    /\ misses < MaxChecks /\ misses' = misses + 1
    /\ UNCHANGED <<form, detection, token, created, osFrom, asked, edits>>

FormNext ==
    \/ onSourceType \/ ChooseConnection \/ onSource \/ onSystem \/ EnterStorage
    \/ EnterMemory \/ EnterName \/ EnterUsers
    \/ onOsAutodetect \/ DetectionReturns \/ DetectionFails
    \/ setOfflineTokenHelper \/ getAccessTokenDebounce \/ AccessIsGranted \/ AccessIsDenied
    \/ onCreateClicked \/ MachineAppears

-----------------------------------------------------------------------------
(* Properties.                                                             *)

Types == {"os", "cloud", "file", "url", "pxe", "disk_image"}
Sources == Paths \cup Addresses

Form ==
    [connection : Connections, type : Types, source : Sources \cup {"network", NoSource},
     os : Systems \cup {NoSystem}, name : {NoName, "os", "own"}, suggested : {NoName, "os", "os-B"},
     offline : Tokens \cup {0}, access : Tokens \cup {0},
     pool : {"new", "NoStorage", "images", "home"}, volume : {"none", "v1", "v2", "v3"},
     storage : Nat, memory : Nat, users : SUBSET {"rootPassword", "login", "password", "keys"},
     validate : BOOLEAN]

TokenRow ==
    [locked : BOOLEAN, mounted : BOOLEAN, saved : Tokens \cup {0}, due : Tokens \cup {0},
     checks : SUBSET [token : Tokens, by : {"load", "entry"}]]

\* What the state of the dialog holds (createVmDialog.tsx, CreateVmModal.state and
\* OfflineTokenRow's).
FormTypeOK ==
    /\ form \in Form
    /\ detection \in [due : Sources \cup {NoSource}, running : SUBSET Sources]
    /\ token \in TokenRow
    /\ known \subseteq Connections \X {"os", "os-B"}
    /\ osFrom \in Sources \cup {"user"} /\ asked \in Sources \cup {NoSource}
    /\ edits \in Nat /\ misses \in Nat

\* However the user goes back and forth between connections, types, sources and
\* systems, what the form hands over fits together: networks are booted from and
\* pools used only on their own connection, the volume is one of the pool, the
\* source is of the kind that its type asks for, Red Hat images are downloaded with
\* an access token, an unattended download is started, and the name was free.
PartsFitTogether ==
    created # NoMachine =>
        /\ created.type = "pxe" => created.connection = "system" /\ created.source = "network"
        /\ created.type \in {"file", "cloud", "disk_image"} => created.source \in Paths
        /\ IsPool(created.pool) =>
            /\ created.pool \in PoolsOf(created.connection)
            /\ \E i \in DOMAIN VolumesOf(created.pool) : created.volume = VolumesOf(created.pool)[i]
        /\ created.type = "os" /\ needsRHToken(created.os) => created.access # 0
        /\ created.type = "os" /\ created.unattended => created.start
        /\ misses = 0 => <<created.connection, created.name>> \notin known

\* When no detection is due or under way, an operating system that was detected is
\* that of the source looked at last: a slow answer about an earlier source does not
\* replace a later one.
DetectionIsOfLastSource ==
    detection.due = NoSource /\ detection.running = {} /\ osFrom # "user" => osFrom = asked

\* createVmDialog.tsx:696: "Reset accessToken to prevent race conditions where state
\* could still have access token paired with an old offline token".
TokensMatch == form.access # 0 => form.access = form.offline
=============================================================================
