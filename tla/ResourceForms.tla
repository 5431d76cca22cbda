--------------------------- MODULE ResourceForms ----------------------------
(* The forms that describe a new network, storage pool or volume            *)
(* (createNetworkDialog.tsx, createStoragePoolDialog.tsx,                   *)
(* storageVolumeCreateBody.tsx) and the documents that libvirt-xml-create.ts *)
(* makes of them.  Texts count as far as they are judged: empty, acceptable *)
(* or not; an address is three bytes, the highest of which is Top.          *)
EXTENDS Integers, Sequences, FiniteSets

CONSTANTS
    Subjects,       \* what the behaviours of this instance are about
    MaxEdits,       \* bound: what the user enters into a form
    NoDocument      \* nothing is sent yet

Forms == {"networkForm", "poolForm", "volumeForm"}
AllSubjects == Forms \cup {"pool", "network"}

ASSUME ResourceFormsAssumption == Subjects \subseteq AllSubjects /\ MaxEdits \in Nat

VARIABLES
    subject,
    form,       \* the values of the open form
    sent,       \* for the properties: [form, doc] once Create has handed over a document
    edits       \* counter of the bound

formVars == <<form, sent, edits>>

-----------------------------------------------------------------------------
(* Networks.                                                               *)

Families == {"ipv4", "ipv6"}
Top == 2
Empty == <<>>
Invalid == <<0>>
Addresses == {<<1, 1, 1>>, <<1, 1, 0>>, <<1, 1, Top>>, <<1, 2, 1>>}
\* What is entered for an address.
Entries == {Empty, Invalid} \cup Addresses
IsAddress(a) == Len(a) = 3

NoPrefix == 0
BadPrefix == 99
Prefixes == {NoPrefix, 16, 20, 24, 32, BadPrefix}

\* An address is split after the bytes that its prefix covers.
NetOf(a, prefix) == SubSeq(a, 1, prefix \div 8 - 1)
HostOf(a, prefix) == SubSeq(a, prefix \div 8, 3)
AllAre(bytes, b) == \A i \in DOMAIN bytes : bytes[i] = b

ipv4IsNetworkIdentifier(a, prefix) == AllAre(HostOf(a, prefix), 0)
ipv4IsBroadcast(a, prefix) == AllAre(HostOf(a, prefix), Top)
isInNetwork(network, prefix, a) == IsAddress(a) /\ NetOf(a, prefix) = NetOf(network, prefix)

\* IPv4 prefixes are whole bytes, and leave one for the hosts.
PrefixIsValid(family, prefix) ==
    IF family = "ipv4" THEN prefix \in {16, 24} ELSE prefix \in {16, 24, 32}

\* A range is only looked at when DHCP is enabled.
FamilyIsValid(family, c) ==
    /\ PrefixIsValid(family, c.prefix) /\ IsAddress(c.address)
    /\ family = "ipv4" => ~ipv4IsNetworkIdentifier(c.address, c.prefix) /\ ~ipv4IsBroadcast(c.address, c.prefix)
    /\ c.dhcp => isInNetwork(c.address, c.prefix, c.start) /\ isInNetwork(c.address, c.prefix, c.end)

NetworkIsValid(f) == f.name /\ \A family \in f.ip : FamilyIsValid(family, f.conf[family])

CreateNetworkModal ==
    [name |-> FALSE, mode |-> "nat", device |-> "automatic", ip |-> {"ipv4"},
     conf |-> [family \in Families |->
                [address |-> IF family = "ipv4" THEN <<1, 1, 1>> ELSE Empty,
                 prefix |-> IF family = "ipv4" THEN 24 ELSE NoPrefix,
                 dhcp |-> FALSE, start |-> Empty, end |-> Empty]],
     validate |-> FALSE]

\* Faulty: "None" stays chosen.
onForwardModeKeepingIp(f, mode) == [f EXCEPT !.mode = mode]

\* Networks that are bridges have no addresses of their own, those that translate or
\* route them have some.
onForwardMode(f, mode) ==
    [f EXCEPT !.mode = mode,
              !.ip = IF mode \in {"bridge", "vepa"} THEN {}
                     ELSE IF f.ip = {} /\ mode \in {"nat", "open"} THEN {"ipv4"} ELSE @]

NetworkForwardModeRow(f) == {onForwardMode(f, mode) : mode \in {"nat", "open", "none"}}

NetworkDeviceRow(f) ==
    IF f.mode \in {"nat", "route"} THEN {[f EXCEPT !.device = dev] : dev \in {"automatic", "eth0"}} ELSE {}

\* "None" is only offered to isolated networks.
IpRow(f) ==
    {[f EXCEPT !.ip = ip] : ip \in (SUBSET Families) \ (IF f.mode = "none" THEN {} ELSE {{}})}

DhcpRow(c) ==
    {[c EXCEPT !.dhcp = ~@]}
    \cup (IF ~c.dhcp THEN {} ELSE {[c EXCEPT !.start = a] : a \in Entries}
                             \cup {[c EXCEPT !.end = a] : a \in Entries})

FamilyRow(f, family) ==
    IF family \notin f.ip THEN {}
    ELSE {[f EXCEPT !.conf[family] = c] :
            c \in {[f.conf[family] EXCEPT !.address = a] : a \in Entries}
                  \cup {[f.conf[family] EXCEPT !.prefix = p] : p \in Prefixes}
                  \cup DhcpRow(f.conf[family])}

NetworkEdits(f) ==
    {[f EXCEPT !.name = ~@]} \cup NetworkForwardModeRow(f) \cup NetworkDeviceRow(f) \cup IpRow(f)
    \cup FamilyRow(f, "ipv4") \cup FamilyRow(f, "ipv6")

\* An address element for each address; a range when its start is not empty, whether
\* DHCP is enabled or not.
getNetworkXML(f) ==
    [mode |-> f.mode,
     device |-> IF f.mode \in {"nat", "route"} /\ f.device # "automatic" THEN f.device ELSE "none",
     ips |-> {[family |-> family, address |-> f.conf[family].address, prefix |-> f.conf[family].prefix,
               range |-> IF f.conf[family].start = Empty THEN <<>>
                         ELSE <<f.conf[family].start, f.conf[family].end>>] : family \in f.ip}]

-----------------------------------------------------------------------------
(* Storage pools.                                                          *)

poolTypes == {"dir", "netfs", "iscsi", "disk", "logical", "fs", "iscsi-direct"}
Names == {"", "pool", "po'ol"}
NoFormat == "none"
\* The format of a source that is a disk, or a device with a filesystem.
sourceFormats(type) ==
    CASE type = "disk" -> {"dos", "gpt"} [] type = "fs" -> {"auto", "ext4"} [] OTHER -> {}

CreateStoragePoolModal ==
    [name |-> "", type |-> "dir", filled |-> {}, format |-> NoFormat, autostart |-> TRUE]

\* Faulty: the format of the former type stays.
onTypeKeepingFormat(f, type) == [f EXCEPT !.type = type]

onType(f, type) == [f EXCEPT !.type = type, !.format = IF type = "disk" THEN "dos" ELSE NoFormat]

\* The fields that the rows show for each type; what is entered stays when its row goes.
TargetRow(type) == IF type \in {"dir", "netfs", "iscsi", "disk", "fs"} THEN {"target"} ELSE {}
HostRow(type) == IF type \in {"netfs", "iscsi", "iscsi-direct"} THEN {"host"} ELSE {}
InitiatorRow(type) == IF type = "iscsi-direct" THEN {"initiator"} ELSE {}
SourceRow(type) ==
    CASE type = "netfs" -> {"dir"}
      [] type \in {"iscsi", "iscsi-direct", "disk", "fs"} -> {"device"}
      [] type = "logical" -> {"name"}
      [] OTHER -> {}
Rows(type) == TargetRow(type) \cup HostRow(type) \cup InitiatorRow(type) \cup SourceRow(type)

PoolEdits(f) ==
    {[f EXCEPT !.name = n] : n \in Names} \cup {onType(f, type) : type \in poolTypes}
    \cup {[f EXCEPT !.filled = IF x \in @ THEN @ \ {x} ELSE @ \cup {x}] : x \in Rows(f.type)}
    \cup {[f EXCEPT !.format = x] : x \in sourceFormats(f.type)}
    \cup {[f EXCEPT !.autostart = ~@]}

\* Nothing is asked of a pre-formatted device.
Mandatory(type) == IF type = "fs" THEN {} ELSE Rows(type)

PoolIsValid(f) == f.name = "pool" /\ Mandatory(f.type) \subseteq f.filled

\* Whatever is filled in, also for another type.
getPoolXML(f) == [type |-> f.type, filled |-> f.filled, format |-> f.format]

-----------------------------------------------------------------------------
(* Volumes.                                                                *)

Pools == {"images", "disk", "group"}
PoolType(p) == CASE p = "images" -> "dir" [] p = "disk" -> "disk" [] p = "group" -> "logical"
CapacityOf(p) == CASE p = "images" -> 2 [] p = "disk" -> 1 [] p = "group" -> 3
Sizes == 0 .. 4

validVolumeFormats(type) ==
    CASE type = "disk" -> {"none", "linux"}
      [] type \in {"dir", "fs", "netfs"} -> {"qcow2", "raw"}
      [] OTHER -> {}

getDefaultVolumeFormat(type) ==
    CASE type = "disk" -> "none" [] type \in {"dir", "fs", "netfs"} -> "qcow2" [] OTHER -> ""

\* chooses: the form is part of the dialog that adds a disk, which chooses the pool.
init_VolumeCreate(p, chooses) ==
    [pool |-> p, name |-> FALSE, size |-> 1, format |-> getDefaultVolumeFormat(PoolType(p)),
     chooses |-> chooses, validate |-> FALSE]

\* Faulty: the format of the former pool stays.
update_VolumeCreateKeepingFormat(f, p) == [f EXCEPT !.pool = p]

update_VolumeCreate(f, p) ==
    [f EXCEPT !.pool = p,
              !.format = IF PoolType(p) # PoolType(f.pool) THEN getDefaultVolumeFormat(PoolType(p)) ELSE @]

VolumeEdits(f) ==
    {[f EXCEPT !.name = ~@]} \cup {[f EXCEPT !.size = n] : n \in Sizes}
    \cup {[f EXCEPT !.format = x] : x \in validVolumeFormats(PoolType(f.pool))}
    \cup (IF f.chooses THEN {update_VolumeCreate(f, p) : p \in Pools} ELSE {})

validate_VolumeCreate(f) == f.name /\ f.size <= CapacityOf(f.pool)

getVolumeXML(f) == [pool |-> f.pool, size |-> f.size, format |-> f.format]

-----------------------------------------------------------------------------
FamilyForm == [address : Entries, prefix : Prefixes, dhcp : BOOLEAN, start : Entries, end : Entries]
NetworkForm == [name : BOOLEAN, mode : {"nat", "open", "none"}, device : {"automatic", "eth0"},
                ip : SUBSET Families, conf : [Families -> FamilyForm], validate : BOOLEAN]
PoolForm == [name : Names, type : poolTypes, filled : SUBSET (UNION {Rows(type) : type \in poolTypes}),
             format : {NoFormat} \cup UNION {sourceFormats(type) : type \in poolTypes}, autostart : BOOLEAN]
VolumeForm == [pool : Pools, name : BOOLEAN, size : Sizes,
               format : {""} \cup UNION {validVolumeFormats(type) : type \in poolTypes},
               chooses : BOOLEAN, validate : BOOLEAN]

FormTypeOK ==
    /\ subject \in Subjects
    /\ subject = "networkForm" => form \in NetworkForm
    /\ subject = "poolForm" => form \in PoolForm
    /\ subject = "volumeForm" => form \in VolumeForm
    /\ subject \notin Forms => form = NoDocument /\ sent = NoDocument
    /\ edits \in 0..MaxEdits

FormInit ==
    /\ form \in CASE subject = "networkForm" -> {CreateNetworkModal}
                  [] subject = "poolForm" -> {CreateStoragePoolModal}
                  [] subject = "volumeForm" -> {init_VolumeCreate(p, c) : p \in Pools, c \in BOOLEAN}
                  [] OTHER -> {NoDocument}
    /\ sent = NoDocument
    /\ edits = 0

IsOpen == subject \in Forms /\ sent = NoDocument

Enter ==
    /\ IsOpen /\ edits < MaxEdits /\ edits' = edits + 1
    /\ form' \in CASE subject = "networkForm" -> NetworkEdits(form)
                   [] subject = "poolForm" -> PoolEdits(form)
                   [] subject = "volumeForm" -> VolumeEdits(form)
    /\ UNCHANGED <<subject, sent>>

\* Forms of networks and volumes show what is wrong once Create has been tried, and
\* then Create is off until it is right.
onCreate ==
    /\ IsOpen
    /\ LET valid == CASE subject = "networkForm" -> NetworkIsValid(form)
                      [] subject = "poolForm" -> PoolIsValid(form)
                      [] subject = "volumeForm" -> validate_VolumeCreate(form)
           doc == CASE subject = "networkForm" -> getNetworkXML(form)
                    [] subject = "poolForm" -> getPoolXML(form)
                    [] subject = "volumeForm" -> getVolumeXML(form)
       IN  IF valid THEN sent' = [form |-> form, doc |-> doc] /\ UNCHANGED form
           ELSE /\ subject # "poolForm" /\ ~form.validate
                /\ form' = [form EXCEPT !.validate = TRUE] /\ UNCHANGED sent
    /\ UNCHANGED <<subject, edits>>

FormNext == Enter \/ onCreate

-----------------------------------------------------------------------------
(* Properties.                                                             *)

\* A network that translates or routes addresses has some and only one that
\* translates has a device; the host's own address is not that of the network or of
\* its broadcasts, and the range that DHCP was enabled for is complete and within it.
NetworkFits(f, doc) ==
    /\ doc.mode \in {"nat", "open"} => doc.ips # {}
    /\ doc.device # "none" => doc.mode = "nat"
    /\ \A i \in doc.ips :
        /\ i.family = "ipv4" => HostOf(i.address, i.prefix) \notin {<<0>>, <<Top>>, <<0, 0>>, <<Top, Top>>}
        /\ f.conf[i.family].dhcp =>
            /\ Len(i.range) = 2
            /\ \A k \in {1, 2} : NetOf(i.range[k], i.prefix) = NetOf(i.address, i.prefix)

\* A pool has the host, path, device or group that its type needs, and a format of
\* its own type if any.
PoolFits(f, doc) ==
    /\ doc.type \in {"dir", "netfs", "iscsi", "disk"} => "target" \in doc.filled
    /\ doc.type \in {"netfs", "iscsi", "iscsi-direct"} => "host" \in doc.filled
    /\ doc.type \in {"iscsi", "iscsi-direct", "disk"} => "device" \in doc.filled
    /\ doc.type = "disk" => doc.format # NoFormat
    /\ doc.format \in sourceFormats(doc.type) \cup {NoFormat}

\* A volume has a format that its pool knows, and room in its pool.
VolumeFits(f, doc) ==
    /\ IF PoolType(doc.pool) = "logical" THEN doc.format = ""
       ELSE doc.format \in validVolumeFormats(PoolType(doc.pool))
    /\ doc.size <= CapacityOf(doc.pool)

\* However the user goes back and forth between modes, types and pools, the document
\* that Create hands over is one that fits together (createNetworkDialog.tsx:455,
\* createStoragePoolDialog.tsx:333, storageVolumeCreateBody.tsx:48).
DocumentsFit ==
    sent # NoDocument =>
        CASE subject = "networkForm" -> NetworkFits(sent.form, sent.doc)
          [] subject = "poolForm" -> PoolFits(sent.form, sent.doc)
          [] subject = "volumeForm" -> VolumeFits(sent.form, sent.doc)
=============================================================================
