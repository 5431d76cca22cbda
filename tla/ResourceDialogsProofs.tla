----------------------- MODULE ResourceDialogsProofs ------------------------
(***************************************************************************)
(* Theorems about ResourceForms and ResourceDialogs, for any number of     *)
(* edits, buttons pressed, failures and changes by others.                 *)
(***************************************************************************)
EXTENDS ResourceDialogs, SequenceTheorems, TLAPS

(* A network with a mode that needs addresses has some.                    *)
HasAddresses(f) == f.mode \in {"nat", "open"} => f.ip # {}

(* A pool and a volume have a format of their type.                        *)
HasItsFormat(f) ==
    /\ f.type = "disk" => f.format # NoFormat
    /\ f.format \in sourceFormats(f.type) \cup {NoFormat}

SuitsItsPool(f) ==
    IF PoolType(f.pool) = "logical" THEN f.format = ""
    ELSE f.format \in validVolumeFormats(PoolType(f.pool))

(* The forms, while they are filled in.                                    *)
FormInv ==
    /\ subject = "networkForm" => HasAddresses(form)
    /\ subject = "poolForm" => HasItsFormat(form)
    /\ subject = "volumeForm" => SuitsItsPool(form)

(* There is an object if it has a path.                                    *)
ObjectInv == object.state # "gone" => object.id # 0

(* Only a creation defines an object, and it deletes no volumes; other     *)
(* plans delete volumes before they call anything else.                    *)
JobInv(j) ==
    /\ j.new # 0 => j.d.op = "create"
    /\ j.volumes # {} => j.d.op # "create" /\ j.step = 1

JobsInv == \A s \in Slots : jobs[s] # NoJob => JobInv(jobs[s])

IsShown == row = [View(object) EXCEPT !.autostart = IF subject = "pool" THEN row.autostart ELSE @]

(* The calls that the job has still to make end with one that brings news. *)
WillTell(j) == j # NoJob /\ ~j.failed /\ j.d.op # "create" /\ j.step <= Len(Calls(j))

(* What the page does not show, it will read, or a job will have it read,  *)
(* or it is one of the changes that nobody says.                           *)
ShownInv == IsShown \/ news \/ behind \/ \E s \in Slots : WillTell(jobs[s])

IInv == /\ TypeOK /\ FormInv /\ DocumentsFit
        /\ ObjectInv /\ JobsInv /\ NothingHalfMade /\ ShownInv

-----------------------------------------------------------------------------
(* The form of a network *)

LEMMA Bounds == /\ MaxEdits \in Nat /\ MaxActs \in Nat /\ MaxFails \in Nat /\ MaxOutside \in Nat
                /\ NoJob \notin Job
BY ResourceFormsAssumption, ResourceDialogsAssumption

LEMMA NewNetworkForm == CreateNetworkModal \in NetworkForm /\ HasAddresses(CreateNetworkModal)
<1>1. \A family \in Families :
        [address |-> IF family = "ipv4" THEN <<1, 1, 1>> ELSE Empty,
         prefix |-> IF family = "ipv4" THEN 24 ELSE NoPrefix,
         dhcp |-> FALSE, start |-> Empty, end |-> Empty] \in FamilyForm
  BY DEF FamilyForm, Entries, Addresses, Prefixes
<1>2. CreateNetworkModal.conf \in [Families -> FamilyForm]
  BY <1>1 DEF CreateNetworkModal
<1> QED
  BY <1>2 DEF CreateNetworkModal, NetworkForm, HasAddresses, Families

LEMMA NetworkParts ==
  ASSUME NEW f \in NetworkForm
  PROVE  /\ f = [name |-> f.name, mode |-> f.mode, device |-> f.device, ip |-> f.ip,
                 conf |-> f.conf, validate |-> f.validate]
         /\ f.name \in BOOLEAN /\ f.mode \in {"nat", "open", "none"}
         /\ f.device \in {"automatic", "eth0"} /\ f.ip \subseteq Families
         /\ f.conf \in [Families -> FamilyForm] /\ f.validate \in BOOLEAN
BY DEF NetworkForm

(* Choosing a mode sees to the addresses (onForwardMode).                  *)
LEMMA ModeRowTyped ==
  ASSUME NEW f \in NetworkForm, NEW mode \in {"nat", "open", "none"}
  PROVE  onForwardMode(f, mode) \in NetworkForm /\ HasAddresses(onForwardMode(f, mode))
<1>1. PICK ip : ip = (IF mode \in {"bridge", "vepa"} THEN {}
                      ELSE IF f.ip = {} /\ mode \in {"nat", "open"} THEN {"ipv4"} ELSE f.ip)
  OBVIOUS
<1>2. ip \subseteq Families /\ (mode \in {"nat", "open"} => ip # {})
  BY <1>1, NetworkParts DEF Families
<1>3. onForwardMode(f, mode) = [f EXCEPT !.mode = mode, !.ip = ip]
  BY <1>1 DEF onForwardMode
<1>4. [f EXCEPT !.mode = mode, !.ip = ip] =
        [name |-> f.name, mode |-> mode, device |-> f.device, ip |-> ip,
         conf |-> f.conf, validate |-> f.validate]
  <2>1. PICK g : g = [f EXCEPT !.mode = mode]
    OBVIOUS
  <2>2. g = [name |-> f.name, mode |-> mode, device |-> f.device, ip |-> f.ip,
             conf |-> f.conf, validate |-> f.validate]
    BY <2>1, NetworkParts
  <2>3. [f EXCEPT !.mode = mode, !.ip = ip] = [[f EXCEPT !.mode = mode] EXCEPT !.ip = ip]
    OBVIOUS
  <2>4. PICK h : h = [g EXCEPT !.ip = ip]
    OBVIOUS
  <2>5. h = [name |-> f.name, mode |-> mode, device |-> f.device, ip |-> ip,
             conf |-> f.conf, validate |-> f.validate]
    BY <2>2, <2>4
  <2> QED
    BY ONLY <2>1, <2>3, <2>4, <2>5, Zenon
<1> QED
  BY <1>2, <1>3, <1>4, NetworkParts DEF NetworkForm, HasAddresses

(* The rows of a family change its addresses, and nothing else.            *)
LEMMA FamilyRowTyped ==
  ASSUME NEW f \in NetworkForm, NEW family \in Families, NEW g \in FamilyRow(f, family)
  PROVE  g \in NetworkForm /\ g.mode = f.mode /\ g.ip = f.ip
<1>1. PICK old : old = f.conf[family]
  OBVIOUS
<1>2. old \in FamilyForm
  BY <1>1, NetworkParts
<1>3. PICK c \in {[old EXCEPT !.address = a] : a \in Entries}
                \cup {[old EXCEPT !.prefix = p] : p \in Prefixes} \cup DhcpRow(old) :
        g = [f EXCEPT !.conf[family] = c]
  BY <1>1 DEF FamilyRow
<1>4. c \in FamilyForm
  <2>1. CASE c \in {[old EXCEPT !.address = a] : a \in Entries}
    BY <1>2, <2>1 DEF FamilyForm
  <2>2. CASE c \in {[old EXCEPT !.prefix = p] : p \in Prefixes}
    BY <1>2, <2>2 DEF FamilyForm
  <2>3. CASE c \in DhcpRow(old)
    BY <1>2, <2>3 DEF FamilyForm, DhcpRow
  <2> QED
    BY <1>3, <2>1, <2>2, <2>3
<1>5. PICK conf : conf = [f.conf EXCEPT ![family] = c]
  OBVIOUS
<1>6. conf \in [Families -> FamilyForm]
  BY <1>4, <1>5, NetworkParts
<1>7. g = [name |-> f.name, mode |-> f.mode, device |-> f.device, ip |-> f.ip,
           conf |-> conf, validate |-> f.validate]
  BY <1>3, <1>5, NetworkParts
<1> QED
  BY <1>6, <1>7, NetworkParts DEF NetworkForm

LEMMA NetworkEditsTyped ==
  ASSUME NEW f \in NetworkForm, HasAddresses(f), NEW g \in NetworkEdits(f)
  PROVE  g \in NetworkForm /\ HasAddresses(g)
<1>1. CASE g = [f EXCEPT !.name = ~@]
  BY <1>1, NetworkParts DEF NetworkForm, HasAddresses
<1>2. CASE g \in NetworkForwardModeRow(f)
  BY <1>2, ModeRowTyped DEF NetworkForwardModeRow
<1>3. CASE g \in NetworkDeviceRow(f)
  BY <1>3, NetworkParts DEF NetworkDeviceRow, NetworkForm, HasAddresses
<1>4. CASE g \in IpRow(f)
  <2>1. PICK ip \in SUBSET Families : g = [f EXCEPT !.ip = ip] /\ (f.mode # "none" => ip # {})
    BY <1>4 DEF IpRow
  <2>2. g = [name |-> f.name, mode |-> f.mode, device |-> f.device, ip |-> ip,
             conf |-> f.conf, validate |-> f.validate]
    BY <2>1, NetworkParts
  <2> QED
    BY <2>1, <2>2, NetworkParts DEF NetworkForm, HasAddresses
<1>5. CASE g \in FamilyRow(f, "ipv4") \cup FamilyRow(f, "ipv6")
  <2>1. PICK family \in Families : g \in FamilyRow(f, family)
    BY <1>5 DEF Families
  <2> QED
    BY <2>1, FamilyRowTyped DEF HasAddresses
<1> QED
  BY <1>1, <1>2, <1>3, <1>4, <1>5 DEF NetworkEdits

(* What is handed over for a valid form (createNetworkDialog.tsx:455).     *)
LEMMA ValidNetworkFits ==
  ASSUME NEW f \in NetworkForm, HasAddresses(f), NetworkIsValid(f)
  PROVE  NetworkFits(f, getNetworkXML(f))
<1> DEFINE doc == getNetworkXML(f)
<1>1. doc.mode = f.mode
      /\ doc.device = (IF f.mode \in {"nat", "route"} /\ f.device # "automatic" THEN f.device ELSE "none")
      /\ doc.ips = {[family |-> family, address |-> f.conf[family].address,
                     prefix |-> f.conf[family].prefix,
                     range |-> IF f.conf[family].start = Empty THEN <<>>
                               ELSE <<f.conf[family].start, f.conf[family].end>>] : family \in f.ip}
  BY DEF getNetworkXML
<1>2. doc.mode \in {"nat", "open"} => doc.ips # {}
  BY <1>1 DEF HasAddresses
<1>3. doc.device # "none" => doc.mode = "nat"
  BY <1>1, NetworkParts
<1>4. ASSUME NEW i \in doc.ips
      PROVE  /\ i.family = "ipv4" => HostOf(i.address, i.prefix) \notin {<<0>>, <<Top>>, <<0, 0>>, <<Top, Top>>}
             /\ f.conf[i.family].dhcp =>
                  /\ Len(i.range) = 2
                  /\ \A k \in {1, 2} : NetOf(i.range[k], i.prefix) = NetOf(i.address, i.prefix)
  <2>1. PICK family \in f.ip :
          i = [family |-> family, address |-> f.conf[family].address, prefix |-> f.conf[family].prefix,
               range |-> IF f.conf[family].start = Empty THEN <<>>
                         ELSE <<f.conf[family].start, f.conf[family].end>>]
    BY <1>1, <1>4
  <2>2. PICK c : c = f.conf[family]
    OBVIOUS
  <2>3. /\ i.family = family /\ i.address = c.address /\ i.prefix = c.prefix
        /\ i.range = IF c.start = Empty THEN <<>> ELSE <<c.start, c.end>>
    BY <2>1, <2>2
  <2>4. FamilyIsValid(family, c)
    BY <2>2 DEF NetworkIsValid
  <2>5. PICK host : host = HostOf(c.address, c.prefix)
    OBVIOUS
  <2>6. family = "ipv4" => ~AllAre(host, 0) /\ ~AllAre(host, Top)
    BY <2>4, <2>5 DEF FamilyIsValid, ipv4IsNetworkIdentifier, ipv4IsBroadcast
  <2>7. AllAre(<<0>>, 0) /\ AllAre(<<Top>>, Top) /\ AllAre(<<0, 0>>, 0) /\ AllAre(<<Top, Top>>, Top)
    BY DEF AllAre, Top
  <2>8. family = "ipv4" => host \notin {<<0>>, <<Top>>, <<0, 0>>, <<Top, Top>>}
    BY <2>6, <2>7
  <2>9. ASSUME c.dhcp
        PROVE  Len(i.range) = 2 /\ \A k \in {1, 2} : NetOf(i.range[k], i.prefix) = NetOf(i.address, i.prefix)
    <3>1. /\ Len(c.start) = 3 /\ NetOf(c.start, c.prefix) = NetOf(c.address, c.prefix)
          /\ NetOf(c.end, c.prefix) = NetOf(c.address, c.prefix)
      BY <2>4, <2>9 DEF FamilyIsValid, isInNetwork, IsAddress
    <3>2. Len(Empty) = 0
      BY DEF Empty
    <3>3. 3 # 0
      OBVIOUS
    <3>4. c.start # Empty
      BY ONLY <3>1, <3>2, <3>3, Zenon
    <3> QED
      BY <2>3, <3>1, <3>4
  <2> QED
    BY <2>2, <2>3, <2>5, <2>8, <2>9
<1> QED
  BY <1>2, <1>3, <1>4 DEF NetworkFits

-----------------------------------------------------------------------------
(* The form of a pool *)

PoolFormats == {NoFormat} \cup UNION {sourceFormats(type) : type \in poolTypes}
PoolFields == UNION {Rows(type) : type \in poolTypes}

LEMMA PoolParts ==
  ASSUME NEW f \in PoolForm
  PROVE  /\ f = [name |-> f.name, type |-> f.type, filled |-> f.filled, format |-> f.format,
                 autostart |-> f.autostart]
         /\ f.name \in Names /\ f.type \in poolTypes /\ f.filled \subseteq PoolFields
         /\ f.format \in PoolFormats /\ f.autostart \in BOOLEAN
BY DEF PoolForm, PoolFields, PoolFormats

LEMMA PoolFormOf ==
  ASSUME NEW n \in Names, NEW type \in poolTypes, NEW filled \in SUBSET PoolFields,
         NEW format \in PoolFormats, NEW a \in BOOLEAN
  PROVE  [name |-> n, type |-> type, filled |-> filled, format |-> format, autostart |-> a] \in PoolForm
BY DEF PoolForm, PoolFields, PoolFormats

LEMMA NewPoolForm == CreateStoragePoolModal \in PoolForm /\ HasItsFormat(CreateStoragePoolModal)
<1>1. "" \in Names
  BY Zenon DEF Names
<1>2. "dir" \in poolTypes /\ NoFormat \in PoolFormats
  BY DEF poolTypes, PoolFormats
<1>3. CreateStoragePoolModal \in PoolForm
  BY <1>1, <1>2, PoolFormOf DEF CreateStoragePoolModal
<1> QED
  BY <1>3 DEF CreateStoragePoolModal, HasItsFormat

(* Choosing a type sees to the format of the source (onType).              *)
LEMMA PoolEditsTyped ==
  ASSUME NEW f \in PoolForm, HasItsFormat(f), NEW g \in PoolEdits(f)
  PROVE  g \in PoolForm /\ HasItsFormat(g)
<1>1. CASE \E n \in Names : g = [f EXCEPT !.name = n]
  <2>1. PICK n \in Names : g = [f EXCEPT !.name = n]
    BY <1>1
  <2>2. g = [name |-> n, type |-> f.type, filled |-> f.filled, format |-> f.format,
             autostart |-> f.autostart]
    BY <2>1, PoolParts
  <2> QED
    BY <2>2, PoolParts, PoolFormOf DEF HasItsFormat
<1>2. CASE \E type \in poolTypes : g = onType(f, type)
  <2>1. PICK type \in poolTypes : g = onType(f, type)
    BY <1>2
  <2>2. PICK format : format = IF type = "disk" THEN "dos" ELSE NoFormat
    OBVIOUS
  <2>3. g = [name |-> f.name, type |-> type, filled |-> f.filled, format |-> format,
             autostart |-> f.autostart]
    <3>1. PICK h : h = [f EXCEPT !.type = type]
      OBVIOUS
    <3>2. h = [name |-> f.name, type |-> type, filled |-> f.filled, format |-> f.format,
               autostart |-> f.autostart]
      BY <3>1, PoolParts
    <3>3. [f EXCEPT !.type = type, !.format = format] = [[f EXCEPT !.type = type] EXCEPT !.format = format]
      OBVIOUS
    <3>4. g = [f EXCEPT !.type = type, !.format = format]
      BY <2>1, <2>2 DEF onType
    <3> QED
      BY <3>1, <3>2, <3>3, <3>4
  <2>4. /\ type = "disk" => format # NoFormat
        /\ format \in sourceFormats(type) \cup {NoFormat}
    BY <2>2 DEF sourceFormats, NoFormat
  <2>5. format \in PoolFormats
    BY <2>4 DEF PoolFormats
  <2> QED
    BY <2>3, <2>4, <2>5, PoolParts, PoolFormOf DEF HasItsFormat
<1>3. CASE \E x \in Rows(f.type) : g = [f EXCEPT !.filled = IF x \in @ THEN @ \ {x} ELSE @ \cup {x}]
  <2>1. PICK x \in Rows(f.type) : g = [f EXCEPT !.filled = IF x \in @ THEN @ \ {x} ELSE @ \cup {x}]
    BY <1>3
  <2>2. PICK filled : filled = IF x \in f.filled THEN f.filled \ {x} ELSE f.filled \cup {x}
    OBVIOUS
  <2>3. g = [name |-> f.name, type |-> f.type, filled |-> filled, format |-> f.format,
             autostart |-> f.autostart]
    BY <2>1, <2>2, PoolParts
  <2>4. filled \in SUBSET PoolFields
    BY <2>2, PoolParts DEF PoolFields
  <2> QED
    BY <2>3, <2>4, PoolParts, PoolFormOf DEF HasItsFormat
<1>4. CASE \E x \in sourceFormats(f.type) : g = [f EXCEPT !.format = x]
  <2>1. PICK x \in sourceFormats(f.type) : g = [f EXCEPT !.format = x]
    BY <1>4
  <2>2. g = [name |-> f.name, type |-> f.type, filled |-> f.filled, format |-> x,
             autostart |-> f.autostart]
    BY <2>1, PoolParts
  <2>3. x \in PoolFormats /\ x # NoFormat
    BY PoolParts DEF PoolFormats, sourceFormats, NoFormat
  <2> QED
    BY <2>2, <2>3, PoolParts, PoolFormOf DEF HasItsFormat
<1>5. CASE g = [f EXCEPT !.autostart = ~@]
  <2>1. g = [name |-> f.name, type |-> f.type, filled |-> f.filled, format |-> f.format,
             autostart |-> ~f.autostart]
    BY <1>5, PoolParts
  <2> QED
    BY <2>1, PoolParts, PoolFormOf DEF HasItsFormat
<1> QED
  BY <1>1, <1>2, <1>3, <1>4, <1>5 DEF PoolEdits

(* What is handed over for a valid form (createStoragePoolDialog.tsx:333). *)
LEMMA ValidPoolFits ==
  ASSUME NEW f \in PoolForm, HasItsFormat(f), PoolIsValid(f)
  PROVE  PoolFits(f, getPoolXML(f))
<1>1. Mandatory(f.type) \subseteq f.filled
  BY DEF PoolIsValid
<1>2. /\ f.type \in {"dir", "netfs", "iscsi", "disk"} => "target" \in Mandatory(f.type)
      /\ f.type \in {"netfs", "iscsi", "iscsi-direct"} => "host" \in Mandatory(f.type)
      /\ f.type \in {"iscsi", "iscsi-direct", "disk"} => "device" \in Mandatory(f.type)
  BY DEF Mandatory, Rows, TargetRow, HostRow, InitiatorRow, SourceRow
<1> QED
  BY <1>1, <1>2 DEF getPoolXML, PoolFits, HasItsFormat

-----------------------------------------------------------------------------
(* The form of a volume *)

VolumeFormats == {""} \cup UNION {validVolumeFormats(type) : type \in poolTypes}

LEMMA VolumeParts ==
  ASSUME NEW f \in VolumeForm
  PROVE  /\ f = [pool |-> f.pool, name |-> f.name, size |-> f.size, format |-> f.format,
                 chooses |-> f.chooses, validate |-> f.validate]
         /\ f.pool \in Pools /\ f.name \in BOOLEAN /\ f.size \in Sizes /\ f.format \in VolumeFormats
         /\ f.chooses \in BOOLEAN /\ f.validate \in BOOLEAN
BY DEF VolumeForm, VolumeFormats

LEMMA VolumeFormOf ==
  ASSUME NEW p \in Pools, NEW n \in BOOLEAN, NEW size \in Sizes, NEW format \in VolumeFormats,
         NEW c \in BOOLEAN, NEW v \in BOOLEAN
  PROVE  [pool |-> p, name |-> n, size |-> size, format |-> format, chooses |-> c, validate |-> v]
            \in VolumeForm
BY DEF VolumeForm, VolumeFormats

(* Each type of pool has a default format, which is one it knows.          *)
LEMMA DefaultFormat ==
  ASSUME NEW p \in Pools
  PROVE  /\ PoolType(p) \in poolTypes
         /\ getDefaultVolumeFormat(PoolType(p)) \in VolumeFormats
         /\ IF PoolType(p) = "logical" THEN getDefaultVolumeFormat(PoolType(p)) = ""
            ELSE getDefaultVolumeFormat(PoolType(p)) \in validVolumeFormats(PoolType(p))
<1>1. PoolType(p) \in {"dir", "disk", "logical"}
  BY DEF Pools, PoolType
<1>2. IF PoolType(p) = "logical" THEN getDefaultVolumeFormat(PoolType(p)) = ""
      ELSE getDefaultVolumeFormat(PoolType(p)) \in validVolumeFormats(PoolType(p))
  BY <1>1 DEF getDefaultVolumeFormat, validVolumeFormats
<1>3. PoolType(p) \in poolTypes
  BY <1>1 DEF poolTypes
<1> QED
  BY <1>2, <1>3 DEF VolumeFormats

LEMMA NewVolumeForm ==
  ASSUME NEW p \in Pools, NEW c \in BOOLEAN
  PROVE  init_VolumeCreate(p, c) \in VolumeForm /\ SuitsItsPool(init_VolumeCreate(p, c))
<1>1. init_VolumeCreate(p, c) \in VolumeForm
  <2>1. PICK x : x = getDefaultVolumeFormat(PoolType(p))
    OBVIOUS
  <2>2. x \in VolumeFormats
    BY <2>1, DefaultFormat
  <2>3. 1 \in Sizes
    BY DEF Sizes
  <2>4. PICK no \in BOOLEAN, one \in Sizes : no = FALSE /\ one = 1
    BY <2>3
  <2> QED
    BY <2>1, <2>2, <2>4, VolumeFormOf DEF init_VolumeCreate
<1> QED
  BY <1>1, DefaultFormat DEF init_VolumeCreate, SuitsItsPool

(* Choosing a pool sees to the format (update_VolumeCreate).               *)
LEMMA VolumeEditsTyped ==
  ASSUME NEW f \in VolumeForm, SuitsItsPool(f), NEW g \in VolumeEdits(f)
  PROVE  g \in VolumeForm /\ SuitsItsPool(g)
<1>1. CASE g = [f EXCEPT !.name = ~@]
  BY <1>1, VolumeParts DEF VolumeForm, SuitsItsPool
<1>2. CASE \E n \in Sizes : g = [f EXCEPT !.size = n]
  BY <1>2, VolumeParts DEF VolumeForm, SuitsItsPool
<1>3. CASE \E x \in validVolumeFormats(PoolType(f.pool)) : g = [f EXCEPT !.format = x]
  <2>1. PICK x \in validVolumeFormats(PoolType(f.pool)) : g = [f EXCEPT !.format = x]
    BY <1>3
  <2>2. PoolType(f.pool) \in poolTypes
    BY VolumeParts, DefaultFormat
  <2>3. x \in VolumeFormats /\ PoolType(f.pool) # "logical"
    BY <2>1, <2>2 DEF VolumeFormats, validVolumeFormats
  <2>4. g = [pool |-> f.pool, name |-> f.name, size |-> f.size, format |-> x,
             chooses |-> f.chooses, validate |-> f.validate]
    BY <2>1, VolumeParts
  <2> QED
    BY <2>1, <2>3, <2>4, VolumeParts, VolumeFormOf DEF SuitsItsPool
<1>4. CASE \E p \in Pools : g = update_VolumeCreate(f, p)
  <2>1. PICK p \in Pools : g = update_VolumeCreate(f, p)
    BY <1>4
  <2>2. PICK x : x = IF PoolType(p) # PoolType(f.pool) THEN getDefaultVolumeFormat(PoolType(p))
                     ELSE f.format
    OBVIOUS
  <2>3. g = [pool |-> p, name |-> f.name, size |-> f.size, format |-> x,
             chooses |-> f.chooses, validate |-> f.validate]
    <3>1. PICK h : h = [f EXCEPT !.pool = p]
      OBVIOUS
    <3>2. h = [pool |-> p, name |-> f.name, size |-> f.size, format |-> f.format,
               chooses |-> f.chooses, validate |-> f.validate]
      BY <3>1, VolumeParts
    <3>3. [f EXCEPT !.pool = p, !.format = x] = [[f EXCEPT !.pool = p] EXCEPT !.format = x]
      OBVIOUS
    <3>4. g = [f EXCEPT !.pool = p, !.format = x]
      BY <2>1, <2>2 DEF update_VolumeCreate
    <3> QED
      BY <3>1, <3>2, <3>3, <3>4
  <2>4. x \in VolumeFormats
    BY <2>2, VolumeParts, DefaultFormat
  <2>5. IF PoolType(p) = "logical" THEN x = "" ELSE x \in validVolumeFormats(PoolType(p))
    BY <2>2, DefaultFormat DEF SuitsItsPool
  <2> QED
    BY <2>3, <2>4, <2>5, VolumeParts, VolumeFormOf DEF SuitsItsPool
<1> QED
  BY <1>1, <1>2, <1>3, <1>4 DEF VolumeEdits

(* What is handed over for a valid form (storageVolumeCreateBody.tsx:48).  *)
LEMMA ValidVolumeFits ==
  ASSUME NEW f \in VolumeForm, SuitsItsPool(f), validate_VolumeCreate(f)
  PROVE  VolumeFits(f, getVolumeXML(f))
BY DEF validate_VolumeCreate, getVolumeXML, VolumeFits, SuitsItsPool

-----------------------------------------------------------------------------
(* All forms *)

FormsOK == FormTypeOK /\ FormInv /\ DocumentsFit

LEMMA FormInitOK == ASSUME subject \in Subjects, FormInit PROVE FormsOK
<1>1. subject \in AllSubjects
  BY ResourceFormsAssumption
<1>2. edits \in 0..MaxEdits
  BY Bounds DEF FormInit
<1>3. subject = "networkForm" => form \in NetworkForm /\ HasAddresses(form)
  BY NewNetworkForm DEF FormInit
<1>4. subject = "poolForm" => form \in PoolForm /\ HasItsFormat(form)
  BY NewPoolForm DEF FormInit
<1>5. ASSUME subject = "volumeForm" PROVE form \in VolumeForm /\ SuitsItsPool(form)
  <2>1. form \in {init_VolumeCreate(p, c) : p \in Pools, c \in BOOLEAN}
    BY <1>5 DEF FormInit
  <2> QED
    BY <2>1, NewVolumeForm
<1>6. subject \notin Forms => form = NoDocument /\ sent = NoDocument
  BY DEF FormInit, Forms
<1> QED
  BY <1>2, <1>3, <1>4, <1>5, <1>6 DEF FormsOK, FormTypeOK, FormInv, DocumentsFit, FormInit

LEMMA EnterOK == ASSUME FormsOK, Enter PROVE FormsOK'
<1>1. subject' = subject /\ sent' = sent /\ sent = NoDocument /\ subject \in Forms
  BY DEF Enter, IsOpen
<1>2. edits' \in 0..MaxEdits
  BY Bounds DEF Enter, FormsOK, FormTypeOK
<1>3. subject = "networkForm" => form' \in NetworkForm /\ HasAddresses(form')
  BY NetworkEditsTyped DEF Enter, FormsOK, FormTypeOK, FormInv
<1>4. subject = "poolForm" => form' \in PoolForm /\ HasItsFormat(form')
  BY PoolEditsTyped DEF Enter, FormsOK, FormTypeOK, FormInv
<1>5. subject = "volumeForm" => form' \in VolumeForm /\ SuitsItsPool(form')
  BY VolumeEditsTyped DEF Enter, FormsOK, FormTypeOK, FormInv
<1>6. FormTypeOK'
  BY <1>1, <1>2, <1>3, <1>4, <1>5 DEF FormsOK, FormTypeOK
<1>7. FormInv'
  BY <1>1, <1>3, <1>4, <1>5 DEF FormInv
<1>8. DocumentsFit'
  BY <1>1 DEF DocumentsFit
<1> QED
  BY <1>6, <1>7, <1>8 DEF FormsOK

(* Create hands over a document of a valid form, or has the form show what *)
(* is wrong.                                                               *)
LEMMA CreateOK == ASSUME FormsOK, onCreate PROVE FormsOK'
<1>1. subject' = subject /\ edits' = edits /\ sent = NoDocument /\ subject \in Forms
  BY DEF onCreate, IsOpen
<1> DEFINE valid == CASE subject = "networkForm" -> NetworkIsValid(form)
                      [] subject = "poolForm" -> PoolIsValid(form)
                      [] subject = "volumeForm" -> validate_VolumeCreate(form)
           doc == CASE subject = "networkForm" -> getNetworkXML(form)
                    [] subject = "poolForm" -> getPoolXML(form)
                    [] subject = "volumeForm" -> getVolumeXML(form)
<1>2. CASE valid
  <2>1. sent' = [form |-> form, doc |-> doc] /\ form' = form
    BY <1>2 DEF onCreate
  <2>2. sent'.form = form /\ sent'.doc = doc
    BY <2>1
  <2>3. subject = "networkForm" => NetworkFits(form, doc)
    BY <1>2, ValidNetworkFits DEF FormsOK, FormTypeOK, FormInv
  <2>4. subject = "poolForm" => PoolFits(form, doc)
    BY <1>2, ValidPoolFits DEF FormsOK, FormTypeOK, FormInv
  <2>5. subject = "volumeForm" => VolumeFits(form, doc)
    BY <1>2, ValidVolumeFits DEF FormsOK, FormTypeOK, FormInv
  <2>6. DocumentsFit'
    <3> HIDE DEF doc
    <3> QED
      BY <1>1, <2>2, <2>3, <2>4, <2>5 DEF DocumentsFit, Forms
  <2>7. FormTypeOK' /\ FormInv'
    BY <1>1, <2>1 DEF FormsOK, FormTypeOK, FormInv
  <2> QED
    BY <2>6, <2>7 DEF FormsOK
<1>3. CASE ~valid
  <2>1. subject # "poolForm" /\ form' = [form EXCEPT !.validate = TRUE] /\ sent' = sent
    BY <1>3 DEF onCreate
  <2>2. subject = "networkForm" => form' \in NetworkForm /\ HasAddresses(form')
    BY <2>1, NetworkParts DEF FormsOK, FormTypeOK, FormInv, NetworkForm, HasAddresses
  <2>3. subject = "volumeForm" => form' \in VolumeForm /\ SuitsItsPool(form')
    BY <2>1, VolumeParts DEF FormsOK, FormTypeOK, FormInv, VolumeForm, SuitsItsPool
  <2>4. FormTypeOK' /\ FormInv' /\ DocumentsFit'
    BY <1>1, <2>1, <2>2, <2>3 DEF FormsOK, FormTypeOK, FormInv, DocumentsFit
  <2> QED
    BY <2>4 DEF FormsOK
<1> QED
  BY <1>2, <1>3

LEMMA FormStutter == ASSUME FormsOK, UNCHANGED <<subject, formVars>> PROVE FormsOK'
BY DEF FormsOK, FormTypeOK, FormInv, DocumentsFit, formVars

-----------------------------------------------------------------------------
(* What libvirt holds, and what the page has read *)

LEMMA ObjectParts ==
  ASSUME NEW o \in Object
  PROVE  /\ o.id \in Nat /\ o.state \in States /\ o.persistent \in BOOLEAN /\ o.autostart \in BOOLEAN
         /\ o.volumes \subseteq Volumes /\ o.live \subseteq Hosts /\ o.config \subseteq Hosts
         /\ o.families \in Seq(Families)
BY DEF Object

LEMMA GoneTyped == Gone \in Object /\ Gone.id = 0 /\ Gone.state = "gone"
BY DEF Gone, Object, States

LEMMA ViewTyped == ASSUME NEW o \in Object PROVE View(o) \in Row
BY ObjectParts DEF View, Row

LEMMA StoppedTyped ==
  ASSUME NEW o \in Object
  PROVE  Stopped(o) \in Object /\ (Stopped(o).id = o.id \/ Stopped(o) = Gone)
<1>1. CASE o.persistent
  BY <1>1 DEF Stopped, Object, States
<1>2. CASE ~o.persistent
  BY <1>2, GoneTyped DEF Stopped
<1> QED
  BY <1>1, <1>2

LEMMA UndefinedTyped ==
  ASSUME NEW o \in Object
  PROVE  Undefined(o) \in Object /\ (Undefined(o).id = o.id \/ Undefined(o) = Gone)
<1>1. CASE Active(o)
  BY <1>1 DEF Undefined, Object
<1>2. CASE ~Active(o)
  BY <1>2, GoneTyped DEF Undefined
<1> QED
  BY <1>1, <1>2

LEMMA DialogParts ==
  ASSUME NEW d \in Dialog
  PROVE  /\ d.op \in Ops /\ d.nr \in Nat /\ d.id \in Nat /\ d.row \in Row /\ d.usage \in Usage
         /\ d.all \in BOOLEAN /\ d.chosen \subseteq Volumes \cup Hosts
         /\ d.op \in VolumeOps => d.chosen \subseteq Volumes
         /\ d.op \in HostOps => d.chosen \subseteq Hosts
BY DEF Dialog

LEMMA UpdateHostsTyped ==
  ASSUME NEW o \in Object, NEW d \in Dialog, d.op \in HostOps
  PROVE  UpdateHosts(o, d).o \in Object /\ UpdateHosts(o, d).o.id = o.id
<1>1. PICK config : config = IF "config" \in UpdateFlags(d)
                             THEN IF d.op = "addHost" THEN o.config \cup d.chosen ELSE o.config \ d.chosen
                             ELSE o.config
  OBVIOUS
<1>2. PICK live : live = IF "live" \in UpdateFlags(d)
                         THEN IF d.op = "addHost" THEN o.live \cup d.chosen ELSE o.live \ d.chosen
                         ELSE o.live
  OBVIOUS
<1>3. config \subseteq Hosts /\ live \subseteq Hosts
  BY <1>1, <1>2, ObjectParts, DialogParts
<1>4. UpdateHosts(o, d).o = [o EXCEPT !.config = config, !.live = live]
  BY <1>1, <1>2 DEF UpdateHosts
<1>5. [o EXCEPT !.config = config, !.live = live] \in Object
      /\ [o EXCEPT !.config = config, !.live = live].id = o.id
  BY <1>3 DEF Object
<1> QED
  BY <1>4, <1>5

CallNames == {"define", "autostart", "setAutostart", "read", "start", "stop", "undefine", "refresh",
              "createVolume", "updateHosts"}

(* The object that a call leaves is the one before, a new one or none.     *)
LeftBy(o, call, d, left) ==
    /\ left \in Object
    /\ left.state # "gone" => left.id # 0
    /\ IF call = "define" THEN left.id = made + 1
       ELSE left.state # "gone" => o.state # "gone" /\ left.id = o.id
    /\ call = "autostart" => left = [o EXCEPT !.autostart = d.all]

LEMMA AnswerTyped ==
  ASSUME NEW o \in Object, NEW call \in CallNames, NEW d \in Dialog, NEW id, made \in Nat,
         o.state # "gone" => o.id # 0,
         call = "updateHosts" => d.op \in HostOps,
         call = "createVolume" => d.op \in VolumeOps,
         Answer(o, call, d, id).ok
  PROVE  LeftBy(o, call, d, Answer(o, call, d, id).o)
<1> DEFINE a == Answer(o, call, d, id)
<1> SUFFICES /\ a.o \in Object
             /\ a.o.state # "gone" => a.o.id # 0
             /\ IF call = "define" THEN a.o.id = made + 1
                ELSE a.o.state # "gone" => o.state # "gone" /\ a.o.id = o.id
             /\ call = "autostart" => a.o = [o EXCEPT !.autostart = d.all]
  BY DEF LeftBy
<1>1. CASE call = "define"
  <2>1. PICK n \in Nat : n = made + 1
    OBVIOUS
  <2>2. a.o = [Gone EXCEPT !.id = n, !.state = "inactive", !.persistent = TRUE, !.families = <<"ipv4">>]
    BY <1>1, <2>1 DEF Answer
  <2>3. <<"ipv4">> \in Seq(Families)
    BY DEF Families
  <2>4. PICK families \in Seq(Families) : families = <<"ipv4">>
    BY <2>3
  <2>5. [Gone EXCEPT !.id = n, !.state = "inactive", !.persistent = TRUE, !.families = families] \in Object
        /\ [Gone EXCEPT !.id = n, !.state = "inactive", !.persistent = TRUE, !.families = families].id = n
    BY GoneTyped DEF Object, States
  <2>6. a.o \in Object /\ a.o.id = n /\ n # 0
    BY <2>1, <2>2, <2>4, <2>5
  <2> QED
    BY <1>1, <2>1, <2>6
<1>2. CASE call = "read"
  BY <1>2 DEF Answer
<1>3. CASE call \notin {"define", "read"}
  <2>1. o.state # "gone"
    BY <1>3 DEF Answer
  <2>2. CASE call \in {"autostart", "setAutostart"}
    <3>1. a.o = [o EXCEPT !.autostart = d.all]
      BY <1>3, <2>2 DEF Answer
    <3>2. a.o \in Object /\ a.o.id = o.id
      BY <3>1, DialogParts DEF Object
    <3> QED
      BY <2>1, <2>2, <3>1, <3>2
  <2>3. CASE call = "start"
    <3>1. a.o = [o EXCEPT !.state = "active", !.live = o.config]
      BY <1>3, <2>3 DEF Answer
    <3>2. a.o \in Object /\ a.o.id = o.id
      BY <3>1 DEF Object, States
    <3> QED
      BY <2>1, <2>3, <3>2
  <2>4. CASE call = "stop"
    <3>1. a.o = Stopped(o)
      BY <1>3, <2>4 DEF Answer
    <3> QED
      BY <2>1, <2>4, <3>1, StoppedTyped, GoneTyped
  <2>5. CASE call = "undefine"
    <3>1. a.o = Undefined(o)
      BY <1>3, <2>5 DEF Answer
    <3> QED
      BY <2>1, <2>5, <3>1, UndefinedTyped, GoneTyped
  <2>6. CASE call = "refresh"
    <3>1. a.o = o
      BY <1>3, <2>6 DEF Answer
    <3> QED
      BY <2>1, <2>6, <3>1
  <2>7. CASE call = "createVolume"
    <3>1. a.o = [o EXCEPT !.volumes = @ \cup d.chosen]
      BY <1>3, <2>7 DEF Answer
    <3>2. d.chosen \subseteq Volumes
      BY <2>7, DialogParts
    <3>3. a.o \in Object /\ a.o.id = o.id
      BY <3>1, <3>2 DEF Object
    <3> QED
      BY <2>1, <2>7, <3>3
  <2>8. CASE call = "updateHosts"
    <3>1. a = UpdateHosts(o, d)
      BY <1>3, <2>8 DEF Answer
    <3> QED
      BY <2>1, <2>8, <3>1, UpdateHostsTyped
  <2> QED
    BY <1>3, <2>2, <2>3, <2>4, <2>5, <2>6, <2>7, <2>8 DEF CallNames
<1> QED
  BY <1>1, <1>2, <1>3

-----------------------------------------------------------------------------
(* Plans *)

(* Only a creation defines something; every other plan ends with a call    *)
(* that brings news.                                                       *)
LEMMA PlanFacts ==
  ASSUME NEW d \in Dialog, NEW v, NEW c, PlanOf(d) = Plan(v, c)
  PROVE  /\ v \subseteq Volumes
         /\ c \in Seq(CallNames)
         /\ \A i \in 1..Len(c) :
               /\ c[i] \in CallNames
               /\ c[i] = "define" => d.op = "create"
               /\ c[i] = "updateHosts" => d.op \in HostOps
               /\ c[i] = "createVolume" => d.op \in VolumeOps
               /\ c[i] = "autostart" => subject = "pool"
         /\ IF d.op = "create" THEN v = {} /\ \A i \in 1..Len(c) : c[i] \in {"define", "autostart"}
            ELSE /\ Len(c) # 0
                 /\ c[Len(c)] \in {"read", "start", "stop", "undefine", "refresh"}
                 /\ \A i \in 1..Len(c) : c[i] # "autostart"
<1> USE DEF CallNames
<1>1. PlanOf(d).volumes = v /\ PlanOf(d).calls = c
  BY DEF Plan
<1>2. d.op \in Ops
  BY DialogParts
<1>3. CASE d.op = "create"
  <2>1. v = {} /\ c = IF subject = "pool" THEN <<"define", "autostart">> ELSE <<"define">>
    BY <1>1, <1>3 DEF PlanOf, storagePoolCreate, networkCreate, NoVolumes, Plan
  <2>2. CASE subject = "pool"
    <3>1. c = <<"define", "autostart">>
      BY <2>1, <2>2
    <3> QED
      BY <1>3, <2>1, <2>2, <3>1
  <2>3. CASE subject # "pool"
    <3>1. c = <<"define">>
      BY <2>1, <2>3
    <3> QED
      BY <1>3, <2>1, <3>1
  <2> QED
    BY <2>2, <2>3
<1>4. CASE d.op \in {"activate", "deactivate"}
  <2>1. v = {} /\ (c = <<"start">> \/ c = <<"stop">>)
    BY <1>1, <1>4 DEF PlanOf, StoragePoolActivate, StoragePoolDeactivate, NoVolumes, Plan
  <2>2. CASE c = <<"start">>
    BY <1>4, <2>1, <2>2
  <2>3. CASE c = <<"stop">>
    BY <1>4, <2>1, <2>3
  <2> QED
    BY <2>1, <2>2, <2>3
<1>5. CASE d.op = "delete"
  <2>1. v \subseteq Volumes
    <3>1. v = {} \/ v = d.row.volumes
      BY <1>1, <1>5 DEF PlanOf, StoragePoolDeletePlan, networkDeletePlan, NoVolumes, Plan
    <3> QED
      BY <3>1, DialogParts DEF Row
  <2>2. c = deactivateAndUndefine(d)
    BY <1>1, <1>5 DEF PlanOf, StoragePoolDeletePlan, networkDeletePlan, NoVolumes, Plan
  <2>3. c = <<"stop", "undefine">> \/ c = <<"undefine">>
    BY <2>2 DEF deactivateAndUndefine
  <2>4. CASE c = <<"stop", "undefine">>
    BY <1>5, <2>1, <2>4
  <2>5. CASE c = <<"undefine">>
    BY <1>5, <2>1, <2>5
  <2> QED
    BY <2>3, <2>4, <2>5
<1>6. CASE d.op = "createVolume"
  <2>1. v = {} /\ c = <<"createVolume", "refresh">>
    BY <1>1, <1>6 DEF PlanOf, storageVolumeCreate, NoVolumes, Plan
  <2> QED
    BY <1>6, <2>1 DEF VolumeOps
<1>7. CASE d.op = "deleteVolumes"
  <2>1. v = d.chosen /\ c = <<"refresh">>
    BY <1>1, <1>7 DEF PlanOf, storageVolumeListDelete, Plan
  <2>2. v \subseteq Volumes
    BY <1>7, <2>1, DialogParts DEF VolumeOps
  <2> QED
    BY <1>7, <2>1, <2>2
<1>8. CASE d.op = "autostart"
  <2>1. v = {} /\ c = <<"setAutostart", "read">>
    BY <1>1, <1>8 DEF PlanOf, networkChangeAutostart, NoVolumes, Plan
  <2> QED
    BY <1>8, <2>1
<1>9. CASE d.op \in HostOps
  <2>1. v = {} /\ c = <<"updateHosts", "read">>
    BY <1>1, <1>9 DEF PlanOf, StaticHostEntries, NoVolumes, Plan, HostOps
  <2>2. d.op # "create"
    BY <1>9 DEF HostOps
  <2> QED
    BY <1>9, <2>1, <2>2
<1> QED
  BY <1>2, <1>3, <1>4, <1>5, <1>6, <1>7, <1>8, <1>9 DEF Ops, VolumeOps

-----------------------------------------------------------------------------
(* Steps, and what they leave alone *)

LEMMA JobTyped ==
  ASSUME NEW j \in Job
  PROVE  /\ j # NoJob
         /\ j.d \in Dialog /\ j.volumes \subseteq Volumes /\ j.step \in Nat \ {0} /\ j.failed \in BOOLEAN
         /\ j.new \in Nat
BY Bounds DEF Job

LEMMA FormsKept == ASSUME IInv, UNCHANGED <<subject, formVars>> PROVE FormTypeOK' /\ FormInv' /\ DocumentsFit'
BY FormStutter DEF IInv, TypeOK, FormsOK

LEMMA ToldIsShown == ASSUME (news \/ behind)' PROVE ShownInv'
BY DEF ShownInv

(* What the page does not show is still announced.                         *)
LEMMA StillShown ==
  ASSUME ShownInv, UNCHANGED <<subject, object, row>>, news => news', behind => behind',
         \A s \in Slots : WillTell(jobs[s]) => news' \/ behind' \/ WillTell(jobs[s])'
  PROVE  ShownInv'
<1>1. IsShown => IsShown'
  BY DEF IsShown, View, Active
<1> QED
  BY <1>1 DEF ShownInv

LEMMA WillTellKept ==
  ASSUME UNCHANGED subject, NEW s \in Slots, jobs'[s] = jobs[s], WillTell(jobs[s])
  PROVE  WillTell(jobs[s])'
BY DEF WillTell, Calls, PlanOf, StoragePoolDeletePlan, networkDeletePlan, storagePoolCreate, networkCreate

(* The object is kept by whoever kept it before.                           *)
LEMMA StillMade ==
  ASSUME NothingHalfMade, ObjectInv, UNCHANGED subject,
         object'.state # "gone" => object.state # "gone" /\ object'.id = object.id,
         settled \cup cleanup \subseteq settled' \cup cleanup',
         \A s \in Slots : subject = "pool" /\ jobs[s] # NoJob /\ jobs[s].new # 0
            => \/ jobs[s].new \in settled' \cup cleanup'
               \/ jobs'[s] # NoJob /\ jobs'[s].new = jobs[s].new
  PROVE  NothingHalfMade' /\ ObjectInv'
<1>1. ObjectInv'
  BY DEF ObjectInv
<1>2. NothingHalfMade'
  <2> SUFFICES ASSUME subject' = "pool", object'.state # "gone"
               PROVE  \/ object'.id \in settled' \cup cleanup'
                      \/ \E s \in Slots : jobs'[s] # NoJob /\ jobs'[s].new = object'.id
    BY DEF NothingHalfMade
  <2>1. object.id # 0 /\ object'.id = object.id
    BY DEF ObjectInv
  <2>2. \/ object.id \in settled \cup cleanup
        \/ \E s \in Slots : jobs[s] # NoJob /\ jobs[s].new = object.id
    BY DEF NothingHalfMade
  <2> QED
    BY <2>1, <2>2
<1> QED
  BY <1>1, <1>2

(* A step that leaves the object and what is under way alone.              *)
LEMMA PageStep ==
  ASSUME IInv, UNCHANGED <<subject, object, jobs, cleanup, settled>>, ShownInv'
  PROVE  ObjectInv' /\ JobsInv' /\ NothingHalfMade'
BY DEF IInv, ObjectInv, JobsInv, NothingHalfMade

-----------------------------------------------------------------------------
(* The page *)

LEMMA ObjectsTyped ==
  ASSUME NEW o \in Objects, o # Gone
  PROVE  o \in Object /\ o.id = 1
<1> DEFINE VV == IF subject = "pool" THEN SUBSET Volumes ELSE {{}}
           HH == IF subject = "network" THEN SUBSET Hosts ELSE {{}}
           LL == IF subject = "network" THEN Layouts ELSE {<<>>}
           S == {[id |-> 1, state |-> st, persistent |-> p, autostart |-> FALSE, volumes |-> v,
                  live |-> IF st = "active" THEN h ELSE {}, config |-> IF p THEN h ELSE {},
                  families |-> layout] :
                    st \in {"active", "inactive"}, p \in BOOLEAN,
                    v \in VV, h \in HH, layout \in LL}
           Q(x) == /\ x.persistent \/ Active(x)
                   /\ \A h \in x.live \cup x.config : \E i \in DOMAIN x.families : x.families[i] = FamilyOf(h)
<1>1. Objects = IF subject \in Forms THEN {Gone} ELSE {Gone} \cup {x \in S : Q(x)}
  BY DEF Objects
<1>2. o \in S
  <2> HIDE DEF S, Q
  <2> QED
    BY <1>1
<1>3. \A layout \in Layouts \cup {<<>>} : layout \in Seq(Families)
  <2>1. "ipv4" \in Families /\ "ipv6" \in Families
    BY DEF Families
  <2>2. /\ <<"ipv4">> \in Seq(Families) /\ <<"ipv6">> \in Seq(Families)
        /\ <<"ipv4", "ipv6">> \in Seq(Families) /\ <<>> \in Seq(Families)
    BY <2>1
  <2> QED
    BY <2>2 DEF Layouts
<1>4. VV \subseteq SUBSET Volumes /\ HH \subseteq SUBSET Hosts /\ LL \subseteq Layouts \cup {<<>>}
  OBVIOUS
<1> HIDE DEF VV, HH, LL
<1>5. PICK st \in {"active", "inactive"}, p \in BOOLEAN, v \in VV, h \in HH, layout \in LL :
        o = [id |-> 1, state |-> st, persistent |-> p, autostart |-> FALSE, volumes |-> v,
             live |-> IF st = "active" THEN h ELSE {}, config |-> IF p THEN h ELSE {},
             families |-> layout]
  BY <1>2
<1>6. v \subseteq Volumes /\ h \subseteq Hosts /\ layout \in Seq(Families)
  BY <1>3, <1>4
<1> QED
  BY <1>5, <1>6 DEF Object, States

LEMMA InitOK == Init => IInv
<1> SUFFICES ASSUME Init PROVE IInv
  OBVIOUS
<1>1. FormsOK
  BY FormInitOK DEF Init
<1>2. object \in Object /\ ObjectInv /\ (object.state # "gone" => object.id = 1)
  <2>1. CASE object = Gone
    BY <2>1, GoneTyped DEF ObjectInv
  <2>2. CASE object # Gone
    BY <2>2, ObjectsTyped DEF Init, ObjectInv
  <2> QED
    BY <2>1, <2>2
<1>3. usage \in Usage
  <2>1. object.volumes \subseteq Volumes
    BY <1>2, ObjectParts
  <2> QED
    BY <2>1 DEF Init, NoUsage, Usage
<1>4. View(object) \in Row
  BY <1>2, ViewTyped
<1>5. View(object).volumes \subseteq Volumes
  BY <1>4 DEF Row
<1>6. TypeOK
  <2>1. jobs \in [Slots -> Job \cup {NoJob}]
    BY DEF Init
  <2>2. tab \in [rows : SUBSET Volumes, selected : SUBSET Volumes]
    BY <1>5 DEF Init
  <2>3. acts \in 0..MaxActs /\ fails \in 0..MaxFails /\ outside \in 0..MaxOutside
    BY Bounds DEF Init
  <2>4. made \in Nat /\ cleanup \subseteq Nat /\ settled \subseteq Nat
    BY DEF Init
  <2>5. /\ row \in Row /\ rowUsage \in Usage /\ surprise \subseteq Volumes
        /\ dialog \in Dialog \cup {NoDialog}
        /\ news \in BOOLEAN /\ behind \in BOOLEAN /\ disturbed \in BOOLEAN
    BY <1>3, <1>4 DEF Init
  <2> QED
    BY <1>1, <1>2, <1>3, <2>1, <2>2, <2>3, <2>4, <2>5 DEF TypeOK, FormsOK
<1>7. JobsInv
  BY DEF Init, JobsInv
<1>8. NothingHalfMade
  BY <1>2 DEF Init, NothingHalfMade
<1>9. ShownInv
  <2>1. row = View(object)
    BY DEF Init
  <2> QED
    BY <2>1 DEF ShownInv, IsShown, View
<1> QED
  BY <1>1, <1>2, <1>6, <1>7, <1>8, <1>9 DEF IInv, FormsOK

LEMMA FillsOK == ASSUME IInv, Fills PROVE IInv'
<1>1. FormsOK'
  BY EnterOK, CreateOK DEF IInv, TypeOK, Fills, FormNext, FormsOK
<1>2. /\ UNCHANGED <<object, made, usage, row, rowUsage, tab, dialog, jobs, cleanup, news>>
      /\ UNCHANGED <<behind, disturbed, surprise, settled, acts, fails, outside>>
  BY DEF Fills, libvirt, page, history, bounds
<1>3. UNCHANGED subject
  BY DEF Fills, FormNext, Enter, onCreate
<1>4. TypeOK'
  BY <1>1, <1>2 DEF IInv, TypeOK, FormsOK
<1>5. ShownInv'
  BY <1>2, <1>3, StillShown, WillTellKept DEF IInv
<1>6. ObjectInv' /\ JobsInv' /\ NothingHalfMade'
  BY <1>2, <1>3, <1>5, PageStep
<1> QED
  BY <1>1, <1>4, <1>5, <1>6 DEF IInv, FormsOK

(* What is opened or pressed shows what the page has read.                 *)
LEMMA NewDialogTyped ==
  ASSUME IInv, NEW op \in Ops, NEW all \in BOOLEAN, NEW chosen \in SUBSET (Volumes \cup Hosts),
         op \in VolumeOps => chosen \subseteq Volumes,
         op \in HostOps => chosen \subseteq Hosts
  PROVE  /\ [NewDialog(op) EXCEPT !.chosen = chosen] \in Dialog
         /\ (op \notin VolumeOps \cup HostOps) => [NewDialog(op) EXCEPT !.all = all] \in Dialog
         /\ (op \notin VolumeOps \cup HostOps) => NewDialog(op) \in Dialog
<1>1. PICK nr \in Nat : nr = acts + 1
  BY Bounds DEF IInv, TypeOK
<1>2. row \in Row /\ row.id \in Nat /\ rowUsage \in Usage
  BY DEF IInv, TypeOK, Row
<1>3. NewDialog(op) = [op |-> op, nr |-> nr, id |-> row.id, row |-> row, usage |-> rowUsage,
                       all |-> FALSE, chosen |-> {}]
  BY <1>1 DEF NewDialog
<1>4. PICK d : d = NewDialog(op)
  OBVIOUS
<1>5. /\ d \in [op : Ops, nr : Nat, id : Nat, row : Row, usage : Usage, all : BOOLEAN,
                chosen : SUBSET (Volumes \cup Hosts)]
      /\ d.op = op /\ d.chosen = {}
  BY <1>2, <1>3, <1>4
<1>6. [NewDialog(op) EXCEPT !.chosen = chosen] \in Dialog
  BY <1>4, <1>5 DEF Dialog
<1>7. op \notin VolumeOps \cup HostOps => [NewDialog(op) EXCEPT !.all = all] \in Dialog
  BY <1>4, <1>5 DEF Dialog
<1>8. op \notin VolumeOps \cup HostOps => NewDialog(op) \in Dialog
  BY <1>4, <1>5 DEF Dialog
<1> QED
  BY <1>6, <1>7, <1>8

LEMMA OpsApart ==
  /\ VolumeOps \subseteq Ops /\ HostOps \subseteq Ops
  /\ {"create", "activate", "deactivate", "delete", "autostart"} \subseteq Ops
  /\ {"create", "activate", "deactivate", "delete", "autostart"} \cap (VolumeOps \cup HostOps) = {}
  /\ VolumeOps \cap HostOps = {}
BY DEF Ops, VolumeOps, HostOps

LEMMA DialogsTyped == ASSUME IInv PROVE Dialogs \subseteq Dialog
<1>1. CreateDialog \subseteq Dialog
  <2>1. PICK op \in Ops : op = "create"
    BY OpsApart
  <2>2. op \notin VolumeOps \cup HostOps
    BY <2>1, OpsApart
  <2> QED
    BY <2>1, <2>2, NewDialogTyped DEF CreateDialog
<1>2. StoragePoolDelete \subseteq Dialog /\ NetworkActions \subseteq Dialog
  <2>1. PICK op \in Ops : op = "delete"
    BY OpsApart
  <2>2. op \notin VolumeOps \cup HostOps
    BY <2>1, OpsApart
  <2>3. {FALSE} \cup {row.volumes # {}} \subseteq BOOLEAN
    OBVIOUS
  <2> QED
    BY <2>1, <2>2, <2>3, NewDialogTyped DEF StoragePoolDelete, NetworkActions
<1>3. StorageVolumeCreate \subseteq Dialog
  <2>1. PICK op \in Ops : op = "createVolume"
    BY OpsApart DEF VolumeOps
  <2>2. op \in VolumeOps /\ op \notin HostOps
    BY <2>1, OpsApart DEF VolumeOps
  <2>3. \A v \in Volumes : [NewDialog(op) EXCEPT !.chosen = {v}] \in Dialog
    <3> SUFFICES ASSUME NEW v \in Volumes PROVE [NewDialog(op) EXCEPT !.chosen = {v}] \in Dialog
      OBVIOUS
    <3>1. PICK chosen \in SUBSET (Volumes \cup Hosts) : chosen = {v} /\ chosen \subseteq Volumes
      OBVIOUS
    <3> QED
      BY <2>2, <3>1, NewDialogTyped
  <2> QED
    BY <2>1, <2>3 DEF StorageVolumeCreate
<1>4. NetworkAddStaticHostEntries \subseteq Dialog /\ DHCPHost \subseteq Dialog
  <2>1. \A op \in HostOps, h \in Hosts : [NewDialog(op) EXCEPT !.chosen = {h}] \in Dialog
    <3> SUFFICES ASSUME NEW op \in HostOps, NEW h \in Hosts
                 PROVE  [NewDialog(op) EXCEPT !.chosen = {h}] \in Dialog
      OBVIOUS
    <3>1. PICK chosen \in SUBSET (Volumes \cup Hosts) : chosen = {h} /\ chosen \subseteq Hosts
      OBVIOUS
    <3>2. op \in Ops /\ op \notin VolumeOps
      BY OpsApart
    <3> QED
      BY <3>1, <3>2, NewDialogTyped
  <2>2. row.hosts \subseteq Hosts
    BY DEF IInv, TypeOK, Row
  <2>3. "addHost" \in HostOps /\ "removeHost" \in HostOps
    BY DEF HostOps
  <2> QED
    BY <2>1, <2>2, <2>3 DEF NetworkAddStaticHostEntries, DHCPHost
<1> QED
  BY <1>1, <1>2, <1>3, <1>4 DEF Dialogs

LEMMA ButtonsTyped == ASSUME IInv PROVE Buttons \subseteq Dialog
<1>1. Switches \subseteq Dialog
  <2>1. PICK op \in Ops : op = IF Active(row) THEN "deactivate" ELSE "activate"
    BY OpsApart
  <2>2. op \notin VolumeOps \cup HostOps
    BY <2>1, OpsApart
  <2> QED
    BY <2>1, <2>2, NewDialogTyped DEF Switches
<1>2. networkAutostart \subseteq Dialog
  <2>1. PICK op \in Ops : op = "autostart"
    BY OpsApart
  <2>2. op \notin VolumeOps \cup HostOps
    BY <2>1, OpsApart
  <2>3. PICK all \in BOOLEAN : all = ~row.autostart
    OBVIOUS
  <2> QED
    BY <2>1, <2>2, <2>3, NewDialogTyped DEF networkAutostart
<1>3. StorageVolumeDelete \subseteq Dialog
  <2>1. PICK op \in Ops : op = "deleteVolumes"
    BY OpsApart DEF VolumeOps
  <2>2. op \in VolumeOps /\ op \notin HostOps
    BY <2>1, OpsApart DEF VolumeOps
  <2>3. tab.selected \subseteq Volumes
    BY DEF IInv, TypeOK
  <2>4. PICK chosen \in SUBSET (Volumes \cup Hosts) : chosen = tab.selected /\ chosen \subseteq Volumes
    BY <2>3
  <2> QED
    BY <2>1, <2>2, <2>4, NewDialogTyped DEF StorageVolumeDelete
<1> QED
  BY <1>1, <1>2, <1>3 DEF Buttons

LEMMA OpenOK == ASSUME IInv, Open PROVE IInv'
<1>1. /\ UNCHANGED <<object, made, usage, row, rowUsage, tab, jobs, cleanup, news>>
      /\ UNCHANGED <<behind, disturbed, surprise, settled, fails, outside>>
      /\ UNCHANGED <<subject, formVars>>
  BY DEF Open, libvirt, history
<1>2. dialog' \in Dialog
  BY DialogsTyped DEF Open
<1>3. acts' \in 0..MaxActs
  BY Bounds DEF Open, IInv, TypeOK
<1>4. FormTypeOK' /\ FormInv' /\ DocumentsFit'
  BY <1>1, FormsKept
<1>5. TypeOK'
  BY <1>1, <1>2, <1>3, <1>4 DEF IInv, TypeOK
<1>6. ShownInv'
  BY <1>1, StillShown, WillTellKept DEF IInv
<1>7. ObjectInv' /\ JobsInv' /\ NothingHalfMade'
  BY <1>1, <1>6, PageStep
<1> QED
  BY <1>4, <1>5, <1>6, <1>7 DEF IInv

LEMMA CancelOK == ASSUME IInv, Cancel PROVE IInv'
<1>1. /\ UNCHANGED <<object, made, usage, row, rowUsage, tab, jobs, cleanup, news>>
      /\ UNCHANGED <<behind, disturbed, surprise, settled, acts, fails, outside>>
      /\ UNCHANGED <<subject, formVars>> /\ dialog' = NoDialog
  BY DEF Cancel, libvirt, history, bounds
<1>4. FormTypeOK' /\ FormInv' /\ DocumentsFit'
  BY <1>1, FormsKept
<1>5. TypeOK'
  BY <1>1, <1>4 DEF IInv, TypeOK
<1>6. ShownInv'
  BY <1>1, StillShown, WillTellKept DEF IInv
<1>7. ObjectInv' /\ JobsInv' /\ NothingHalfMade'
  BY <1>1, <1>6, PageStep
<1> QED
  BY <1>4, <1>5, <1>6, <1>7 DEF IInv

LEMMA SelectOK == ASSUME IInv, onSelect PROVE IInv'
<1>1. /\ UNCHANGED <<object, made, usage, row, rowUsage, dialog, jobs, cleanup, news>>
      /\ UNCHANGED <<behind, disturbed, surprise, settled, acts, fails, outside>>
      /\ UNCHANGED <<subject, formVars>>
  BY DEF onSelect, libvirt, history, bounds
<1>2. tab' \in [rows : SUBSET Volumes, selected : SUBSET Volumes]
  BY DEF onSelect, IInv, TypeOK
<1>4. FormTypeOK' /\ FormInv' /\ DocumentsFit'
  BY <1>1, FormsKept
<1>5. TypeOK'
  BY <1>1, <1>2, <1>4 DEF IInv, TypeOK
<1>6. ShownInv'
  BY <1>1, StillShown, WillTellKept DEF IInv
<1>7. ObjectInv' /\ JobsInv' /\ NothingHalfMade'
  BY <1>1, <1>6, PageStep
<1> QED
  BY <1>4, <1>5, <1>6, <1>7 DEF IInv

LEMMA ReadsOK == ASSUME IInv, Reads PROVE IInv'
<1>1. /\ UNCHANGED <<object, made, usage, rowUsage, dialog, jobs, cleanup>>
      /\ UNCHANGED <<disturbed, surprise, settled, acts, fails, outside>>
      /\ UNCHANGED <<subject, formVars>>
      /\ news' = FALSE /\ behind' = FALSE /\ row' = View(object)
      /\ tab' = getDerivedStateFromProps(View(object))
  BY DEF Reads, libvirt, bounds
<1>2. View(object) \in Row
  BY ViewTyped DEF IInv, TypeOK
<1>3. tab' \in [rows : SUBSET Volumes, selected : SUBSET Volumes]
  BY <1>1, <1>2 DEF getDerivedStateFromProps, Row, IInv, TypeOK
<1>4. FormTypeOK' /\ FormInv' /\ DocumentsFit'
  BY <1>1, FormsKept
<1>5. TypeOK'
  BY <1>1, <1>2, <1>3, <1>4 DEF IInv, TypeOK
<1>6. ShownInv'
  BY <1>1 DEF ShownInv, IsShown, View, Active
<1>7. ObjectInv' /\ JobsInv' /\ NothingHalfMade'
  BY <1>1, <1>6, PageStep
<1> QED
  BY <1>4, <1>5, <1>6, <1>7 DEF IInv

LEMMA VmsAreReadOK == ASSUME IInv, VmsAreRead PROVE IInv'
<1>1. /\ UNCHANGED <<object, made, usage, row, tab, dialog, jobs, cleanup, news>>
      /\ UNCHANGED <<behind, disturbed, settled, acts, fails, outside>>
      /\ UNCHANGED <<subject, formVars>>
      /\ rowUsage' = usage /\ (surprise' = {} \/ surprise' = surprise)
  BY DEF VmsAreRead, libvirt, bounds
<1>4. FormTypeOK' /\ FormInv' /\ DocumentsFit'
  BY <1>1, FormsKept
<1>5. TypeOK'
  BY <1>1, <1>4 DEF IInv, TypeOK
<1>6. ShownInv'
  BY <1>1, StillShown, WillTellKept DEF IInv
<1>7. ObjectInv' /\ JobsInv' /\ NothingHalfMade'
  BY <1>1, <1>6, PageStep
<1> QED
  BY <1>4, <1>5, <1>6, <1>7 DEF IInv

-----------------------------------------------------------------------------
(* Jobs *)

LEMMA PlanShape == ASSUME NEW d \in Dialog PROVE \E v, c : PlanOf(d) = Plan(v, c)
BY DialogParts DEF PlanOf, NoVolumes, storagePoolCreate, networkCreate, StoragePoolActivate,
   StoragePoolDeactivate, StoragePoolDeletePlan, networkDeletePlan, storageVolumeCreate,
   storageVolumeListDelete, networkChangeAutostart, StaticHostEntries, Ops, VolumeOps, HostOps

LEMMA NewJobTyped ==
  ASSUME NEW d \in Dialog
  PROVE  [d |-> d, volumes |-> PlanOf(d).volumes, step |-> 1, failed |-> FALSE, new |-> 0] \in Job
<1>1. PICK v, c : PlanOf(d) = Plan(v, c)
  BY PlanShape
<1>2. v \subseteq Volumes
  BY <1>1, PlanFacts
<1>3. PlanOf(d).volumes = v
  BY <1>1 DEF Plan
<1> QED
  BY <1>2, <1>3 DEF Job

(* A button hands over its plan.                                           *)
LEMMA BeginOK ==
  ASSUME IInv, NEW d \in Dialog, Begin(d),
         UNCHANGED <<object, made, usage, row, rowUsage, tab, dialog, cleanup, news>>,
         UNCHANGED <<behind, surprise, settled, fails, outside>>,
         UNCHANGED <<subject, formVars>>,
         acts' \in 0..MaxActs
  PROVE  IInv'
<1>1. PICK j \in Job :
        j = [d |-> d, volumes |-> PlanOf(d).volumes, step |-> 1, failed |-> FALSE, new |-> 0]
  BY NewJobTyped
<1>2. PICK s \in Slots : /\ jobs[s] = NoJob
                         /\ jobs' = [jobs EXCEPT ![s] = j]
  BY <1>1 DEF Begin
<1>3. disturbed' \in BOOLEAN
  BY DEF Begin
<1>4. FormTypeOK' /\ FormInv' /\ DocumentsFit'
  BY FormsKept
<1>5. jobs' \in [Slots -> Job \cup {NoJob}]
  BY <1>2 DEF IInv, TypeOK
<1>6. \A r \in Slots : jobs'[r] = IF r = s THEN j ELSE jobs[r]
  BY <1>2 DEF IInv, TypeOK
<1>7. TypeOK'
  BY <1>3, <1>4, <1>5 DEF IInv, TypeOK
<1>8. ShownInv'
  <2>1. ASSUME NEW r \in Slots, WillTell(jobs[r]) PROVE WillTell(jobs[r])'
    <3>1. r # s
      BY <1>2, <2>1 DEF WillTell
    <3> QED
      BY <1>6, <2>1, <3>1, WillTellKept
  <2> QED
    BY <2>1, StillShown DEF IInv
<1>9. JobsInv'
  <2>1. PICK v, c : PlanOf(d) = Plan(v, c)
    BY PlanShape
  <2>2. j.volumes = v /\ j.d = d /\ j.step = 1 /\ j.new = 0
    BY <1>1, <2>1 DEF Plan
  <2>3. JobInv(j)
    BY <2>1, <2>2, PlanFacts DEF JobInv
  <2> QED
    BY <1>6, <2>3 DEF IInv, JobsInv
<1>10. NothingHalfMade' /\ ObjectInv'
  <2>1. \A r \in Slots : jobs[r] # NoJob => jobs'[r] = jobs[r]
    BY <1>2, <1>6
  <2> QED
    BY <2>1, StillMade DEF IInv
<1> QED
  BY <1>4, <1>7, <1>8, <1>9, <1>10 DEF IInv

LEMMA SaveOK == ASSUME IInv, Save PROVE IInv'
<1>1. /\ UNCHANGED <<object, made, usage, row, rowUsage, tab, dialog, cleanup, news>>
      /\ UNCHANGED <<behind, surprise, settled, acts, fails, outside>>
      /\ UNCHANGED <<subject, formVars>>
  BY DEF Save, libvirt, page, bounds
<1>2. PICK d \in Dialog : d = dialog
  BY DEF Save, IInv, TypeOK
<1>3. Begin(d)
  BY <1>2 DEF Save
<1>4. acts' \in 0..MaxActs
  BY <1>1 DEF IInv, TypeOK
<1> QED
  BY <1>1, <1>3, <1>4, BeginOK

LEMMA PressOK == ASSUME IInv, Press PROVE IInv'
<1>1. /\ UNCHANGED <<object, made, usage, row, rowUsage, tab, dialog, cleanup, news>>
      /\ UNCHANGED <<behind, surprise, settled, fails, outside>>
      /\ UNCHANGED <<subject, formVars>>
  BY DEF Press, libvirt, page
<1>2. PICK d \in Dialog : Begin(d)
  BY ButtonsTyped DEF Press
<1>3. acts' \in 0..MaxActs
  BY Bounds DEF Press, IInv, TypeOK
<1> QED
  BY <1>1, <1>2, <1>3, BeginOK

(* One job goes on, or ends; nothing else changes but the object, what is  *)
(* announced and what is cleaned up.                                       *)
LEMMA JobStep ==
  ASSUME IInv, NEW s \in Slots, jobs[s] # NoJob, NEW k \in Job \cup {NoJob},
         jobs' = [jobs EXCEPT ![s] = k],
         UNCHANGED <<usage, row, rowUsage, tab, disturbed, surprise, acts, outside>>,
         UNCHANGED <<subject, formVars>>,
         dialog' \in Dialog \cup {NoDialog}, object' \in Object, made' \in Nat,
         cleanup' \subseteq Nat, settled' \subseteq Nat,
         news' \in BOOLEAN, behind' \in BOOLEAN, fails' \in 0..MaxFails,
         k # NoJob => JobInv(k),
         news' \/ behind' \/ (UNCHANGED <<object, news, behind>> /\ (WillTell(jobs[s]) => WillTell(k)'))
                          \/ WillTell(k)'
                          \/ (/\ subject = "pool" /\ UNCHANGED <<news, behind>> /\ ~WillTell(jobs[s])
                              /\ \E a : object' = [object EXCEPT !.autostart = a]),
         NothingHalfMade' /\ ObjectInv'
  PROVE  IInv'
<1>1. jobs' \in [Slots -> Job \cup {NoJob}]
      /\ \A r \in Slots : jobs'[r] = IF r = s THEN k ELSE jobs[r]
  BY DEF IInv, TypeOK
<1>2. FormTypeOK' /\ FormInv' /\ DocumentsFit'
  BY FormsKept
<1>3. TypeOK'
  BY <1>1, <1>2 DEF IInv, TypeOK
<1>4. JobsInv'
  BY <1>1 DEF IInv, JobsInv
<1>5. \A r \in Slots : r # s /\ WillTell(jobs[r]) => WillTell(jobs[r])'
  BY <1>1, WillTellKept
<1>6. WillTell(k)' => WillTell(jobs[s])'
  BY <1>1 DEF WillTell, Calls, PlanOf
<1>7. ShownInv'
  <2>1. CASE news' \/ behind'
    BY <2>1, ToldIsShown
  <2>2. CASE UNCHANGED <<object, news, behind>> /\ (WillTell(jobs[s]) => WillTell(k)')
    BY <1>5, <1>6, <2>2, StillShown DEF IInv
  <2>3. CASE WillTell(k)'
    BY <1>6, <2>3 DEF ShownInv
  <2>4. CASE /\ subject = "pool" /\ UNCHANGED <<news, behind>> /\ ~WillTell(jobs[s])
             /\ \E a : object' = [object EXCEPT !.autostart = a]
    <3>1. IsShown => IsShown'
      <4> SUFFICES ASSUME IsShown PROVE IsShown'
        OBVIOUS
      <4>1. PICK a : object' = [object EXCEPT !.autostart = a]
        BY <2>4
      <4>2. object \in Object
        BY DEF IInv, TypeOK
      <4>3. /\ object'.id = object.id /\ object'.state = object.state
            /\ object'.persistent = object.persistent /\ object'.volumes = object.volumes
            /\ object'.live = object.live /\ object'.config = object.config
            /\ object'.families = object.families
        BY <4>1, <4>2 DEF Object
      <4>4. row = [View(object) EXCEPT !.autostart = row.autostart]
        BY <2>4 DEF IsShown
      <4>5. [View(object') EXCEPT !.autostart = row.autostart] =
              [View(object) EXCEPT !.autostart = row.autostart]
        BY <4>3 DEF View, Active
      <4>6. row' = [View(object') EXCEPT !.autostart = row'.autostart] /\ subject' = "pool"
        BY <2>4, <4>4, <4>5
      <4> QED
        BY <4>6 DEF IsShown, View, Active
    <3> QED
      BY <1>5, <2>4, <3>1 DEF IInv, ShownInv
  <2> QED
    BY <2>1, <2>2, <2>3, <2>4
<1> QED
  BY <1>2, <1>3, <1>4, <1>7 DEF IInv

(* The calls of a plan that is under way.                                  *)
LEMMA CallsOfJob ==
  ASSUME NEW j \in Job, NEW c, c = Calls(j), NEW i \in 1..Len(c)
  PROVE  /\ c[i] \in CallNames
         /\ c[i] = "define" => j.d.op = "create"
         /\ c[i] = "updateHosts" => j.d.op \in HostOps
         /\ c[i] = "createVolume" => j.d.op \in VolumeOps
         /\ c[i] = "autostart" => subject = "pool" /\ j.d.op = "create"
         /\ j.d.op = "create" => c[i] \in {"define", "autostart"}
         /\ j.d.op # "create" /\ i = Len(c) => c[i] \in {"read", "start", "stop", "undefine", "refresh"}
<1>1. j.d \in Dialog
  BY JobTyped
<1>2. PICK v, x : PlanOf(j.d) = Plan(v, x)
  BY <1>1, PlanShape
<1>3. c = x
  BY <1>2 DEF Calls, Plan
<1>4. PICK d \in Dialog : d = j.d
  BY <1>1
<1> QED
  BY <1>2, <1>3, <1>4, PlanFacts

LEMMA CallsEnd ==
  ASSUME NEW j \in Job
  PROVE  /\ Len(Calls(j)) \in Nat
         /\ j.d.op # "create" => 1 <= Len(Calls(j))
<1>1. j.d \in Dialog
  BY JobTyped
<1>2. PICK v, x : PlanOf(j.d) = Plan(v, x)
  BY <1>1, PlanShape
<1>3. Calls(j) = x
  BY <1>2 DEF Calls, Plan
<1>4. PICK d \in Dialog : d = j.d
  BY <1>1
<1>5. x \in Seq(CallNames) /\ (d.op # "create" => Len(x) # 0)
  BY <1>2, <1>4, PlanFacts
<1> QED
  BY <1>3, <1>4, <1>5

LEMMA CallsSame ==
  ASSUME UNCHANGED subject, NEW j
  PROVE  Calls(j)' = Calls(j)
BY DEF Calls, PlanOf

LEMMA FailedJobTyped ==
  ASSUME NEW j \in Job, JobInv(j), NEW v \in SUBSET Volumes, j.volumes # {}
  PROVE  /\ FailedJob(j, v) \in Job \cup {NoJob}
         /\ FailedJob(j, v) # NoJob => JobInv(FailedJob(j, v))
<1>1. CASE v = {}
  BY <1>1 DEF FailedJob
<1>2. CASE v # {}
  <2>1. PICK k : k = [j EXCEPT !.failed = TRUE, !.volumes = v]
    OBVIOUS
  <2>2. k \in Job /\ k.new = j.new /\ k.d = j.d /\ k.step = j.step /\ k.volumes = v
    BY <2>1 DEF Job
  <2>3. JobInv(k)
    BY <2>2 DEF JobInv
  <2> QED
    BY <1>2, <2>1, <2>2, <2>3 DEF FailedJob
<1> QED
  BY <1>1, <1>2

LEMMA JobOf ==
  ASSUME IInv, NEW s \in Slots, jobs[s] # NoJob
  PROVE  jobs[s] \in Job /\ JobInv(jobs[s])
BY DEF IInv, TypeOK, JobsInv

(* A volume is deleted; the list is read again at the end of the plan, or  *)
(* the plan has failed.                                                    *)
LEMMA VolumeIsDeletedOK == ASSUME IInv, VolumeIsDeleted PROVE IInv'
<1>1. PICK s \in Slots : jobs[s] # NoJob /\ \E v \in jobs[s].volumes :
        LET ok == Active(object) /\ v \in object.volumes
            rest == jobs[s].volumes \ {v}
        IN  /\ object' = IF ok THEN [object EXCEPT !.volumes = @ \ {v}] ELSE object
            /\ jobs' = [jobs EXCEPT ![s] = IF ok /\ ~@.failed THEN [@ EXCEPT !.volumes = rest] ELSE FailedJob(@, rest)]
            /\ behind' = (behind \/ ~ok \/ jobs[s].failed)
            /\ UNCHANGED <<subject, formVars, made, usage, page, cleanup, news, disturbed, surprise, settled, bounds>>
  BY DEF VolumeIsDeleted
<1>2. PICK j \in Job : j = jobs[s] /\ JobInv(j)
  BY <1>1, JobOf
<1>3. PICK v \in j.volumes : 
        LET ok == Active(object) /\ v \in object.volumes
            rest == j.volumes \ {v}
        IN  /\ object' = IF ok THEN [object EXCEPT !.volumes = @ \ {v}] ELSE object
            /\ jobs' = [jobs EXCEPT ![s] = IF ok /\ ~j.failed THEN [j EXCEPT !.volumes = rest] ELSE FailedJob(j, rest)]
            /\ behind' = (behind \/ ~ok \/ j.failed)
            /\ UNCHANGED <<subject, formVars, made, usage, page, cleanup, news, disturbed, surprise, settled, bounds>>
  BY <1>1, <1>2
<1>4. PICK ok \in BOOLEAN : ok = (Active(object) /\ v \in object.volumes)
  OBVIOUS
<1>5. PICK rest : rest = j.volumes \ {v}
  OBVIOUS
<1>6. PICK k : k = IF ok /\ ~j.failed THEN [j EXCEPT !.volumes = rest] ELSE FailedJob(j, rest)
  OBVIOUS
<1>7. /\ object' = IF ok THEN [object EXCEPT !.volumes = @ \ {v}] ELSE object
      /\ jobs' = [jobs EXCEPT ![s] = k]
      /\ behind' = (behind \/ ~ok \/ j.failed)
      /\ UNCHANGED <<subject, formVars, made, usage, page, cleanup, news, disturbed, surprise, settled, bounds>>
  BY <1>3, <1>4, <1>5, <1>6
<1>8. j.volumes # {} /\ rest \in SUBSET Volumes /\ j.d.op # "create" /\ j.new = 0 /\ j.step = 1
  BY <1>2, <1>5, JobTyped DEF JobInv
<1>9. /\ k \in Job \cup {NoJob} /\ (k # NoJob => JobInv(k))
      /\ behind' \/ WillTell(k)'
  <2>1. CASE ok /\ ~j.failed
    <3>1. k = [j EXCEPT !.volumes = rest]
      BY <1>6, <2>1
    <3>2. k \in Job /\ k.new = 0 /\ k.d = j.d /\ k.step = 1 /\ ~k.failed
      BY <1>8, <2>1, <3>1 DEF Job
    <3>3. JobInv(k)
      BY <1>8, <3>2 DEF JobInv
    <3>4. k # NoJob /\ 1 <= Len(Calls(k))
      BY <1>8, <3>2, JobTyped, CallsEnd
    <3>5. Calls(k)' = Calls(k)
      BY <1>7, CallsSame
    <3>6. WillTell(k)'
      BY <1>8, <3>2, <3>4, <3>5 DEF WillTell
    <3> QED
      BY <3>2, <3>3, <3>6
  <2>2. CASE ~(ok /\ ~j.failed)
    <3>1. k = FailedJob(j, rest)
      BY <1>6, <2>2
    <3>2. behind'
      BY <1>7, <2>2
    <3> QED
      BY <1>2, <1>8, <3>1, <3>2, FailedJobTyped
  <2> QED
    BY <2>1, <2>2
<1>10. object' \in Object /\ object'.state = object.state /\ object'.id = object.id
  BY <1>7 DEF IInv, TypeOK, Object
<1>11. /\ UNCHANGED <<usage, row, rowUsage, tab, dialog, disturbed, surprise, acts, outside>>
       /\ UNCHANGED <<subject, formVars, made, cleanup, settled, news, fails>>
       /\ behind' \in BOOLEAN
  BY <1>7 DEF page, bounds, IInv, TypeOK
<1>12. jobs'[s] = k /\ \A r \in Slots \ {s} : jobs'[r] = jobs[r]
  BY <1>7 DEF IInv, TypeOK
<1>13. NothingHalfMade' /\ ObjectInv'
  <2>1. \A r \in Slots : jobs[r] # NoJob /\ jobs[r].new # 0 => jobs'[r] = jobs[r]
    BY <1>2, <1>8, <1>12
  <2> QED
    BY <1>10, <1>11, <2>1, StillMade DEF IInv
<1> QED
  BY <1>1, <1>7, <1>9, <1>10, <1>11, <1>13, JobStep DEF IInv, TypeOK

LEMMA VolumeIsNotDeletedOK == ASSUME IInv, VolumeIsNotDeleted PROVE IInv'
<1>1. PICK s \in Slots : jobs[s] # NoJob /\ \E v \in jobs[s].volumes :
        /\ fails < MaxFails /\ fails' = fails + 1
        /\ jobs' = [jobs EXCEPT ![s] = FailedJob(@, @.volumes \ {v})]
        /\ behind' = TRUE
        /\ UNCHANGED <<subject, formVars, libvirt, page, cleanup, news, disturbed, surprise, settled, acts, outside>>
  BY DEF VolumeIsNotDeleted
<1>2. PICK j \in Job : j = jobs[s] /\ JobInv(j)
  BY <1>1, JobOf
<1>3. PICK v \in j.volumes :
        /\ fails < MaxFails /\ fails' = fails + 1
        /\ jobs' = [jobs EXCEPT ![s] = FailedJob(j, j.volumes \ {v})]
        /\ behind' = TRUE
        /\ UNCHANGED <<subject, formVars, libvirt, page, cleanup, news, disturbed, surprise, settled, acts, outside>>
  BY <1>1, <1>2
<1>4. PICK rest : rest = j.volumes \ {v}
  OBVIOUS
<1>5. PICK k : k = FailedJob(j, rest)
  OBVIOUS
<1>6. jobs' = [jobs EXCEPT ![s] = k]
  BY <1>3, <1>4, <1>5
<1>7. j.volumes # {} /\ rest \in SUBSET Volumes /\ j.new = 0
  BY <1>2, <1>4, JobTyped DEF JobInv
<1>8. k \in Job \cup {NoJob} /\ (k # NoJob => JobInv(k))
  BY <1>2, <1>5, <1>7, FailedJobTyped
<1>9. /\ UNCHANGED <<usage, row, rowUsage, tab, dialog, disturbed, surprise, acts, outside>>
      /\ UNCHANGED <<subject, formVars, object, made, cleanup, settled, news>>
      /\ fails' \in 0..MaxFails /\ behind' = TRUE
  BY <1>3, Bounds DEF libvirt, page, IInv, TypeOK
<1>10. jobs'[s] = k /\ \A r \in Slots \ {s} : jobs'[r] = jobs[r]
  BY <1>6 DEF IInv, TypeOK
<1>11. NothingHalfMade' /\ ObjectInv'
  <2>1. \A r \in Slots : jobs[r] # NoJob /\ jobs[r].new # 0 => jobs'[r] = jobs[r]
    BY <1>2, <1>7, <1>10
  <2> QED
    BY <1>9, <2>1, StillMade DEF IInv
<1> QED
  BY <1>1, <1>6, <1>8, <1>9, <1>11, JobStep DEF IInv, TypeOK

(* A call that libvirt answers: what it changes is announced, or the plan  *)
(* goes on to a call that is.                                              *)
LEMMA CallSucceeds ==
  ASSUME IInv, NEW s \in Slots, NEW j \in Job, j = jobs[s], jobs[s] # NoJob, JobInv(j), IsCalling(j),
         NEW call, call = Calls(j)[j.step], NEW id,
         Answer(object, call, j.d, id).ok,
         object' = Answer(object, call, j.d, id).o,
         jobs' = [jobs EXCEPT ![s] = [j EXCEPT !.step = @ + 1, !.new = IF call = "define" THEN made + 1 ELSE @]],
         made' = IF call = "define" THEN made + 1 ELSE made,
         news' = (news \/ BringsNews(call, j.d)),
         behind' = (behind \/ (call = "read" /\ object.id # j.d.id)),
         UNCHANGED <<usage, row, rowUsage, tab, dialog, disturbed, surprise, acts, outside>>,
         UNCHANGED <<subject, formVars, cleanup, settled, fails>>
  PROVE  IInv'
<1>1. /\ j.d \in Dialog /\ j.step \in Nat \ {0} /\ j.new \in Nat /\ j.volumes = {} /\ ~j.failed
      /\ j.step <= Len(Calls(j)) /\ made \in Nat /\ object \in Object
  BY JobTyped DEF IsCalling, IInv, TypeOK
<1>2. PICK c : c = Calls(j)
  OBVIOUS
<1>3. Len(c) \in Nat
  BY <1>2, CallsEnd
<1>4. PICK i \in 1..Len(c) : i = j.step
  BY <1>1, <1>2, <1>3
<1>5. /\ call \in CallNames
      /\ call = "define" => j.d.op = "create"
      /\ call = "updateHosts" => j.d.op \in HostOps
      /\ call = "createVolume" => j.d.op \in VolumeOps
      /\ call = "autostart" => subject = "pool" /\ j.d.op = "create"
      /\ j.d.op = "create" => call \in {"define", "autostart"}
      /\ j.d.op # "create" /\ i = Len(c) => call \in {"read", "start", "stop", "undefine", "refresh"}
  BY <1>2, <1>4, CallsOfJob
<1>6. PICK o \in Object : o = object
  BY <1>1
<1>7. PICK d \in Dialog : d = j.d
  BY <1>1
<1>8. PICK x \in CallNames : x = call
  BY <1>5
<1>9. /\ object' \in Object
      /\ object'.state # "gone" => object'.id # 0
      /\ IF call = "define" THEN object'.id = made + 1
         ELSE object'.state # "gone" => o.state # "gone" /\ object'.id = o.id
      /\ call = "autostart" => object' = [o EXCEPT !.autostart = d.all]
  <2>1. o.state # "gone" => o.id # 0
    BY <1>6 DEF IInv, ObjectInv
  <2>2. Answer(o, x, d, id).ok
    BY <1>6, <1>7, <1>8
  <2>3. /\ x = "updateHosts" => d.op \in HostOps
        /\ x = "createVolume" => d.op \in VolumeOps
    BY <1>5, <1>7, <1>8
  <2>4. PICK left : left = Answer(o, x, d, id).o
    OBVIOUS
  <2>5. LeftBy(o, x, d, left)
    BY <1>1, <2>1, <2>2, <2>3, <2>4, AnswerTyped
  <2>6. object' = left
    BY <1>6, <1>7, <1>8, <2>4
  <2> QED
    BY <1>8, <2>5, <2>6 DEF LeftBy
<1>11. PICK n \in Nat : n = IF call = "define" THEN made + 1 ELSE j.new
  BY <1>1
<1>12. PICK m \in Nat \ {0} : m = j.step + 1
  BY <1>1
<1>13. PICK k : k = [j EXCEPT !.step = m, !.new = n]
  OBVIOUS
<1>14. k \in Job /\ k.step = m /\ k.new = n /\ k.d = j.d /\ k.volumes = {} /\ ~k.failed
  BY <1>1, <1>13 DEF Job
<1>15. jobs' = [jobs EXCEPT ![s] = k]
  BY <1>11, <1>12, <1>13
<1>16. JobInv(k)
  BY <1>5, <1>11, <1>14 DEF JobInv
<1>17. jobs'[s] = k /\ \A r \in Slots \ {s} : jobs'[r] = jobs[r]
  BY <1>15 DEF IInv, TypeOK
<1>18. NothingHalfMade' /\ ObjectInv'
  <2>1. CASE call = "define"
    <3>1. object'.id = made + 1 /\ k.new = made + 1 /\ k # NoJob
      BY <1>9, <1>11, <1>14, <2>1, JobTyped
    <3>2. ObjectInv'
      BY <1>9 DEF ObjectInv
    <3> QED
      BY <1>17, <3>1, <3>2 DEF NothingHalfMade
  <2>2. CASE call # "define"
    <3>1. object'.state # "gone" => object.state # "gone" /\ object'.id = object.id
      BY <1>6, <1>9, <2>2
    <3>2. k.new = j.new /\ k # NoJob
      BY <1>11, <1>14, <2>2, JobTyped
    <3>3. \A r \in Slots : jobs[r] # NoJob /\ jobs[r].new # 0 => jobs'[r] # NoJob /\ jobs'[r].new = jobs[r].new
      BY <1>17, <3>2
    <3> QED
      BY <3>1, <3>3, StillMade DEF IInv
  <2> QED
    BY <2>1, <2>2
<1>19. \/ news' \/ behind' \/ WillTell(k)'
       \/ /\ subject = "pool" /\ UNCHANGED <<news, behind>> /\ ~WillTell(jobs[s])
          /\ \E y : object' = [object EXCEPT !.autostart = y]
  <2>1. CASE j.d.op = "create"
    <3>1. CASE call = "define"
      BY <3>1 DEF BringsNews
    <3>2. CASE call = "autostart"
      <4>1. object' = [object EXCEPT !.autostart = d.all]
        BY <1>6, <1>9, <3>2
      <4>2. news' = news /\ behind' = behind
        BY <3>2 DEF BringsNews, IInv, TypeOK
      <4>3. ~WillTell(jobs[s])
        BY <2>1 DEF WillTell
      <4> QED
        BY <1>5, <3>2, <4>1, <4>2, <4>3
    <3> QED
      BY <1>5, <2>1, <3>1, <3>2
  <2>2. CASE j.d.op # "create" /\ i # Len(c)
    <3>1. m <= Len(c)
      BY <1>3, <1>4, <1>12, <2>2
    <3>2. Calls(k) = c
      BY <1>2, <1>14 DEF Calls
    <3>3. Calls(k)' = Calls(k)
      BY CallsSame
    <3>4. k # NoJob
      BY <1>14, JobTyped
    <3>5. WillTell(k)'
      BY <1>14, <2>2, <3>1, <3>2, <3>3, <3>4 DEF WillTell
    <3> QED
      BY <3>5
  <2>3. CASE j.d.op # "create" /\ i = Len(c)
    BY <1>5, <2>3 DEF BringsNews
  <2> QED
    BY <2>1, <2>2, <2>3
<1>20. /\ news' \in BOOLEAN /\ behind' \in BOOLEAN /\ made' \in Nat /\ object' \in Object
       /\ dialog' \in Dialog \cup {NoDialog} /\ cleanup' \subseteq Nat /\ settled' \subseteq Nat
       /\ fails' \in 0..MaxFails
  BY <1>1, <1>9 DEF BringsNews, IInv, TypeOK
<1> QED
  BY <1>14, <1>15, <1>16, <1>18, <1>19, <1>20, JobStep

(* A plan that fails, or is done, ends; a pool that it has defined will be *)
(* undefined, unless it is done.                                           *)
LEMMA JobEnds ==
  ASSUME IInv, NEW s \in Slots, jobs[s] # NoJob,
         jobs' = [jobs EXCEPT ![s] = NoJob],
         UNCHANGED <<object, made, usage, row, rowUsage, tab, disturbed, surprise, acts, outside>>,
         UNCHANGED <<subject, formVars, news>>,
         dialog' \in Dialog \cup {NoDialog}, fails' \in 0..MaxFails,
         behind' \in BOOLEAN, behind' \/ (UNCHANGED behind /\ ~WillTell(jobs[s])),
         cleanup' \subseteq Nat, settled' \subseteq Nat,
         cleanup \subseteq cleanup', settled \subseteq settled',
         subject = "pool" /\ jobs[s].new # 0 => jobs[s].new \in settled' \cup cleanup'
  PROVE  IInv'
<1>1. jobs'[s] = NoJob /\ \A r \in Slots \ {s} : jobs'[r] = jobs[r]
  BY DEF IInv, TypeOK
<1>2. NothingHalfMade' /\ ObjectInv'
  <2>1. \A r \in Slots : subject = "pool" /\ jobs[r] # NoJob /\ jobs[r].new # 0
          => \/ jobs[r].new \in settled' \cup cleanup'
             \/ jobs'[r] # NoJob /\ jobs'[r].new = jobs[r].new
    BY <1>1
  <2> QED
    BY <2>1, StillMade DEF IInv
<1>3. object' \in Object /\ made' \in Nat /\ news' \in BOOLEAN
  BY DEF IInv, TypeOK
<1> QED
  BY <1>2, <1>3, JobStep

LEMMA CleanupOfFacts ==
  ASSUME NEW j \in Job
  PROVE  CleanupOf(j) \subseteq Nat /\ (subject = "pool" /\ j.new # 0 => j.new \in CleanupOf(j))
BY JobTyped DEF CleanupOf

LEMMA CallReturnsOK == ASSUME IInv, CallReturns PROVE IInv'
<1>1. PICK s \in Slots : jobs[s] # NoJob /\ IsCalling(jobs[s]) /\
        LET j == jobs[s]
            call == Calls(j)[j.step]
            a == Answer(object, call, j.d, IF j.new = 0 THEN j.d.id ELSE j.new)
        IN  /\ IF a.ok
               THEN /\ object' = a.o
                    /\ jobs' = [jobs EXCEPT ![s] = [j EXCEPT !.step = @ + 1, !.new = IF call = "define" THEN made + 1 ELSE @]]
                    /\ made' = IF call = "define" THEN made + 1 ELSE made
                    /\ news' = (news \/ BringsNews(call, j.d))
                    /\ behind' = (behind \/ (call = "read" /\ object.id # j.d.id))
                    /\ UNCHANGED cleanup
               ELSE /\ jobs' = [jobs EXCEPT ![s] = NoJob]
                    /\ cleanup' = cleanup \cup CleanupOf(j)
                    /\ behind' = TRUE
                    /\ UNCHANGED <<object, made, news>>
            /\ UNCHANGED <<subject, formVars, usage, page, disturbed, surprise, settled, bounds>>
  BY DEF CallReturns
<1>2. PICK j \in Job : j = jobs[s] /\ JobInv(j)
  BY <1>1, JobOf
<1>3. PICK call : call = Calls(j)[j.step]
  OBVIOUS
<1>4. PICK id : id = IF j.new = 0 THEN j.d.id ELSE j.new
  OBVIOUS
<1>5. /\ UNCHANGED <<usage, row, rowUsage, tab, dialog, disturbed, surprise, acts, outside>>
      /\ UNCHANGED <<subject, formVars, settled, fails>>
  BY <1>1 DEF page, bounds
<1>6. CASE Answer(object, call, j.d, id).ok
  <2>1. /\ object' = Answer(object, call, j.d, id).o
        /\ jobs' = [jobs EXCEPT ![s] = [j EXCEPT !.step = @ + 1, !.new = IF call = "define" THEN made + 1 ELSE @]]
        /\ made' = IF call = "define" THEN made + 1 ELSE made
        /\ news' = (news \/ BringsNews(call, j.d))
        /\ behind' = (behind \/ (call = "read" /\ object.id # j.d.id))
        /\ UNCHANGED cleanup
    BY <1>1, <1>2, <1>3, <1>4, <1>6
  <2>2. IsCalling(j)
    BY <1>1, <1>2
  <2> QED
    BY <1>1, <1>2, <1>3, <1>5, <1>6, <2>1, <2>2, CallSucceeds
<1>7. CASE ~Answer(object, call, j.d, id).ok
  <2>1. /\ jobs' = [jobs EXCEPT ![s] = NoJob]
        /\ cleanup' = cleanup \cup CleanupOf(j)
        /\ behind' = TRUE
        /\ UNCHANGED <<object, made, news>>
    BY <1>1, <1>2, <1>3, <1>4, <1>7
  <2>2. /\ cleanup' \subseteq Nat /\ cleanup \subseteq cleanup'
        /\ subject = "pool" /\ jobs[s].new # 0 => jobs[s].new \in settled' \cup cleanup'
    BY <1>2, <2>1, CleanupOfFacts DEF IInv, TypeOK
  <2>3. dialog' \in Dialog \cup {NoDialog} /\ fails' \in 0..MaxFails /\ settled' \subseteq Nat
    BY <1>5 DEF IInv, TypeOK
  <2> QED
    BY <1>1, <1>5, <2>1, <2>2, <2>3, JobEnds
<1> QED
  BY <1>6, <1>7

LEMMA CallFailsOK == ASSUME IInv, CallFails PROVE IInv'
<1>1. PICK s \in Slots :
        /\ jobs[s] # NoJob
        /\ fails < MaxFails /\ fails' = fails + 1
        /\ jobs' = [jobs EXCEPT ![s] = NoJob]
        /\ cleanup' = cleanup \cup CleanupOf(jobs[s])
        /\ behind' = TRUE
        /\ UNCHANGED <<subject, formVars, libvirt, page, news, disturbed, surprise, settled, acts, outside>>
  BY DEF CallFails
<1>2. PICK j \in Job : j = jobs[s]
  BY <1>1, JobOf
<1>3. /\ UNCHANGED <<object, made, usage, row, rowUsage, tab, dialog, disturbed, surprise, acts, outside>>
      /\ UNCHANGED <<subject, formVars, settled, news>>
      /\ fails' \in 0..MaxFails
  BY <1>1, Bounds DEF libvirt, page, IInv, TypeOK
<1>4. /\ cleanup' \subseteq Nat /\ cleanup \subseteq cleanup'
      /\ subject = "pool" /\ jobs[s].new # 0 => jobs[s].new \in settled' \cup cleanup'
  BY <1>1, <1>2, CleanupOfFacts DEF IInv, TypeOK
<1>5. dialog' \in Dialog \cup {NoDialog} /\ settled' \subseteq Nat
  BY <1>3 DEF IInv, TypeOK
<1> QED
  BY <1>1, <1>3, <1>4, <1>5, JobEnds

LEMMA FinishOK == ASSUME IInv, Finish PROVE IInv'
<1>1. PICK s \in Slots :
        /\ jobs[s] # NoJob /\ IsDone(jobs[s])
        /\ jobs' = [jobs EXCEPT ![s] = NoJob]
        /\ dialog' = IF Closes(jobs[s].d) THEN NoDialog ELSE dialog
        /\ settled' = IF jobs[s].d.op = "create" THEN settled \cup {jobs[s].new} ELSE settled
        /\ UNCHANGED <<subject, formVars, libvirt, row, rowUsage, tab, cleanup, news, behind, disturbed, surprise, bounds>>
  BY DEF Finish
<1>2. PICK j \in Job : j = jobs[s] /\ JobInv(j)
  BY <1>1, JobOf
<1>3. /\ UNCHANGED <<object, made, usage, row, rowUsage, tab, disturbed, surprise, acts, outside>>
      /\ UNCHANGED <<subject, formVars, cleanup, news, behind, fails>>
  BY <1>1 DEF libvirt, bounds
<1>4. ~WillTell(jobs[s])
  <2>1. Len(Calls(j)) \in Nat /\ j.step \in Nat /\ j.step > Len(Calls(j))
    BY <1>1, <1>2, JobTyped, CallsEnd DEF IsDone
  <2> QED
    BY <1>2, <2>1 DEF WillTell
<1>5. /\ settled' \subseteq Nat /\ settled \subseteq settled'
      /\ jobs[s].new # 0 => jobs[s].new \in settled'
  BY <1>1, <1>2, JobTyped DEF JobInv, IInv, TypeOK
<1>6. /\ dialog' \in Dialog \cup {NoDialog} /\ cleanup' \subseteq Nat /\ fails' \in 0..MaxFails
      /\ behind' \in BOOLEAN
  BY <1>1, <1>3 DEF IInv, TypeOK
<1> QED
  BY <1>1, <1>3, <1>4, <1>5, <1>6, JobEnds

-----------------------------------------------------------------------------
(* Steps of libvirt, of the cleanup and of others *)

(* No job goes on.                                                         *)
LEMMA ObjectStep ==
  ASSUME IInv,
         UNCHANGED <<made, row, rowUsage, tab, dialog, jobs, acts>>,
         UNCHANGED <<subject, formVars>>,
         object' \in Object, usage' \in Usage, cleanup' \subseteq Nat, settled' \subseteq Nat,
         surprise' \subseteq Volumes, fails' \in 0..MaxFails, outside' \in 0..MaxOutside,
         news' \in BOOLEAN, behind' \in BOOLEAN, disturbed' \in BOOLEAN,
         news' \/ behind' \/ UNCHANGED <<object, news, behind>>,
         object'.state # "gone" => object.state # "gone" /\ object'.id = object.id,
         settled \cup cleanup \subseteq settled' \cup cleanup' \/ object'.state = "gone"
  PROVE  IInv'
<1>1. FormTypeOK' /\ FormInv' /\ DocumentsFit'
  BY FormsKept
<1>2. TypeOK'
  BY <1>1 DEF IInv, TypeOK
<1>3. JobsInv'
  BY DEF IInv, JobsInv
<1>4. ShownInv'
  BY ToldIsShown, StillShown, WillTellKept DEF IInv
<1>5. NothingHalfMade' /\ ObjectInv'
  <2>1. CASE object'.state = "gone"
    BY <2>1 DEF NothingHalfMade, ObjectInv
  <2>2. CASE settled \cup cleanup \subseteq settled' \cup cleanup'
    BY <2>2, StillMade DEF IInv
  <2> QED
    BY <2>1, <2>2
<1> QED
  BY <1>1, <1>2, <1>3, <1>4, <1>5 DEF IInv

(* A pool that stays although it should go is one that others have kept.   *)
LEMMA UndefineOK == ASSUME IInv, storagePoolUndefine PROVE IInv'
<1>1. PICK id \in cleanup :
        /\ cleanup' = cleanup \ {id}
        /\ LET ok == object.id = id /\ object.state = "inactive"
           IN  /\ object' = IF ok THEN Gone ELSE object
               /\ news' = (news \/ ok)
               /\ settled' = IF ok THEN settled ELSE settled \cup {id}
        /\ UNCHANGED <<subject, formVars, made, usage, page, jobs, behind, disturbed, surprise, bounds>>
  BY DEF storagePoolUndefine
<1>2. PICK ok \in BOOLEAN : ok = (object.id = id /\ object.state = "inactive")
  OBVIOUS
<1>3. /\ object' = IF ok THEN Gone ELSE object
      /\ news' = (news \/ ok)
      /\ settled' = IF ok THEN settled ELSE settled \cup {id}
  BY <1>1, <1>2
<1>4. /\ UNCHANGED <<made, row, rowUsage, tab, dialog, jobs, acts>>
      /\ UNCHANGED <<subject, formVars, usage, behind, disturbed, surprise, fails, outside>>
  BY <1>1 DEF page, bounds
<1>5. object' \in Object /\ (ok => object'.state = "gone")
  BY <1>3, GoneTyped DEF IInv, TypeOK
<1>6. /\ usage' \in Usage /\ cleanup' \subseteq Nat /\ settled' \subseteq Nat
      /\ surprise' \subseteq Volumes /\ fails' \in 0..MaxFails /\ outside' \in 0..MaxOutside
      /\ news' \in BOOLEAN /\ behind' \in BOOLEAN /\ disturbed' \in BOOLEAN
  BY <1>1, <1>3, <1>4 DEF IInv, TypeOK
<1>7. ~ok => UNCHANGED <<object, news, behind>> /\ settled \cup cleanup \subseteq settled' \cup cleanup'
  BY <1>1, <1>3, <1>4 DEF IInv, TypeOK
<1>8. ok => news'
  BY <1>3
<1> QED
  BY <1>3, <1>4, <1>5, <1>6, <1>7, <1>8, ObjectStep

LEMMA MovedTyped ==
  ASSUME IInv, NEW o \in Moved
  PROVE  o \in Object /\ (o.state # "gone" => object.state # "gone" /\ o.id = object.id)
<1>1. object \in Object /\ object.state \in States
  BY ObjectParts DEF IInv, TypeOK
<1>2. CASE object.state = "active"
  <2>1. o = Stopped(object)
    BY <1>2 DEF Moved
  <2> QED
    BY <1>1, <1>2, <2>1, StoppedTyped, GoneTyped
<1>3. CASE object.state = "inactive"
  <2>1. o = [object EXCEPT !.state = "active", !.live = object.config] \/ o = Gone
    BY <1>3 DEF Moved
  <2>2. PICK k : k = [object EXCEPT !.state = "active", !.live = object.config]
    OBVIOUS
  <2>3. k \in Object /\ k.id = object.id
    BY <1>1, <2>2 DEF Object, States
  <2> QED
    BY <1>3, <2>1, <2>2, <2>3, GoneTyped
<1>4. CASE object.state = "gone"
  BY <1>4 DEF Moved
<1> QED
  BY <1>1, <1>2, <1>3, <1>4 DEF States

LEMMA ChangedQuietlyTyped ==
  ASSUME IInv, NEW o \in ChangedQuietly
  PROVE  o \in Object /\ object.state # "gone" /\ o.id = object.id
<1>1. object \in Object /\ object.state # "gone"
  BY DEF IInv, TypeOK, ChangedQuietly
<1>2. CASE subject = "pool"
  <2>1. PICK v \in Volumes : o = [object EXCEPT !.volumes = IF v \in @ THEN @ \ {v} ELSE @ \cup {v}]
    BY <1>1, <1>2 DEF ChangedQuietly
  <2> QED
    BY <1>1, <2>1 DEF Object
<1>3. CASE subject # "pool"
  <2>1. PICK h \in Hosts : o = [object EXCEPT !.config = {h}, !.live = IF Active(object) THEN {h} ELSE @]
    BY <1>1, <1>3 DEF ChangedQuietly
  <2>2. PICK l : l = IF Active(object) THEN {h} ELSE object.live
    OBVIOUS
  <2>3. l \subseteq Hosts
    BY <1>1, <2>2 DEF Object
  <2>4. o = [object EXCEPT !.config = {h}, !.live = l]
    BY <2>1, <2>2
  <2> QED
    BY <1>1, <2>3, <2>4 DEF Object
<1> QED
  BY <1>2, <1>3

LEMMA OthersChangeOK == ASSUME IInv, OthersChange PROVE IInv'
<1>1. /\ UNCHANGED <<made, row, rowUsage, tab, dialog, jobs, acts>>
      /\ UNCHANGED <<subject, formVars, usage, cleanup, surprise, settled, fails>>
      /\ disturbed' = TRUE
  BY DEF OthersChange, page
<1>2. outside' \in 0..MaxOutside
  BY Bounds DEF OthersChange, IInv, TypeOK
<1>3. /\ object' \in Object
      /\ object'.state # "gone" => object.state # "gone" /\ object'.id = object.id
      /\ news' \/ behind'
      /\ news' \in BOOLEAN /\ behind' \in BOOLEAN
  <2>1. CASE object' \in Moved /\ news' = TRUE /\ UNCHANGED behind
    <3>1. PICK o \in Moved : o = object'
      BY <2>1
    <3> QED
      BY <2>1, <3>1, MovedTyped DEF IInv, TypeOK
  <2>2. CASE object' \in ChangedQuietly /\ behind' = TRUE /\ UNCHANGED news
    <3>1. PICK o \in ChangedQuietly : o = object'
      BY <2>2
    <3> QED
      BY <2>2, <3>1, ChangedQuietlyTyped DEF IInv, TypeOK
  <2> QED
    BY <2>1, <2>2 DEF OthersChange
<1>4. /\ usage' \in Usage /\ cleanup' \subseteq Nat /\ settled' \subseteq Nat
      /\ surprise' \subseteq Volumes /\ fails' \in 0..MaxFails /\ disturbed' \in BOOLEAN
  BY <1>1 DEF IInv, TypeOK
<1>5. settled \cup cleanup \subseteq settled' \cup cleanup'
  BY <1>1
<1> QED
  BY <1>1, <1>2, <1>3, <1>4, <1>5, ObjectStep

LEMMA VolumeIsTakenOK == ASSUME IInv, VolumeIsTaken PROVE IInv'
<1>1. /\ UNCHANGED <<made, row, rowUsage, tab, dialog, jobs, acts>>
      /\ UNCHANGED <<subject, formVars, object, cleanup, news, behind, disturbed, settled, fails>>
  BY DEF VolumeIsTaken, page
<1>2. PICK v \in object.volumes :
        /\ usage' \in {[usage EXCEPT !.byPool = @ \cup {v}], [usage EXCEPT !.byPath = @ \cup {v}]}
        /\ surprise' = surprise \cup {v}
  BY DEF VolumeIsTaken
<1>3. v \in Volumes
  BY ObjectParts DEF IInv, TypeOK
<1>4. usage' \in Usage
  BY <1>2, <1>3 DEF IInv, TypeOK, Usage
<1>5. outside' \in 0..MaxOutside /\ surprise' \subseteq Volumes
  BY <1>2, <1>3, Bounds DEF VolumeIsTaken, IInv, TypeOK
<1>6. /\ object' \in Object /\ cleanup' \subseteq Nat /\ settled' \subseteq Nat /\ fails' \in 0..MaxFails
      /\ news' \in BOOLEAN /\ behind' \in BOOLEAN /\ disturbed' \in BOOLEAN
  BY <1>1 DEF IInv, TypeOK
<1>7. settled \cup cleanup \subseteq settled' \cup cleanup'
  BY <1>1
<1> QED
  BY <1>1, <1>4, <1>5, <1>6, <1>7, ObjectStep

LEMMA StutterOK == ASSUME IInv, UNCHANGED vars PROVE IInv'
<1>1. /\ UNCHANGED <<made, row, rowUsage, tab, dialog, jobs, acts>>
      /\ UNCHANGED <<subject, formVars>>
      /\ UNCHANGED <<object, usage, cleanup, news, behind, disturbed, surprise, settled, fails, outside>>
  BY DEF vars, libvirt, page, history, bounds
<1>2. /\ object' \in Object /\ usage' \in Usage /\ cleanup' \subseteq Nat /\ settled' \subseteq Nat
      /\ surprise' \subseteq Volumes /\ fails' \in 0..MaxFails /\ outside' \in 0..MaxOutside
      /\ news' \in BOOLEAN /\ behind' \in BOOLEAN /\ disturbed' \in BOOLEAN
  BY <1>1 DEF IInv, TypeOK
<1>3. settled \cup cleanup \subseteq settled' \cup cleanup'
  BY <1>1
<1> QED
  BY <1>1, <1>2, <1>3, ObjectStep

LEMMA NextOK == ASSUME IInv, [Next]_vars PROVE IInv'
<1>1. CASE Fills \/ Open \/ Cancel \/ Save \/ Press \/ onSelect \/ Reads \/ VmsAreRead
  BY <1>1, FillsOK, OpenOK, CancelOK, SaveOK, PressOK, SelectOK, ReadsOK, VmsAreReadOK
<1>2. CASE VolumeIsDeleted \/ VolumeIsNotDeleted \/ CallReturns \/ CallFails \/ Finish
  BY <1>2, VolumeIsDeletedOK, VolumeIsNotDeletedOK, CallReturnsOK, CallFailsOK, FinishOK
<1>3. CASE storagePoolUndefine \/ OthersChange \/ VolumeIsTaken
  BY <1>3, UndefineOK, OthersChangeOK, VolumeIsTakenOK
<1>4. CASE UNCHANGED vars
  BY <1>4, StutterOK
<1> QED
  BY <1>1, <1>2, <1>3, <1>4 DEF Next

(* The inductive invariant: forms keep their modes, types and formats in   *)
(* step, every object has been made by someone who sees to it, and what    *)
(* the page does not show is going to be read.                             *)
THEOREM InvariantHolds == Spec => []IInv
BY InitOK, NextOK, PTL DEF Spec

(* The forms, the dialogs, the plans under way and what libvirt holds keep *)
(* their types, for any number of edits, clicks, failures and changes.     *)
THEOREM TypeCorrect == Spec => []TypeOK
<1>1. IInv => TypeOK
  BY DEF IInv
<1> QED
  BY <1>1, InvariantHolds, PTL

(* However many times the user changes modes, types and pools, the form    *)
(* hands over a document that fits together (createNetworkDialog.tsx,      *)
(* createStoragePoolDialog.tsx, storageVolumeCreateBody.tsx).              *)
THEOREM DocumentsAlwaysFit == Spec => []DocumentsFit
<1>1. IInv => DocumentsFit
  BY DEF IInv
<1> QED
  BY <1>1, InvariantHolds, PTL

(* A pool whose settings could not be made does not stay, whatever fails   *)
(* and whoever acts meanwhile (storagePoolCreate of storagePool.ts).       *)
THEOREM NothingStaysHalfMade == Spec => []NothingHalfMade
<1>1. IInv => NothingHalfMade
  BY DEF IInv
<1> QED
  BY <1>1, InvariantHolds, PTL

(* When nothing is under way the page shows the object as it is, although  *)
(* libvirt does not tell of volumes, host entries and settings: every plan *)
(* that changes one ends with a reading (storageVolume.ts, network.ts).    *)
THEOREM ListStaysCurrent == Spec => []ListIsCurrent
<1>1. IInv => ListIsCurrent
  BY DEF IInv, ShownInv, WillTell, ListIsCurrent, IsShown
<1> QED
  BY <1>1, InvariantHolds, PTL

-----------------------------------------------------------------------------
(* Volumes that are used *)

(* What the page knows of the machines lacks only what was taken since.    *)
UsageIsKnown == Used(usage) \subseteq Used(rowUsage) \cup surprise

(* So does what a dialog captured; one that deletes a pool was opened when *)
(* nobody used the pool, and volumes are deleted by a button of the tab.   *)
Informed(d) ==
    /\ d.op # "deleteVolumes"
    /\ Used(usage) \subseteq Used(d.usage) \cup surprise
    /\ (d.op = "delete" /\ subject = "pool") => d.usage.byPool = {}

(* What is being deleted is not used, as far as the page could know.       *)
Spares(volumes) == volumes \cap Used(usage) \subseteq surprise

VolumesInv ==
    /\ UsageIsKnown
    /\ dialog # NoDialog => Informed(dialog)
    /\ \A s \in Slots : jobs[s] # NoJob => Spares(jobs[s].volumes)
    /\ (object.state = "gone") => (object.volumes = {})

SparesUsed ==
    object'.state # "gone" /\ outside' = outside
        => (object.volumes \ object'.volumes) \cap Used(usage) \subseteq surprise

LEMMA VolumesOfPlan ==
  ASSUME NEW d \in Dialog
  PROVE  PlanOf(d).volumes = IF d.op = "delete" /\ subject = "pool" /\ d.all THEN d.row.volumes
                             ELSE IF d.op = "deleteVolumes" THEN d.chosen ELSE {}
BY DialogParts DEF PlanOf, NoVolumes, Plan, storagePoolCreate, networkCreate, StoragePoolActivate,
   StoragePoolDeactivate, StoragePoolDeletePlan, networkDeletePlan, storageVolumeCreate,
   storageVolumeListDelete, networkChangeAutostart, StaticHostEntries, Ops, VolumeOps, HostOps

IsNewDialog(d, op) ==
    \/ d = NewDialog(op)
    \/ \E x : d = [NewDialog(op) EXCEPT !.all = x]
    \/ \E x : d = [NewDialog(op) EXCEPT !.chosen = x]

LEMMA NewDialogShows ==
  ASSUME NEW op, NEW d, IsNewDialog(d, op)
  PROVE  d.op = op /\ d.usage = rowUsage
<1>1. CASE d = NewDialog(op)
  BY <1>1 DEF NewDialog
<1>2. ASSUME NEW x, d = [NewDialog(op) EXCEPT !.all = x] PROVE d.op = op /\ d.usage = rowUsage
  BY <1>2 DEF NewDialog
<1>3. ASSUME NEW x, d = [NewDialog(op) EXCEPT !.chosen = x] PROVE d.op = op /\ d.usage = rowUsage
  BY <1>3 DEF NewDialog
<1> QED
  BY <1>1, <1>2, <1>3 DEF IsNewDialog

(* A pool can only be chosen for deletion while nobody uses it.            *)
LEMMA DialogsInformed == ASSUME IInv, UsageIsKnown, NEW d \in Dialogs PROVE Informed(d)
<1>1. \E op :
        /\ IsNewDialog(d, op) /\ op # "deleteVolumes"
        /\ (op = "delete" /\ subject = "pool") => rowUsage.byPool = {}
  <2>1. CASE d \in CreateDialog
    BY <2>1 DEF CreateDialog, IsNewDialog
  <2>2. CASE d \in StoragePoolDelete
    BY <2>2 DEF StoragePoolDelete, canDelete, IsNewDialog
  <2>3. CASE d \in StorageVolumeCreate
    BY <2>3 DEF StorageVolumeCreate, IsNewDialog
  <2>4. CASE subject = "network" /\ d \in NetworkActions
    BY <2>4 DEF NetworkActions, IsNewDialog
  <2>5. CASE d \in NetworkAddStaticHostEntries
    BY <2>5 DEF NetworkAddStaticHostEntries, IsNewDialog
  <2>6. CASE d \in DHCPHost
    BY <2>6 DEF DHCPHost, IsNewDialog
  <2> QED
    BY <2>1, <2>2, <2>3, <2>4, <2>5, <2>6 DEF Dialogs
<1> QED
  BY <1>1, NewDialogShows DEF Informed, UsageIsKnown

(* Buttons delete only the volumes that are selected, none of which is     *)
(* known to be used.                                                       *)
LEMMA ButtonsSpare == ASSUME IInv, UsageIsKnown, NEW d \in Buttons PROVE Spares(PlanOf(d).volumes)
<1>1. d \in Dialog
  BY ButtonsTyped
<1>2. CASE d \in Switches \cup networkAutostart
  <2>1. PICK op : IsNewDialog(d, op) /\ op \notin {"delete", "deleteVolumes"}
    BY <1>2 DEF Switches, networkAutostart, IsNewDialog
  <2>2. d.op = op
    BY <2>1, NewDialogShows
  <2>3. PlanOf(d).volumes = {}
    BY <1>1, <2>1, <2>2, VolumesOfPlan
  <2> QED
    BY <2>3 DEF Spares
<1>3. CASE d \in StorageVolumeDelete
  <2>1. /\ d = [NewDialog("deleteVolumes") EXCEPT !.chosen = tab.selected]
        /\ tab.selected \cap Used(rowUsage) = {}
    BY <1>3 DEF StorageVolumeDelete
  <2>2. d.op = "deleteVolumes" /\ d.chosen = tab.selected
    BY <2>1 DEF NewDialog
  <2>3. PlanOf(d).volumes = tab.selected
    BY <1>1, <2>2, VolumesOfPlan
  <2> QED
    BY <2>1, <2>3 DEF Spares, UsageIsKnown
<1> QED
  BY <1>2, <1>3 DEF Buttons

(* The dialog refuses to delete volumes that are used by path.             *)
LEMMA SaveSpares == ASSUME IInv, VolumesInv, Save PROVE Spares(PlanOf(dialog).volumes)
<1>1. dialog \in Dialog /\ Informed(dialog)
  BY DEF Save, VolumesInv, IInv, TypeOK
<1>2. CASE dialog.op = "delete" /\ subject = "pool" /\ dialog.all
  <2>1. PlanOf(dialog).volumes = dialog.row.volumes
    BY <1>1, <1>2, VolumesOfPlan
  <2>2. dialog.usage.byPool = {}
    BY <1>1, <1>2 DEF Informed
  <2>3. dialog.row.volumes \cap Used(dialog.usage) = {}
    BY <1>2, <2>2 DEF Save, canDeleteOnlyWithoutVolumes
  <2> QED
    BY <1>1, <2>1, <2>3 DEF Informed, Spares
<1>3. CASE ~(dialog.op = "delete" /\ subject = "pool" /\ dialog.all)
  <2>1. PlanOf(dialog).volumes = {}
    BY <1>1, <1>3, VolumesOfPlan DEF Informed
  <2> QED
    BY <2>1 DEF Spares
<1> QED
  BY <1>2, <1>3

LEMMA VolumesInitOK == Init => VolumesInv
<1> SUFFICES ASSUME Init PROVE VolumesInv
  OBVIOUS
<1>1. UsageIsKnown /\ dialog = NoDialog /\ \A s \in Slots : jobs[s] = NoJob
  BY DEF Init, UsageIsKnown
<1>2. object \in Objects
  BY DEF Init
<1>3. (object.state = "gone") => (object.volumes = {})
  BY <1>2 DEF Objects, Gone
<1> QED
  BY <1>1, <1>3 DEF VolumesInv

(* Jobs end or go on with fewer volumes, and the machines stay.            *)
LEMMA VolumesKept ==
  ASSUME VolumesInv, UNCHANGED <<usage, rowUsage, surprise, subject>>,
         dialog' = dialog \/ dialog' = NoDialog,
         \A s \in Slots : jobs'[s] # NoJob => jobs[s] # NoJob /\ jobs'[s].volumes \subseteq jobs[s].volumes,
         (object'.state = "gone") => (object'.volumes = {})
  PROVE  VolumesInv'
<1>1. UsageIsKnown' /\ (dialog' # NoDialog => Informed(dialog)')
  BY DEF VolumesInv, UsageIsKnown, Informed, Used
<1>2. \A s \in Slots : jobs'[s] # NoJob => Spares(jobs[s].volumes)'
  <2> SUFFICES ASSUME NEW s \in Slots, jobs'[s] # NoJob PROVE Spares(jobs[s].volumes)'
    OBVIOUS
  <2>1. Spares(jobs[s].volumes) /\ jobs'[s].volumes \subseteq jobs[s].volumes
    BY DEF VolumesInv
  <2> QED
    BY <2>1 DEF Spares, Used
<1> QED
  BY <1>1, <1>2 DEF VolumesInv

LEMMA ObjectSpares ==
  ASSUME UNCHANGED object
  PROVE  /\ SparesUsed
         /\ VolumesInv => ((object'.state = "gone") => (object'.volumes = {}))
BY DEF SparesUsed, VolumesInv

LEMMA PageSpares ==
  ASSUME VolumesInv, Fills \/ Cancel \/ onSelect \/ Reads \/ UNCHANGED vars
  PROVE  VolumesInv' /\ SparesUsed
<1>1. /\ UNCHANGED <<usage, rowUsage, surprise, subject, jobs, object>>
      /\ dialog' = dialog \/ dialog' = NoDialog
  <2>1. CASE Fills
    BY <2>1 DEF Fills, FormNext, Enter, onCreate, libvirt, page, history
  <2>2. CASE Cancel
    BY <2>2 DEF Cancel, libvirt, history
  <2>3. CASE onSelect
    BY <2>3 DEF onSelect, libvirt, history
  <2>4. CASE Reads
    BY <2>4 DEF Reads, libvirt
  <2>5. CASE UNCHANGED vars
    BY <2>5 DEF vars, libvirt, page, history
  <2> QED
    BY <2>1, <2>2, <2>3, <2>4, <2>5
<1> QED
  BY <1>1, VolumesKept, ObjectSpares

LEMMA OpenSpares == ASSUME IInv, VolumesInv, Open PROVE VolumesInv' /\ SparesUsed
<1>1. /\ UNCHANGED <<usage, rowUsage, surprise, subject, jobs, object>>
      /\ dialog' \in Dialogs
  BY DEF Open, libvirt, history
<1>2. Informed(dialog)'
  <2>1. PICK d \in Dialogs : d = dialog'
    BY <1>1
  <2>2. Informed(d)
    BY DialogsInformed DEF VolumesInv
  <2> QED
    BY <1>1, <2>1, <2>2 DEF Informed, Used
<1>3. UsageIsKnown'
  BY <1>1 DEF VolumesInv, UsageIsKnown, Used
<1>4. \A s \in Slots : jobs'[s] # NoJob => Spares(jobs[s].volumes)'
  BY <1>1 DEF VolumesInv, Spares, Used
<1> QED
  BY <1>1, <1>2, <1>3, <1>4, ObjectSpares DEF VolumesInv

(* A new job deletes what its plan says.                                   *)
LEMMA BeginSpares ==
  ASSUME IInv, VolumesInv, NEW d, Begin(d), Spares(PlanOf(d).volumes),
         UNCHANGED <<usage, rowUsage, surprise, subject, dialog, object>>
  PROVE  VolumesInv' /\ SparesUsed
<1>1. PICK j : j = [d |-> d, volumes |-> PlanOf(d).volumes, step |-> 1, failed |-> FALSE, new |-> 0]
  OBVIOUS
<1>2. PICK s \in Slots : jobs' = [jobs EXCEPT ![s] = j]
  BY <1>1 DEF Begin
<1>3. \A r \in Slots : jobs'[r] = IF r = s THEN j ELSE jobs[r]
  BY <1>2 DEF IInv, TypeOK
<1>4. Spares(j.volumes)
  BY <1>1
<1>5. \A r \in Slots : jobs'[r] # NoJob => Spares(jobs[r].volumes)'
  BY <1>3, <1>4 DEF VolumesInv, Spares, Used
<1>6. UsageIsKnown' /\ (dialog' # NoDialog => Informed(dialog)')
  BY DEF VolumesInv, UsageIsKnown, Informed, Used
<1> QED
  BY <1>5, <1>6, ObjectSpares DEF VolumesInv

LEMMA ButtonSpares == ASSUME IInv, VolumesInv, Save \/ Press PROVE VolumesInv' /\ SparesUsed
<1>1. UNCHANGED <<usage, rowUsage, surprise, subject, dialog, object>>
  BY DEF Save, Press, libvirt, page
<1>2. CASE Save
  <2>1. PICK d : d = dialog
    OBVIOUS
  <2>2. Begin(d) /\ Spares(PlanOf(d).volumes)
    BY <1>2, <2>1, SaveSpares DEF Save
  <2> QED
    BY <1>1, <2>2, BeginSpares
<1>3. CASE Press
  <2>1. PICK d \in Buttons : Begin(d)
    BY <1>3 DEF Press
  <2>2. Spares(PlanOf(d).volumes)
    BY ButtonsSpare DEF VolumesInv
  <2> QED
    BY <1>1, <2>1, <2>2, BeginSpares
<1> QED
  BY <1>2, <1>3

(* Surprises are over once the machines are read with no dialog open and   *)
(* nothing under way.                                                      *)
LEMMA VmsAreReadSpares == ASSUME VolumesInv, VmsAreRead PROVE VolumesInv' /\ SparesUsed
<1>1. /\ UNCHANGED <<usage, subject, jobs, object, dialog>> /\ rowUsage' = usage
      /\ surprise' = IF dialog = NoDialog /\ \A s \in Slots : jobs[s] = NoJob THEN {} ELSE surprise
  BY DEF VmsAreRead, libvirt
<1>2. UsageIsKnown'
  BY <1>1 DEF UsageIsKnown, Used
<1>3. dialog' # NoDialog => Informed(dialog)'
  BY <1>1 DEF VolumesInv, Informed, Used
<1>4. \A s \in Slots : jobs'[s] # NoJob => Spares(jobs[s].volumes)'
  <2> SUFFICES ASSUME NEW s \in Slots, jobs'[s] # NoJob PROVE Spares(jobs[s].volumes)'
    OBVIOUS
  <2>1. surprise' = surprise /\ Spares(jobs[s].volumes)
    BY <1>1 DEF VolumesInv
  <2> QED
    BY <1>1, <2>1 DEF Spares, Used
<1> QED
  BY <1>1, <1>2, <1>3, <1>4, ObjectSpares DEF VolumesInv

(* What a machine takes is a surprise to everyone.                         *)
LEMMA VolumeIsTakenSpares == ASSUME IInv, VolumesInv, VolumeIsTaken PROVE VolumesInv' /\ SparesUsed
<1>1. UNCHANGED <<rowUsage, subject, jobs, object, dialog>>
  BY DEF VolumeIsTaken, page
<1>2. PICK v \in object.volumes :
        /\ usage' \in {[usage EXCEPT !.byPool = @ \cup {v}], [usage EXCEPT !.byPath = @ \cup {v}]}
        /\ surprise' = surprise \cup {v}
  BY DEF VolumeIsTaken
<1>3. Used(usage)' = Used(usage) \cup {v}
  BY <1>2 DEF Used, IInv, TypeOK, Usage
<1>4. UsageIsKnown'
  BY <1>1, <1>2, <1>3 DEF VolumesInv, UsageIsKnown, Used
<1>5. dialog' # NoDialog => Informed(dialog)'
  BY <1>1, <1>2, <1>3 DEF VolumesInv, Informed, Used
<1>6. \A s \in Slots : jobs'[s] # NoJob => Spares(jobs[s].volumes)'
  BY <1>1, <1>2, <1>3 DEF VolumesInv, Spares
<1> QED
  BY <1>1, <1>4, <1>5, <1>6, ObjectSpares DEF VolumesInv

(* One job ends, or goes on with fewer volumes.                            *)
LEMMA JobSpares ==
  ASSUME IInv, VolumesInv, NEW s \in Slots, jobs[s] # NoJob,
         NEW k, jobs' = [jobs EXCEPT ![s] = k], k # NoJob => k.volumes \subseteq jobs[s].volumes,
         UNCHANGED <<usage, rowUsage, surprise, subject>>,
         dialog' = dialog \/ dialog' = NoDialog,
         (object'.state = "gone") => (object'.volumes = {})
  PROVE  VolumesInv'
<1>1. \A r \in Slots : jobs'[r] = IF r = s THEN k ELSE jobs[r]
  BY DEF IInv, TypeOK
<1>2. \A r \in Slots : jobs'[r] # NoJob => jobs[r] # NoJob /\ jobs'[r].volumes \subseteq jobs[r].volumes
  BY <1>1
<1> QED
  BY <1>2, VolumesKept

LEMMA FailedJobVolumes ==
  ASSUME NEW j \in Job, NEW v
  PROVE  FailedJob(j, v) = NoJob \/ FailedJob(j, v).volumes = v
BY DEF FailedJob, Job

LEMMA VolumeIsDeletedSpares ==
  ASSUME IInv, VolumesInv, VolumeIsDeleted
  PROVE  VolumesInv' /\ SparesUsed
<1>1. PICK s \in Slots : jobs[s] # NoJob /\ \E v \in jobs[s].volumes :
        LET ok == Active(object) /\ v \in object.volumes
            rest == jobs[s].volumes \ {v}
        IN  /\ object' = IF ok THEN [object EXCEPT !.volumes = @ \ {v}] ELSE object
            /\ jobs' = [jobs EXCEPT ![s] = IF ok /\ ~@.failed THEN [@ EXCEPT !.volumes = rest] ELSE FailedJob(@, rest)]
            /\ UNCHANGED <<subject, usage, page, surprise>>
  BY DEF VolumeIsDeleted
<1>2. PICK j \in Job : j = jobs[s]
  BY <1>1, JobOf
<1>3. PICK v \in j.volumes :
        LET ok == Active(object) /\ v \in object.volumes
            rest == j.volumes \ {v}
        IN  /\ object' = IF ok THEN [object EXCEPT !.volumes = @ \ {v}] ELSE object
            /\ jobs' = [jobs EXCEPT ![s] = IF ok /\ ~j.failed THEN [j EXCEPT !.volumes = rest] ELSE FailedJob(j, rest)]
            /\ UNCHANGED <<subject, usage, page, surprise>>
  BY <1>1, <1>2
<1>4. PICK k : k = IF Active(object) /\ v \in object.volumes /\ ~j.failed
                   THEN [j EXCEPT !.volumes = j.volumes \ {v}] ELSE FailedJob(j, j.volumes \ {v})
  OBVIOUS
<1>5. jobs' = [jobs EXCEPT ![s] = k]
  BY <1>3, <1>4
<1>6. k = NoJob \/ k.volumes = j.volumes \ {v}
  <2>1. CASE Active(object) /\ v \in object.volumes /\ ~j.failed
    BY <1>4, <2>1 DEF Job
  <2>2. CASE ~(Active(object) /\ v \in object.volumes /\ ~j.failed)
    BY <1>4, <2>2, FailedJobVolumes
  <2> QED
    BY <2>1, <2>2
<1>7. /\ object'.state = object.state
      /\ object'.volumes \subseteq object.volumes /\ object.volumes \ object'.volumes \subseteq {v}
  <2>1. CASE Active(object) /\ v \in object.volumes
    BY <1>3, <2>1 DEF IInv, TypeOK, Object
  <2>2. CASE ~(Active(object) /\ v \in object.volumes)
    BY <1>3, <2>2
  <2> QED
    BY <2>1, <2>2
<1>8. UNCHANGED <<usage, rowUsage, surprise, subject, dialog>>
  BY <1>3 DEF page
<1>9. (object'.state = "gone") => (object'.volumes = {})
  BY <1>7 DEF VolumesInv
<1>10. Spares(j.volumes)
  BY <1>1, <1>2 DEF VolumesInv
<1>11. SparesUsed
  BY <1>3, <1>7, <1>10 DEF SparesUsed, Spares
<1> QED
  BY <1>1, <1>2, <1>5, <1>6, <1>8, <1>9, <1>11, JobSpares

LEMMA FailureSpares ==
  ASSUME IInv, VolumesInv, VolumeIsNotDeleted \/ CallFails \/ Finish
  PROVE  VolumesInv' /\ SparesUsed
<1>1. /\ UNCHANGED <<usage, rowUsage, surprise, subject, object>>
      /\ dialog' = dialog \/ dialog' = NoDialog
  BY DEF VolumeIsNotDeleted, CallFails, Finish, libvirt, page
<1>2. \E k : \E s \in Slots :
        /\ jobs[s] # NoJob /\ jobs' = [jobs EXCEPT ![s] = k]
        /\ k # NoJob => k.volumes \subseteq jobs[s].volumes
  <2>1. CASE VolumeIsNotDeleted
    <3>1. PICK s \in Slots : jobs[s] # NoJob /\ \E v \in jobs[s].volumes :
            jobs' = [jobs EXCEPT ![s] = FailedJob(jobs[s], jobs[s].volumes \ {v})]
      BY <2>1 DEF VolumeIsNotDeleted
    <3>2. PICK j \in Job : j = jobs[s]
      BY <3>1, JobOf
    <3> QED
      BY <3>1, <3>2, FailedJobVolumes
  <2>2. CASE CallFails \/ Finish
    <3>1. PICK s \in Slots : jobs[s] # NoJob /\ jobs' = [jobs EXCEPT ![s] = NoJob]
      BY <2>2 DEF CallFails, Finish
    <3> QED
      BY <3>1
  <2> QED
    BY <2>1, <2>2
<1> QED
  BY <1>1, <1>2, JobSpares, ObjectSpares

(* No call but a deletion takes volumes away from an object that stays.    *)
Keeps(o, left) ==
    IF left.state = "gone" THEN left.volumes = {} ELSE o.volumes \subseteq left.volumes

LEMMA GoneIsEmpty == Gone.state = "gone" /\ Gone.volumes = {}
BY DEF Gone

LEMMA StoppedKeeps == ASSUME NEW o \in Object PROVE Keeps(o, Stopped(o))
<1>1. CASE o.persistent
  <2>1. Stopped(o).state = "inactive" /\ Stopped(o).volumes = o.volumes
    BY <1>1 DEF Stopped, Object
  <2> QED
    BY <2>1 DEF Keeps
<1>2. CASE ~o.persistent
  BY <1>2, GoneIsEmpty DEF Stopped, Keeps
<1> QED
  BY <1>1, <1>2

LEMMA UndefinedKeeps == ASSUME NEW o \in Object PROVE Keeps(o, Undefined(o))
<1>1. CASE Active(o)
  <2>1. Undefined(o).state = "active" /\ Undefined(o).volumes = o.volumes
    BY <1>1 DEF Undefined, Active, Object
  <2> QED
    BY <2>1 DEF Keeps
<1>2. CASE ~Active(o)
  BY <1>2, GoneIsEmpty DEF Undefined, Keeps
<1> QED
  BY <1>1, <1>2

LEMMA AnswerKeeps ==
  ASSUME NEW o \in Object, NEW call \in CallNames, NEW d \in Dialog, NEW id,
         (o.state = "gone") => (o.volumes = {}),
         Answer(o, call, d, id).ok
  PROVE  Keeps(o, Answer(o, call, d, id).o)
<1> DEFINE a == Answer(o, call, d, id)
<1>1. CASE call = "define"
  <2>1. a.o = [Gone EXCEPT !.id = made + 1, !.state = "inactive", !.persistent = TRUE, !.families = <<"ipv4">>]
        /\ o.state = "gone"
    BY <1>1 DEF Answer
  <2>2. o.volumes = {} /\ a.o.state = "inactive"
    BY <2>1 DEF Gone
  <2> QED
    BY <2>2 DEF Keeps
<1>2. CASE call = "read"
  <2>1. a.o = o
    BY <1>2 DEF Answer
  <2> QED
    BY <2>1 DEF Keeps
<1>3. CASE call \notin {"define", "read"}
  <2>1. o.state # "gone"
    BY <1>3 DEF Answer
  <2>2. CASE call \in {"autostart", "setAutostart"}
    <3>1. a.o = [o EXCEPT !.autostart = d.all]
      BY <1>3, <2>2 DEF Answer
    <3>2. a.o.volumes = o.volumes /\ a.o.state = o.state
      BY <3>1 DEF Object
    <3> QED
      BY <2>1, <3>2 DEF Keeps
  <2>3. CASE call = "start"
    <3>1. a.o = [o EXCEPT !.state = "active", !.live = o.config]
      BY <1>3, <2>3 DEF Answer
    <3>2. a.o.volumes = o.volumes /\ a.o.state = "active"
      BY <3>1 DEF Object
    <3> QED
      BY <3>2 DEF Keeps
  <2>4. CASE call = "stop"
    <3>1. a.o = Stopped(o)
      BY <1>3, <2>4 DEF Answer
    <3> QED
      BY <3>1, StoppedKeeps
  <2>5. CASE call = "undefine"
    <3>1. a.o = Undefined(o)
      BY <1>3, <2>5 DEF Answer
    <3> QED
      BY <3>1, UndefinedKeeps
  <2>6. CASE call = "refresh"
    <3>1. a.o = o
      BY <1>3, <2>6 DEF Answer
    <3> QED
      BY <2>1, <3>1 DEF Keeps
  <2>7. CASE call = "createVolume"
    <3>1. a.o = [o EXCEPT !.volumes = @ \cup d.chosen]
      BY <1>3, <2>7 DEF Answer
    <3>2. a.o.volumes = o.volumes \cup d.chosen /\ a.o.state = o.state
      BY <3>1 DEF Object
    <3> QED
      BY <2>1, <3>2 DEF Keeps
  <2>8. CASE call = "updateHosts"
    <3>1. PICK config, live : a.o = [o EXCEPT !.config = config, !.live = live]
      BY <1>3, <2>8 DEF Answer, UpdateHosts
    <3>2. a.o.volumes = o.volumes /\ a.o.state = o.state
      BY <3>1 DEF Object
    <3> QED
      BY <2>1, <3>2 DEF Keeps
  <2> QED
    BY <1>3, <2>2, <2>3, <2>4, <2>5, <2>6, <2>7, <2>8 DEF CallNames
<1> QED
  BY <1>1, <1>2, <1>3

LEMMA CallReturnsSpares ==
  ASSUME IInv, VolumesInv, CallReturns
  PROVE  VolumesInv' /\ SparesUsed
<1>1. PICK s \in Slots : jobs[s] # NoJob /\ IsCalling(jobs[s]) /\
        LET j == jobs[s]
            call == Calls(j)[j.step]
            a == Answer(object, call, j.d, IF j.new = 0 THEN j.d.id ELSE j.new)
        IN  /\ IF a.ok
               THEN /\ object' = a.o
                    /\ jobs' = [jobs EXCEPT ![s] = [j EXCEPT !.step = @ + 1, !.new = IF call = "define" THEN made + 1 ELSE @]]
               ELSE /\ jobs' = [jobs EXCEPT ![s] = NoJob]
                    /\ UNCHANGED object
            /\ UNCHANGED <<subject, usage, page, surprise>>
  BY DEF CallReturns
<1>2. PICK j \in Job : j = jobs[s]
  BY <1>1, JobOf
<1>3. PICK call : call = Calls(j)[j.step]
  OBVIOUS
<1>4. PICK id : id = IF j.new = 0 THEN j.d.id ELSE j.new
  OBVIOUS
<1>5. UNCHANGED <<usage, rowUsage, surprise, subject, dialog>>
  BY <1>1 DEF page
<1>6. CASE Answer(object, call, j.d, id).ok
  <2>1. PICK k : k = [j EXCEPT !.step = @ + 1, !.new = IF call = "define" THEN made + 1 ELSE @]
    OBVIOUS
  <2>2. /\ object' = Answer(object, call, j.d, id).o
        /\ jobs' = [jobs EXCEPT ![s] = k]
    BY <1>1, <1>2, <1>3, <1>4, <1>6, <2>1
  <2>3. k.volumes = j.volumes
    BY <2>1 DEF Job
  <2>4. call \in CallNames
    <3>1. PICK c : c = Calls(j)
      OBVIOUS
    <3>2. Len(c) \in Nat /\ j.step \in Nat \ {0} /\ j.step <= Len(c)
      BY <1>1, <1>2, <3>1, CallsEnd, JobTyped DEF IsCalling
    <3>3. PICK i \in 1..Len(c) : i = j.step
      BY <3>2
    <3> QED
      BY <1>3, <3>1, <3>3, CallsOfJob
  <2>5. object \in Object /\ j.d \in Dialog /\ ((object.state = "gone") => (object.volumes = {}))
    BY JobTyped DEF IInv, TypeOK, VolumesInv
  <2>6. Keeps(object, object')
    BY <1>6, <2>2, <2>4, <2>5, AnswerKeeps
  <2>7. (object'.state = "gone") => (object'.volumes = {})
    BY <2>6 DEF Keeps
  <2>8. SparesUsed
    BY <2>6 DEF SparesUsed, Keeps
  <2> QED
    BY <1>1, <1>2, <1>5, <2>2, <2>3, <2>7, <2>8, JobSpares
<1>7. CASE ~Answer(object, call, j.d, id).ok
  <2>1. jobs' = [jobs EXCEPT ![s] = NoJob] /\ UNCHANGED object
    BY <1>1, <1>2, <1>3, <1>4, <1>7
  <2> QED
    BY <1>1, <1>5, <2>1, JobSpares, ObjectSpares
<1> QED
  BY <1>6, <1>7

LEMMA UndefineSpares ==
  ASSUME VolumesInv, storagePoolUndefine
  PROVE  VolumesInv' /\ SparesUsed
<1>1. UNCHANGED <<usage, rowUsage, surprise, subject, dialog, jobs>> /\ object' \in {Gone, object}
  BY DEF storagePoolUndefine, page
<1>2. (object'.state = "gone") => (object'.volumes = {})
  BY <1>1, GoneIsEmpty DEF VolumesInv
<1>3. SparesUsed
  BY <1>1, GoneIsEmpty DEF SparesUsed
<1> QED
  BY <1>1, <1>2, <1>3, VolumesKept

(* Others may delete what they like: the property is about the page.       *)
LEMMA OthersSpare ==
  ASSUME IInv, VolumesInv, OthersChange
  PROVE  VolumesInv' /\ SparesUsed
<1>1. UNCHANGED <<usage, rowUsage, surprise, subject, dialog, jobs>>
  BY DEF OthersChange, page
<1>2. SparesUsed
  BY DEF OthersChange, SparesUsed, IInv, TypeOK
<1>3. object \in Object
  BY DEF IInv, TypeOK
<1>4. (object'.state = "gone") => (object'.volumes = {})
  <2>1. CASE object' \in Moved
    <3>1. CASE object'= Stopped(object)
      BY <1>3, <3>1, StoppedKeeps DEF Keeps
    <3>2. CASE object' = [object EXCEPT !.state = "active", !.live = object.config]
      BY <1>3, <3>2 DEF Object
    <3>3. CASE object' = Gone
      BY <3>3, GoneIsEmpty
    <3> QED
      BY <1>3, <2>1, <3>1, <3>2, <3>3, ObjectParts DEF Moved, States
  <2>2. CASE object' \in ChangedQuietly
    <3>1. PICK o \in ChangedQuietly : o = object'
      BY <2>2
    <3>2. object.state # "gone"
      BY <2>2 DEF ChangedQuietly
    <3>3. \/ \E v : object' = [object EXCEPT !.volumes = v]
          \/ \E config, live : object' = [object EXCEPT !.config = config, !.live = live]
      BY <2>2, <3>2 DEF ChangedQuietly
    <3>4. object'.state = object.state
      BY <1>3, <3>3 DEF Object
    <3> QED
      BY <3>2, <3>4
  <2> QED
    BY <2>1, <2>2 DEF OthersChange
<1> QED
  BY <1>1, <1>2, <1>4, VolumesKept

LEMMA NextSpares ==
  ASSUME IInv, VolumesInv, [Next]_vars
  PROVE  VolumesInv' /\ SparesUsed
<1>1. CASE Fills \/ Cancel \/ onSelect \/ Reads \/ UNCHANGED vars
  BY <1>1, PageSpares
<1>2. CASE Open \/ Save \/ Press \/ VmsAreRead \/ VolumeIsTaken
  BY <1>2, OpenSpares, ButtonSpares, VmsAreReadSpares, VolumeIsTakenSpares
<1>3. CASE VolumeIsDeleted \/ VolumeIsNotDeleted \/ CallReturns \/ CallFails \/ Finish
  BY <1>3, VolumeIsDeletedSpares, FailureSpares, CallReturnsSpares
<1>4. CASE storagePoolUndefine \/ OthersChange
  BY <1>4, UndefineSpares, OthersSpare
<1> QED
  BY <1>1, <1>2, <1>3, <1>4 DEF Next

(* The page deletes no volume that a machine is known to use, whatever     *)
(* changes between the opening of a dialog and the last deletion, except   *)
(* one that a machine has taken meanwhile (storagePoolDelete.tsx:41,       *)
(* storageVolumeDelete.tsx:51).                                            *)
THEOREM UsedVolumesAreSpared == Spec => UsedVolumesStay
<1>1. Init => VolumesInv
  BY VolumesInitOK
<1>2. IInv /\ VolumesInv /\ [Next]_vars => VolumesInv'
  BY NextSpares
<1>3. IInv /\ VolumesInv /\ [Next]_vars => [SparesUsed]_vars
  BY NextSpares
<1>4. UsedVolumesStay <=> [][SparesUsed]_vars
  BY PTL DEF UsedVolumesStay, SparesUsed
<1> QED
  BY <1>1, <1>2, <1>3, <1>4, InvariantHolds, PTL DEF Spec

-----------------------------------------------------------------------------
(* What has been done *)

(* Network buttons are pressed for networks.                               *)
OpIsOf(d) == d.op \in {"autostart", "addHost", "removeHost"} => subject = "network"

(* What job j has reached with the object o before its next call, while m   *)
(* is the path of the last object that was defined.                        *)
Progress(o, m, j) ==
    CASE j.d.op = "create" ->
            /\ j.step > 1 => j.new = m /\ o.id = m /\ o.persistent
            /\ j.step > 2 => o.autostart = j.d.all
      [] j.d.op = "activate" -> j.step > 1 => Active(o)
      [] j.d.op = "deactivate" -> j.step > 1 => ~Active(o)
      [] j.d.op = "delete" ->
            /\ ~Active(j.d.row) \/ j.step > 1 => ~Active(o)
            /\ j.step > (IF Active(j.d.row) THEN 2 ELSE 1) => o.state = "gone"
      [] j.d.op = "createVolume" -> j.step > 1 => Active(o) /\ j.d.chosen \subseteq o.volumes
      [] j.d.op = "deleteVolumes" -> ~j.failed => j.d.chosen \cap o.volumes \subseteq j.volumes
      [] j.d.op = "autostart" -> j.step > 1 => o.autostart = j.d.all
      [] j.d.op = "addHost" ->
            /\ Active(j.d.row) <=> Active(o)
            /\ j.step > 1 => j.d.chosen \subseteq o.config /\ (Active(o) => j.d.chosen \subseteq o.live)
      [] j.d.op = "removeHost" ->
            /\ Active(j.d.row) <=> Active(o)
            /\ j.step > 1 => j.d.chosen \cap (o.config \cup o.live) = {}

(* A network that does not run has no live entries.                        *)
IsQuiet(o) == Active(o) \/ o.live = {}

(* What has been defined and is being cleaned up again is no job's any     *)
(* more; whoever is not disturbed is alone.                                *)
DoneInv ==
    /\ cleanup # {} => subject = "pool"
    /\ \A id \in cleanup : id <= made
    /\ IsQuiet(object)
    /\ dialog # NoDialog => OpIsOf(dialog)
    /\ \A s \in Slots : jobs[s] # NoJob => OpIsOf(jobs[s].d) /\ jobs[s].new <= made
    /\ ~disturbed =>
        /\ \A s, r \in Slots : jobs[s] # NoJob /\ jobs[r] # NoJob => s = r
        /\ \A s \in Slots : jobs[s] # NoJob =>
              /\ Progress(object, made, jobs[s])
              /\ jobs[s].d.op = "create" /\ jobs[s].step > 1 => jobs[s].new \notin cleanup

LEMMA Short ==
  /\ \A a : Len(<<a>>) = 1 /\ <<a>>[1] = a
  /\ \A a, b : Len(<<a, b>>) = 2 /\ <<a, b>>[1] = a /\ <<a, b>>[2] = b
OBVIOUS

(* The plans, one by one.                                                  *)
LEMMA CallsAre ==
  ASSUME NEW j \in Job, NEW c, c = Calls(j)
  PROVE  /\ j.d.op = "create" => c = IF subject = "pool" THEN <<"define", "autostart">> ELSE <<"define">>
         /\ j.d.op = "activate" => c = <<"start">>
         /\ j.d.op = "deactivate" => c = <<"stop">>
         /\ j.d.op = "delete" => c = IF Active(j.d.row) THEN <<"stop", "undefine">> ELSE <<"undefine">>
         /\ j.d.op = "createVolume" => c = <<"createVolume", "refresh">>
         /\ j.d.op = "deleteVolumes" => c = <<"refresh">>
         /\ j.d.op = "autostart" => c = <<"setAutostart", "read">>
         /\ j.d.op \in {"addHost", "removeHost"} => c = <<"updateHosts", "read">>
<1> USE DEF Calls, PlanOf, NoVolumes, Plan
<1>1. j.d.op = "create" => c = IF subject = "pool" THEN <<"define", "autostart">> ELSE <<"define">>
  BY DEF storagePoolCreate, networkCreate
<1>2. j.d.op = "activate" => c = <<"start">>
  BY DEF StoragePoolActivate
<1>3. j.d.op = "deactivate" => c = <<"stop">>
  BY DEF StoragePoolDeactivate
<1>4. j.d.op = "delete" => c = IF Active(j.d.row) THEN <<"stop", "undefine">> ELSE <<"undefine">>
  BY DEF StoragePoolDeletePlan, networkDeletePlan, deactivateAndUndefine
<1>5. j.d.op = "createVolume" => c = <<"createVolume", "refresh">>
  BY DEF storageVolumeCreate
<1>6. j.d.op = "deleteVolumes" => c = <<"refresh">>
  BY DEF storageVolumeListDelete
<1>7. j.d.op = "autostart" => c = <<"setAutostart", "read">>
  BY DEF networkChangeAutostart
<1>8. j.d.op \in {"addHost", "removeHost"} => c = <<"updateHosts", "read">>
  BY DEF StaticHostEntries
<1> QED
  BY <1>1, <1>2, <1>3, <1>4, <1>5, <1>6, <1>7, <1>8

-----------------------------------------------------------------------------
(* What calls that succeed leave *)

LEMMA DefineLeaves ==
  ASSUME NEW o, NEW d, NEW id, NEW a, a = Answer(o, "define", d, id), made \in Nat
  PROVE  a.o.id = made + 1 /\ a.o.persistent /\ a.o.state = "inactive" /\ a.o.live = {}
<1>1. PICK n : n = made + 1
  OBVIOUS
<1>2. a.o = [Gone EXCEPT !.id = n, !.state = "inactive", !.persistent = TRUE, !.families = <<"ipv4">>]
  BY <1>1 DEF Answer
<1>3. a.o.id = n /\ a.o.persistent /\ a.o.state = "inactive" /\ a.o.live = {}
  BY <1>2 DEF Gone
<1> QED
  BY <1>1, <1>3

LEMMA SettingLeaves ==
  ASSUME NEW o \in Object, NEW d, NEW id, NEW call \in {"autostart", "setAutostart"},
         NEW a, a = Answer(o, call, d, id), a.ok
  PROVE  a.o.autostart = d.all /\ a.o.id = o.id /\ a.o.persistent = o.persistent
         /\ a.o.state = o.state /\ a.o.live = o.live
<1>1. a.o = [o EXCEPT !.autostart = d.all]
  BY DEF Answer
<1> QED
  BY <1>1 DEF Object

LEMMA StartLeaves ==
  ASSUME NEW o \in Object, NEW d, NEW id, NEW a, a = Answer(o, "start", d, id), a.ok
  PROVE  Active(a.o)
<1>1. a.o = [o EXCEPT !.state = "active", !.live = o.config]
  BY DEF Answer
<1> QED
  BY <1>1 DEF Object, Active

LEMMA StoppedIs ==
  ASSUME NEW o \in Object
  PROVE  ~Active(Stopped(o)) /\ Stopped(o).live = {}
<1>1. CASE o.persistent
  BY <1>1 DEF Stopped, Active, Object
<1>2. CASE ~o.persistent
  BY <1>2 DEF Stopped, Active, Gone
<1> QED
  BY <1>1, <1>2

LEMMA StopLeaves ==
  ASSUME NEW o \in Object, NEW d, NEW id, NEW a, a = Answer(o, "stop", d, id), a.ok
  PROVE  ~Active(a.o) /\ a.o.live = {}
<1>1. a.o = Stopped(o)
  BY DEF Answer
<1> QED
  BY <1>1, StoppedIs

LEMMA UndefineLeaves ==
  ASSUME NEW o \in Object, NEW d, NEW id, NEW a, a = Answer(o, "undefine", d, id), a.ok
  PROVE  IF Active(o) THEN Active(a.o) ELSE a.o.state = "gone" /\ a.o.live = {}
<1>1. a.o = Undefined(o)
  BY DEF Answer
<1>2. CASE Active(o)
  BY <1>1, <1>2 DEF Undefined, Active, Object
<1>3. CASE ~Active(o)
  BY <1>1, <1>3 DEF Undefined, Gone
<1> QED
  BY <1>2, <1>3

LEMMA ReadingLeaves ==
  ASSUME NEW o, NEW d, NEW id, NEW call \in {"read", "refresh"}, NEW a, a = Answer(o, call, d, id), a.ok
  PROVE  a.o = o
BY DEF Answer

LEMMA VolumeLeaves ==
  ASSUME NEW o \in Object, NEW d, NEW id, NEW a, a = Answer(o, "createVolume", d, id), a.ok
  PROVE  Active(o) /\ Active(a.o) /\ d.chosen \subseteq a.o.volumes
<1>1. Active(o) /\ a.o = [o EXCEPT !.volumes = @ \cup d.chosen]
  BY DEF Answer
<1> QED
  BY <1>1 DEF Object, Active

(* Entries are changed in the configuration, and in the running network if *)
(* the page has seen it run.                                               *)
Changed(hosts, d) == IF d.op = "addHost" THEN hosts \cup d.chosen ELSE hosts \ d.chosen

LEMMA HostsLeave ==
  ASSUME NEW o \in Object, NEW d, NEW id, NEW a, a = Answer(o, "updateHosts", d, id), a.ok
  PROVE  /\ a.o.state = o.state
         /\ a.o.config = Changed(o.config, d)
         /\ Active(d.row) => Active(o)
         /\ a.o.live = IF Active(d.row) THEN Changed(o.live, d) ELSE o.live
<1>1. a = UpdateHosts(o, d)
  BY DEF Answer
<1>2. "config" \in UpdateFlags(d) /\ ("live" \in UpdateFlags(d) <=> Active(d.row))
  BY DEF UpdateFlags
<1>3. PICK config : config = IF "config" \in UpdateFlags(d)
                             THEN IF d.op = "addHost" THEN o.config \cup d.chosen ELSE o.config \ d.chosen
                             ELSE o.config
  OBVIOUS
<1>4. PICK live : live = IF "live" \in UpdateFlags(d)
                         THEN IF d.op = "addHost" THEN o.live \cup d.chosen ELSE o.live \ d.chosen
                         ELSE o.live
  OBVIOUS
<1>5. a.o = [o EXCEPT !.config = config, !.live = live]
  BY <1>1, <1>3, <1>4 DEF UpdateHosts
<1>6. a.o.state = o.state /\ a.o.config = config /\ a.o.live = live
  BY <1>5 DEF Object
<1>7. Active(d.row) => Active(o)
  BY <1>1, <1>2 DEF UpdateHosts
<1> QED
  BY <1>2, <1>3, <1>4, <1>6, <1>7 DEF Changed

LEMMA QuietStays ==
  ASSUME NEW o \in Object, NEW call \in CallNames, NEW d, NEW id, NEW a, a = Answer(o, call, d, id), a.ok,
         IsQuiet(o), made \in Nat
  PROVE  IsQuiet(a.o)
<1>1. CASE call = "define"
  BY <1>1, DefineLeaves DEF IsQuiet
<1>2. CASE call \in {"autostart", "setAutostart"}
  BY <1>2, SettingLeaves DEF IsQuiet, Active
<1>3. CASE call \in {"read", "refresh"}
  BY <1>3, ReadingLeaves
<1>4. CASE call = "start"
  BY <1>4, StartLeaves DEF IsQuiet
<1>5. CASE call = "stop"
  BY <1>5, StopLeaves DEF IsQuiet
<1>6. CASE call = "undefine"
  BY <1>6, UndefineLeaves DEF IsQuiet
<1>7. CASE call = "createVolume"
  BY <1>7, VolumeLeaves DEF IsQuiet
<1>8. CASE call = "updateHosts"
  <2>1. a = Answer(o, "updateHosts", d, id)
    BY <1>8
  <2>2. a.o.state = o.state /\ (Active(d.row) => Active(o)) /\ (~Active(d.row) => a.o.live = o.live)
    BY <2>1, HostsLeave
  <2> QED
    BY <2>2 DEF IsQuiet, Active
<1> QED
  BY <1>1, <1>2, <1>3, <1>4, <1>5, <1>6, <1>7, <1>8 DEF CallNames

-----------------------------------------------------------------------------
(* How far a call brings its job *)

(* The job k is the job j after its call has left the object p.            *)
Advances(j, k, o, p) ==
    /\ k.d = j.d /\ k.step = j.step + 1 /\ k.volumes = j.volumes /\ k.failed = j.failed
    /\ \E id : \E a : a = Answer(o, Calls(j)[j.step], j.d, id) /\ a.ok /\ a.o = p

LEMMA CreationProgresses ==
  ASSUME NEW o \in Object, NEW j \in Job, NEW k, NEW p, Advances(j, k, o, p), made \in Nat,
         j.d.op = "create", j.step <= Len(Calls(j)), Progress(o, made, j),
         k.new = IF Calls(j)[j.step] = "define" THEN made + 1 ELSE j.new
  PROVE  Progress(p, IF Calls(j)[j.step] = "define" THEN made + 1 ELSE made, k)
<1>1. j.step \in Nat \ {0}
  BY JobTyped
<1>2. PICK c : c = Calls(j)
  OBVIOUS
<1>3. c = IF subject = "pool" THEN <<"define", "autostart">> ELSE <<"define">>
  BY <1>2, CallsAre
<1>4. PICK id, a : a = Answer(o, c[j.step], j.d, id) /\ a.ok /\ a.o = p
  BY <1>2 DEF Advances
<1>5. CASE j.step = 1
  <2>1. c[j.step] = "define"
    BY <1>3, <1>5, Short
  <2>2. p.id = made + 1 /\ p.persistent
    BY <1>4, <2>1, DefineLeaves
  <2>3. k.new = made + 1 /\ k.d.op = "create" /\ k.step = 2
    BY <1>2, <1>5, <2>1 DEF Advances
  <2>4. ~(k.step > 2)
    BY <2>3
  <2>5. Progress(p, made + 1, k)
    BY <2>2, <2>3, <2>4 DEF Progress
  <2> QED
    BY <1>2, <2>1, <2>5
<1>6. CASE j.step # 1
  <2>1. j.step = 2 /\ c[j.step] = "autostart"
    <3>1. Len(c) = IF subject = "pool" THEN 2 ELSE 1
      BY <1>3, Short
    <3>2. j.step = 2 /\ subject = "pool"
      BY <1>1, <1>2, <1>6, <3>1
    <3> QED
      BY <1>3, <3>2, Short
  <2>2. j.step > 1
    BY <2>1
  <2>3. j.new = made /\ o.id = made /\ o.persistent
    BY <2>2 DEF Progress
  <2>4. p.id = o.id /\ p.persistent = o.persistent /\ p.autostart = j.d.all
    BY <1>4, <2>1, SettingLeaves
  <2>5. k.new = made /\ k.d = j.d
    BY <1>2, <2>1, <2>3 DEF Advances
  <2>6. Progress(p, made, k)
    BY <2>3, <2>4, <2>5 DEF Progress
  <2> QED
    BY <1>2, <2>1, <2>6
<1> QED
  BY <1>5, <1>6

LEMMA SwitchProgresses ==
  ASSUME NEW o \in Object, NEW j \in Job, NEW k, NEW p, Advances(j, k, o, p), NEW m,
         j.d.op \in {"activate", "deactivate"}, j.step <= Len(Calls(j))
  PROVE  Progress(p, m, k)
<1>1. j.step \in Nat \ {0}
  BY JobTyped
<1>2. PICK c : c = Calls(j)
  OBVIOUS
<1>3. c = IF j.d.op = "activate" THEN <<"start">> ELSE <<"stop">>
  BY <1>2, CallsAre
<1>4. Len(c) = 1
  BY <1>3, Short
<1>5. j.step = 1
  BY <1>1, <1>2, <1>4
<1>6. PICK id, a : a = Answer(o, c[1], j.d, id) /\ a.ok /\ a.o = p
  BY <1>2, <1>5 DEF Advances
<1>7. CASE j.d.op = "activate"
  <2>1. c[1] = "start"
    BY <1>3, <1>7, Short
  <2>2. Active(p)
    BY <1>6, <2>1, StartLeaves
  <2> QED
    BY <1>7, <2>2 DEF Advances, Progress
<1>8. CASE j.d.op = "deactivate"
  <2>1. c[1] = "stop"
    BY <1>3, <1>8, Short
  <2>2. ~Active(p)
    BY <1>6, <2>1, StopLeaves
  <2> QED
    BY <1>8, <2>2 DEF Advances, Progress
<1> QED
  BY <1>7, <1>8

LEMMA DeletionProgresses ==
  ASSUME NEW o \in Object, NEW j \in Job, NEW k, NEW p, Advances(j, k, o, p), NEW m,
         j.d.op = "delete", j.step <= Len(Calls(j)), Progress(o, m, j)
  PROVE  Progress(p, m, k)
<1>1. j.step \in Nat \ {0}
  BY JobTyped
<1>2. PICK c : c = Calls(j)
  OBVIOUS
<1>3. c = IF Active(j.d.row) THEN <<"stop", "undefine">> ELSE <<"undefine">>
  BY <1>2, CallsAre
<1>4. Len(c) = IF Active(j.d.row) THEN 2 ELSE 1
  BY <1>3, Short
<1>5. PICK id, a : a = Answer(o, c[j.step], j.d, id) /\ a.ok /\ a.o = p
  BY <1>2 DEF Advances
<1>6. CASE Active(j.d.row) /\ j.step = 1
  <2>1. c[j.step] = "stop"
    BY <1>3, <1>6, Short
  <2>2. ~Active(p)
    BY <1>5, <2>1, StopLeaves
  <2>3. k.d = j.d /\ ~(k.step > 2)
    BY <1>6 DEF Advances
  <2> QED
    BY <1>6, <2>2, <2>3 DEF Progress
<1>7. CASE ~(Active(j.d.row) /\ j.step = 1)
  <2>1. c[j.step] = "undefine" /\ (~Active(j.d.row) \/ j.step > 1)
    <3>1. CASE Active(j.d.row)
      <4>1. j.step = 2
        BY <1>1, <1>2, <1>4, <1>7, <3>1
      <4> QED
        BY <1>3, <3>1, <4>1, Short
    <3>2. CASE ~Active(j.d.row)
      <4>1. j.step = 1
        BY <1>1, <1>2, <1>4, <3>2
      <4> QED
        BY <1>3, <3>2, <4>1, Short
    <3> QED
      BY <3>1, <3>2
  <2>2. ~Active(o)
    BY <2>1 DEF Progress
  <2>3. p.state = "gone"
    BY <1>5, <2>1, <2>2, UndefineLeaves
  <2>4. ~Active(p)
    BY <2>3 DEF Active
  <2> QED
    BY <2>3, <2>4 DEF Advances, Progress
<1> QED
  BY <1>6, <1>7

LEMMA VolumesProgress ==
  ASSUME NEW o \in Object, NEW j \in Job, NEW k, NEW p, Advances(j, k, o, p), NEW m,
         j.d.op \in {"createVolume", "deleteVolumes"}, j.step <= Len(Calls(j)), Progress(o, m, j)
  PROVE  Progress(p, m, k)
<1>1. j.step \in Nat \ {0}
  BY JobTyped
<1>2. PICK c : c = Calls(j)
  OBVIOUS
<1>3. c = IF j.d.op = "createVolume" THEN <<"createVolume", "refresh">> ELSE <<"refresh">>
  BY <1>2, CallsAre
<1>4. Len(c) = IF j.d.op = "createVolume" THEN 2 ELSE 1
  BY <1>3, Short
<1>5. PICK id, a : a = Answer(o, c[j.step], j.d, id) /\ a.ok /\ a.o = p
  BY <1>2 DEF Advances
<1>6. CASE j.d.op = "createVolume" /\ j.step = 1
  <2>1. c[j.step] = "createVolume"
    BY <1>3, <1>6, Short
  <2>2. Active(p) /\ j.d.chosen \subseteq p.volumes
    BY <1>5, <2>1, VolumeLeaves
  <2> QED
    BY <1>6, <2>2 DEF Advances, Progress
<1>7. CASE ~(j.d.op = "createVolume" /\ j.step = 1)
  <2>1. c[j.step] = "refresh" /\ (j.d.op = "createVolume" => j.step > 1)
    <3>1. CASE j.d.op = "createVolume"
      <4>1. j.step = 2
        BY <1>1, <1>2, <1>4, <1>7, <3>1
      <4> QED
        BY <1>3, <3>1, <4>1, Short
    <3>2. CASE j.d.op # "createVolume"
      <4>1. j.step = 1
        BY <1>1, <1>2, <1>4, <3>2
      <4> QED
        BY <1>3, <3>2, <4>1, Short
    <3> QED
      BY <3>1, <3>2
  <2>2. p = o
    BY <1>5, <2>1, ReadingLeaves
  <2>3. CASE j.d.op = "createVolume"
    BY <2>1, <2>2, <2>3 DEF Advances, Progress
  <2>4. CASE j.d.op = "deleteVolumes"
    BY <2>2, <2>4 DEF Advances, Progress
  <2> QED
    BY <2>3, <2>4
<1> QED
  BY <1>6, <1>7

LEMMA NetworkProgresses ==
  ASSUME NEW o \in Object, NEW j \in Job, NEW k, NEW p, Advances(j, k, o, p), NEW m,
         j.d.op \in {"autostart", "addHost", "removeHost"}, j.step <= Len(Calls(j)), Progress(o, m, j),
         IsQuiet(o)
  PROVE  Progress(p, m, k)
<1>1. j.step \in Nat \ {0}
  BY JobTyped
<1>2. PICK c : c = Calls(j)
  OBVIOUS
<1>3. c = IF j.d.op = "autostart" THEN <<"setAutostart", "read">> ELSE <<"updateHosts", "read">>
  BY <1>2, CallsAre
<1>4. Len(c) = 2
  BY <1>3, Short
<1>5. PICK id, a : a = Answer(o, c[j.step], j.d, id) /\ a.ok /\ a.o = p
  BY <1>2 DEF Advances
<1>6. CASE j.step = 1
  <2>1. CASE j.d.op = "autostart"
    <3>1. c[j.step] = "setAutostart"
      BY <1>3, <1>6, <2>1, Short
    <3>2. p.autostart = j.d.all
      BY <1>5, <3>1, SettingLeaves
    <3> QED
      BY <2>1, <3>2 DEF Advances, Progress
  <2>2. CASE j.d.op \in {"addHost", "removeHost"}
    <3>1. c[j.step] = "updateHosts"
      BY <1>3, <1>6, <2>2, Short
    <3>2. /\ p.state = o.state
          /\ p.config = Changed(o.config, j.d)
          /\ p.live = IF Active(j.d.row) THEN Changed(o.live, j.d) ELSE o.live
      <4>1. a = Answer(o, "updateHosts", j.d, id) /\ a.ok /\ a.o = p
        BY <1>5, <3>1
      <4>2. PICK d : d = j.d
        OBVIOUS
      <4> QED
        BY <4>1, <4>2, HostsLeave
    <3>3. Active(j.d.row) <=> Active(o)
      BY <2>2 DEF Progress
    <3>4. Active(j.d.row) <=> Active(p)
      BY <3>2, <3>3 DEF Active
    <3>5. ~Active(o) => o.live = {}
      BY DEF IsQuiet
    <3>6. CASE j.d.op = "addHost"
      BY <3>2, <3>4, <3>6 DEF Advances, Progress, Changed
    <3>7. CASE j.d.op = "removeHost"
      BY <3>2, <3>3, <3>4, <3>5, <3>7 DEF Advances, Progress, Changed
    <3> QED
      BY <2>2, <3>6, <3>7
  <2> QED
    BY <2>1, <2>2
<1>7. CASE j.step # 1
  <2>1. j.step = 2
    BY <1>1, <1>2, <1>4, <1>7
  <2>2. c[j.step] = "read"
    BY <1>3, <2>1, Short
  <2>3. p = o
    BY <1>5, <2>2, ReadingLeaves
  <2>4. j.step > 1
    BY <2>1
  <2>5. CASE j.d.op = "autostart"
    BY <2>3, <2>4, <2>5 DEF Advances, Progress
  <2>6. CASE j.d.op = "addHost"
    BY <2>3, <2>4, <2>6 DEF Advances, Progress
  <2>7. CASE j.d.op = "removeHost"
    BY <2>3, <2>4, <2>7 DEF Advances, Progress
  <2> QED
    BY <2>5, <2>6, <2>7
<1> QED
  BY <1>6, <1>7

LEMMA CallProgresses ==
  ASSUME NEW o \in Object, NEW j \in Job, NEW k, NEW p, Advances(j, k, o, p), made \in Nat,
         j.step <= Len(Calls(j)), Progress(o, made, j), IsQuiet(o),
         NEW m, m = IF Calls(j)[j.step] = "define" THEN made + 1 ELSE made,
         k.new = IF Calls(j)[j.step] = "define" THEN made + 1 ELSE j.new
  PROVE  Progress(p, m, k) /\ IsQuiet(p)
<1>1. j.d \in Dialog /\ j.step \in Nat \ {0}
  BY JobTyped
<1>2. PICK c : c = Calls(j)
  OBVIOUS
<1>3. PICK i \in 1..Len(c) : i = j.step
  BY <1>1, <1>2, CallsEnd
<1>4. c[i] \in CallNames /\ (c[i] = "define" => j.d.op = "create")
  BY <1>2, CallsOfJob
<1>5. PICK id, a : a = Answer(o, c[i], j.d, id) /\ a.ok /\ a.o = p
  BY <1>2, <1>3 DEF Advances
<1>6. IsQuiet(p)
  BY <1>4, <1>5, QuietStays
<1>7. CASE j.d.op = "create"
  BY <1>6, <1>7, CreationProgresses
<1>8. CASE j.d.op # "create"
  <2>1. m = made
    BY <1>2, <1>3, <1>4, <1>8
  <2>2. Progress(o, m, j)
    BY <2>1
  <2>3. j.d.op \in Ops
    BY <1>1, DialogParts
  <2> QED
    BY <1>6, <1>8, <2>2, <2>3, SwitchProgresses, DeletionProgresses, VolumesProgress, NetworkProgresses
       DEF Ops, VolumeOps, HostOps
<1> QED
  BY <1>7, <1>8

(* A plan that is at its end has done what it says.                        *)
LEMMA EndIsSo ==
  ASSUME NEW j \in Job, IsDone(j), Progress(object, made, j)
  PROVE  IsSo(j.d)
<1>1. j.step \in Nat \ {0} /\ j.volumes = {} /\ ~j.failed /\ j.d \in Dialog
  BY JobTyped DEF IsDone
<1>2. PICK c : c = Calls(j)
  OBVIOUS
<1>3. PICK n \in Nat : n = Len(c)
  BY <1>2, CallsEnd
<1>4. j.step > n
  BY <1>2, <1>3 DEF IsDone
<1>5. n = CASE j.d.op = "create" -> IF subject = "pool" THEN 2 ELSE 1
            [] j.d.op \in {"activate", "deactivate", "deleteVolumes"} -> 1
            [] j.d.op = "delete" -> IF Active(j.d.row) THEN 2 ELSE 1
            [] j.d.op \in {"createVolume", "autostart", "addHost", "removeHost"} -> 2
  <2>1. CASE j.d.op = "create"
    <3>1. c = IF subject = "pool" THEN <<"define", "autostart">> ELSE <<"define">>
      BY <1>2, <2>1, CallsAre
    <3> QED
      BY <1>3, <2>1, <3>1, Short
  <2>2. CASE j.d.op \in {"activate", "deactivate", "deleteVolumes"}
    <3>1. c = <<"start">> \/ c = <<"stop">> \/ c = <<"refresh">>
      BY <1>2, <2>2, CallsAre
    <3> QED
      BY <1>3, <2>2, <3>1, Short
  <2>3. CASE j.d.op = "delete"
    <3>1. c = IF Active(j.d.row) THEN <<"stop", "undefine">> ELSE <<"undefine">>
      BY <1>2, <2>3, CallsAre
    <3> QED
      BY <1>3, <2>3, <3>1, Short
  <2>4. CASE j.d.op \in {"createVolume", "autostart", "addHost", "removeHost"}
    <3>1. c = <<"createVolume", "refresh">> \/ c = <<"setAutostart", "read">> \/ c = <<"updateHosts", "read">>
      BY <1>2, <2>4, CallsAre
    <3> QED
      BY <1>3, <2>4, <3>1, Short
  <2> QED
    BY <1>1, <2>1, <2>2, <2>3, <2>4, DialogParts DEF Ops, VolumeOps, HostOps
<1>6. CASE j.d.op = "create"
  <2>1. j.step > 1 /\ (subject = "pool" => j.step > 2)
    BY <1>1, <1>4, <1>5, <1>6
  <2> QED
    BY <1>6, <2>1 DEF Progress, IsSo
<1>7. CASE j.d.op = "activate"
  <2>1. j.step > 1
    BY <1>4, <1>5, <1>7
  <2> QED
    BY <1>7, <2>1 DEF Progress, IsSo
<1>8. CASE j.d.op = "deactivate"
  <2>1. j.step > 1
    BY <1>4, <1>5, <1>8
  <2> QED
    BY <1>8, <2>1 DEF Progress, IsSo
<1>9. CASE j.d.op = "delete"
  <2>1. j.step > (IF Active(j.d.row) THEN 2 ELSE 1)
    BY <1>4, <1>5, <1>9
  <2> QED
    BY <1>9, <2>1 DEF Progress, IsSo
<1>10. CASE j.d.op = "createVolume"
  <2>1. j.step > 1
    BY <1>1, <1>4, <1>5, <1>10
  <2> QED
    BY <1>10, <2>1 DEF Progress, IsSo
<1>11. CASE j.d.op = "deleteVolumes"
  BY <1>1, <1>11 DEF Progress, IsSo
<1>12. CASE j.d.op = "autostart"
  <2>1. j.step > 1
    BY <1>1, <1>4, <1>5, <1>12
  <2> QED
    BY <1>12, <2>1 DEF Progress, IsSo
<1>13. CASE j.d.op = "addHost"
  <2>1. j.step > 1
    BY <1>1, <1>4, <1>5, <1>13
  <2> QED
    BY <1>13, <2>1 DEF Progress, IsSo
<1>14. CASE j.d.op = "removeHost"
  <2>1. j.step > 1
    BY <1>1, <1>4, <1>5, <1>14
  <2> QED
    BY <1>14, <2>1 DEF Progress, IsSo
<1> QED
  BY <1>1, <1>6, <1>7, <1>8, <1>9, <1>10, <1>11, <1>12, <1>13, <1>14, DialogParts DEF Ops, VolumeOps, HostOps

-----------------------------------------------------------------------------
(* Whoever is not disturbed gets on *)

LEMMA NothingDone ==
  ASSUME DoneInv, UNCHANGED <<subject, object, made, jobs, cleanup, disturbed>>,
         dialog' # NoDialog => OpIsOf(dialog')
  PROVE  DoneInv'
BY DEF DoneInv, OpIsOf

LEMMA OpOfNewDialog ==
  ASSUME NEW op, NEW d, IsNewDialog(d, op), op \in {"autostart", "addHost", "removeHost"} => subject = "network"
  PROVE  OpIsOf(d)
BY NewDialogShows DEF OpIsOf

LEMMA OpsOfNetworks == \A d \in Dialogs \cup Buttons : OpIsOf(d)
<1> SUFFICES ASSUME NEW d \in Dialogs \cup Buttons, subject # "network" PROVE OpIsOf(d)
  BY DEF OpIsOf
<1>1. CASE d \in CreateDialog
  BY <1>1, OpOfNewDialog DEF CreateDialog, IsNewDialog
<1>2. CASE d \in StoragePoolDelete
  BY <1>2, OpOfNewDialog DEF StoragePoolDelete, IsNewDialog
<1>3. CASE d \in StorageVolumeCreate
  BY <1>3, OpOfNewDialog DEF StorageVolumeCreate, IsNewDialog
<1>4. CASE d \in Switches
  BY <1>4, OpOfNewDialog DEF Switches, IsNewDialog
<1>5. CASE d \in StorageVolumeDelete
  BY <1>5, OpOfNewDialog DEF StorageVolumeDelete, IsNewDialog
<1> QED
  BY <1>1, <1>2, <1>3, <1>4, <1>5 DEF Dialogs, Buttons

LEMMA DoneAtFirst == Init => DoneInv
<1> SUFFICES ASSUME Init PROVE DoneInv
  OBVIOUS
<1>1. object \in Objects /\ cleanup = {} /\ dialog = NoDialog /\ \A s \in Slots : jobs[s] = NoJob
  BY DEF Init
<1>2. IsQuiet(object)
  BY <1>1 DEF Objects, IsQuiet, Active, Gone
<1> QED
  BY <1>1, <1>2 DEF DoneInv

LEMMA PageDone ==
  ASSUME DoneInv, Fills \/ Open \/ Cancel \/ onSelect \/ Reads \/ VmsAreRead \/ VolumeIsTaken \/ UNCHANGED vars
  PROVE  DoneInv'
<1>1. /\ UNCHANGED <<subject, object, made, jobs, cleanup, disturbed>>
      /\ dialog' \in {dialog, NoDialog} \cup Dialogs
  <2>1. CASE Fills
    BY <2>1 DEF Fills, FormNext, Enter, onCreate, libvirt, page, history
  <2>2. CASE Open
    BY <2>2 DEF Open, libvirt, history
  <2>3. CASE Cancel \/ onSelect
    BY <2>3 DEF Cancel, onSelect, libvirt, history
  <2>4. CASE Reads \/ VmsAreRead
    BY <2>4 DEF Reads, VmsAreRead, libvirt
  <2>5. CASE VolumeIsTaken
    BY <2>5 DEF VolumeIsTaken, page
  <2>6. CASE UNCHANGED vars
    BY <2>6 DEF vars, libvirt, page, history
  <2> QED
    BY <2>1, <2>2, <2>3, <2>4, <2>5, <2>6
<1>2. dialog' # NoDialog => OpIsOf(dialog')
  BY <1>1, OpsOfNetworks DEF DoneInv
<1> QED
  BY <1>1, <1>2, NothingDone

(* A plan that starts from what the page shows has nothing to make up for. *)
LEMMA StartProgress ==
  ASSUME NEW o, o = object, NEW d \in Dialog, d.row = View(o), NEW m,
         NEW j, j.d = d, j.volumes = PlanOf(d).volumes, j.step = 1
  PROVE  Progress(o, m, j)
<1>1. Active(d.row) <=> Active(o)
  BY DEF View, Active
<1>2. ~(j.step > 1) /\ ~(j.step > 2) /\ ~(j.step > (IF Active(d.row) THEN 2 ELSE 1))
  OBVIOUS
<1>3. d.op \in Ops
  BY DialogParts
<1>4. CASE d.op = "create"
  BY <1>2, <1>4 DEF Progress
<1>5. CASE d.op \in {"activate", "deactivate"}
  BY <1>2, <1>5 DEF Progress
<1>6. CASE d.op = "delete"
  BY <1>1, <1>2, <1>6 DEF Progress
<1>7. CASE d.op \in {"createVolume", "autostart"}
  BY <1>2, <1>7 DEF Progress
<1>8. CASE d.op = "deleteVolumes"
  <2>1. j.volumes = d.chosen
    BY <1>8, VolumesOfPlan
  <2> QED
    BY <1>8, <2>1 DEF Progress
<1>9. CASE d.op \in {"addHost", "removeHost"}
  BY <1>1, <1>2, <1>9 DEF Progress
<1> QED
  BY <1>3, <1>4, <1>5, <1>6, <1>7, <1>8, <1>9 DEF Ops, VolumeOps, HostOps

LEMMA BeginDone ==
  ASSUME IInv, DoneInv, NEW d \in Dialog, OpIsOf(d), Begin(d),
         UNCHANGED <<subject, object, made, cleanup, dialog>>
  PROVE  DoneInv'
<1>1. PICK j : j = [d |-> d, volumes |-> PlanOf(d).volumes, step |-> 1, failed |-> FALSE, new |-> 0]
  OBVIOUS
<1>2. j.d = d /\ j.volumes = PlanOf(d).volumes /\ j.step = 1 /\ j.new = 0
  BY <1>1
<1>3. PICK s \in Slots : /\ jobs[s] = NoJob
                         /\ jobs' = [jobs EXCEPT ![s] = j]
                         /\ disturbed' = (d.row # View(object) \/ \E r \in Slots : jobs[r] # NoJob)
  BY <1>1 DEF Begin
<1>4. \A r \in Slots : jobs'[r] = IF r = s THEN j ELSE jobs[r]
  BY <1>3 DEF IInv, TypeOK
<1>5. ASSUME NEW r \in Slots, jobs'[r] # NoJob
      PROVE  OpIsOf(jobs[r].d)' /\ jobs'[r].new <= made'
  <2>1. CASE r = s
    <3>1. jobs'[r].d = d /\ jobs'[r].new = 0
      BY <1>2, <1>4, <2>1
    <3> QED
      BY <3>1 DEF OpIsOf, IInv, TypeOK
  <2>2. CASE r # s
    <3>1. jobs'[r] = jobs[r]
      BY <1>4, <2>2
    <3> QED
      BY <1>5, <3>1 DEF DoneInv, OpIsOf
  <2> QED
    BY <2>1, <2>2
<1>6. ASSUME ~disturbed'
      PROVE  \A r \in Slots : jobs'[r] # NoJob =>
                /\ r = s /\ Progress(object', made', jobs'[r])
                /\ ~(jobs'[r].step > 1)
  <2>1. d.row = View(object) /\ \A r \in Slots : jobs[r] = NoJob
    BY <1>3, <1>6
  <2>2. Progress(object, made, j)
    BY <1>2, <2>1, StartProgress
  <2> QED
    BY <1>2, <1>4, <2>1, <2>2
<1>7. (cleanup' # {} => subject' = "pool") /\ (\A id \in cleanup' : id <= made') /\ IsQuiet(object')
      /\ (dialog' # NoDialog => OpIsOf(dialog)')
  BY DEF DoneInv, OpIsOf
<1> QED
  BY <1>5, <1>6, <1>7 DEF DoneInv

LEMMA ButtonDone == ASSUME IInv, DoneInv, Save \/ Press PROVE DoneInv'
<1>1. UNCHANGED <<subject, object, made, cleanup, dialog>>
  BY DEF Save, Press, libvirt, page
<1>2. CASE Save
  <2>1. PICK d \in Dialog : d = dialog /\ d # NoDialog
    BY <1>2 DEF Save, IInv, TypeOK
  <2>2. Begin(d) /\ OpIsOf(d)
    BY <1>2, <2>1 DEF Save, DoneInv
  <2> QED
    BY <1>1, <2>2, BeginDone
<1>3. CASE Press
  <2>1. PICK d \in Buttons : Begin(d)
    BY <1>3 DEF Press
  <2>2. d \in Dialog /\ OpIsOf(d)
    BY ButtonsTyped, OpsOfNetworks
  <2> QED
    BY <1>1, <2>1, <2>2, BeginDone
<1> QED
  BY <1>2, <1>3

(* A job goes on; if it was not disturbed it is the only one.              *)
LEMMA JobDone ==
  ASSUME IInv, DoneInv, NEW s \in Slots, jobs[s] # NoJob, NEW k, jobs' = [jobs EXCEPT ![s] = k],
         UNCHANGED <<subject, disturbed>>, dialog' \in {dialog, NoDialog},
         made' \in Nat, made <= made', IsQuiet(object'),
         cleanup' \subseteq cleanup \cup CleanupOf(jobs[s]), cleanup' # cleanup => k = NoJob,
         k # NoJob => /\ k.d = jobs[s].d /\ k.new <= made'
                      /\ ~disturbed => /\ Progress(object', made', k)
                                       /\ k.d.op = "create" /\ k.step > 1 => k.new \notin cleanup'
  PROVE  DoneInv'
<1>1. \A r \in Slots : jobs'[r] = IF r = s THEN k ELSE jobs[r]
  BY DEF IInv, TypeOK
<1>2. jobs[s] \in Job /\ made \in Nat /\ jobs[s].new <= made
  BY JobOf DEF IInv, TypeOK, DoneInv
<1>3. CleanupOf(jobs[s]) \subseteq {jobs[s].new} /\ (CleanupOf(jobs[s]) # {} => subject = "pool")
  BY DEF CleanupOf
<1>4. (cleanup' # {} => subject' = "pool") /\ \A id \in cleanup' : id <= made'
  <2>1. \A id \in cleanup' : id \in Nat /\ id <= made
    <3> SUFFICES ASSUME NEW id \in cleanup' PROVE id \in Nat /\ id <= made
      OBVIOUS
    <3>1. CASE id \in cleanup
      BY <3>1 DEF IInv, TypeOK, DoneInv
    <3>2. CASE id = jobs[s].new
      BY <1>2, <3>2, JobTyped
    <3> QED
      BY <1>3, <3>1, <3>2
  <2>2. \A id \in cleanup' : id <= made'
    BY <1>2, <2>1
  <2> QED
    BY <1>3, <2>2 DEF DoneInv
<1>5. dialog' # NoDialog => OpIsOf(dialog)'
  BY DEF DoneInv, OpIsOf
<1>6. \A r \in Slots : jobs'[r] # NoJob => OpIsOf(jobs[r].d)' /\ jobs'[r].new <= made'
  <2> SUFFICES ASSUME NEW r \in Slots, jobs'[r] # NoJob PROVE OpIsOf(jobs[r].d)' /\ jobs'[r].new <= made'
    OBVIOUS
  <2>1. CASE r = s
    BY <1>1, <2>1 DEF DoneInv, OpIsOf
  <2>2. CASE r # s
    <3>1. jobs'[r] = jobs[r] /\ jobs[r] # NoJob
      BY <1>1, <2>2
    <3>2. jobs[r].new \in Nat /\ jobs[r].new <= made /\ OpIsOf(jobs[r].d)
      BY <3>1, JobOf, JobTyped DEF DoneInv
    <3> QED
      BY <1>2, <3>1, <3>2 DEF OpIsOf
  <2> QED
    BY <2>1, <2>2
<1>7. ASSUME ~disturbed', NEW r \in Slots, jobs'[r] # NoJob
      PROVE  /\ r = s
             /\ Progress(object', made', jobs'[r])
             /\ jobs'[r].d.op = "create" /\ jobs'[r].step > 1 => jobs'[r].new \notin cleanup'
  <2>1. r = s
    BY <1>1, <1>7 DEF DoneInv
  <2> QED
    BY <1>1, <1>7, <2>1
<1> QED
  BY <1>4, <1>5, <1>6, <1>7 DEF DoneInv

LEMMA CallReturnsDone == ASSUME IInv, DoneInv, CallReturns PROVE DoneInv'
<1>1. PICK s \in Slots : jobs[s] # NoJob /\ IsCalling(jobs[s]) /\
        LET j == jobs[s]
            call == Calls(j)[j.step]
            a == Answer(object, call, j.d, IF j.new = 0 THEN j.d.id ELSE j.new)
        IN  /\ IF a.ok
               THEN /\ object' = a.o
                    /\ jobs' = [jobs EXCEPT ![s] = [j EXCEPT !.step = @ + 1, !.new = IF call = "define" THEN made + 1 ELSE @]]
                    /\ made' = IF call = "define" THEN made + 1 ELSE made
                    /\ UNCHANGED cleanup
               ELSE /\ jobs' = [jobs EXCEPT ![s] = NoJob]
                    /\ cleanup' = cleanup \cup CleanupOf(j)
                    /\ UNCHANGED <<object, made>>
            /\ UNCHANGED <<subject, page, disturbed>>
  BY DEF CallReturns
<1>2. PICK j \in Job : j = jobs[s]
  BY <1>1, JobOf
<1>3. PICK call : call = Calls(j)[j.step]
  OBVIOUS
<1>4. PICK id : id = IF j.new = 0 THEN j.d.id ELSE j.new
  OBVIOUS
<1>5. UNCHANGED <<subject, disturbed, dialog>> /\ made \in Nat /\ object \in Object
  BY <1>1 DEF page, IInv, TypeOK
<1>6. CASE Answer(object, call, j.d, id).ok
  <2>1. PICK n : n = IF call = "define" THEN made + 1 ELSE j.new
    OBVIOUS
  <2>2. PICK k : k = [j EXCEPT !.step = @ + 1, !.new = n]
    OBVIOUS
  <2>3. /\ object' = Answer(object, call, j.d, id).o
        /\ jobs' = [jobs EXCEPT ![s] = k]
        /\ made' = IF call = "define" THEN made + 1 ELSE made
        /\ UNCHANGED cleanup
    BY <1>1, <1>2, <1>3, <1>4, <1>6, <2>1, <2>2
  <2>4. /\ k.d = j.d /\ k.step = j.step + 1 /\ k.volumes = j.volumes /\ k.failed = j.failed
        /\ k.new = n
    BY <2>2 DEF Job
  <2>5. Advances(j, k, object, object')
    BY <1>3, <1>6, <2>3, <2>4 DEF Advances
  <2>6. j.step <= Len(Calls(j)) /\ IsQuiet(object)
    BY <1>1, <1>2 DEF IsCalling, DoneInv
  <2>7. made' \in Nat /\ made <= made' /\ n <= made'
    BY <1>1, <1>2, <1>5, <2>1, <2>3, JobTyped DEF DoneInv
  <2>8. IsQuiet(object')
    <3>1. PICK c : c = Calls(j)
      OBVIOUS
    <3>2. PICK i \in 1..Len(c) : i = j.step
      BY <2>6, <3>1, CallsEnd, JobTyped
    <3>3. call \in CallNames
      BY <1>3, <3>1, <3>2, CallsOfJob
    <3> QED
      BY <1>5, <1>6, <2>3, <2>6, <3>3, QuietStays
  <2>9. ASSUME ~disturbed PROVE Progress(object', made', k)
    <3>1. Progress(object, made, j)
      BY <1>1, <1>2, <2>9 DEF DoneInv
    <3>2. PICK o \in Object : o = object
      BY <1>5
    <3>3. Advances(j, k, o, object') /\ Progress(o, made, j) /\ IsQuiet(o)
      BY <2>5, <2>6, <3>1, <3>2
    <3>4. PICK m : m = IF Calls(j)[j.step] = "define" THEN made + 1 ELSE made
      OBVIOUS
    <3>5. Progress(object', m, k)
      BY <1>3, <1>5, <2>1, <2>4, <2>6, <3>3, <3>4, CallProgresses
    <3> QED
      BY <1>3, <2>3, <3>4, <3>5
  <2>10. ASSUME ~disturbed, k.d.op = "create" PROVE k.new \notin cleanup'
    <3>1. CASE call = "define"
      BY <1>5, <2>1, <2>3, <2>4, <3>1 DEF DoneInv
    <3>2. CASE call # "define"
      <4>1. j.step > 1
        <5>1. PICK c : c = Calls(j)
          OBVIOUS
        <5>2. c = <<"define", "autostart">> \/ c = <<"define">>
          BY <2>4, <2>10, <5>1, CallsAre
        <5>3. j.step # 1
          BY <1>3, <3>2, <5>1, <5>2, Short
        <5> QED
          BY <5>3, JobTyped
      <4> QED
        BY <1>1, <1>2, <2>1, <2>3, <2>4, <2>10, <3>2, <4>1 DEF DoneInv
    <3> QED
      BY <3>1, <3>2
  <2> QED
    BY <1>1, <1>2, <1>5, <2>3, <2>4, <2>7, <2>8, <2>9, <2>10, JobDone
<1>7. CASE ~Answer(object, call, j.d, id).ok
  <2>1. /\ jobs' = [jobs EXCEPT ![s] = NoJob]
        /\ cleanup' = cleanup \cup CleanupOf(jobs[s])
        /\ UNCHANGED <<object, made>>
    BY <1>1, <1>2, <1>3, <1>4, <1>7
  <2>2. made' \in Nat /\ made <= made' /\ IsQuiet(object')
    BY <1>5, <2>1 DEF DoneInv
  <2> QED
    BY <1>1, <1>5, <2>1, <2>2, JobDone
<1> QED
  BY <1>6, <1>7

LEMMA EndDone == ASSUME IInv, DoneInv, CallFails \/ Finish PROVE DoneInv'
<1>1. /\ UNCHANGED <<subject, disturbed, made, object>>
      /\ dialog' \in {dialog, NoDialog} /\ made' \in Nat /\ made <= made' /\ IsQuiet(object')
  BY DEF CallFails, Finish, libvirt, page, IInv, TypeOK, DoneInv
<1>2. PICK s \in Slots : /\ jobs[s] # NoJob /\ jobs' = [jobs EXCEPT ![s] = NoJob]
                         /\ cleanup' \subseteq cleanup \cup CleanupOf(jobs[s])
  BY DEF CallFails, Finish
<1> QED
  BY <1>1, <1>2, JobDone

(* Deleting volumes is the first step of a plan.                           *)
LEMMA VolumeProgress ==
  ASSUME NEW o, NEW p, p.state = o.state, p.autostart = o.autostart, p.live = o.live, p.config = o.config,
         NEW m, NEW j \in Job, j.step = 1, j.d.op # "create", NEW k, k.d = j.d, k.step = j.step,
         NEW v, ~k.failed => ~j.failed /\ p.volumes = o.volumes \ {v} /\ k.volumes = j.volumes \ {v},
         Progress(o, m, j)
  PROVE  Progress(p, m, k)
<1>1. (Active(p) <=> Active(o)) /\ ~(k.step > 1) /\ ~(k.step > (IF Active(j.d.row) THEN 2 ELSE 1))
  BY DEF Active
<1>2. j.d.op \in Ops
  BY JobTyped, DialogParts
<1>3. CASE j.d.op \in {"activate", "deactivate", "createVolume", "autostart"}
  BY <1>1, <1>3 DEF Progress
<1>4. CASE j.d.op = "delete"
  <2>1. ~Active(j.d.row) => ~Active(p)
    BY <1>1, <1>4 DEF Progress
  <2> QED
    BY <1>1, <1>4, <2>1 DEF Progress
<1>5. CASE j.d.op = "deleteVolumes"
  BY <1>5 DEF Progress
<1>6. CASE j.d.op \in {"addHost", "removeHost"}
  <2>1. Active(j.d.row) <=> Active(p)
    BY <1>1, <1>6 DEF Progress
  <2> QED
    BY <1>1, <1>6, <2>1 DEF Progress
<1> QED
  BY <1>2, <1>3, <1>4, <1>5, <1>6 DEF Ops, VolumeOps, HostOps

LEMMA DeletionsDone == ASSUME IInv, DoneInv, VolumeIsDeleted \/ VolumeIsNotDeleted PROVE DoneInv'
<1>0. PICK s \in Slots : jobs[s] # NoJob /\ \E v \in jobs[s].volumes :
        LET deleted == Active(object) /\ v \in object.volumes
            rest == jobs[s].volumes \ {v}
            failed == jobs' = [jobs EXCEPT ![s] = FailedJob(jobs[s], rest)]
        IN  \/ /\ object' = IF deleted THEN [object EXCEPT !.volumes = @ \ {v}] ELSE object
               /\ IF deleted /\ ~jobs[s].failed THEN jobs' = [jobs EXCEPT ![s] = [jobs[s] EXCEPT !.volumes = rest]]
                  ELSE failed
            \/ object' = object /\ failed
  <2>1. CASE VolumeIsDeleted
    BY <2>1 DEF VolumeIsDeleted
  <2>2. CASE VolumeIsNotDeleted
    BY <2>2 DEF VolumeIsNotDeleted, libvirt
  <2> QED
    BY <2>1, <2>2
<1>1. PICK v \in jobs[s].volumes : jobs[s] # NoJob /\ v \in jobs[s].volumes /\
        LET deleted == Active(object) /\ v \in object.volumes
            rest == jobs[s].volumes \ {v}
            failed == jobs' = [jobs EXCEPT ![s] = FailedJob(jobs[s], rest)]
        IN  \/ /\ object' = IF deleted THEN [object EXCEPT !.volumes = @ \ {v}] ELSE object
               /\ IF deleted /\ ~jobs[s].failed THEN jobs' = [jobs EXCEPT ![s] = [jobs[s] EXCEPT !.volumes = rest]]
                  ELSE failed
            \/ object' = object /\ failed
  BY <1>0
<1>2. PICK j \in Job : j = jobs[s] /\ JobInv(j)
  BY <1>1, JobOf
<1>3. /\ UNCHANGED <<subject, disturbed, dialog, cleanup, made>>
      /\ made' \in Nat /\ made <= made'
  <2>1. UNCHANGED <<subject, disturbed, dialog, cleanup, made>>
    BY DEF VolumeIsDeleted, VolumeIsNotDeleted, libvirt, page
  <2> QED
    BY <2>1 DEF IInv, TypeOK
<1>4. object \in Object
  BY DEF IInv, TypeOK
<1>5. /\ object'.state = object.state /\ object'.autostart = object.autostart
      /\ object'.live = object.live /\ object'.config = object.config
      /\ (Active(object) /\ v \in object.volumes => object'.volumes = object.volumes \ {v} \/ object' = object)
  BY <1>1, <1>4 DEF Object
<1>6. IsQuiet(object')
  BY <1>5 DEF DoneInv, IsQuiet, Active
<1>7. PICK k :
        /\ jobs' = [jobs EXCEPT ![s] = k]
        /\ k # NoJob => /\ k.d = j.d /\ k.step = j.step /\ k.new = j.new
                        /\ ~k.failed => /\ ~j.failed /\ k.volumes = j.volumes \ {v}
                                        /\ object'.volumes = object.volumes \ {v}
  <2>1. CASE jobs' = [jobs EXCEPT ![s] = FailedJob(jobs[s], jobs[s].volumes \ {v})]
    <3>1. PICK k : k = FailedJob(j, j.volumes \ {v})
      OBVIOUS
    <3>2. k # NoJob => k.d = j.d /\ k.step = j.step /\ k.new = j.new /\ k.failed
      BY <3>1 DEF FailedJob, Job
    <3> QED
      BY <1>2, <2>1, <3>1, <3>2
  <2>2. CASE jobs' # [jobs EXCEPT ![s] = FailedJob(jobs[s], jobs[s].volumes \ {v})]
    <3>1. PICK k : k = [j EXCEPT !.volumes = j.volumes \ {v}]
      OBVIOUS
    <3>2. /\ jobs' = [jobs EXCEPT ![s] = k] /\ ~j.failed
          /\ object' = [object EXCEPT !.volumes = @ \ {v}]
      BY <1>1, <1>2, <2>2, <3>1
    <3>3. k.d = j.d /\ k.step = j.step /\ k.new = j.new /\ k.volumes = j.volumes \ {v}
      BY <3>1 DEF Job
    <3>4. object'.volumes = object.volumes \ {v}
      BY <1>4, <3>2 DEF Object
    <3> QED
      BY <3>2, <3>3, <3>4
  <2> QED
    BY <2>1, <2>2
<1>8. j.d.op # "create" /\ j.step = 1
  BY <1>1, <1>2 DEF JobInv
<1>9. ASSUME ~disturbed, k # NoJob PROVE Progress(object', made', k)
  <2>1. Progress(object, made, j)
    BY <1>1, <1>2, <1>9 DEF DoneInv
  <2>2. Progress(object', made, k)
    BY <1>5, <1>7, <1>8, <1>9, <2>1, VolumeProgress
  <2> QED
    BY <1>3, <2>2
<1>10. k # NoJob => k.d = jobs[s].d /\ k.new <= made' /\ k.d.op # "create"
  BY <1>1, <1>2, <1>3, <1>7, <1>8 DEF DoneInv
<1> QED
  BY <1>1, <1>3, <1>6, <1>7, <1>9, <1>10, JobDone

(* Nobody is at work on a pool that is cleaned up, as nothing but a new    *)
(* pool is, and others can only start it.                                  *)
LEMMA UndefineDone == ASSUME IInv, DoneInv, storagePoolUndefine PROVE DoneInv'
<1>1. PICK id \in cleanup :
        /\ cleanup' = cleanup \ {id}
        /\ object' = IF object.id = id /\ object.state = "inactive" THEN Gone ELSE object
        /\ UNCHANGED <<subject, made, jobs, disturbed, dialog>>
  BY DEF storagePoolUndefine, page
<1>2. /\ (cleanup' # {} => subject' = "pool") /\ (\A i \in cleanup' : i <= made') /\ IsQuiet(object')
      /\ (dialog' # NoDialog => OpIsOf(dialog)')
      /\ \A s \in Slots : jobs'[s] # NoJob => OpIsOf(jobs[s].d)' /\ jobs'[s].new <= made'
  BY <1>1 DEF DoneInv, OpIsOf, IsQuiet, Gone
<1>3. ASSUME ~disturbed, NEW s \in Slots, jobs[s] # NoJob
      PROVE  Progress(object', made, jobs[s])
  <2>1. PICK j \in Job : j = jobs[s]
    BY <1>3, JobOf
  <2>2. /\ Progress(object, made, j) /\ OpIsOf(j.d) /\ subject = "pool"
        /\ j.d.op = "create" /\ j.step > 1 => j.new \notin cleanup
    BY <1>1, <1>3, <2>1 DEF DoneInv
  <2>3. CASE object' = object
    BY <2>1, <2>2, <2>3
  <2>4. CASE object' = Gone /\ object.id = id /\ object.state = "inactive"
    <3>1. ~Active(object) /\ ~Active(Gone) /\ Gone.volumes = {} /\ Gone.state = "gone"
      BY <2>4 DEF Active, Gone
    <3>2. j.d.op \in Ops
      BY JobTyped, DialogParts
    <3>3. CASE j.d.op = "create"
      <4>1. ~(j.step > 1)
        BY <1>1, <2>2, <2>4, <3>3 DEF Progress
      <4>2. ~(j.step > 2)
        BY <4>1, JobTyped
      <4> QED
        BY <2>1, <3>3, <4>1, <4>2 DEF Progress
    <3>4. CASE j.d.op \in {"activate", "createVolume"}
      <4>1. ~(j.step > 1)
        BY <2>2, <3>1, <3>4 DEF Progress
      <4> QED
        BY <2>1, <3>4, <4>1 DEF Progress
    <3>5. CASE j.d.op \in {"deactivate", "delete", "deleteVolumes"}
      BY <2>1, <2>4, <3>1, <3>5 DEF Progress
    <3> QED
      BY <2>1, <2>2, <2>4, <3>2, <3>3, <3>4, <3>5 DEF OpIsOf, Ops, VolumeOps, HostOps
  <2> QED
    BY <1>1, <2>3, <2>4
<1> QED
  BY <1>1, <1>2, <1>3 DEF DoneInv

LEMMA OthersDone == ASSUME IInv, DoneInv, OthersChange PROVE DoneInv'
<1>1. UNCHANGED <<subject, dialog, jobs, cleanup, made>> /\ disturbed' /\ object \in Object
  BY DEF OthersChange, page, IInv, TypeOK
<1>2. IsQuiet(object')
  <2>1. CASE object' \in Moved
    <3>1. CASE object' = Stopped(object)
      BY <1>1, <3>1, StoppedIs DEF IsQuiet
    <3>2. CASE object' = [object EXCEPT !.state = "active", !.live = object.config]
      BY <1>1, <3>2 DEF IsQuiet, Active, Object
    <3>3. CASE object' = Gone
      BY <3>3 DEF IsQuiet, Gone
    <3> QED
      BY <1>1, <2>1, <3>1, <3>2, <3>3, ObjectParts DEF Moved, States
  <2>2. CASE object' \in ChangedQuietly
    <3>1. CASE subject = "pool"
      <4>1. PICK volumes : object' = [object EXCEPT !.volumes = volumes]
        BY <2>2, <3>1 DEF ChangedQuietly
      <4> QED
        BY <1>1, <4>1 DEF DoneInv, IsQuiet, Active, Object
    <3>2. CASE subject # "pool"
      <4>1. PICK h : object' = [object EXCEPT !.config = {h}, !.live = IF Active(object) THEN {h} ELSE @]
        BY <2>2, <3>2 DEF ChangedQuietly
      <4>2. PICK live : live = IF Active(object) THEN {h} ELSE object.live
        OBVIOUS
      <4>3. object' = [object EXCEPT !.config = {h}, !.live = live]
        BY <4>1, <4>2
      <4>4. object'.state = object.state /\ object'.live = live
        BY <1>1, <4>3 DEF Object
      <4> QED
        BY <4>2, <4>4 DEF DoneInv, IsQuiet, Active
    <3> QED
      BY <3>1, <3>2
  <2> QED
    BY <2>1, <2>2 DEF OthersChange
<1> QED
  BY <1>1, <1>2 DEF DoneInv, OpIsOf

LEMMA NextDone == ASSUME IInv, DoneInv, [Next]_vars PROVE DoneInv'
<1>1. CASE Fills \/ Open \/ Cancel \/ onSelect \/ Reads \/ VmsAreRead \/ VolumeIsTaken \/ UNCHANGED vars
  BY <1>1, PageDone
<1>2. CASE Save \/ Press
  BY <1>2, ButtonDone
<1>3. CASE VolumeIsDeleted \/ VolumeIsNotDeleted \/ CallReturns \/ CallFails \/ Finish
  BY <1>3, DeletionsDone, CallReturnsDone, EndDone
<1>4. CASE storagePoolUndefine \/ OthersChange
  BY <1>4, UndefineDone, OthersDone
<1> QED
  BY <1>1, <1>2, <1>3, <1>4 DEF Next

FinishedIsSo ==
    \A s \in Slots : jobs[s] # NoJob /\ IsDone(jobs[s]) /\ jobs'[s] = NoJob /\ ~disturbed => IsSo(jobs[s].d)

(* A dialog or button that reports success has done what it says, unless   *)
(* others or another job have acted beside it or it started from something *)
(* outdated: an entry for a host, say, is then in the running network and  *)
(* in its configuration (network.ts:186).                                  *)
THEOREM WhatIsReportedIsDone == Spec => DoneIsSo
<1>1. Init => DoneInv
  BY DoneAtFirst
<1>2. IInv /\ DoneInv /\ [Next]_vars => DoneInv'
  BY NextDone
<1>3. IInv /\ DoneInv => FinishedIsSo
  BY JobOf, EndIsSo DEF DoneInv, FinishedIsSo
<1>4. DoneIsSo <=> [][FinishedIsSo]_vars
  BY PTL DEF DoneIsSo, FinishedIsSo
<1> QED
  BY <1>1, <1>2, <1>3, <1>4, InvariantHolds, PTL DEF Spec
=============================================================================
