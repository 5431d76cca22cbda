------------------------ MODULE MachineDialogsProofs ------------------------
(***************************************************************************)
(* Theorems about MachineDialogs, for any subjects, names, and numbers of  *)
(* dialogs, failures and changes by others.                                *)
(***************************************************************************)
EXTENDS MachineDialogs, SequenceTheorems, WellFoundedInduction, TLAPS

-----------------------------------------------------------------------------
(* Lists *)

LEMMA Bounds == /\ Subjects \subseteq AllSubjects /\ External \in BOOLEAN
                /\ MaxId \in Nat \ {0} /\ MaxDialogs \in Nat /\ MaxFails \in Nat /\ MaxOutside \in Nat
                /\ NoDialog \notin Dialog /\ NoJob \notin Job
BY MachineDialogsAssumption

\* A list without one of its elements.
LEMMA WithoutTyped ==
    ASSUME NEW S, NEW list \in Seq(S), NEW i \in DOMAIN list
    PROVE  /\ Without(list, i) \in Seq(S)
           /\ Len(Without(list, i)) = Len(list) - 1
           /\ \A k \in 1 .. Len(list) - 1 :
                Without(list, i)[k] = IF k < i THEN list[k] ELSE list[k + 1]
<1>1. Len(list) \in Nat /\ DOMAIN list = 1 .. Len(list) /\ i \in 1 .. Len(list)
  BY LenProperties
<1> DEFINE a == SubSeq(list, 1, i - 1)
           b == SubSeq(list, i + 1, Len(list))
<1>2. /\ a \in Seq(S) /\ Len(a) = i - 1
      /\ \A k \in 1 .. i - 1 : a[k] = list[k]
  <2>1. \A k \in 1 .. i - 1 : list[k] \in S
    BY <1>1, ElementOfSeq
  <2>2. 1 \in Int /\ i - 1 \in Int
    BY <1>1
  <2>3. /\ a \in Seq(S) /\ Len(a) = IF 1 <= i - 1 THEN (i - 1) - 1 + 1 ELSE 0
        /\ \A k \in 1 .. (i - 1) - 1 + 1 : a[k] = list[1 + k - 1]
    BY <2>1, <2>2, SubSeqProperties
  <2>4. QED
    BY <2>3, <1>1
<1>3. /\ b \in Seq(S) /\ Len(b) = Len(list) - i
      /\ \A k \in 1 .. Len(list) - i : b[k] = list[i + k]
  <2>1. \A k \in i + 1 .. Len(list) : list[k] \in S
    BY <1>1, ElementOfSeq
  <2>2. i + 1 \in Int /\ Len(list) \in Int
    BY <1>1
  <2>3. /\ b \in Seq(S) /\ Len(b) = IF i + 1 <= Len(list) THEN Len(list) - (i + 1) + 1 ELSE 0
        /\ \A k \in 1 .. Len(list) - (i + 1) + 1 : b[k] = list[(i + 1) + k - 1]
    BY <2>1, <2>2, SubSeqProperties
  <2>4. \A k \in 1 .. Len(list) - i : (i + 1) + k - 1 = i + k /\ k \in 1 .. Len(list) - (i + 1) + 1
    BY <1>1
  <2>5. Len(b) = Len(list) - i
    BY <2>3, <1>1
  <2>6. \A k \in 1 .. Len(list) - i : b[k] = list[i + k]
    BY <2>3, <2>4
  <2>7. QED
    BY <2>3, <2>5, <2>6
<1>4. /\ a \o b \in Seq(S) /\ Len(a \o b) = Len(a) + Len(b)
      /\ \A k \in 1 .. Len(a) + Len(b) : (a \o b)[k] = IF k <= Len(a) THEN a[k] ELSE b[k - Len(a)]
  BY <1>2, <1>3, ConcatProperties
<1>5. Without(list, i) = a \o b
  BY DEF Without
<1> HIDE DEF a, b
<1>6. Len(a) + Len(b) = Len(list) - 1
  BY <1>1, <1>2, <1>3
<1>7. ASSUME NEW k \in 1 .. Len(list) - 1
      PROVE  (a \o b)[k] = IF k < i THEN list[k] ELSE list[k + 1]
  <2>1. (a \o b)[k] = IF k <= Len(a) THEN a[k] ELSE b[k - Len(a)]
    BY <1>4, <1>6
  <2>2. CASE k < i
    BY <2>1, <2>2, <1>1, <1>2
  <2>3. CASE ~(k < i)
    <3>1. k - Len(a) \in 1 .. Len(list) - i /\ ~(k <= Len(a)) /\ i + (k - Len(a)) = k + 1
      BY <2>3, <1>1, <1>2
    <3>2. QED
      BY <2>1, <2>3, <3>1, <1>3
  <2>4. QED
    BY <2>2, <2>3
<1>8. QED
  BY <1>4, <1>5, <1>6, <1>7

\* A device that a list has is found in it.
LEMMA PlaceOfIsThere ==
    ASSUME NEW list \in Seq(Devices), NEW id, Has(list, id)
    PROVE  PlaceOf(list, id) \in DOMAIN list /\ list[PlaceOf(list, id)].id = id
BY DEF Has, IdsOf, PlaceOf

LEMMA Elements ==
    ASSUME NEW list \in Seq(Devices), NEW i \in DOMAIN list
    PROVE  list[i] \in Devices /\ list[i].id \in Nat /\ list[i].v \in {0, 1} /\ list[i].img \in Nat
<1>1. i \in 1 .. Len(list)
  BY LenProperties
<1>2. list[i] \in Devices
  BY <1>1, ElementOfSeq
<1>3. QED
  BY <1>2 DEF Devices

LEMMA SetToTyped ==
    ASSUME NEW list \in Seq(Devices), NEW i \in DOMAIN list, NEW v \in {0, 1}
    PROVE  /\ [list EXCEPT ![i].v = v] \in Seq(Devices)
           /\ Len([list EXCEPT ![i].v = v]) = Len(list)
           /\ \A j \in DOMAIN list : [list EXCEPT ![i].v = v][j].id = list[j].id
<1>1. list[i] \in Devices /\ i \in 1 .. Len(list) /\ DOMAIN list = 1 .. Len(list)
  BY Elements, LenProperties
<1>2. [list[i] EXCEPT !.v = v] \in Devices /\ [list[i] EXCEPT !.v = v].id = list[i].id
  BY <1>1 DEF Devices
<1> DEFINE e == [list[i] EXCEPT !.v = v]
<1>3. [list EXCEPT ![i].v = v] = [list EXCEPT ![i] = e]
  OBVIOUS
<1> HIDE DEF e
<1>4. /\ [list EXCEPT ![i] = e] \in Seq(Devices)
      /\ Len([list EXCEPT ![i] = e]) = Len(list)
      /\ \A j \in 1 .. Len(list) : [list EXCEPT ![i] = e][j] = IF j = i THEN e ELSE list[j]
  BY <1>1, <1>2, ExceptSeq DEF e
<1>5. QED
  BY <1>1, <1>2, <1>3, <1>4 DEF e

LEMMA LocatedIsThere ==
    ASSUME NEW list \in Seq(Devices), NEW d \in Dialog, Located(list, d) # 0
    PROVE  Located(list, d) \in DOMAIN list
<1>1. Len(list) \in Nat /\ DOMAIN list = 1 .. Len(list) /\ d.place \in Nat
  BY LenProperties DEF Dialog
<1>2. CASE subject = "nic" /\ d.op = "remove"
  BY <1>1, <1>2 DEF Located, NumberInXML
<1>3. CASE ~(subject = "nic" /\ d.op = "remove")
  BY <1>3, PlaceOfIsThere DEF Located
<1>4. QED
  BY <1>2, <1>3

LEMMA ChangeTyped ==
    ASSUME NEW list \in Seq(Devices), NEW d \in Dialog, NEW do \in {"add", "edit", "remove"},
           CanChange(list, do, d)
    PROVE  Change(list, do, d) \in Seq(Devices)
<1>1. d.id \in Nat /\ d.v \in {0, 1} /\ d.img \in Nat /\ d.new \in Nat /\ d.place \in Nat
  BY DEF Dialog
<1>2. CASE do = "add"
  <2>1. [id |-> d.id, v |-> d.v, img |-> d.img] \in Devices
    BY <1>1 DEF Devices
  <2>2. QED
    BY <1>2, <2>1, AppendProperties DEF Change
<1>3. Located(list, d) # 0 => Located(list, d) \in DOMAIN list
  BY LocatedIsThere
<1>4. CASE do = "edit"
  <2> DEFINE i == Located(list, d)
             e == [id |-> d.new, v |-> NewValue(list[i].v, d), img |-> list[i].img]
  <2>1. i \in DOMAIN list /\ i \in 1 .. Len(list)
    BY <1>3, <1>4, LenProperties DEF CanChange
  <2>2. e \in Devices
    BY <2>1, <1>1, Elements DEF Devices, NewValue
  <2>3. Change(list, do, d) = [list EXCEPT ![i] = e]
    BY <1>4 DEF Change
  <2> HIDE DEF i, e
  <2>4. QED
    BY <2>1, <2>2, <2>3, ExceptSeq
<1>5. CASE do = "remove"
  <2>1. Located(list, d) \in DOMAIN list /\ Change(list, do, d) = Without(list, Located(list, d))
    BY <1>3, <1>5 DEF CanChange, Change
  <2>2. QED
    BY <2>1, WithoutTyped
<1>6. QED
  BY <1>2, <1>4, <1>5

-----------------------------------------------------------------------------
(* What calls do to a machine *)

LEMMA ListsTyped ==
    ASSUME NEW m \in Machine
    PROVE  /\ m.live \in Seq(Devices) /\ m.inactive \in Seq(Devices)
           /\ LiveOf(m) \in Seq(Devices) /\ InactiveOf(m) \in Seq(Devices)
BY DEF Machine, LiveOf, InactiveOf

LEMMA ViewTyped ==
    ASSUME NEW m \in Machine
    PROVE  View(m) \in Row
BY ListsTyped DEF View, Machine, Row

LEMMA NamesTyped ==
    ASSUME NEW m \in Machine
    PROVE  SnapshotNames(m) \subseteq Nat
BY DEF SnapshotNames, Machine, Snapshots

LEMMA EmptyList == <<>> \in Seq(Devices)
BY EmptySeq

LEMMA GoneTyped ==
    ASSUME NEW m \in Machine
    PROVE  /\ Gone(m) \in Machine /\ Gone(m).state = "gone"
           /\ Gone(m).persistent = FALSE /\ Gone(m).elsewhere = m.elsewhere
BY EmptyList DEF Gone, Machine, States

LEMMA StoppedTyped ==
    ASSUME NEW m \in Machine
    PROVE  /\ Stopped(m) \in Machine /\ Stopped(m).state \in {"shutoff", "gone"}
           /\ Stopped(m).persistent = m.persistent /\ Stopped(m).elsewhere = m.elsewhere
<1>1. CASE m.persistent
  BY <1>1, EmptyList DEF Stopped, Machine, States
<1>2. CASE ~m.persistent
  <2>1. Stopped(m) = Gone(m) /\ m.persistent = FALSE
    BY <1>2 DEF Stopped, Machine
  <2>2. QED
    BY <2>1, GoneTyped
<1>3. QED
  BY <1>1, <1>2

LEMMA ConfigChangedTyped ==
    ASSUME NEW m \in Machine, NEW d \in Dialog, NEW do \in {"add", "edit", "remove"},
           CanChange(InactiveOf(m), do, d)
    PROVE  ConfigChanged(m, do, d) \in Machine /\ ConfigChanged(m, do, d).snaps = m.snaps
<1>1. Change(InactiveOf(m), do, d) \in Seq(Devices)
  BY ListsTyped, ChangeTyped
<1>2. QED
  BY <1>1 DEF ConfigChanged, Machine

LEMMA virtXmlTyped ==
    ASSUME NEW m \in Machine, NEW d \in Dialog, NEW do \in {"add", "edit", "remove"}, NEW opt
    PROVE  virtXml(m, do, opt, d).m \in Machine /\ virtXml(m, do, opt, d).m.snaps = m.snaps
<1> DEFINE update == opt.update /\ Active(m)
           liveOk == update => CanChange(m.live, do, d)
           n == IF update /\ liveOk THEN [m EXCEPT !.live = Change(m.live, do, d)] ELSE m
           configOk == CanChange(InactiveOf(n), do, d)
<1>1. virtXml(m, do, opt, d) =
        IF ~liveOk THEN [ok |-> FALSE, m |-> m]
        ELSE IF opt.noDefine THEN [ok |-> TRUE, m |-> n]
        ELSE [ok |-> configOk, m |-> IF configOk THEN ConfigChanged(n, do, d) ELSE n]
  BY DEF virtXml
<1>2. n \in Machine /\ n.snaps = m.snaps
  <2>1. CASE update /\ liveOk
    <3>1. Change(m.live, do, d) \in Seq(Devices)
      BY <2>1, ListsTyped, ChangeTyped
    <3>2. QED
      BY <2>1, <3>1 DEF Machine
  <2>2. CASE ~(update /\ liveOk)
    BY <2>2
  <2>3. QED
    BY <2>1, <2>2
<1>3. configOk => ConfigChanged(n, do, d) \in Machine /\ ConfigChanged(n, do, d).snaps = n.snaps
  <2> HIDE DEF n
  <2>1. QED
    BY <1>2, ConfigChangedTyped
<1> HIDE DEF update, liveOk, n, configOk
<1>4. QED
  BY <1>1, <1>2, <1>3

LEMMA UpdateDeviceTyped ==
    ASSUME NEW m \in Machine, NEW d \in Dialog, NEW opt
    PROVE  UpdateDevice(m, opt, d).m \in Machine /\ UpdateDevice(m, opt, d).m.snaps = m.snaps
<1> DEFINE config == d.vm.persistent /\ Has(InactiveOf(m), d.id)
           live == opt.live \/ (~config /\ Active(m))
           both == config \/ ~live
           setTo(list) == IF Has(list, d.id) THEN [list EXCEPT ![PlaceOf(list, d.id)].v = 0] ELSE list
           n == [m EXCEPT !.live = IF live THEN setTo(m.live) ELSE m.live,
                          !.inactive = IF both THEN setTo(m.inactive) ELSE m.inactive]
<1>1. UpdateDevice(m, opt, d).m \in {m, n}
  BY DEF UpdateDevice
<1>2. \A list \in Seq(Devices) : setTo(list) \in Seq(Devices)
  BY PlaceOfIsThere, SetToTyped
<1>3. n \in Machine /\ n.snaps = m.snaps
  <2> HIDE DEF live, both, setTo
  <2>1. setTo(m.live) \in Seq(Devices) /\ setTo(m.inactive) \in Seq(Devices)
    BY <1>2, ListsTyped
  <2>2. QED
    BY <2>1, ListsTyped DEF Machine
<1> HIDE DEF n
<1>4. QED
  BY <1>1, <1>3

DeviceDo == {"add", "edit", "remove", "updateDevice", "memorybacking", "detachConfig", "detachLive", "define"}

LEMMA DeviceCallsTyped ==
    ASSUME NEW m \in Machine, NEW d \in Dialog, NEW doc \in Seq(Devices), NEW s, s.do \in DeviceDo
    PROVE  DeviceCalls(m, s, d, doc).m \in Machine /\ DeviceCalls(m, s, d, doc).m.snaps = m.snaps
<1>1. CASE s.do \in {"add", "edit", "remove"}
  BY <1>1, virtXmlTyped DEF DeviceCalls
<1>2. CASE s.do = "updateDevice"
  BY <1>2, UpdateDeviceTyped DEF DeviceCalls
<1>3. CASE s.do = "memorybacking"
  <2>1. DeviceCalls(m, s, d, doc).m = [m EXCEPT !.memory = TRUE]
    BY <1>3 DEF DeviceCalls
  <2>2. QED
    BY <2>1 DEF Machine
<1>4. CASE s.do = "detachConfig"
  <2> DEFINE l == Without(m.inactive, PlaceOf(m.inactive, d.id))
  <2>1. DeviceCalls(m, s, d, doc).m =
          IF m.persistent /\ Has(m.inactive, d.id) THEN [m EXCEPT !.inactive = l] ELSE m
    BY <1>4 DEF DeviceCalls
  <2>2. Has(m.inactive, d.id) => l \in Seq(Devices)
    BY ListsTyped, PlaceOfIsThere, WithoutTyped
  <2> HIDE DEF l
  <2>3. QED
    BY <2>1, <2>2 DEF Machine
<1>5. CASE s.do = "detachLive"
  <2> DEFINE l == Without(m.live, PlaceOf(m.live, d.id))
  <2>1. DeviceCalls(m, s, d, doc).m =
          IF Active(m) /\ Has(m.live, d.id) THEN [m EXCEPT !.live = l] ELSE m
    BY <1>5 DEF DeviceCalls
  <2>2. Has(m.live, d.id) => l \in Seq(Devices)
    BY ListsTyped, PlaceOfIsThere, WithoutTyped
  <2> HIDE DEF l
  <2>3. QED
    BY <2>1, <2>2 DEF Machine
<1>6. CASE s.do = "define"
  <2> DEFINE l == [doc EXCEPT ![PlaceOf(doc, d.id)].v = 0]
  <2>1. DeviceCalls(m, s, d, doc).m =
          IF d.v = 0 /\ Has(doc, d.id) /\ ValueOf(doc, d.id) # 0 THEN [m EXCEPT !.inactive = l] ELSE m
    BY <1>6 DEF DeviceCalls
  <2>2. Has(doc, d.id) => l \in Seq(Devices)
    BY PlaceOfIsThere, SetToTyped
  <2> HIDE DEF l
  <2>3. QED
    BY <2>1, <2>2 DEF Machine
<1>7. QED
  BY <1>1, <1>2, <1>3, <1>4, <1>5, <1>6 DEF DeviceDo

LEMMA InStateTyped ==
    ASSUME NEW m \in Machine, NEW state \in States, state = "shutoff" => m.persistent
    PROVE  InState(m, state) \in Machine /\ InState(m, state).state = state /\ InState(m, state).snaps = m.snaps
<1>1. CASE state = "shutoff"
  <2>1. InState(m, state) = [m EXCEPT !.state = "shutoff", !.live = <<>>]
    BY <1>1 DEF InState, Stopped
  <2>2. QED
    BY <1>1, <2>1, EmptyList DEF Machine, States
<1>2. CASE state # "shutoff"
  <2>1. InState(m, state) = [m EXCEPT !.state = state, !.live = LiveOf(m)]
    BY <1>2 DEF InState
  <2>2. QED
    BY <2>1, ListsTyped DEF Machine
<1>3. QED
  BY <1>1, <1>2

SnapshotDo == {"createSnapshot", "deleteSnapshots", "revert"}
MachineDo == {"destroy", "undefine", "rename", "clone", "migrate"}

LEMMA SnapshotCallsTyped ==
    ASSUME NEW m \in Machine, NEW d \in Dialog, NEW s, s.do \in SnapshotDo,
           s.do = "createSnapshot" => s.opt.kind \in Kinds
    PROVE  SnapshotCalls(m, s, d).m \in Machine
<1>1. CASE s.do = "createSnapshot"
  <2>1. Snapshot(m, d.id, s.opt.kind) \in Snapshots
    BY <1>1 DEF Snapshot, Snapshots, Dialog, Machine, States
  <2>2. SnapshotCalls(m, s, d).m \in {m, [m EXCEPT !.snaps = m.snaps \cup {Snapshot(m, d.id, s.opt.kind)}]}
    BY <1>1 DEF SnapshotCalls
  <2>3. QED
    BY <2>1, <2>2 DEF Machine
<1>2. CASE s.do = "deleteSnapshots"
  <2>1. SnapshotCalls(m, s, d).m = [m EXCEPT !.snaps = {x \in m.snaps : x.id \notin s.opt.names}]
    BY <1>2 DEF SnapshotCalls
  <2>2. QED
    BY <2>1 DEF Machine
<1>3. CASE s.do = "revert"
  <2> DEFINE to == {x.state : x \in {y \in m.snaps : y.id = d.id /\ (y.state = "shutoff" => m.persistent)}}
  <2>1. SnapshotCalls(m, s, d).m = IF to = {} THEN m ELSE InState(m, CHOOSE x \in to : TRUE)
    BY <1>3 DEF SnapshotCalls
  <2>2. \A x \in to : x \in States /\ (x = "shutoff" => m.persistent)
    BY DEF Machine, Snapshots
  <2> HIDE DEF to
  <2>3. to # {} => (CHOOSE x \in to : TRUE) \in to
    OBVIOUS
  <2>4. QED
    BY <2>1, <2>2, <2>3, InStateTyped
<1>4. QED
  BY <1>1, <1>2, <1>3 DEF SnapshotDo

LEMMA MachineCallsTyped ==
    ASSUME NEW m \in Machine, NEW d \in Dialog, NEW s, s.do \in MachineDo
    PROVE  MachineCalls(m, s, d).m \in Machine
<1>1. CASE s.do = "destroy"
  <2>1. MachineCalls(m, s, d).m \in {m, Stopped(m)}
    BY <1>1 DEF MachineCalls
  <2>2. QED
    BY <2>1, StoppedTyped
<1>2. CASE s.do = "undefine"
  <2>1. MachineCalls(m, s, d).m \in {m, Gone(m), [m EXCEPT !.persistent = FALSE, !.inactive = <<>>]}
    <3>1. CASE m.state = "gone"
      BY <1>2, <3>1 DEF MachineCalls
    <3>2. CASE m.state # "gone" /\ m.persistent /\ Active(m)
      BY <1>2, <3>2 DEF MachineCalls
    <3>3. CASE m.state # "gone" /\ m.persistent /\ ~Active(m)
      BY <1>2, <3>3 DEF MachineCalls
    <3>4. CASE m.state # "gone" /\ ~m.persistent
      BY <1>2, <3>4 DEF MachineCalls
    <3>5. QED
      BY <3>1, <3>2, <3>3, <3>4
  <2>2. [m EXCEPT !.persistent = FALSE, !.inactive = <<>>] \in Machine
    BY EmptyList DEF Machine
  <2>3. QED
    BY <2>1, <2>2, GoneTyped
<1>3. CASE s.do = "rename"
  <2>1. MachineCalls(m, s, d).m \in {m, [m EXCEPT !.name = d.new]}
    BY <1>3 DEF MachineCalls
  <2>2. QED
    BY <2>1 DEF Machine, Dialog
<1>4. CASE s.do = "clone"
  <2>1. MachineCalls(m, s, d).m \in {m, [m EXCEPT !.others = m.others \cup {d.new}]}
    BY <1>4 DEF MachineCalls
  <2>2. QED
    BY <2>1 DEF Machine, Dialog
<1>5. CASE s.do = "migrate"
  <2> DEFINE there == [m EXCEPT !.elsewhere = IF s.opt.persistDest THEN "permanent" ELSE "temporary"]
  <2>1. MachineCalls(m, s, d).m \in {m, Gone(there), Stopped(there)}
    BY <1>5 DEF MachineCalls
  <2>2. there \in Machine
    BY DEF Machine
  <2> HIDE DEF there
  <2>3. QED
    BY <2>1, <2>2, GoneTyped, StoppedTyped
<1>6. QED
  BY <1>1, <1>2, <1>3, <1>4, <1>5 DEF MachineDo

IdleDo == {"get", "read", "listSnapshots", "close", "refuse"}
StorageDo == {"createVolume", "deleteStorage"}
AllDo == IdleDo \cup StorageDo \cup DeviceDo \cup SnapshotDo \cup MachineDo

LEMMA DoesTyped ==
    ASSUME NEW m \in Machine, NEW d \in Dialog, NEW doc \in Seq(Devices), NEW s, s.do \in AllDo,
           s.do = "createSnapshot" => s.opt.kind \in Kinds
    PROVE  /\ Does(m, s, d, doc).m \in Machine
           /\ s.do \in IdleDo => Does(m, s, d, doc).m = m
           /\ s.do \in IdleDo \cup StorageDo \cup DeviceDo => Does(m, s, d, doc).m.snaps = m.snaps
<1>1. CASE s.do \in IdleDo
  BY <1>1 DEF Does, IdleDo
<1>2. CASE s.do \in StorageDo
  <2> DEFINE with == [m EXCEPT !.images = m.images \cup {d.img}]
             without == [m EXCEPT !.images = m.images \ {d.img}]
  <2>1. Does(m, s, d, doc).m \in {with, without}
    BY <1>2 DEF Does, StorageDo
  <2>2. with \in Machine /\ with.snaps = m.snaps
    BY DEF Machine, Dialog
  <2>3. without \in Machine /\ without.snaps = m.snaps
    BY DEF Machine
  <2>4. s.do \notin IdleDo
    BY <1>2 DEF StorageDo, IdleDo
  <2> HIDE DEF with, without
  <2>5. QED
    BY <2>1, <2>2, <2>3, <2>4
<1>3. CASE s.do \in DeviceDo
  <2>1. Does(m, s, d, doc) = IF m.state = "gone" THEN [ok |-> FALSE, m |-> m] ELSE DeviceCalls(m, s, d, doc)
    BY <1>3 DEF Does, DeviceDo
  <2>2. /\ DeviceCalls(m, s, d, doc).m \in Machine
        /\ DeviceCalls(m, s, d, doc).m.snaps = m.snaps
    BY <1>3, DeviceCallsTyped
  <2>3. s.do \notin IdleDo
    BY <1>3 DEF DeviceDo, IdleDo
  <2>4. QED
    BY <2>1, <2>2, <2>3
<1>4. CASE s.do \in SnapshotDo
  BY <1>4, SnapshotCallsTyped DEF Does, SnapshotDo, IdleDo, StorageDo, DeviceDo
<1>5. CASE s.do \in MachineDo
  BY <1>5, MachineCallsTyped DEF Does, MachineDo, IdleDo, StorageDo, DeviceDo
<1>6. QED
  BY <1>1, <1>2, <1>3, <1>4, <1>5 DEF AllDo

-----------------------------------------------------------------------------
(* Plans *)

HotplugOptions == [update : BOOLEAN, noDefine : BOOLEAN]
DeviceStep == [do : DeviceDo \cup StorageDo \cup {"get", "read"},
               opt : HotplugOptions \cup [live : BOOLEAN, force : BOOLEAN]]

LEMMA StepTyped ==
    ASSUME NEW do \in DeviceDo \cup StorageDo \cup {"get", "read"},
           NEW opt \in HotplugOptions \cup [live : BOOLEAN, force : BOOLEAN]
    PROVE  /\ Step(do, opt) \in DeviceStep
           /\ <<Step(do, opt)>> \in Seq(DeviceStep)
<1>1. Step(do, opt) \in DeviceStep
  BY DEF Step, DeviceStep
<1>2. QED
  BY <1>1

LEMMA OptionsTyped ==
    /\ NoOptions \in HotplugOptions
    /\ \A vm, p : hotplugExtraOptions(vm, p) \in HotplugOptions
BY DEF NoOptions, HotplugOptions, hotplugExtraOptions

LEMMA HotSteps ==
    ASSUME NEW d, NEW p
    PROVE  /\ virtXmlHotAdd(d) \in DeviceStep /\ virtXmlHotEdit(d) \in DeviceStep
           /\ virtXmlHotRemove(d, p) \in DeviceStep
BY OptionsTyped, StepTyped DEF virtXmlHotAdd, virtXmlHotEdit, virtXmlHotRemove, DeviceDo

LEMMA PlainStep ==
    ASSUME NEW do \in DeviceDo \cup StorageDo \cup {"get", "read"}
    PROVE  Step(do, NoOptions) \in DeviceStep
BY OptionsTyped, StepTyped

LEMMA ShortPlans ==
    ASSUME NEW S
    PROVE  /\ <<>> \in Seq(S)
           /\ \A a \in S : <<a>> \in Seq(S)
           /\ \A a, b \in S : <<a, b>> \in Seq(S)
           /\ \A s, t \in Seq(S) : s \o t \in Seq(S)
BY EmptySeq, ConcatProperties

LEMMA DiskPlans ==
    ASSUME NEW d
    PROVE  add_disk(d) \in Seq(DeviceStep) /\ saveDisk(d) \in Seq(DeviceStep)
           /\ onRemoveDisk(d) \in Seq(DeviceStep)
<1>1. /\ Step("createVolume", NoOptions) \in DeviceStep /\ Step("edit", NoOptions) \in DeviceStep
      /\ Step("read", NoOptions) \in DeviceStep /\ Step("deleteStorage", NoOptions) \in DeviceStep
  BY PlainStep DEF DeviceDo, StorageDo
<1>2. add_disk(d) \in Seq(DeviceStep)
  BY <1>1, HotSteps, ShortPlans DEF add_disk
<1>3. saveDisk(d) \in Seq(DeviceStep)
  BY <1>1, ShortPlans DEF saveDisk
<1>4. onRemoveDisk(d) \in Seq(DeviceStep)
  BY <1>1, HotSteps, ShortPlans DEF onRemoveDisk
<1>5. QED
  BY <1>2, <1>3, <1>4

LEMMA MediaPlans ==
    ASSUME NEW d \in Dialog
    PROVE  insert_media(d) \in Seq(DeviceStep) /\ domainEjectDisk(d) \in Seq(DeviceStep)
<1>1. insert_media(d) \in Seq(DeviceStep)
  BY HotSteps, ShortPlans DEF insert_media
<1>2. Step("updateDevice", [live |-> d.vm.state = "running", force |-> d.failed]) \in DeviceStep
  BY StepTyped DEF DeviceDo, Dialog
<1>3. Step("read", NoOptions) \in DeviceStep
  BY PlainStep
<1>4. QED
  BY <1>1, <1>2, <1>3, ShortPlans DEF domainEjectDisk

LEMMA NicPlans ==
    ASSUME NEW d
    PROVE  addNIC(d) \in Seq(DeviceStep) /\ saveNIC(d) \in Seq(DeviceStep) /\ removeNIC(d) \in Seq(DeviceStep)
<1>1. /\ Step("edit", NoOptions) \in DeviceStep /\ Step("get", NoOptions) \in DeviceStep
      /\ Step("define", NoOptions) \in DeviceStep
  BY PlainStep DEF DeviceDo
<1>2. addNIC(d) \in Seq(DeviceStep) /\ removeNIC(d) \in Seq(DeviceStep)
  BY HotSteps, ShortPlans DEF addNIC, removeNIC
<1>3. saveNIC(d) \in Seq(DeviceStep)
  BY <1>1, ShortPlans DEF saveNIC, domainModifyXML
<1>4. QED
  BY <1>2, <1>3

LEMMA HostDevicePlans ==
    ASSUME NEW d
    PROVE  domainAttachHostDevices(d) \in Seq(DeviceStep) /\ domainDetachHostDevice(d) \in Seq(DeviceStep)
<1>1. /\ Step("detachConfig", NoOptions) \in DeviceStep /\ Step("detachLive", NoOptions) \in DeviceStep
  BY PlainStep DEF DeviceDo
<1>2. Step("add", [update |-> d.vm.state # "shutoff", noDefine |-> FALSE]) \in DeviceStep
  BY StepTyped DEF DeviceDo, HotplugOptions
<1>3. QED
  BY <1>1, <1>2, ShortPlans DEF domainAttachHostDevices, domainDetachHostDevice

LEMMA FilesystemPlans ==
    ASSUME NEW d
    PROVE  addFilesystem(d) \in Seq(DeviceStep) /\ removeFilesystem(d) \in Seq(DeviceStep)
<1>1. Step("memorybacking", NoOptions) \in DeviceStep
  BY PlainStep DEF DeviceDo
<1>2. QED
  BY <1>1, HotSteps, ShortPlans DEF addFilesystem, removeFilesystem

LEMMA WatchdogPlans ==
    ASSUME NEW d
    PROVE  saveWatchdog(d) \in Seq(DeviceStep) /\ detachWatchdog(d) \in Seq(DeviceStep)
<1>1. \A hotplug \in BOOLEAN : setWatchdog(d, hotplug) \in DeviceStep
  BY PlainStep, StepTyped DEF setWatchdog, DeviceDo, HotplugOptions
<1>2. setWatchdogColdplug(d) \in Seq(DeviceStep)
  BY <1>1, ShortPlans DEF setWatchdogColdplug
<1>3. setWatchdogHotplug(d) \in Seq(DeviceStep)
  BY <1>1, <1>2, ShortPlans DEF setWatchdogHotplug
<1>4. QED
  BY <1>2, <1>3, HotSteps, ShortPlans DEF saveWatchdog, detachWatchdog

(* The dialogs about devices call virt-xml, libvirt's calls for devices and *)
(* volumes, and read.                                                       *)
LEMMA DevicePlan ==
    ASSUME NEW d \in Dialog, subject \in AllSubjects \ {"snapshot", "machine"}, d.op \in OpsOf(subject)
    PROVE  Plan(d) \in Seq(DeviceStep)
<1>1. CASE subject = "disk"
  BY <1>1, DiskPlans DEF Plan, OpsOf
<1>2. CASE subject = "media"
  BY <1>2, MediaPlans DEF Plan, OpsOf
<1>3. CASE subject = "nic"
  BY <1>3, NicPlans DEF Plan, OpsOf
<1>4. CASE subject = "hostdev"
  BY <1>4, HostDevicePlans DEF Plan, OpsOf
<1>5. CASE subject = "filesystem"
  BY <1>5, FilesystemPlans DEF Plan, OpsOf
<1>6. CASE subject = "watchdog"
  BY <1>6, WatchdogPlans DEF Plan, OpsOf
<1>7. QED
  BY <1>1, <1>2, <1>3, <1>4, <1>5, <1>6 DEF AllSubjects

LEMMA Triple ==
    ASSUME NEW a, NEW b, NEW c
    PROVE  <<a>> \o <<b, c>> = <<a, b, c>>
<1> DEFINE S == {a, b, c}
<1>1. <<a>> \in Seq(S) /\ <<b, c>> \in Seq(S) /\ <<a, b, c>> \in Seq(S)
  OBVIOUS
<1>2. Len(<<a>>) = 1 /\ Len(<<b, c>>) = 2 /\ Len(<<a, b, c>>) = 3
  OBVIOUS
<1>3. /\ <<a>> \o <<b, c>> \in Seq(S)
      /\ Len(<<a>> \o <<b, c>>) = 3
      /\ \A i \in 1 .. 3 : (<<a>> \o <<b, c>>)[i] = IF i <= 1 THEN <<a>>[i] ELSE <<b, c>>[i - 1]
  BY <1>1, <1>2, ConcatProperties
<1>4. \A i \in 1 .. 3 : (<<a>> \o <<b, c>>)[i] = <<a, b, c>>[i]
  BY <1>3
<1>5. QED
  BY <1>1, <1>2, <1>3, <1>4, SeqEqual

LEMMA Pair ==
    ASSUME NEW a, NEW b
    PROVE  <<a>> \o <<b>> = <<a, b>>
<1> DEFINE S == {a, b}
<1>1. <<a>> \in Seq(S) /\ <<b>> \in Seq(S) /\ <<a, b>> \in Seq(S)
  OBVIOUS
<1>2. Len(<<a>>) = 1 /\ Len(<<b>>) = 1 /\ Len(<<a, b>>) = 2
  OBVIOUS
<1>3. /\ <<a>> \o <<b>> \in Seq(S)
      /\ Len(<<a>> \o <<b>>) = 2
      /\ \A i \in 1 .. 2 : (<<a>> \o <<b>>)[i] = IF i <= 1 THEN <<a>>[i] ELSE <<b>>[i - 1]
  BY <1>1, <1>2, ConcatProperties
<1>4. \A i \in 1 .. 2 : (<<a>> \o <<b>>)[i] = <<a, b>>[i]
  BY <1>3
<1>5. QED
  BY <1>1, <1>2, <1>3, <1>4, SeqEqual

ListStep == Step("listSnapshots", NoOptions)
ReadStep == Step("read", NoOptions)

LEMMA CreatePlan ==
    ASSUME NEW d \in Dialog, d.op = "create"
    PROVE  \/ Plan(d) = <<Step("refuse", NoOptions)>>
           \/ \E kind \in Kinds :
                /\ Plan(d) = <<Step("createSnapshot", [kind |-> kind]), ListStep, ReadStep>>
                /\ kind = "diskOnly" => d.vm.state # "running"
<1> DEFINE kind == snapshotKind(External /\ d.vm.state = "running")
<1>1. Plan(d) = snapshotCreate(d)
  BY DEF Plan
<1>2. kind \in Kinds
  BY DEF snapshotKind, Kinds
<1>3. CASE d.vm.state = "running" /\ kind = "diskOnly"
  BY <1>1, <1>3 DEF snapshotCreate
<1>4. CASE ~(d.vm.state = "running" /\ kind = "diskOnly")
  <2>1. Plan(d) = <<Step("createSnapshot", [kind |-> kind])>> \o Refreshed
    BY <1>1, <1>4 DEF snapshotCreate
  <2> HIDE DEF kind
  <2>2. Plan(d) = <<Step("createSnapshot", [kind |-> kind]), ListStep, ReadStep>>
    BY <2>1, Triple DEF Refreshed, ListStep, ReadStep
  <2>3. QED
    BY <2>2, <1>2, <1>4
<1>5. QED
  BY <1>3, <1>4

LEMMA RemovePlan ==
    ASSUME NEW d \in Dialog, d.op = "remove", subject = "snapshot"
    PROVE  Plan(d) = <<Step("deleteSnapshots", [names |-> {d.id}]), ListStep, ReadStep>>
<1>1. Plan(d) = snapshotDelete(d)
  BY DEF Plan
<1>2. QED
  BY <1>1, Triple DEF snapshotDelete, Refreshed, ListStep, ReadStep

LEMMA RevertPlan ==
    ASSUME NEW d \in Dialog, d.op = "revert"
    PROVE  Plan(d) = <<Step("revert", [force |-> d.failed]), ReadStep>>
BY DEF Plan, snapshotRevert, ReadStep

LEMMA RenamePlan ==
    ASSUME NEW d \in Dialog, d.op = "rename"
    PROVE  Plan(d) = <<Step("rename", NoOptions)>>
BY DEF Plan, onRename

LEMMA ClonePlan ==
    ASSUME NEW d \in Dialog, d.op = "clone"
    PROVE  Plan(d) = <<Step("clone", NoOptions)>>
BY DEF Plan, onClone

LEMMA MigratePlan ==
    ASSUME NEW d \in Dialog, d.op = "migrate"
    PROVE  Plan(d) = <<Step("migrate", [persistDest |-> d.always, undefineSource |-> d.always]), ReadStep>>
BY DEF Plan, domainMigrateToUri, ReadStep

(* The number of the call that undefines the machine.                      *)
Undefining(d) == IF d.vm.state # "shutoff" THEN 3 ELSE 2

LEMMA DeletePlan ==
    ASSUME NEW d \in Dialog, d.op = "delete"
    PROVE  /\ Len(Plan(d)) \in Nat /\ Undefining(d) < Len(Plan(d))
           /\ DOMAIN Plan(d) = 1 .. Len(Plan(d))
           /\ Plan(d)[1] = Step("deleteSnapshots", [names |-> d.snapshots])
           /\ Undefining(d) = 3 => Plan(d)[2] = Step("destroy", NoOptions)
           /\ Plan(d)[Undefining(d)] = Step("undefine", [wasLive |-> d.vm.state # "shutoff"])
           /\ \A i \in Undefining(d) + 1 .. Len(Plan(d)) : Plan(d)[i].do \in {"close", "deleteStorage"}
<1> DEFINE a == Step("deleteSnapshots", [names |-> d.snapshots])
           x == Step("destroy", NoOptions)
           u == Step("undefine", [wasLive |-> d.vm.state # "shutoff"])
           c == Step("close", NoOptions)
           e == Step("deleteStorage", NoOptions)
           S == {a, x, u, c, e}
           tail == IF d.image = "delete" THEN <<e>> ELSE <<>>
<1>1. Plan(d) = <<a>> \o domainDelete(d) \o <<c>> \o tail
  BY DEF Plan, onDelete
<1>2. domainDelete(d) = IF Undefining(d) = 3 THEN <<x, u>> ELSE <<u>>
  <2>1. domainDelete(d) = (IF d.vm.state # "shutoff" THEN <<x>> ELSE <<>>) \o <<u>>
    BY DEF domainDelete
  <2> HIDE DEF x, u
  <2>2. <<>> \o <<u>> = <<u>>
    BY ConcatEmptySeq, <<u>> \in Seq({u})
  <2>3. CASE d.vm.state # "shutoff"
    BY <2>1, <2>3, Pair DEF Undefining
  <2>4. CASE d.vm.state = "shutoff"
    BY <2>1, <2>2, <2>4 DEF Undefining
  <2>5. QED
    BY <2>3, <2>4
<1>3. c.do = "close" /\ e.do = "deleteStorage"
  BY DEF Step
<1> HIDE DEF a, x, u, c, e
<1> DEFINE dd == IF Undefining(d) = 3 THEN <<x, u>> ELSE <<u>>
           p == <<a>> \o dd
           q == p \o <<c>>
           n == Undefining(d)
<1>4. n \in {2, 3}
  BY DEF Undefining
<1>5. dd \in Seq(S) /\ Len(dd) = n - 1 /\ dd[n - 1] = u /\ (n = 3 => dd[1] = x)
  <2>1. CASE n = 3
    BY <2>1
  <2>2. CASE n = 2
    BY <2>2
  <2>3. QED
    BY <1>4, <2>1, <2>2
<1>6. Plan(d) = q \o tail
  BY <1>1, <1>2
<1>7. /\ <<a>> \in Seq(S) /\ Len(<<a>>) = 1 /\ <<a>>[1] = a
      /\ <<c>> \in Seq(S) /\ Len(<<c>>) = 1 /\ <<c>>[1] = c
      /\ <<e>> \in Seq(S) /\ Len(<<e>>) = 1 /\ <<e>>[1] = e
      /\ <<>> \in Seq(S) /\ Len(<<>>) = 0
  OBVIOUS
<1>8. tail \in Seq(S) /\ Len(tail) \in {0, 1} /\ (Len(tail) = 1 => tail[1] = e)
  <2>1. CASE d.image = "delete"
    BY <1>7, <2>1
  <2>2. CASE d.image # "delete"
    <3>1. tail = <<>>
      BY <2>2
    <3>2. QED
      BY <1>7, <3>1
  <2>3. QED
    BY <2>1, <2>2
<1> HIDE DEF dd, tail, S, n
<1>9. p \in Seq(S) /\ Len(p) = n /\ p[1] = a /\ p[n] = u /\ (n = 3 => p[2] = x)
  <2>1. /\ p \in Seq(S) /\ Len(p) = 1 + Len(dd)
        /\ \A i \in 1 .. 1 + Len(dd) : p[i] = IF i <= 1 THEN <<a>>[i] ELSE dd[i - 1]
    BY <1>5, <1>7, ConcatProperties
  <2>2. QED
    BY <1>4, <1>5, <1>7, <2>1
<1> HIDE DEF p
<1>10. /\ q \in Seq(S) /\ Len(q) = n + 1 /\ q[1] = a /\ q[n] = u /\ (n = 3 => q[2] = x) /\ q[n + 1] = c
  <2>1. /\ q \in Seq(S) /\ Len(q) = n + 1
        /\ \A i \in 1 .. n + 1 : q[i] = IF i <= n THEN p[i] ELSE <<c>>[i - n]
    BY <1>7, <1>9, ConcatProperties
  <2>2. QED
    BY <1>4, <1>7, <1>9, <2>1
<1> HIDE DEF q
<1>11. /\ q \o tail \in Seq(S) /\ Len(q \o tail) = n + 1 + Len(tail)
       /\ \A i \in 1 .. n + 1 + Len(tail) : (q \o tail)[i] = IF i <= n + 1 THEN q[i] ELSE tail[i - (n + 1)]
  BY <1>8, <1>10, ConcatProperties
<1>12. /\ (q \o tail)[1] = a /\ (q \o tail)[n] = u /\ (n = 3 => (q \o tail)[2] = x)
       /\ (q \o tail)[n + 1] = c /\ (Len(tail) = 1 => (q \o tail)[n + 2] = e)
  BY <1>4, <1>8, <1>10, <1>11
<1>13. \A i \in n + 1 .. n + 1 + Len(tail) : i = n + 1 \/ (i = n + 2 /\ Len(tail) = 1)
  <2>1. CASE Len(tail) = 0
    BY <1>4, <2>1
  <2>2. CASE Len(tail) = 1
    BY <1>4, <2>2
  <2>3. QED
    BY <1>8, <2>1, <2>2
<1>14. DOMAIN (q \o tail) = 1 .. Len(q \o tail)
  BY <1>11, LenProperties
<1>15. Len(q \o tail) \in Nat /\ n < Len(q \o tail)
  BY <1>4, <1>8, <1>11
<1>16. ASSUME NEW i \in n + 1 .. Len(q \o tail)
       PROVE  (q \o tail)[i].do \in {"close", "deleteStorage"}
  BY <1>3, <1>11, <1>12, <1>13, <1>16
<1>17. n = Undefining(d)
  BY DEF n
<1>18. QED
  BY <1>6, <1>12, <1>14, <1>15, <1>16, <1>17 DEF a, x, u

IsCall(s) == s.do \in AllDo /\ (s.do = "createSnapshot" => s.opt.kind \in Kinds)

LEMMA StepFields ==
    ASSUME NEW do, NEW opt
    PROVE  Step(do, opt).do = do /\ Step(do, opt).opt = opt
BY DEF Step

LEMMA MachineOrSnapshotPlan ==
    ASSUME NEW d \in Dialog, subject \in {"snapshot", "machine"}, d.op \in OpsOf(subject)
    PROVE  /\ Len(Plan(d)) \in Nat
           /\ \A i \in 1 .. Len(Plan(d)) : IsCall(Plan(d)[i])
<1> DEFINE Calls1(p) == Len(p) \in Nat /\ \A i \in 1 .. Len(p) : IsCall(p[i])
<1>1. \A opt : \A do \in AllDo \ {"createSnapshot"} : IsCall(Step(do, opt))
  BY StepFields DEF IsCall
<1>2. \A kind \in Kinds : IsCall(Step("createSnapshot", [kind |-> kind]))
  BY StepFields DEF IsCall, AllDo, SnapshotDo
<1>3. IsCall(ListStep) /\ IsCall(ReadStep)
  BY <1>1 DEF ListStep, ReadStep, AllDo, IdleDo
<1>4. \A a : IsCall(a) => Calls1(<<a>>) /\ Calls1(<<a, ReadStep>>) /\ Calls1(<<a, ListStep, ReadStep>>)
  BY <1>3
<1> HIDE DEF Calls1
<1>5. CASE d.op = "create"
  BY <1>1, <1>2, <1>4, <1>5, CreatePlan DEF Calls1, AllDo, IdleDo
<1>6. CASE d.op = "remove" /\ subject = "snapshot"
  BY <1>1, <1>4, <1>6, RemovePlan DEF Calls1, AllDo, SnapshotDo
<1>7. CASE d.op = "revert"
  BY <1>1, <1>4, <1>7, RevertPlan DEF Calls1, AllDo, SnapshotDo
<1>8. CASE d.op = "rename"
  BY <1>1, <1>4, <1>8, RenamePlan DEF Calls1, AllDo, MachineDo
<1>9. CASE d.op = "clone"
  BY <1>1, <1>4, <1>9, ClonePlan DEF Calls1, AllDo, MachineDo
<1>10. CASE d.op = "migrate"
  BY <1>1, <1>4, <1>10, MigratePlan DEF Calls1, AllDo, MachineDo
<1>11. CASE d.op = "delete"
  <2>1. Len(Plan(d)) \in Nat /\ Undefining(d) \in {2, 3}
    BY <1>11, DeletePlan DEF Undefining
  <2>2. ASSUME NEW i \in 1 .. Len(Plan(d))
        PROVE  IsCall(Plan(d)[i])
    <3>1. CASE i = 1
      BY <1>1, <1>11, <3>1, DeletePlan DEF AllDo, SnapshotDo
    <3>2. CASE i = Undefining(d)
      BY <1>1, <1>11, <3>2, DeletePlan DEF AllDo, MachineDo
    <3>3. CASE i = 2 /\ Undefining(d) = 3
      BY <1>1, <1>11, <3>3, DeletePlan DEF AllDo, MachineDo
    <3>4. CASE i > Undefining(d)
      <4>1. i \in Undefining(d) + 1 .. Len(Plan(d))
        BY <2>1, <3>4
      <4>2. Plan(d)[i].do \in {"close", "deleteStorage"}
        BY <1>11, <4>1, DeletePlan
      <4>3. QED
        BY <4>2 DEF IsCall, AllDo, IdleDo, StorageDo
    <3>5. QED
      BY <2>1, <3>1, <3>2, <3>3, <3>4
  <2>3. QED
    BY <2>1, <2>2
<1>12. QED
  BY <1>5, <1>6, <1>7, <1>8, <1>9, <1>10, <1>11 DEF OpsOf, SnapshotOps, MachineOps

LEMMA PlanTyped ==
    ASSUME NEW d \in Dialog, subject \in AllSubjects, d.op \in OpsOf(subject)
    PROVE  /\ Len(Plan(d)) \in Nat
           /\ \A i \in 1 .. Len(Plan(d)) : IsCall(Plan(d)[i])
           /\ subject \notin {"snapshot", "machine"} =>
                \A i \in 1 .. Len(Plan(d)) : Plan(d)[i].do \in DeviceDo \cup StorageDo \cup {"get", "read"}
<1>1. CASE subject \in {"snapshot", "machine"}
  BY <1>1, MachineOrSnapshotPlan
<1>2. CASE subject \notin {"snapshot", "machine"}
  <2>1. Plan(d) \in Seq(DeviceStep)
    BY <1>2, DevicePlan
  <2>2. \A i \in 1 .. Len(Plan(d)) : Plan(d)[i] \in DeviceStep
    BY <2>1, ElementOfSeq
  <2>3. \A s \in DeviceStep : s.do \in DeviceDo \cup StorageDo \cup {"get", "read"}
    BY DEF DeviceStep
  <2>4. \A s : s.do \in DeviceDo \cup StorageDo \cup {"get", "read"} => IsCall(s)
    BY DEF IsCall, AllDo, IdleDo, DeviceDo, StorageDo
  <2>5. QED
    BY <1>2, <2>1, <2>2, <2>3, <2>4, LenProperties
<1>3. QED
  BY <1>1, <1>2

-----------------------------------------------------------------------------
(* The dialogs that the page opens *)

LEMMA NewDialogTyped ==
    ASSUME TypeOK, NEW op \in DeviceOps \cup SnapshotOps \cup MachineOps, NEW id \in Nat
    PROVE  NewDialog(op, id) \in Dialog /\ NewDialog(op, id).op = op /\ NewDialog(op, id).vm = row
BY Bounds DEF TypeOK, NewDialog, Dialog, Row

LEMMA IdsTyped ==
    ASSUME NEW list \in Seq(Devices)
    PROVE  IdsOf(list) \subseteq Nat
BY Elements DEF IdsOf

LEMMA IdsAreNumbers == Ids \subseteq Nat
BY Bounds DEF Ids

LEMMA RowTyped ==
    ASSUME TypeOK
    PROVE  /\ row.live \in Seq(Devices) /\ row.inactive \in Seq(Devices) /\ row.persistent \in BOOLEAN
           /\ Known \subseteq Nat /\ IdsOf(row.inactive) \subseteq Nat
BY IdsTyped DEF TypeOK, Row, Known

LEMMA PermanenceTyped ==
    ASSUME TypeOK, NEW default \in BOOLEAN
    PROVE  Permanence(default) \subseteq BOOLEAN
BY DEF Permanence

\* Any set of numbers has a least one.
LEMMA LeastNumber ==
    ASSUME NEW T, T \subseteq Nat, T # {}
    PROVE  \E x \in T : \A y \in T : x <= y
<1> DEFINE R == {pair \in Nat \X Nat : pair[1] < pair[2]}
<1>1. IsWellFoundedOn(R, Nat)
  BY NatLessThanWellFounded DEF OpToRel
<1>2. \A x, y \in Nat : y < x => <<y, x>> \in R
  OBVIOUS
<1> HIDE DEF R
<1>3. \E x \in T : \A y \in T : ~ (<<y, x>> \in R)
  BY <1>1, WFMin
<1>4. \A x, y \in T : x \in Nat /\ y \in Nat /\ (~(y < x) => x <= y)
  OBVIOUS
<1>5. QED
  BY <1>2, <1>3, <1>4

(* vda, vdb, ...: the target that is suggested for a disk is the first that *)
(* is not taken, unless all are.                                            *)
LEMMA NextTarget ==
    ASSUME NEW existing
    PROVE  \/ getNextAvailableTarget(existing) = 0 /\ Ids \subseteq existing
           \/ /\ getNextAvailableTarget(existing) \in Ids \ existing
              /\ \A j \in 1 .. getNextAvailableTarget(existing) - 1 : j \in existing
<1> DEFINE free == Ids \ existing
           IsFirst(i) == \A j \in 1 .. i - 1 : j \in existing
<1>1. CASE Ids \subseteq existing
  BY <1>1 DEF getNextAvailableTarget
<1>2. CASE ~(Ids \subseteq existing)
  <2>1. free \subseteq Nat /\ free # {}
    BY <1>2, IdsAreNumbers
  <2>2. PICK x \in free : \A y \in free : x <= y
    <3> HIDE DEF free
    <3>1. QED
      BY <2>1, LeastNumber
  <2>3. IsFirst(x)
    <3>1. SUFFICES ASSUME NEW j \in 1 .. x - 1
                   PROVE  j \in existing
      OBVIOUS
    <3>2. x \in 1 .. MaxId /\ MaxId \in Nat
      BY Bounds DEF Ids
    <3>3. j \in Ids /\ ~(x <= j)
      BY <3>2 DEF Ids
    <3>4. QED
      BY <2>2, <3>3
  <2>4. getNextAvailableTarget(existing) = CHOOSE i \in free : IsFirst(i)
    BY <1>2 DEF getNextAvailableTarget
  <2>5. \E i \in free : IsFirst(i)
    BY <2>2, <2>3
  <2> DEFINE next == CHOOSE i \in free : IsFirst(i)
  <2>6. next \in free /\ IsFirst(next)
    BY <2>5
  <2>7. QED
    BY <2>4, <2>6
<1>3. QED
  BY <1>1, <1>2

LEMMA TargetTyped ==
    ASSUME NEW existing
    PROVE  getNextAvailableTarget(existing) \in Nat
<1>1. getNextAvailableTarget(existing) \in {0} \cup Ids
  BY NextTarget
<1>2. 0 \in Nat
  OBVIOUS
<1>3. QED
  BY <1>1, <1>2, IdsAreNumbers

\* A dialog with other settings.
LEMMA DialogWith ==
    ASSUME NEW d \in Dialog
    PROVE  /\ \A v \in {0, 1} : /\ [d EXCEPT !.v = v] \in Dialog
                               /\ [d EXCEPT !.v = v].op = d.op /\ [d EXCEPT !.v = v].vm = d.vm
           /\ \A n \in Nat : /\ [d EXCEPT !.new = n] \in Dialog
                            /\ [d EXCEPT !.new = n].op = d.op /\ [d EXCEPT !.new = n].vm = d.vm
           /\ \A n \in Nat : /\ [d EXCEPT !.place = n] \in Dialog
                            /\ [d EXCEPT !.place = n].op = d.op /\ [d EXCEPT !.place = n].vm = d.vm
           /\ \A a \in BOOLEAN : /\ [d EXCEPT !.always = a] \in Dialog
                                /\ [d EXCEPT !.always = a].op = d.op /\ [d EXCEPT !.always = a].vm = d.vm
BY DEF Dialog

(* The dialogs with several settings, by these.                            *)
NewDisk(s, a) ==
    [NewDialog("add", getNextAvailableTarget(Known)) EXCEPT !.img = s.img, !.image = s.image, !.always = a]
EditedDisk(i, v, n) == [NewDialog("edit", i) EXCEPT !.v = v, !.new = n]
RemovedDisk(k, how) == [NewDialog("remove", row.live[k].id) EXCEPT !.img = row.live[k].img, !.image = how]
NewNic(i, v, a) == [NewDialog("add", i) EXCEPT !.v = v, !.always = a]
EditedNic(k, v, n) ==
    [NewDialog("edit", row.inactive[k].id) EXCEPT !.chosen = row.live[k].id, !.v = v, !.new = n]
EditedNics == {j \in DOMAIN row.live : /\ row.persistent /\ j <= Len(row.inactive)
                                       /\ Has(row.inactive, row.live[j].id)}
NewTargets == {0} \cup (IF IsOff THEN {getNextAvailableTarget(Known)} ELSE {})
NicAttachments == Permanence(FALSE)
NewAddresses == {0} \cup (IF IsOff THEN Ids \ Known ELSE {})

LEMMA AddDiskIs == AddDisk = {NewDisk(s, a) : s \in CreateNew \cup UseExisting, a \in Permanence(row.persistent)}
BY SMT DEF AddDisk, NewDisk

LEMMA EditDiskIs ==
    EditDisk = IF ~row.persistent THEN {}
               ELSE {EditedDisk(i, v, n) : i \in Known \cap IdsOf(row.inactive), v \in {0, 1}, n \in NewTargets}
BY SMT DEF EditDisk, EditedDisk, NewTargets

LEMMA RemoveDiskIs ==
    RemoveDiskModal = IF ~CanDetach THEN {}
                      ELSE {RemovedDisk(k, how) : k \in DOMAIN row.live, how \in {"none", "delete"}}
BY SMT DEF RemoveDiskModal, RemovedDisk

LEMMA AddNICIs == AddNIC = {NewNic(i, v, a) : i \in Ids \ Known, v \in {0, 1}, a \in NicAttachments}
BY SMT DEF AddNIC, NewNic, NicAttachments

LEMMA EditNICIs == EditNICModal = {EditedNic(k, v, n) : k \in EditedNics, v \in {0, 1}, n \in NewAddresses}
BY SMT DEF EditNICModal, EditedNic, EditedNics, NewAddresses

LEMMA DiskDialogs ==
    ASSUME TypeOK, NEW d \in AddDisk \cup EditDisk \cup RemoveDiskModal
    PROVE  d \in Dialog /\ d.op \in {"add", "edit", "remove"}
<1>1. CASE d \in AddDisk
  <2>1. PICK s \in CreateNew \cup UseExisting, a \in Permanence(row.persistent) : d = NewDisk(s, a)
    BY <1>1, AddDiskIs, SMT
  <2>2. s.img \in Nat /\ s.image \in {"create", "existing"}
    <3>1. machine.images \subseteq Nat
      BY DEF TypeOK, Machine
    <3>2. CASE s \in CreateNew
      BY <3>2, IdsAreNumbers DEF CreateNew
    <3>3. CASE s \in UseExisting
      BY <3>1, <3>3 DEF UseExisting, getFilteredVolumes
    <3>4. QED
      BY <3>2, <3>3
  <2>3. a \in BOOLEAN
    BY RowTyped, PermanenceTyped
  <2> DEFINE n == NewDialog("add", getNextAvailableTarget(Known))
  <2>4. n \in Dialog /\ n.op = "add"
    BY TargetTyped, NewDialogTyped DEF DeviceOps
  <2> HIDE DEF n
  <2>5. d = [n EXCEPT !.img = s.img, !.image = s.image, !.always = a]
    BY <2>1 DEF n, NewDisk
  <2>6. QED
    BY <2>2, <2>3, <2>4, <2>5 DEF Dialog
<1>2. CASE d \in EditDisk
  <2>1. PICK i \in Known \cap IdsOf(row.inactive), v \in {0, 1}, n \in NewTargets : d = EditedDisk(i, v, n)
    BY <1>2, EditDiskIs, SMT
  <2>2. n \in Nat /\ i \in Nat
    BY TargetTyped, RowTyped DEF NewTargets
  <2>3. NewDialog("edit", i) \in Dialog /\ NewDialog("edit", i).op = "edit"
    BY <2>2, NewDialogTyped DEF DeviceOps
  <2>4. d = [NewDialog("edit", i) EXCEPT !.v = v, !.new = n]
    BY <2>1 DEF EditedDisk
  <2>5. QED
    BY <2>2, <2>3, <2>4 DEF Dialog
<1>3. CASE d \in RemoveDiskModal
  <2>1. PICK k \in DOMAIN row.live, how \in {"none", "delete"} : d = RemovedDisk(k, how)
    BY <1>3, RemoveDiskIs, SMT
  <2>2. row.live[k].id \in Nat /\ row.live[k].img \in Nat
    BY RowTyped, Elements
  <2>3. NewDialog("remove", row.live[k].id) \in Dialog /\ NewDialog("remove", row.live[k].id).op = "remove"
    BY <2>2, NewDialogTyped DEF DeviceOps
  <2>4. d = [NewDialog("remove", row.live[k].id) EXCEPT !.img = row.live[k].img, !.image = how]
    BY <2>1 DEF RemovedDisk
  <2>5. QED
    BY <2>2, <2>3, <2>4 DEF Dialog
<1>4. QED
  BY <1>1, <1>2, <1>3

LEMMA MediaDialogsTyped ==
    ASSUME TypeOK, NEW d \in MediaDialogs
    PROVE  d \in Dialog /\ d.op \in {"insert", "eject"}
<1>1. PICK k \in DOMAIN row.live :
        d = [NewDialog(IF row.live[k].v = 0 THEN "insert" ELSE "eject", row.live[k].id) EXCEPT !.v = 1 - row.live[k].v]
  BY DEF MediaDialogs
<1> DEFINE op == IF row.live[k].v = 0 THEN "insert" ELSE "eject"
<1>2. row.live[k].id \in Nat /\ 1 - row.live[k].v \in {0, 1}
  <2>1. row.live[k].id \in Nat /\ row.live[k].v \in {0, 1}
    BY RowTyped, Elements
  <2>2. QED
    BY <2>1
<1>3. op \in {"insert", "eject"}
  OBVIOUS
<1>4. d = [NewDialog(op, row.live[k].id) EXCEPT !.v = 1 - row.live[k].v]
  BY <1>1
<1> HIDE DEF op
<1>5. NewDialog(op, row.live[k].id) \in Dialog /\ NewDialog(op, row.live[k].id).op = op
  BY <1>2, <1>3, NewDialogTyped DEF DeviceOps
<1>6. QED
  BY <1>2, <1>3, <1>4, <1>5, DialogWith

LEMMA NicDialogs ==
    ASSUME TypeOK, NEW d \in AddNIC \cup EditNICModal \cup RemoveNIC
    PROVE  d \in Dialog /\ d.op \in {"add", "edit", "remove"}
<1>1. CASE d \in AddNIC
  <2>1. PICK i \in Ids \ Known, v \in {0, 1}, a \in NicAttachments : d = NewNic(i, v, a)
    BY <1>1, AddNICIs, SMT
  <2>2. i \in Nat /\ a \in BOOLEAN
    BY IdsAreNumbers, PermanenceTyped DEF NicAttachments
  <2>3. NewDialog("add", i) \in Dialog /\ NewDialog("add", i).op = "add"
    BY <2>2, NewDialogTyped DEF DeviceOps
  <2>4. d = [NewDialog("add", i) EXCEPT !.v = v, !.always = a]
    BY <2>1 DEF NewNic
  <2>5. QED
    BY <2>2, <2>3, <2>4 DEF Dialog
<1>2. CASE d \in EditNICModal
  <2>1. PICK k \in EditedNics, v \in {0, 1}, n \in NewAddresses : d = EditedNic(k, v, n)
    BY <1>2, EditNICIs, SMT
  <2>2. /\ DOMAIN row.live = 1 .. Len(row.live) /\ Len(row.live) \in Nat
        /\ DOMAIN row.inactive = 1 .. Len(row.inactive) /\ Len(row.inactive) \in Nat
    BY RowTyped, LenProperties
  <2>3. k \in DOMAIN row.live /\ k \in DOMAIN row.inactive
    BY <2>2 DEF EditedNics
  <2>4. row.inactive[k].id \in Nat /\ row.live[k].id \in Nat
    BY <2>3, RowTyped, Elements
  <2>5. n \in Nat
    BY IdsAreNumbers DEF NewAddresses
  <2>6. NewDialog("edit", row.inactive[k].id) \in Dialog /\ NewDialog("edit", row.inactive[k].id).op = "edit"
    BY <2>4, NewDialogTyped DEF DeviceOps
  <2>7. d = [NewDialog("edit", row.inactive[k].id) EXCEPT !.chosen = row.live[k].id, !.v = v, !.new = n]
    BY <2>1 DEF EditedNic
  <2>8. QED
    BY <2>4, <2>5, <2>6, <2>7 DEF Dialog
<1>3. CASE d \in RemoveNIC
  <2>1. PICK k \in DOMAIN row.live : d = [NewDialog("remove", row.live[k].id) EXCEPT !.place = k]
    BY <1>3 DEF RemoveNIC
  <2>2. row.live[k].id \in Nat /\ k \in Nat
    BY RowTyped, Elements, LenProperties
  <2>3. NewDialog("remove", row.live[k].id) \in Dialog /\ NewDialog("remove", row.live[k].id).op = "remove"
    BY <2>2, NewDialogTyped DEF DeviceOps
  <2>4. QED
    BY <2>1, <2>2, <2>3, DialogWith
<1>4. QED
  BY <1>1, <1>2, <1>3

LEMMA OtherDeviceDialogs ==
    ASSUME TypeOK,
           NEW d \in AddHostDev \cup RemoveHostDev \cup VmFilesystemActions \cup RemoveFilesystem
    PROVE  d \in Dialog /\ d.op \in {"add", "remove"}
<1>1. PICK op \in {"add", "remove"}, i \in Ids \cup Known : d = NewDialog(op, i)
  BY DEF AddHostDev, RemoveHostDev, VmFilesystemActions, RemoveFilesystem
<1>2. i \in Nat
  BY IdsAreNumbers, RowTyped
<1>3. QED
  BY <1>1, <1>2, NewDialogTyped DEF DeviceOps

LEMMA WatchdogDialogs ==
    ASSUME TypeOK, NEW d \in WatchdogModal
    PROVE  d \in Dialog /\ d.op \in {"add", "edit", "remove"}
<1>1. PICK op \in {"add", "edit", "remove"}, v \in {0, 1} :
        d = NewDialog(op, 1) \/ d = [NewDialog(op, 1) EXCEPT !.v = v]
  BY DEF WatchdogModal
<1>2. NewDialog(op, 1) \in Dialog /\ NewDialog(op, 1).op = op
  BY NewDialogTyped DEF DeviceOps
<1>3. QED
  BY <1>1, <1>2, DialogWith

LEMMA SnapshotDialogsTyped ==
    ASSUME TypeOK, NEW d \in SnapshotDialogs
    PROVE  d \in Dialog /\ d.op \in SnapshotOps /\ d.vm = row /\ (d.op \in {"remove", "revert"} => d.id \in shown)
<1>1. PICK op \in SnapshotOps, i \in Ids \cup shown :
        d = NewDialog(op, i) /\ (op \in {"remove", "revert"} => i \in shown)
  BY DEF SnapshotDialogs, CreateSnapshotModal, SnapshotOps
<1>2. i \in Nat
  BY IdsAreNumbers DEF TypeOK
<1>3. d.id = i /\ d.op = op
  BY <1>1 DEF NewDialog
<1>4. QED
  BY <1>1, <1>2, <1>3, NewDialogTyped

LEMMA MachineDialogsTyped ==
    ASSUME TypeOK, NEW d \in MachineActions
    PROVE  d \in Dialog /\ d.op \in MachineOps /\ d.vm = row
<1>1. CASE d \in DeleteDialog
  <2>1. PICK how \in {"none", "delete"} : d = [NewDialog("delete", 1) EXCEPT !.img = 1, !.image = how]
    BY <1>1 DEF DeleteDialog
  <2>2. NewDialog("delete", 1) \in Dialog /\ NewDialog("delete", 1).op = "delete" /\ NewDialog("delete", 1).vm = row
    BY NewDialogTyped DEF MachineOps
  <2>3. QED
    BY <2>1, <2>2 DEF Dialog, MachineOps
<1>2. CASE d \in RenameDialog
  <2>1. PICK n \in Ids : d = [NewDialog("rename", 1) EXCEPT !.new = n]
    BY <1>2 DEF RenameDialog
  <2>2. NewDialog("rename", 1) \in Dialog /\ NewDialog("rename", 1).op = "rename" /\ NewDialog("rename", 1).vm = row
    BY NewDialogTyped DEF MachineOps
  <2>3. QED
    BY <2>1, <2>2, IdsAreNumbers, DialogWith DEF MachineOps
<1>3. CASE d \in CloneDialog
  <2>1. PICK n \in Ids : d = [NewDialog("clone", 1) EXCEPT !.new = n]
    BY <1>3 DEF CloneDialog
  <2>2. NewDialog("clone", 1) \in Dialog /\ NewDialog("clone", 1).op = "clone" /\ NewDialog("clone", 1).vm = row
    BY NewDialogTyped DEF MachineOps
  <2>3. QED
    BY <2>1, <2>2, IdsAreNumbers, DialogWith DEF MachineOps
<1>4. CASE d \in MigrateDialog
  <2>1. PICK a \in BOOLEAN : d = [NewDialog("migrate", 1) EXCEPT !.always = a]
    BY <1>4 DEF MigrateDialog
  <2>2. NewDialog("migrate", 1) \in Dialog /\ NewDialog("migrate", 1).op = "migrate" /\ NewDialog("migrate", 1).vm = row
    BY NewDialogTyped DEF MachineOps
  <2>3. QED
    BY <2>1, <2>2, DialogWith DEF MachineOps
<1>5. QED
  BY <1>1, <1>2, <1>3, <1>4 DEF MachineActions

LEMMA NamedTyped ==
    ASSUME NEW d \in Dialog
    PROVE  /\ Named(d) \in Dialog
           /\ Named(d) = [d EXCEPT !.new = IF d.new = 0 THEN d.id ELSE d.new]
<1>1. d = [d EXCEPT !.new = d.new]
  BY DEF Dialog
<1>2. d.new \in Nat /\ d.id \in Nat
  BY DEF Dialog
<1>3. QED
  BY <1>1, <1>2, DialogWith DEF Named

(* Every dialog that the page opens is one of its subject.                 *)
LEMMA DialogsTyped ==
    ASSUME TypeOK, NEW d \in Dialogs
    PROVE  d \in Dialog /\ d.op \in OpsOf(subject) /\ (HasSnapshots => d.vm = row)
<1> DEFINE Offered ==
        CASE subject = "disk" -> {a \in AddDisk \cup EditDisk \cup RemoveDiskModal : a.id # 0}
          [] subject = "media" -> MediaDialogs
          [] subject = "nic" -> AddNIC \cup EditNICModal \cup RemoveNIC
          [] subject = "hostdev" -> AddHostDev \cup RemoveHostDev
          [] subject = "filesystem" -> VmFilesystemActions \cup RemoveFilesystem
          [] subject = "watchdog" -> WatchdogModal
          [] subject = "snapshot" -> SnapshotDialogs
          [] subject = "machine" -> MachineActions
<1>1. PICK o \in Offered : d = Named(o)
  BY DEF Dialogs
<1>2. o \in Dialog /\ o.op \in OpsOf(subject) /\ (HasSnapshots => o.vm = row)
  <2>1. subject \in AllSubjects
    BY Bounds DEF TypeOK
  <2>2. CASE subject = "disk"
    BY <2>2, DiskDialogs DEF OpsOf, HasSnapshots
  <2>3. CASE subject = "media"
    BY <2>3, MediaDialogsTyped DEF OpsOf, HasSnapshots
  <2>4. CASE subject = "nic"
    BY <2>4, NicDialogs DEF OpsOf, HasSnapshots
  <2>5. CASE subject = "hostdev"
    BY <2>5, OtherDeviceDialogs DEF OpsOf, HasSnapshots
  <2>6. CASE subject = "filesystem"
    BY <2>6, OtherDeviceDialogs DEF OpsOf, HasSnapshots
  <2>7. CASE subject = "watchdog"
    BY <2>7, WatchdogDialogs DEF OpsOf, HasSnapshots
  <2>8. CASE subject = "snapshot"
    BY <2>8, SnapshotDialogsTyped DEF OpsOf, HasSnapshots
  <2>9. CASE subject = "machine"
    BY <2>9, MachineDialogsTyped DEF OpsOf, HasSnapshots
  <2>10. QED
    BY <2>1, <2>2, <2>3, <2>4, <2>5, <2>6, <2>7, <2>8, <2>9 DEF AllSubjects
<1> HIDE DEF Offered
<1>3. Named(o).op = o.op /\ Named(o).vm = o.vm
  BY <1>2, NamedTyped DEF Dialog
<1>4. QED
  BY <1>1, <1>2, <1>3, NamedTyped

-----------------------------------------------------------------------------
(* Types *)

FirstMachine(st, p, l, mem, sn) ==
    [state |-> st, persistent |-> p, inactive |-> IF p THEN l ELSE <<>>,
     live |-> IF st = "shutoff" THEN <<>> ELSE l,
     images |-> IF subject \in {"disk", "machine"} THEN {1} ELSE {},
     memory |-> mem, name |-> 1, others |-> IF subject = "machine" THEN {2} ELSE {},
     elsewhere |-> "no", snaps |-> sn]
FirstLists == {<<>>} \cup (IF subject = "snapshot" THEN {} ELSE {<<Device(0)>>, <<Device(1)>>})
FirstMemories == IF subject = "filesystem" THEN BOOLEAN ELSE {TRUE}
FirstSnapshots == {{}} \cup (IF ~HasSnapshots THEN {} ELSE
                      {{[id |-> 1, kind |-> "internal", state |-> k]} : k \in {"shutoff", "running"}})

LEMMA MachinesAre ==
    Machines = {m \in {FirstMachine(st, p, l, mem, sn) :
                            st \in {"shutoff", "running", "paused"}, p \in BOOLEAN,
                            l \in FirstLists, mem \in FirstMemories, sn \in FirstSnapshots} :
                    m.persistent \/ Active(m)}
BY SMT DEF Machines, FirstMachine, FirstLists, FirstMemories, FirstSnapshots

LEMMA FirstMachineTyped ==
    ASSUME NEW m \in Machines
    PROVE  m \in Machine
<1>1. PICK st \in {"shutoff", "running", "paused"}, p \in BOOLEAN, l \in FirstLists,
           mem \in FirstMemories, sn \in FirstSnapshots : m = FirstMachine(st, p, l, mem, sn)
  BY MachinesAre, SMT
<1>2. l \in Seq(Devices)
  <2>1. \A v \in {0, 1} : Device(v) \in Devices
    BY DEF Device, Devices
  <2>2. \A e \in Devices : <<e>> \in Seq(Devices)
    OBVIOUS
  <2>3. l = <<>> \/ l = <<Device(0)>> \/ l = <<Device(1)>>
    BY DEF FirstLists
  <2>4. QED
    BY <2>1, <2>2, <2>3, EmptyList
<1>3. mem \in BOOLEAN
  BY DEF FirstMemories
<1>4. sn \in SUBSET Snapshots
  BY DEF FirstSnapshots, Snapshots, Kinds, States
<1>5. st \in States
  BY DEF States
<1> HIDE DEF FirstLists, FirstMemories, FirstSnapshots
<1>6. FirstMachine(st, p, l, mem, sn) \in Machine
  BY <1>2, <1>3, <1>4, <1>5, EmptyList DEF FirstMachine, Machine
<1>7. QED
  BY <1>1, <1>6

LEMMA InitTyped == Init => TypeOK
<1>1. SUFFICES ASSUME Init
               PROVE  TypeOK
  OBVIOUS
<1>2. machine \in Machine
  BY <1>1, FirstMachineTyped DEF Init
<1>3. row \in Row /\ shown \subseteq Nat
  BY <1>1, <1>2, ViewTyped, NamesTyped DEF Init
<1>4. listings \in Seq(SUBSET Nat)
  BY <1>1, EmptySeq DEF Init
<1>5. dialog = NoDialog /\ job = NoJob /\ subject \in Subjects /\ unread = FALSE /\ disturbed = FALSE
  BY <1>1 DEF Init
<1>6. opened \in 0 .. MaxDialogs /\ fails \in 0 .. MaxFails /\ outside \in 0 .. MaxOutside
  BY <1>1, Bounds DEF Init
<1>7. QED
  BY <1>2, <1>3, <1>4, <1>5, <1>6 DEF TypeOK

\* The job of a state, and its plan.
LEMMA JobTyped ==
    ASSUME TypeOK, job # NoJob
    PROVE  /\ job \in Job /\ job.d \in Dialog /\ job.step \in Nat \ {0} /\ job.doc \in Seq(Devices)
           /\ job.d.op \in OpsOf(subject) /\ subject \in AllSubjects
           /\ Len(Calls) \in Nat
           /\ ~IsDone => /\ job.step \in 1 .. Len(Calls) /\ IsCall(Call)
                         /\ subject \notin {"snapshot", "machine"} =>
                                Call.do \in DeviceDo \cup StorageDo \cup {"get", "read"}
<1>1. /\ job \in Job /\ job.d \in Dialog /\ job.step \in Nat \ {0} /\ job.doc \in Seq(Devices)
      /\ job.d.op \in OpsOf(subject) /\ subject \in AllSubjects
  BY Bounds DEF TypeOK, Job
<1>2. Len(Calls) \in Nat
  BY <1>1, PlanTyped DEF Calls
<1>3. ASSUME ~IsDone
      PROVE  /\ job.step \in 1 .. Len(Calls) /\ IsCall(Call)
             /\ subject \notin {"snapshot", "machine"} => Call.do \in DeviceDo \cup StorageDo \cup {"get", "read"}
  <2>1. job.step \in 1 .. Len(Calls)
    BY <1>1, <1>2, <1>3 DEF IsDone
  <2>2. QED
    BY <1>1, <2>1, PlanTyped DEF Calls, Call
<1>4. QED
  BY <1>1, <1>2, <1>3

\* What a call answers.
LEMMA AnswerTyped ==
    ASSUME TypeOK, job # NoJob, ~IsDone
    PROVE  /\ Answer.m \in Machine
           /\ Call.do \in IdleDo => Answer.m = machine
           /\ Call.do \in IdleDo \cup StorageDo \cup DeviceDo => Answer.m.snaps = machine.snaps
<1>1. machine \in Machine
  BY DEF TypeOK
<1>2. QED
  BY <1>1, JobTyped, DoesTyped DEF IsCall, Answer

LEMMA ListsKeepsTypes ==
    ASSUME TypeOK, Lists
    PROVE  listings' \in Seq(SUBSET Nat) /\ unread' \in BOOLEAN
<1>1. SnapshotNames(machine) \in SUBSET Nat
  BY NamesTyped DEF TypeOK
<1>2. listings \in Seq(SUBSET Nat) /\ unread \in BOOLEAN
  BY DEF TypeOK
<1>3. Append(listings, SnapshotNames(machine)) \in Seq(SUBSET Nat)
  BY <1>1, <1>2, AppendProperties
<1>4. QED
  BY <1>2, <1>3 DEF Lists

LEMMA OpenTyped == ASSUME TypeOK, Open PROVE TypeOK'
<1>1. dialog' \in Dialog /\ dialog'.op \in OpsOf(subject)
  BY DialogsTyped DEF Open
<1>2. opened' \in 0 .. MaxDialogs
  BY Bounds DEF Open, TypeOK
<1>3. disturbed' \in BOOLEAN
  BY DEF Open
<1>4. QED
  BY <1>1, <1>2, <1>3 DEF Open, TypeOK, OpsOf, SnapshotOps, MachineOps

LEMMA SaveTyped == ASSUME TypeOK, Save PROVE TypeOK'
<1>1. dialog \in Dialog /\ dialog.op \in OpsOf(subject)
  BY DEF Save, TypeOK
<1>2. job' \in Job /\ job'.d = dialog
  BY <1>1, EmptyList DEF Save, Job
<1>3. QED
  BY <1>1, <1>2 DEF Save, TypeOK, OpsOf

LEMMA CancelTyped == ASSUME TypeOK, Cancel PROVE TypeOK'
BY DEF Cancel, TypeOK, OpsOf

LEMMA AfterFailureTyped ==
    ASSUME NEW d \in Dialog, NEW step
    PROVE  AfterFailure(d, step) \in Dialog /\ AfterFailure(d, step).op = d.op
BY DEF AfterFailure, Dialog

LEMMA FailTyped ==
    ASSUME TypeOK, job # NoJob, Fail
    PROVE  /\ job' \in Job \cup {NoJob} /\ dialog' \in Dialog \cup {NoDialog}
           /\ dialog' # NoDialog => dialog'.op \in OpsOf(subject)
           /\ job' = NoJob
<1>1. CASE dialog = NoDialog
  <2>1. dialog # job.d
    BY <1>1, JobTyped, Bounds
  <2>2. QED
    BY <1>1, <2>1 DEF Fail
<1>2. CASE dialog # NoDialog
  BY <1>2, AfterFailureTyped DEF Fail, TypeOK
<1>3. QED
  BY <1>1, <1>2

LEMMA SnapshotsChangeTyped ==
    ASSUME TypeOK, NEW read, SnapshotsChange(read)
    PROVE  unread' \in BOOLEAN
BY DEF SnapshotsChange

\* The plan goes on with its next call.
LEMMA NextCall ==
    ASSUME TypeOK, CallReturns
    PROVE  job' \in Job /\ job'.d = job.d /\ job'.step = job.step + 1 /\ job' # NoJob
<1>1. job # NoJob
  BY DEF CallReturns
<1>2. InactiveOf(machine) \in Seq(Devices)
  BY ListsTyped DEF TypeOK
<1> DEFINE doc == IF Call.do = "get" THEN InactiveOf(machine) ELSE job.doc
<1>3. doc \in Seq(Devices) /\ job \in Job
  BY <1>1, <1>2, JobTyped
<1>4. job' = [job EXCEPT !.step = job.step + 1, !.doc = doc]
  BY DEF CallReturns
<1> HIDE DEF doc
<1>5. job.step + 1 \in Nat \ {0}
  BY <1>1, JobTyped
<1>6. job' = [d |-> job.d, step |-> job.step + 1, doc |-> doc]
  BY <1>3, <1>4 DEF Job
<1>7. QED
  BY <1>1, <1>3, <1>5, <1>6, JobTyped, Bounds DEF Job

LEMMA CallReturnsTyped == ASSUME TypeOK, CallReturns PROVE TypeOK'
<1>1. job # NoJob /\ ~IsDone
  BY DEF CallReturns
<1>2. machine' \in Machine
  BY <1>1, AnswerTyped DEF CallReturns
<1>3. row' \in Row
  BY ViewTyped DEF CallReturns, TypeOK
<1>4. listings' \in Seq(SUBSET Nat) /\ unread' \in BOOLEAN
  <2>1. CASE Call.do \in {"read", "listSnapshots"}
    BY <2>1, ListsKeepsTypes DEF CallReturns
  <2>2. CASE Call.do \notin {"read", "listSnapshots"}
    BY <2>2, SnapshotsChangeTyped DEF CallReturns, TypeOK
  <2>3. QED
    BY <2>1, <2>2
<1>5. job' \in Job /\ job'.d = job.d
  BY NextCall
<1>6. /\ dialog' \in Dialog \cup {NoDialog}
      /\ dialog' # NoDialog => dialog'.op \in OpsOf(subject)
  BY DEF CallReturns, TypeOK
<1>7. UNCHANGED <<subject, shown, disturbed, opened, fails, outside>>
  BY DEF CallReturns
<1>8. job'.d.op \in OpsOf(subject)
  BY <1>1, <1>5, JobTyped
<1>9. QED
  BY <1>2, <1>3, <1>4, <1>5, <1>6, <1>7, <1>8 DEF TypeOK, OpsOf

LEMMA CallIsRefusedTyped == ASSUME TypeOK, CallIsRefused PROVE TypeOK'
<1>1. machine' \in Machine
  BY AnswerTyped DEF CallIsRefused
<1>2. unread' \in BOOLEAN
  BY SnapshotsChangeTyped DEF CallIsRefused
<1>3. QED
  BY <1>1, <1>2, FailTyped DEF CallIsRefused, TypeOK, OpsOf

\* What an accident leaves of a machine.
LEMMA HalfDoneTyped ==
    ASSUME TypeOK, job # NoJob, ~IsDone, NEW m \in {machine} \cup HalfDone
    PROVE  /\ m \in Machine
           /\ m \in {machine} \/ Call.do \in {"add", "edit", "remove", "deleteSnapshots"}
           /\ Call.do \in DeviceDo => m.snaps = machine.snaps
<1>1. machine \in Machine /\ job.d \in Dialog
  BY JobTyped DEF TypeOK
<1>2. CASE m = machine
  BY <1>1, <1>2
<1>3. CASE m \in HalfDone
  <2>1. CASE Call.do \in {"add", "edit", "remove"}
    <3>1. m = virtXml(machine, Call.do, [update |-> TRUE, noDefine |-> TRUE], job.d).m
      BY <1>3, <2>1 DEF HalfDone
    <3>2. QED
      BY <1>1, <2>1, <3>1, virtXmlTyped
  <2>2. CASE Call.do = "deleteSnapshots"
    <3>1. PICK some \in SUBSET Call.opt.names :
            m = [machine EXCEPT !.snaps = {x \in machine.snaps : x.id \notin some}]
      BY <1>3, <2>2 DEF HalfDone
    <3>2. m \in Machine
      BY <1>1, <3>1 DEF Machine
    <3>3. QED
      BY <2>2, <3>2 DEF DeviceDo
  <2>3. CASE Call.do \notin {"add", "edit", "remove", "deleteSnapshots"}
    BY <1>3, <2>3 DEF HalfDone
  <2>4. QED
    BY <2>1, <2>2, <2>3
<1>4. QED
  BY <1>2, <1>3

LEMMA CallFailsTyped == ASSUME TypeOK, CallFails PROVE TypeOK'
<1>1. job # NoJob /\ ~IsDone /\ machine' \in {machine} \cup HalfDone
  BY DEF CallFails
<1>2. machine' \in Machine
  BY <1>1, HalfDoneTyped
<1>3. unread' \in BOOLEAN
  BY SnapshotsChangeTyped DEF CallFails
<1>4. /\ job' \in Job \cup {NoJob} /\ dialog' \in Dialog \cup {NoDialog}
      /\ dialog' # NoDialog => dialog'.op \in OpsOf(subject)
      /\ job' # NoJob => job'.d.op \in OpsOf(subject)
  <2>1. CASE Call.do = "deleteStorage"
    <3>1. job' = [job EXCEPT !.step = job.step + 1] /\ dialog' = dialog
      BY <2>1 DEF CallFails
    <3>2. job' \in Job /\ job'.d = job.d
      BY <1>1, <3>1, JobTyped DEF Job
    <3>3. QED
      BY <1>1, <3>1, <3>2, JobTyped DEF TypeOK
  <2>2. CASE Call.do # "deleteStorage"
    BY <1>1, <2>2, FailTyped DEF CallFails
  <2>3. QED
    BY <2>1, <2>2
<1>5. fails' \in 0 .. MaxFails
  BY Bounds DEF CallFails, TypeOK
<1>6. UNCHANGED <<subject, row, shown, listings, disturbed, opened, outside>>
  BY DEF CallFails
<1>7. QED
  BY <1>2, <1>3, <1>4, <1>5, <1>6 DEF TypeOK, OpsOf

LEMMA FinishTyped == ASSUME TypeOK, Finish PROVE TypeOK'
BY DEF Finish, TypeOK, OpsOf

LEMMA domainGetTyped == ASSUME TypeOK, domainGet PROVE TypeOK'
<1>1. row' \in Row
  BY ViewTyped DEF domainGet, TypeOK
<1>2. listings' \in Seq(SUBSET Nat) /\ unread' \in BOOLEAN
  BY ListsKeepsTypes DEF domainGet
<1>3. QED
  BY <1>1, <1>2 DEF domainGet, TypeOK, OpsOf

LEMMA snapshotGetAllTyped == ASSUME TypeOK, snapshotGetAll PROVE TypeOK'
<1>1. PICK i \in DOMAIN listings :
        /\ shown' = listings[i] \cap SnapshotNames(machine)
        /\ listings' = Without(listings, i)
        /\ UNCHANGED <<subject, machine, row, dialog, job, unread, disturbed, opened, fails, outside>>
  BY DEF snapshotGetAll
<1>2. listings \in Seq(SUBSET Nat) /\ SnapshotNames(machine) \subseteq Nat
  BY NamesTyped DEF TypeOK
<1>3. listings' \in Seq(SUBSET Nat) /\ shown' \subseteq Nat
  BY <1>1, <1>2, WithoutTyped
<1>4. QED
  BY <1>1, <1>3 DEF TypeOK, OpsOf

LEMMA snapshotGetAllFailsTyped == ASSUME TypeOK, snapshotGetAllFails PROVE TypeOK'
<1>1. PICK i \in DOMAIN listings :
        /\ fails < MaxFails /\ fails' = fails + 1
        /\ shown' = {} /\ unread' = TRUE
        /\ listings' = Without(listings, i)
        /\ UNCHANGED <<subject, machine, row, dialog, job, disturbed, opened, outside>>
  BY DEF snapshotGetAllFails
<1>2. listings \in Seq(SUBSET Nat)
  BY DEF TypeOK
<1>3. listings' \in Seq(SUBSET Nat)
  BY <1>1, <1>2, WithoutTyped
<1>4. fails' \in 0 .. MaxFails
  BY <1>1, Bounds DEF TypeOK
<1>5. QED
  BY <1>1, <1>3, <1>4 DEF TypeOK, OpsOf

LEMMA PowerChangedTyped ==
    ASSUME NEW m \in PowerChanged, machine \in Machine
    PROVE  m \in Machine
<1>1. CASE machine.state = "shutoff"
  <2>1. m = [machine EXCEPT !.state = "running", !.live = machine.inactive]
    BY <1>1 DEF PowerChanged, Active
  <2>2. QED
    BY <2>1, ListsTyped DEF Machine, States
<1>2. CASE Active(machine)
  <2>1. \/ m = Stopped(machine)
        \/ \E s \in {"running", "paused"} \ {machine.state} : m = [machine EXCEPT !.state = s]
    BY <1>2 DEF PowerChanged, Active
  <2>2. QED
    BY <2>1, StoppedTyped DEF Machine, States
<1>3. CASE machine.state = "gone"
  BY <1>3 DEF PowerChanged, Active
<1>4. QED
  BY <1>1, <1>2, <1>3 DEF Machine, States, Active

LEMMA ConfigEditedTyped ==
    ASSUME NEW m \in ConfigEdited, machine \in Machine
    PROVE  m \in Machine
<1>1. PICK k \in DOMAIN machine.inactive :
        \/ m = [machine EXCEPT !.inactive = Without(machine.inactive, k)]
        \/ m = [machine EXCEPT !.inactive[k].v = 1 - machine.inactive[k].v]
  BY DEF ConfigEdited
<1>2. machine.inactive \in Seq(Devices)
  BY ListsTyped
<1>3. CASE m = [machine EXCEPT !.inactive = Without(machine.inactive, k)]
  <2>1. Without(machine.inactive, k) \in Seq(Devices)
    BY <1>2, WithoutTyped
  <2>2. QED
    BY <1>3, <2>1 DEF Machine
<1>4. CASE m = [machine EXCEPT !.inactive[k].v = 1 - machine.inactive[k].v]
  <2> DEFINE v == 1 - machine.inactive[k].v
             l == [machine.inactive EXCEPT ![k].v = v]
  <2>1. v \in {0, 1}
    <3>1. machine.inactive[k].v \in {0, 1}
      BY <1>2, Elements
    <3>2. QED
      BY <3>1
  <2>2. m = [machine EXCEPT !.inactive = l]
    BY <1>4
  <2> HIDE DEF v
  <2>3. l \in Seq(Devices)
    BY <1>2, <2>1, SetToTyped
  <2> HIDE DEF l
  <2>4. QED
    BY <2>2, <2>3 DEF Machine
<1>5. QED
  BY <1>1, <1>3, <1>4

LEMMA SnapshotsEditedTyped ==
    ASSUME NEW m \in SnapshotsEdited, machine \in Machine
    PROVE  m \in Machine
<1>1. \/ \E x \in machine.snaps : m = [machine EXCEPT !.snaps = machine.snaps \ {x}]
      \/ \E i \in Ids : m = [machine EXCEPT !.snaps = machine.snaps \cup {Snapshot(machine, i, "internal")}]
  BY DEF SnapshotsEdited
<1>2. \A i \in Ids : Snapshot(machine, i, "internal") \in Snapshots
  BY IdsAreNumbers DEF Snapshot, Snapshots, Kinds, Machine
<1>3. QED
  BY <1>1, <1>2 DEF Machine

LEMMA OutsideTyped == ASSUME TypeOK, Outside PROVE TypeOK'
<1>1. machine' \in Machine
  BY PowerChangedTyped, ConfigEditedTyped, SnapshotsEditedTyped DEF Outside, TypeOK
<1>2. unread' \in BOOLEAN
  BY SnapshotsChangeTyped DEF Outside
<1>3. outside' \in 0 .. MaxOutside
  BY Bounds DEF Outside, TypeOK
<1>4. QED
  BY <1>1, <1>2, <1>3 DEF Outside, TypeOK, OpsOf

LEMMA StepKeepsTypes == TypeOK /\ [Next]_vars => TypeOK'
<1>1. SUFFICES ASSUME TypeOK, [Next]_vars
               PROVE  TypeOK'
  OBVIOUS
<1>2. CASE Open \/ Save \/ Cancel \/ CallReturns \/ CallIsRefused \/ CallFails
  BY <1>1, <1>2, OpenTyped, SaveTyped, CancelTyped, CallReturnsTyped, CallIsRefusedTyped, CallFailsTyped
<1>3. CASE Finish \/ domainGet \/ snapshotGetAll \/ snapshotGetAllFails \/ Outside
  BY <1>1, <1>3, FinishTyped, domainGetTyped, snapshotGetAllTyped, snapshotGetAllFailsTyped, OutsideTyped
<1>4. CASE UNCHANGED vars
  BY <1>1, <1>4 DEF vars, TypeOK, OpsOf
<1>5. QED
  BY <1>1, <1>2, <1>3, <1>4 DEF Next

(* The machine, the row, the dialog, the plan and the readings have their  *)
(* types; a dialog and a plan are of the subject, so that every call of a   *)
(* plan is one that libvirt or virt-xml knows (PlanTyped).                  *)
THEOREM TypeCorrect == Spec => []TypeOK
BY InitTyped, StepKeepsTypes, PTL DEF Spec

-----------------------------------------------------------------------------
(* The snapshots that the page shows *)

(* The plan under way reads the snapshots next.                            *)
JobListsNext == job # NoJob /\ ~IsDone /\ Call.do = "listSnapshots"

(* As long as nothing has changed behind the readings: what each of them    *)
(* has listed is what there is, and what is shown too, unless a reading is  *)
(* under way or the next call.                                              *)
ShownInv ==
    ~unread => /\ \A i \in DOMAIN listings : listings[i] = SnapshotNames(machine)
               /\ listings = <<>> /\ ~JobListsNext => shown = SnapshotNames(machine)

LEMMA PlanStays ==
    ASSUME subject' = subject, job'.d = job.d
    PROVE  Calls' = Calls
BY DEF Calls, Plan

LEMMA NamesStay ==
    ASSUME machine'.snaps = machine.snaps
    PROVE  SnapshotNames(machine)' = SnapshotNames(machine)
BY DEF SnapshotNames

\* A plan that changes the snapshots and then reads them does so at once.
LEMMA ReadsAtOnce ==
    ASSUME TypeOK, job # NoJob, ~IsDone, Answer.ok, job.d.op \in {"create", "remove"},
           Call.do \notin {"read", "listSnapshots"}, Answer.m.snaps # machine.snaps
    PROVE  job.step = 1 /\ Len(Calls) = 3 /\ Calls[2] = ListStep
<1>1. subject \in {"snapshot", "machine"}
  BY JobTyped, AnswerTyped DEF IdleDo
<1>2. subject = "snapshot"
  BY <1>1, JobTyped DEF OpsOf, MachineOps
<1>3. Call.do \notin IdleDo
  BY AnswerTyped
<1>4. \E a : Calls = <<a, ListStep, ReadStep>>
  <2>1. CASE job.d.op = "create"
    <3>1. Calls # <<Step("refuse", NoOptions)>>
      <4>1. SUFFICES ASSUME Calls = <<Step("refuse", NoOptions)>>
                     PROVE  FALSE
        OBVIOUS
      <4>2. job.step = 1
        BY <4>1, JobTyped
      <4>3. Call = Step("refuse", NoOptions)
        BY <4>1, <4>2 DEF Call
      <4>4. QED
        BY <1>3, <4>3, StepFields DEF IdleDo
    <3>2. QED
      BY <2>1, <3>1, JobTyped, CreatePlan DEF Calls
  <2>2. CASE job.d.op = "remove"
    BY <1>2, <2>2, JobTyped, RemovePlan DEF Calls
  <2>3. QED
    BY <2>1, <2>2
<1>5. ListStep.do = "listSnapshots" /\ ReadStep.do = "read"
  BY StepFields DEF ListStep, ReadStep
<1>6. PICK a : Calls = <<a, ListStep, ReadStep>>
  BY <1>4
<1>7. Len(Calls) = 3 /\ Calls[2] = ListStep /\ Calls[3] = ReadStep
  BY <1>6
<1>8. job.step \in 1 .. 3
  BY <1>7, JobTyped
<1>9. job.step # 2 /\ job.step # 3
  BY <1>5, <1>7 DEF Call
<1>10. QED
  BY <1>7, <1>8, <1>9

LEMMA ListsKeepsShown ==
    ASSUME TypeOK, ShownInv, Lists, HasSnapshots, machine'.snaps = machine.snaps
    PROVE  ShownInv'
<1>1. listings \in Seq(SUBSET Nat) /\ SnapshotNames(machine) \in SUBSET Nat
  BY NamesTyped DEF TypeOK
<1>2. listings' = Append(listings, SnapshotNames(machine)) /\ unread' = (unread /\ listings # <<>>)
  BY DEF Lists
<1>3. /\ listings' # <<>> /\ DOMAIN listings' = 1 .. Len(listings) + 1
      /\ \A i \in 1 .. Len(listings) : listings'[i] = listings[i]
      /\ listings'[Len(listings) + 1] = SnapshotNames(machine)
  <2>1. /\ listings' \in Seq(SUBSET Nat) /\ listings' # <<>> /\ Len(listings') = Len(listings) + 1
        /\ \A i \in 1 .. Len(listings) : listings'[i] = listings[i]
        /\ listings'[Len(listings) + 1] = SnapshotNames(machine)
    BY <1>1, <1>2, AppendProperties
  <2>2. QED
    BY <2>1, LenProperties
<1>4. Len(listings) \in Nat /\ DOMAIN listings = 1 .. Len(listings)
  BY <1>1, LenProperties
<1>5. ASSUME ~unread', NEW i \in DOMAIN listings'
      PROVE  listings'[i] = SnapshotNames(machine)
  <2>1. CASE unread
    <3>1. listings = <<>>
      BY <1>2, <1>5, <2>1
    <3>2. Len(listings) = 0
      BY <3>1
    <3>3. QED
      BY <1>3, <3>2
  <2>2. CASE ~unread
    <3>1. \A k \in DOMAIN listings : listings[k] = SnapshotNames(machine)
      BY <2>2 DEF ShownInv
    <3>2. i \in 1 .. Len(listings) \/ i = Len(listings) + 1
      BY <1>3, <1>4
    <3>3. QED
      BY <1>3, <1>4, <3>1, <3>2
  <2>3. QED
    BY <2>1, <2>2
<1>6. SnapshotNames(machine)' = SnapshotNames(machine)
  BY NamesStay
<1>7. QED
  BY <1>3, <1>5, <1>6 DEF ShownInv

LEMMA CallReturnsKeepsShown == ASSUME TypeOK, ShownInv, CallReturns PROVE ShownInv'
<1>1. job # NoJob /\ ~IsDone /\ Answer.ok /\ machine' = Answer.m /\ shown' = shown /\ subject' = subject
  BY DEF CallReturns
<1>2. CASE Call.do \in {"read", "listSnapshots"}
  <2>1. Lists /\ machine' = machine
    BY <1>1, <1>2, AnswerTyped DEF CallReturns, IdleDo
  <2>2. CASE HasSnapshots
    BY <2>1, <2>2, ListsKeepsShown
  <2>3. CASE ~HasSnapshots
    <3>1. listings' = listings /\ unread' = unread
      BY <2>1, <2>3 DEF Lists
    <3>2. ~JobListsNext
      BY <1>1, <2>3, JobTyped DEF JobListsNext, HasSnapshots, DeviceDo, StorageDo
    <3>3. SnapshotNames(machine)' = SnapshotNames(machine)
      BY <2>1, NamesStay
    <3>4. QED
      BY <1>1, <3>1, <3>2, <3>3 DEF ShownInv
  <2>4. QED
    BY <2>2, <2>3
<1>3. CASE Call.do \notin {"read", "listSnapshots"}
  <2>1. SnapshotsChange(job.d.op \in {"create", "remove"}) /\ listings' = listings
    BY <1>3 DEF CallReturns
  <2>2. ~JobListsNext
    BY <1>3 DEF JobListsNext
  <2>3. CASE machine'.snaps = machine.snaps
    <3>1. unread' => unread
      BY <2>1, <2>3 DEF SnapshotsChange, TypeOK
    <3>2. unread => unread'
      BY <2>1 DEF SnapshotsChange, TypeOK
    <3>3. SnapshotNames(machine)' = SnapshotNames(machine)
      BY <2>3, NamesStay
    <3>4. QED
      BY <1>1, <2>1, <2>2, <3>2, <3>3 DEF ShownInv
  <2>4. CASE machine'.snaps # machine.snaps
    <3>1. SUFFICES ASSUME ~unread'
                   PROVE  listings' = <<>> /\ JobListsNext'
      <4>1. listings' = <<>> => DOMAIN listings' = {}
        OBVIOUS
      <4>2. QED
        BY <3>1, <4>1 DEF ShownInv
    <3>2. listings = <<>> /\ job.d.op \in {"create", "remove"}
      BY <2>1, <2>4, <3>1 DEF SnapshotsChange
    <3>3. job.step = 1 /\ Len(Calls) = 3 /\ Calls[2] = ListStep
      BY <1>1, <1>3, <2>4, <3>2, ReadsAtOnce
    <3>4. job'.step = 2 /\ job'.d = job.d /\ job' # NoJob
      BY <3>3, NextCall
    <3>5. Calls' = Calls
      BY <1>1, <3>4, PlanStays
    <3>6. QED
      BY <2>1, <3>2, <3>3, <3>4, <3>5, StepFields DEF JobListsNext, IsDone, Call, ListStep
  <2>5. QED
    BY <2>3, <2>4
<1>4. QED
  BY <1>2, <1>3

\* A step that leaves the snapshots, the readings and the next call alone.
LEMMA OthersKeepShown ==
    ASSUME ShownInv, machine'.snaps = machine.snaps, UNCHANGED <<shown, listings>>,
           unread => unread', JobListsNext => JobListsNext'
    PROVE  ShownInv'
<1>1. SnapshotNames(machine)' = SnapshotNames(machine)
  BY NamesStay
<1>2. QED
  BY <1>1 DEF ShownInv

\* A change that is not going to be read is noted.
LEMMA UnreadKeepsShown ==
    ASSUME TypeOK, ShownInv, SnapshotsChange(FALSE), UNCHANGED <<shown, listings>>,
           JobListsNext => JobListsNext'
    PROVE  ShownInv'
<1>1. CASE machine'.snaps = machine.snaps
  BY <1>1, OthersKeepShown DEF SnapshotsChange
<1>2. CASE machine'.snaps # machine.snaps
  BY <1>2 DEF SnapshotsChange, ShownInv
<1>3. QED
  BY <1>1, <1>2

LEMMA ListingIsNeverRefused ==
    ASSUME TypeOK, job # NoJob, ~IsDone, ~Answer.ok
    PROVE  ~JobListsNext
BY DEF JobListsNext, Answer, Does

LEMMA StepKeepsShown == TypeOK /\ ShownInv /\ [Next]_vars => ShownInv'
<1>1. SUFFICES ASSUME TypeOK, ShownInv, [Next]_vars
               PROVE  ShownInv'
  OBVIOUS
<1>2. CASE Open \/ Cancel \/ UNCHANGED vars
  <2>1. UNCHANGED <<subject, machine, job, shown, listings, unread>>
    BY <1>2 DEF Open, Cancel, vars
  <2>2. JobListsNext => JobListsNext'
    <3>1. Calls' = Calls
      BY <2>1, PlanStays
    <3>2. QED
      BY <2>1, <3>1 DEF JobListsNext, IsDone, Call
  <2>3. QED
    BY <1>1, <2>1, <2>2, OthersKeepShown
<1>3. CASE Save
  BY <1>1, <1>3, OthersKeepShown DEF Save, JobListsNext
<1>4. CASE CallReturns
  BY <1>1, <1>4, CallReturnsKeepsShown
<1>5. CASE CallIsRefused
  <2>1. ~JobListsNext
    BY <1>1, <1>5, ListingIsNeverRefused DEF CallIsRefused
  <2>2. QED
    BY <1>1, <1>5, <2>1, UnreadKeepsShown DEF CallIsRefused
<1>6. CASE CallFails
  <2>1. ~JobListsNext
    BY <1>6 DEF CallFails, JobListsNext
  <2>2. QED
    BY <1>1, <1>6, <2>1, UnreadKeepsShown DEF CallFails
<1>7. CASE Finish
  <2>1. ~JobListsNext
    BY <1>7 DEF Finish, JobListsNext
  <2>2. QED
    BY <1>1, <1>7, <2>1, OthersKeepShown DEF Finish
<1>8. CASE domainGet
  <2>1. UNCHANGED <<subject, machine, job, shown>> /\ Lists
    BY <1>8 DEF domainGet
  <2>2. CASE HasSnapshots
    BY <1>1, <2>1, <2>2, ListsKeepsShown
  <2>3. CASE ~HasSnapshots
    <3>1. UNCHANGED <<listings, unread>>
      BY <2>1, <2>3 DEF Lists
    <3>2. Calls' = Calls
      BY <2>1, PlanStays
    <3>3. JobListsNext => JobListsNext'
      BY <2>1, <3>2 DEF JobListsNext, IsDone, Call
    <3>4. QED
      BY <1>1, <2>1, <3>1, <3>3, OthersKeepShown
  <2>4. QED
    BY <2>2, <2>3
<1>9. CASE snapshotGetAll
  <2>1. PICK i \in DOMAIN listings :
          /\ shown' = listings[i] \cap SnapshotNames(machine)
          /\ listings' = Without(listings, i)
          /\ UNCHANGED <<machine, unread>>
    BY <1>9 DEF snapshotGetAll
  <2>2. SnapshotNames(machine)' = SnapshotNames(machine)
    BY <2>1, NamesStay
  <2>3. ASSUME ~unread
        PROVE  /\ shown' = SnapshotNames(machine)
               /\ \A k \in DOMAIN listings' : listings'[k] = SnapshotNames(machine)
    <3>1. \A k \in DOMAIN listings : listings[k] = SnapshotNames(machine)
      BY <1>1, <2>3 DEF ShownInv
    <3>2. listings \in Seq(SUBSET Nat) /\ Len(listings) \in Nat /\ DOMAIN listings = 1 .. Len(listings)
      BY <1>1, LenProperties DEF TypeOK
    <3>3. /\ listings' \in Seq(SUBSET Nat) /\ Len(listings') = Len(listings) - 1
          /\ \A k \in 1 .. Len(listings) - 1 : listings'[k] = IF k < i THEN listings[k] ELSE listings[k + 1]
      BY <2>1, <3>2, WithoutTyped
    <3>4. DOMAIN listings' = 1 .. Len(listings) - 1
      BY <3>3, LenProperties
    <3>5. \A k \in 1 .. Len(listings) - 1 : k \in DOMAIN listings /\ k + 1 \in DOMAIN listings
      BY <3>2
    <3>6. QED
      BY <2>1, <3>1, <3>3, <3>4, <3>5
  <2>4. QED
    BY <2>1, <2>2, <2>3 DEF ShownInv
<1>10. CASE snapshotGetAllFails
  BY <1>10 DEF snapshotGetAllFails, ShownInv
<1>11. CASE Outside
  <2>1. UNCHANGED <<subject, job, shown, listings>> /\ SnapshotsChange(FALSE)
    BY <1>11 DEF Outside
  <2>2. Calls' = Calls
    BY <2>1, PlanStays
  <2>3. JobListsNext => JobListsNext'
    BY <2>1, <2>2 DEF JobListsNext, IsDone, Call
  <2>4. QED
    BY <1>1, <2>1, <2>3, UnreadKeepsShown
<1>12. QED
  BY <1>1, <1>2, <1>3, <1>4, <1>5, <1>6, <1>7, <1>8, <1>9, <1>10, <1>11 DEF Next

(* The page shows the snapshots that there are, once no plan and no reading *)
(* is under way, unless something was changed behind its readings           *)
(* (snapshotGetAll, and snapshotCreate and snapshotDelete, which read).     *)
THEOREM SnapshotsAreShown == Spec => []SnapshotsShownExist
<1>1. Init => TypeOK /\ ShownInv
  <2>1. Init => ShownInv
    BY DEF Init, ShownInv
  <2>2. QED
    BY <2>1, InitTyped
<1>2. TypeOK /\ ShownInv /\ [Next]_vars => (TypeOK /\ ShownInv)'
  BY StepKeepsTypes, StepKeepsShown
<1>3. ShownInv => SnapshotsShownExist
  BY DEF ShownInv, SnapshotsShownExist, JobListsNext
<1>4. QED
  BY <1>1, <1>2, <1>3, PTL DEF Spec

-----------------------------------------------------------------------------
(* What has been asked for has come true *)

(* What plan d has done to machine m when its next call is the one with the *)
(* number step, if nobody interferes.                                       *)
Progress(m, d, step) ==
    CASE d.op = "create" ->
            step > 1 => \E s \in m.snaps : s.id = d.id /\ (s.kind = "diskOnly" => d.vm.state # "running")
      [] d.op = "remove" -> step > 1 => d.id \notin SnapshotNames(m)
      [] d.op = "revert" -> step > 1 => \E s \in m.snaps : s.id = d.id /\ s.state = m.state
      [] d.op = "delete" -> /\ d.vm.state = "shutoff" => ~Active(m)
                            /\ step >= Undefining(d) => ~Active(m)
                            /\ step > Undefining(d) => m.state = "gone"
      [] d.op = "rename" -> step > 1 => m.name = d.new
      [] d.op = "clone" -> step > 1 => d.new \in m.others
      [] d.op = "migrate" ->
            IF step = 1 THEN m.persistent = d.vm.persistent
            ELSE /\ ~Active(m)
                 /\ m.elsewhere = IF d.always THEN "permanent" ELSE "temporary"
                 /\ m.persistent = (d.vm.persistent /\ ~d.always)

(* A dialog that nobody has disturbed was opened for the machine as it is,  *)
(* and stays open, or is closed, while its plan is carried out.             *)
DoneInv ==
    ~disturbed /\ HasSnapshots =>
        /\ job # NoJob => dialog \in {job.d, NoDialog} /\ Progress(machine, job.d, job.step)
        /\ job = NoJob /\ dialog # NoDialog => Progress(machine, dialog, 1)

\* The calls of a plan that only reads change nothing.
LEMMA ReadStepIs ==
    ASSUME TypeOK, job # NoJob, ~IsDone, Call \in {ListStep, ReadStep}
    PROVE  Answer.m = machine
BY AnswerTyped, StepFields DEF ListStep, ReadStep, IdleDo

LEMMA CreateProgress ==
    ASSUME TypeOK, job # NoJob, ~IsDone, Answer.ok, job.d.op = "create",
           Progress(machine, job.d, job.step)
    PROVE  Progress(Answer.m, job.d, job.step + 1)
<1> DEFINE d == job.d
           IsMade(m) == \E s \in m.snaps : s.id = d.id /\ (s.kind = "diskOnly" => d.vm.state # "running")
<1>1. d \in Dialog /\ job.step \in 1 .. Len(Calls) /\ Call = Calls[job.step] /\ machine \in Machine
  BY JobTyped DEF Call, TypeOK
<1>2. job.step > 1 => IsMade(machine)
  BY DEF Progress
<1>3. IsMade(Answer.m)
  <2>1. CASE Calls = <<Step("refuse", NoOptions)>>
    <3>1. job.step = 1
      BY <1>1, <2>1
    <3>2. Call.do = "refuse"
      BY <1>1, <2>1, <3>1, StepFields
    <3>3. QED
      BY <3>2 DEF Answer, Does
  <2>2. ASSUME NEW kind \in Kinds,
               Calls = <<Step("createSnapshot", [kind |-> kind]), ListStep, ReadStep>>,
               kind = "diskOnly" => d.vm.state # "running"
        PROVE  IsMade(Answer.m)
    <3>1. job.step \in 1 .. 3
      BY <1>1, <2>2
    <3>2. CASE job.step = 1
      <4>1. Call.do = "createSnapshot" /\ Call.opt.kind = kind
        BY <1>1, <2>2, <3>2, StepFields
      <4>2. Answer = SnapshotCalls(machine, Call, d)
        BY <4>1 DEF Answer, Does
      <4> DEFINE x == Snapshot(machine, d.id, kind)
      <4>3. Answer.m = [machine EXCEPT !.snaps = machine.snaps \cup {x}]
        BY <4>1, <4>2 DEF SnapshotCalls
      <4>4. x.id = d.id /\ x.kind = kind
        BY DEF Snapshot
      <4> HIDE DEF x
      <4>5. x \in Answer.m.snaps
        BY <1>1, <4>3 DEF Machine
      <4>6. QED
        BY <2>2, <4>4, <4>5
    <3>3. CASE job.step \in {2, 3}
      <4>1. Call \in {ListStep, ReadStep}
        BY <1>1, <2>2, <3>3
      <4>2. job.step > 1
        BY <3>3
      <4>3. QED
        BY <1>2, <4>1, <4>2, ReadStepIs
    <3>4. QED
      BY <3>1, <3>2, <3>3
  <2>3. QED
    BY <1>1, <2>1, <2>2, CreatePlan DEF Calls
<1>4. QED
  BY <1>3 DEF Progress

LEMMA RemoveProgress ==
    ASSUME TypeOK, job # NoJob, ~IsDone, Answer.ok, job.d.op = "remove", subject = "snapshot",
           Progress(machine, job.d, job.step)
    PROVE  Progress(Answer.m, job.d, job.step + 1)
<1> DEFINE d == job.d
<1>1. d \in Dialog /\ job.step \in 1 .. Len(Calls) /\ Call = Calls[job.step] /\ machine \in Machine
  BY JobTyped DEF Call, TypeOK
<1>2. job.step > 1 => d.id \notin SnapshotNames(machine)
  BY DEF Progress
<1>3. Calls = <<Step("deleteSnapshots", [names |-> {d.id}]), ListStep, ReadStep>>
  BY <1>1, RemovePlan DEF Calls
<1>4. job.step \in 1 .. 3
  BY <1>1, <1>3
<1>5. CASE job.step = 1
  <2>1. Call.do = "deleteSnapshots" /\ Call.opt.names = {d.id}
    BY <1>1, <1>3, <1>5, StepFields
  <2>2. Answer = SnapshotCalls(machine, Call, d)
    BY <2>1 DEF Answer, Does
  <2>3. Answer.m = [machine EXCEPT !.snaps = {x \in machine.snaps : x.id \notin {d.id}}]
    BY <2>1, <2>2 DEF SnapshotCalls
  <2>4. \A x \in Answer.m.snaps : x.id # d.id
    BY <1>1, <2>3 DEF Machine
  <2>5. QED
    BY <2>4 DEF Progress, SnapshotNames
<1>6. CASE job.step \in {2, 3}
  <2>1. Call \in {ListStep, ReadStep}
    BY <1>1, <1>3, <1>6
  <2>2. job.step > 1
    BY <1>6
  <2>3. QED
    BY <1>2, <2>1, <2>2, ReadStepIs DEF Progress
<1>7. QED
  BY <1>4, <1>5, <1>6

LEMMA RevertProgress ==
    ASSUME TypeOK, job # NoJob, ~IsDone, Answer.ok, job.d.op = "revert",
           Progress(machine, job.d, job.step)
    PROVE  Progress(Answer.m, job.d, job.step + 1)
<1> DEFINE d == job.d
           IsThere(m) == \E s \in m.snaps : s.id = d.id /\ s.state = m.state
<1>1. d \in Dialog /\ job.step \in 1 .. Len(Calls) /\ Call = Calls[job.step] /\ machine \in Machine
  BY JobTyped DEF Call, TypeOK
<1>2. job.step > 1 => IsThere(machine)
  BY DEF Progress
<1>3. Calls = <<Step("revert", [force |-> d.failed]), ReadStep>>
  BY <1>1, RevertPlan DEF Calls
<1>4. job.step \in 1 .. 2
  BY <1>1, <1>3
<1>5. CASE job.step = 1
  <2>1. Call.do = "revert"
    BY <1>1, <1>3, <1>5, StepFields
  <2>2. Answer = SnapshotCalls(machine, Call, d)
    BY <2>1 DEF Answer, Does
  <2> DEFINE back == {y \in machine.snaps : y.id = d.id /\ (y.state = "shutoff" => machine.persistent)}
             to == {x.state : x \in back}
             state == CHOOSE x \in to : TRUE
  <2>3. Answer = IF to = {} THEN [ok |-> FALSE, m |-> machine] ELSE [ok |-> TRUE, m |-> InState(machine, state)]
    BY <2>1, <2>2 DEF SnapshotCalls
  <2>4. to # {} /\ Answer.m = InState(machine, state)
    BY <2>3
  <2>5. state \in to
    BY <2>4
  <2>6. PICK y \in back : state = y.state
    BY <2>5
  <2> HIDE DEF state
  <2>7. state \in States /\ (state = "shutoff" => machine.persistent) /\ y \in machine.snaps /\ y.id = d.id
    BY <1>1, <2>6 DEF Machine, Snapshots
  <2>8. Answer.m.state = state /\ Answer.m.snaps = machine.snaps
    BY <1>1, <2>4, <2>7, InStateTyped
  <2>9. QED
    BY <2>6, <2>7, <2>8 DEF Progress
<1>6. CASE job.step = 2
  BY <1>1, <1>2, <1>3, <1>6, ReadStepIs DEF Progress
<1>7. QED
  BY <1>4, <1>5, <1>6

LEMMA RenameProgress ==
    ASSUME TypeOK, job # NoJob, ~IsDone, Answer.ok, job.d.op = "rename"
    PROVE  Progress(Answer.m, job.d, job.step + 1)
<1>1. job.d \in Dialog /\ job.step \in 1 .. Len(Calls) /\ Call = Calls[job.step] /\ machine \in Machine
  BY JobTyped DEF Call, TypeOK
<1>2. Calls = <<Step("rename", NoOptions)>>
  BY <1>1, RenamePlan DEF Calls
<1>3. Call.do = "rename"
  BY <1>1, <1>2, StepFields
<1>4. Answer = MachineCalls(machine, Call, job.d)
  BY <1>3 DEF Answer, Does
<1>5. Answer.m = [machine EXCEPT !.name = job.d.new]
  BY <1>3, <1>4 DEF MachineCalls
<1>6. QED
  BY <1>1, <1>5 DEF Progress, Machine

LEMMA CloneProgress ==
    ASSUME TypeOK, job # NoJob, ~IsDone, Answer.ok, job.d.op = "clone"
    PROVE  Progress(Answer.m, job.d, job.step + 1)
<1>1. job.d \in Dialog /\ job.step \in 1 .. Len(Calls) /\ Call = Calls[job.step] /\ machine \in Machine
  BY JobTyped DEF Call, TypeOK
<1>2. Calls = <<Step("clone", NoOptions)>>
  BY <1>1, ClonePlan DEF Calls
<1>3. Call.do = "clone"
  BY <1>1, <1>2, StepFields
<1>4. Answer = MachineCalls(machine, Call, job.d)
  BY <1>3 DEF Answer, Does
<1>5. Answer.m = [machine EXCEPT !.others = machine.others \cup {job.d.new}]
  BY <1>3, <1>4 DEF MachineCalls
<1>6. QED
  BY <1>1, <1>5 DEF Progress, Machine

LEMMA MigrateProgress ==
    ASSUME TypeOK, job # NoJob, ~IsDone, Answer.ok, job.d.op = "migrate",
           Progress(machine, job.d, job.step)
    PROVE  Progress(Answer.m, job.d, job.step + 1)
<1> DEFINE d == job.d
           there == [machine EXCEPT !.elsewhere = IF Call.opt.persistDest THEN "permanent" ELSE "temporary"]
<1>1. d \in Dialog /\ job.step \in 1 .. Len(Calls) /\ Call = Calls[job.step] /\ machine \in Machine
  BY JobTyped DEF Call, TypeOK
<1>2. Calls = <<Step("migrate", [persistDest |-> d.always, undefineSource |-> d.always]), ReadStep>>
  BY <1>1, MigratePlan DEF Calls
<1>3. job.step \in 1 .. 2
  BY <1>1, <1>2
<1>4. CASE job.step = 1
  <2>1. Call.do = "migrate" /\ Call.opt.persistDest = d.always /\ Call.opt.undefineSource = d.always
    BY <1>1, <1>2, <1>4, StepFields
  <2>2. Answer = MachineCalls(machine, Call, d)
    BY <2>1 DEF Answer, Does
  <2>3. Answer.m = IF d.always THEN Gone(there) ELSE Stopped(there)
    BY <2>1, <2>2 DEF MachineCalls
  <2>4. /\ there \in Machine /\ there.persistent = machine.persistent
        /\ there.elsewhere = IF d.always THEN "permanent" ELSE "temporary"
    BY <1>1, <2>1 DEF Machine
  <2>5. machine.persistent = d.vm.persistent /\ machine.persistent \in BOOLEAN /\ d.always \in BOOLEAN
    BY <1>1, <1>4 DEF Progress, Machine, Dialog
  <2> HIDE DEF there
  <2>6. CASE d.always
    <3>1. Answer.m = Gone(there) /\ Answer.m.state = "gone" /\ Answer.m.persistent = FALSE
          /\ Answer.m.elsewhere = "permanent"
      BY <2>3, <2>4, <2>6, GoneTyped
    <3>2. Answer.m.persistent = (d.vm.persistent /\ ~d.always)
      BY <2>5, <2>6, <3>1
    <3>3. ~Active(Answer.m)
      BY <3>1 DEF Active
    <3>4. job.step + 1 # 1
      BY <1>4
    <3>5. QED
      BY <2>6, <3>1, <3>2, <3>3, <3>4 DEF Progress
  <2>7. CASE ~d.always
    <3>1. /\ Answer.m = Stopped(there) /\ Answer.m.state \in {"shutoff", "gone"}
          /\ Answer.m.persistent = machine.persistent /\ Answer.m.elsewhere = "temporary"
      BY <2>3, <2>4, <2>7, StoppedTyped
    <3>2. Answer.m.persistent = (d.vm.persistent /\ ~d.always)
      BY <2>5, <2>7, <3>1
    <3>3. QED
      BY <1>4, <2>7, <3>1, <3>2 DEF Progress, Active
  <2>8. QED
    BY <2>6, <2>7
<1>5. CASE job.step = 2
  <2>1. Answer.m = machine
    BY <1>1, <1>2, <1>5, ReadStepIs
  <2>2. job.step + 1 # 1 /\ job.step # 1
    BY <1>5
  <2>3. QED
    BY <2>1, <2>2 DEF Progress
<1>6. QED
  BY <1>3, <1>4, <1>5

LEMMA DeleteProgress ==
    ASSUME TypeOK, job # NoJob, ~IsDone, Answer.ok, job.d.op = "delete",
           Progress(machine, job.d, job.step)
    PROVE  Progress(Answer.m, job.d, job.step + 1)
<1> DEFINE d == job.d
<1>1. d \in Dialog /\ job.step \in 1 .. Len(Calls) /\ Call = Calls[job.step] /\ machine \in Machine
  BY JobTyped DEF Call, TypeOK
<1>2. Undefining(d) \in {2, 3} /\ (Undefining(d) = 2 <=> d.vm.state = "shutoff") /\ job.step \in Nat \ {0}
  BY <1>1, JobTyped DEF Undefining
<1>3. /\ d.vm.state = "shutoff" => ~Active(machine)
      /\ job.step >= Undefining(d) => ~Active(machine)
      /\ job.step > Undefining(d) => machine.state = "gone"
  BY DEF Progress
<1>4. SUFFICES /\ d.vm.state = "shutoff" => ~Active(Answer.m)
               /\ job.step + 1 >= Undefining(d) => ~Active(Answer.m)
               /\ job.step + 1 > Undefining(d) => Answer.m.state = "gone"
  BY DEF Progress
<1>5. CASE job.step = 1
  <2>0. Call = Step("deleteSnapshots", [names |-> d.snapshots])
    BY <1>1, <1>5, DeletePlan DEF Calls
  <2>1. Call.do = "deleteSnapshots"
    BY <2>0, StepFields
  <2>2. Answer.m = [machine EXCEPT !.snaps = {x \in machine.snaps : x.id \notin Call.opt.names}]
    BY <2>1 DEF Answer, Does, SnapshotCalls
  <2>3. Answer.m.state = machine.state
    BY <1>1, <2>2 DEF Machine
  <2>4. QED
    BY <1>2, <1>3, <1>5, <2>3 DEF Active
<1>6. CASE job.step = 2 /\ Undefining(d) = 3
  <2>0. Call = Step("destroy", NoOptions)
    BY <1>1, <1>6, DeletePlan DEF Calls
  <2>1. Call.do = "destroy"
    BY <2>0, StepFields
  <2>2. Answer = MachineCalls(machine, Call, d)
    BY <2>1 DEF Answer, Does
  <2>3. Answer.m = Stopped(machine)
    BY <2>1, <2>2 DEF MachineCalls
  <2>4. ~Active(Answer.m)
    BY <1>1, <2>3, StoppedTyped DEF Active
  <2>5. ~(job.step + 1 > Undefining(d))
    BY <1>6
  <2>6. QED
    BY <2>4, <2>5
<1>7. CASE job.step = Undefining(d)
  <2>1. Call = Step("undefine", [wasLive |-> d.vm.state # "shutoff"])
    BY <1>1, <1>7, DeletePlan DEF Calls
  <2>2. Call.do = "undefine" /\ Call.opt.wasLive = (d.vm.state # "shutoff")
    BY <2>1, StepFields
  <2>3. Answer = MachineCalls(machine, Call, d)
    BY <2>2 DEF Answer, Does
  <2>4. ~Active(machine)
    BY <1>2, <1>3, <1>7
  <2>5. Answer.m.state = "gone"
    <3>1. CASE machine.state = "gone"
      <4>1. Answer = [ok |-> Call.opt.wasLive, m |-> machine] \/ Answer = [ok |-> TRUE, m |-> Gone(machine)]
        BY <2>2, <2>3, <2>4, <3>1 DEF MachineCalls
      <4>2. Answer.m \in {machine, Gone(machine)}
        BY <4>1
      <4>3. QED
        BY <1>1, <3>1, <4>2, GoneTyped
    <3>2. CASE machine.state # "gone" /\ machine.persistent
      BY <1>1, <2>2, <2>3, <2>4, <3>2, GoneTyped DEF MachineCalls
    <3>3. CASE machine.state # "gone" /\ ~machine.persistent
      BY <2>2, <2>3, <3>3 DEF MachineCalls
    <3>4. QED
      BY <3>1, <3>2, <3>3
  <2>6. QED
    BY <2>5 DEF Active
<1>8. CASE job.step > Undefining(d)
  <2>1. job.step \in Undefining(d) + 1 .. Len(Plan(d))
    BY <1>1, <1>2, <1>8 DEF Calls
  <2>2. Call.do \in {"close", "deleteStorage"}
    BY <1>1, <2>1, DeletePlan DEF Calls
  <2>3. Answer.m = machine \/ Answer.m = [machine EXCEPT !.images = machine.images \ {d.img}]
    BY <2>2 DEF Answer, Does
  <2>4. Answer.m.state = machine.state
    BY <1>1, <2>3 DEF Machine
  <2>5. QED
    BY <1>2, <1>3, <1>8, <2>4 DEF Active
<1>9. QED
  BY <1>2, <1>5, <1>6, <1>7, <1>8

\* A call that returns brings the plan one step further.
LEMMA CallMakesProgress ==
    ASSUME TypeOK, job # NoJob, ~IsDone, Answer.ok, HasSnapshots, Progress(machine, job.d, job.step)
    PROVE  Progress(Answer.m, job.d, job.step + 1)
<1>1. (job.d.op \in SnapshotOps /\ subject = "snapshot") \/ job.d.op \in MachineOps
  BY JobTyped DEF HasSnapshots, OpsOf
<1>2. CASE job.d.op \in SnapshotOps /\ subject = "snapshot"
  BY <1>2, CreateProgress, RemoveProgress, RevertProgress DEF SnapshotOps
<1>3. CASE job.d.op \in MachineOps
  BY <1>3, DeleteProgress, RenameProgress, CloneProgress, MigrateProgress DEF MachineOps
<1>4. QED
  BY <1>1, <1>2, <1>3

\* Only a deletion of the machine deletes images, last of all; and the calls of a
\* migration and of a deletion change the machine only when they succeed, apart
\* from its snapshots.
LEMMA StepsOfThePlans ==
    ASSUME TypeOK, job # NoJob, ~IsDone, HasSnapshots
    PROVE  /\ (job.d.op \in SnapshotOps /\ subject = "snapshot") \/ job.d.op \in MachineOps
           /\ Call.do = "deleteStorage" => job.d.op = "delete" /\ job.step > Undefining(job.d)
           /\ job.d.op = "migrate" /\ Call.do # "read" => job.step = 1 /\ Call.do = "migrate"
           /\ job.d.op = "migrate" /\ Call.do = "read" => Answer.ok
           /\ job.d.op = "delete" =>
                Call.do \in {"deleteSnapshots", "destroy", "undefine", "close", "deleteStorage"}
<1> DEFINE d == job.d
<1>1. d \in Dialog /\ job.step \in 1 .. Len(Calls) /\ Call = Calls[job.step] /\ machine \in Machine
  BY JobTyped DEF Call, TypeOK
<1>2. (d.op \in SnapshotOps /\ subject = "snapshot") \/ d.op \in MachineOps
  BY JobTyped DEF HasSnapshots, OpsOf
<1> DEFINE Images == Call.do = "deleteStorage"
<1>3. CASE d.op = "create"
  <2>1. CASE Calls = <<Step("refuse", NoOptions)>>
    BY <1>1, <1>2, <1>3, <2>1, StepFields
  <2>2. ASSUME NEW kind \in Kinds, Calls = <<Step("createSnapshot", [kind |-> kind]), ListStep, ReadStep>>
        PROVE  ~Images
    <3>1. Call \in {Step("createSnapshot", [kind |-> kind]), ListStep, ReadStep}
      BY <1>1, <2>2
    <3>2. QED
      BY <3>1, StepFields DEF ListStep, ReadStep
  <2>3. QED
    BY <1>1, <1>2, <1>3, <2>1, <2>2, CreatePlan DEF Calls
<1>4. CASE d.op = "remove" /\ subject = "snapshot"
  <2>1. Call \in {Step("deleteSnapshots", [names |-> {d.id}]), ListStep, ReadStep}
    BY <1>1, <1>4, RemovePlan DEF Calls
  <2>2. ~Images
    BY <2>1, StepFields DEF ListStep, ReadStep
  <2>3. QED
    BY <1>2, <1>4, <2>2
<1>5. CASE d.op = "revert"
  <2>1. Call \in {Step("revert", [force |-> d.failed]), ReadStep}
    BY <1>1, <1>5, RevertPlan DEF Calls
  <2>2. ~Images
    BY <2>1, StepFields DEF ReadStep
  <2>3. QED
    BY <1>2, <1>5, <2>2
<1>6. CASE d.op \in {"rename", "clone"}
  <2>1. Call \in {Step("rename", NoOptions), Step("clone", NoOptions)}
    BY <1>1, <1>6, RenamePlan, ClonePlan DEF Calls
  <2>2. ~Images
    BY <2>1, StepFields
  <2>3. QED
    BY <1>2, <1>6, <2>2
<1>7. CASE d.op = "migrate"
  <2> DEFINE first == Step("migrate", [persistDest |-> d.always, undefineSource |-> d.always])
  <2>1. Calls = <<first, ReadStep>>
    BY <1>1, <1>7, MigratePlan DEF Calls
  <2> HIDE DEF first
  <2>2. (job.step = 1 /\ Call = first) \/ (job.step = 2 /\ Call = ReadStep)
    <3>1. job.step \in 1 .. 2
      BY <1>1, <2>1
    <3>2. QED
      BY <1>1, <2>1, <3>1
  <2>3. first.do = "migrate" /\ ReadStep.do = "read"
    BY StepFields DEF first, ReadStep
  <2>4. Call.do = "read" => Answer.ok
    BY DEF Answer, Does
  <2>5. QED
    BY <1>2, <1>7, <2>2, <2>3, <2>4
<1>8. CASE d.op = "delete"
  <2>1. Undefining(d) \in {2, 3} /\ job.step \in 1 .. Len(Plan(d))
    BY <1>1 DEF Undefining, Calls
  <2>2. CASE job.step = 1
    <3>1. Call = Step("deleteSnapshots", [names |-> d.snapshots])
      BY <1>1, <1>8, <2>2, DeletePlan DEF Calls
    <3>2. Call.do = "deleteSnapshots"
      BY <3>1, StepFields
    <3>3. QED
      BY <1>2, <1>8, <3>2
  <2>3. CASE job.step = 2 /\ Undefining(d) = 3
    <3>1. Call = Step("destroy", NoOptions)
      BY <1>1, <1>8, <2>3, DeletePlan DEF Calls
    <3>2. Call.do = "destroy"
      BY <3>1, StepFields
    <3>3. QED
      BY <1>2, <1>8, <3>2
  <2>4. CASE job.step = Undefining(d)
    <3>1. Call = Step("undefine", [wasLive |-> d.vm.state # "shutoff"])
      BY <1>1, <1>8, <2>4, DeletePlan DEF Calls
    <3>2. Call.do = "undefine"
      BY <3>1, StepFields
    <3>3. QED
      BY <1>2, <1>8, <3>2
  <2>5. CASE job.step > Undefining(d)
    <3>1. job.step \in Undefining(d) + 1 .. Len(Plan(d))
      BY <2>1, <2>5
    <3>2. Call.do \in {"close", "deleteStorage"}
      BY <1>1, <1>8, <3>1, DeletePlan DEF Calls
    <3>3. QED
      BY <1>2, <1>8, <2>5, <3>2
  <2>6. QED
    BY <2>1, <2>2, <2>3, <2>4, <2>5
<1>9. QED
  BY <1>2, <1>3, <1>4, <1>5, <1>6, <1>7, <1>8 DEF SnapshotOps, MachineOps

\* A dialog can be saved again when the machine still is in its state.
LEMMA MayStartAgain ==
    ASSUME TypeOK, job # NoJob, Progress(machine, job.d, job.step),
           job.d.op \in SnapshotOps \cup MachineOps,
           job.d.op = "migrate" => job.step = 1,
           NEW m, job.d.op \in {"delete", "migrate"} => m.state = machine.state /\ m.persistent = machine.persistent,
           NEW d, d.op = job.d.op, d.vm = job.d.vm
    PROVE  Progress(m, d, 1)
<1>1. Undefining(d) \in {2, 3}
  BY DEF Undefining
<1>2. CASE d.op \in {"create", "remove", "revert", "rename", "clone"}
  <2>1. ~(1 > 1)
    OBVIOUS
  <2>2. CASE d.op = "create"
    BY <2>1, <2>2 DEF Progress
  <2>3. CASE d.op = "remove"
    BY <2>1, <2>3 DEF Progress
  <2>4. CASE d.op = "revert"
    BY <2>1, <2>4 DEF Progress
  <2>5. CASE d.op = "rename"
    BY <2>1, <2>5 DEF Progress
  <2>6. CASE d.op = "clone"
    BY <2>1, <2>6 DEF Progress
  <2>7. QED
    BY <1>2, <2>2, <2>3, <2>4, <2>5, <2>6
<1>3. CASE d.op = "delete"
  <2>1. d.vm.state = "shutoff" => ~Active(machine)
    BY <1>3 DEF Progress
  <2>2. d.vm.state = "shutoff" => ~Active(m)
    BY <1>3, <2>1 DEF Active
  <2>3. ~(1 >= Undefining(d)) /\ ~(1 > Undefining(d))
    BY <1>1
  <2>4. QED
    BY <1>3, <2>2, <2>3 DEF Progress
<1>4. CASE d.op = "migrate"
  BY <1>4 DEF Progress
<1>5. QED
  BY <1>2, <1>3, <1>4 DEF SnapshotOps, MachineOps

\* What a call that is refused leaves of a machine.
LEMMA RefusalLeaves ==
    ASSUME TypeOK, job # NoJob, ~IsDone, ~Answer.ok, HasSnapshots, job.d.op \in {"delete", "migrate"}
    PROVE  Answer.m.state = machine.state /\ Answer.m.persistent = machine.persistent
<1>1. machine \in Machine
  BY DEF TypeOK
<1>2. Call.do \in {"deleteSnapshots", "destroy", "undefine", "migrate"}
  BY StepsOfThePlans DEF Answer, Does
<1>3. CASE Call.do = "deleteSnapshots"
  <2>1. Answer.m = [machine EXCEPT !.snaps = {x \in machine.snaps : x.id \notin Call.opt.names}]
    BY <1>3 DEF Answer, Does, SnapshotCalls
  <2>2. QED
    BY <1>1, <2>1 DEF Machine
<1>4. CASE Call.do \in {"destroy", "undefine", "migrate"}
  <2>1. Answer = MachineCalls(machine, Call, job.d)
    BY <1>4 DEF Answer, Does
  <2>2. Answer.m = machine
    BY <1>4, <2>1 DEF MachineCalls
  <2>3. QED
    BY <2>2
<1>5. QED
  BY <1>2, <1>3, <1>4

\* A failed plan leaves its dialog, if it is still open, to be saved again.
LEMMA FailLeavesDialog ==
    ASSUME TypeOK, job # NoJob, ~IsDone, HasSnapshots, Fail, dialog \in {job.d, NoDialog},
           Progress(machine, job.d, job.step), job.d.op = "migrate" => job.step = 1,
           job.d.op \in {"delete", "migrate"} =>
                machine'.state = machine.state /\ machine'.persistent = machine.persistent
    PROVE  job' = NoJob /\ (dialog' # NoDialog => Progress(machine', dialog', 1))
<1>1. job' = NoJob
  BY DEF Fail
<1>2. job.d \in Dialog /\ job.d.op \in SnapshotOps \cup MachineOps
  BY JobTyped, StepsOfThePlans
<1>3. CASE dialog = job.d
  <2>1. dialog' = AfterFailure(job.d, job.step)
    BY <1>3 DEF Fail
  <2>2. dialog'.op = job.d.op /\ dialog'.vm = job.d.vm
    BY <1>2, <2>1 DEF AfterFailure, Dialog
  <2>3. Progress(machine', dialog', 1)
    BY <1>2, <2>2, MayStartAgain
  <2>4. QED
    BY <1>1, <2>3
<1>4. CASE dialog = NoDialog
  <2>1. dialog # job.d
    BY <1>2, <1>4, Bounds
  <2>2. QED
    BY <1>1, <1>4, <2>1 DEF Fail
<1>5. QED
  BY <1>3, <1>4

\* Opening: the dialog has the machine as it is.
LEMMA OpenKeepsDone == ASSUME TypeOK, DoneInv, Open PROVE DoneInv'
<1>1. SUFFICES ASSUME ~disturbed', HasSnapshots'
               PROVE  /\ job' # NoJob => dialog' \in {job'.d, NoDialog} /\ Progress(machine', job'.d, job'.step)
                      /\ job' = NoJob /\ dialog' # NoDialog => Progress(machine', dialog', 1)
  BY DEF DoneInv
<1>2. job = NoJob /\ row = View(machine) /\ UNCHANGED <<subject, machine, row, job>>
  BY <1>1 DEF Open
<1>3. HasSnapshots
  BY <1>1, <1>2 DEF HasSnapshots
<1>4. dialog' \in Dialogs
  BY DEF Open
<1>5. dialog' \in Dialog /\ dialog'.op \in OpsOf(subject) /\ dialog'.vm = View(machine)
  BY <1>2, <1>3, <1>4, DialogsTyped
<1>6. dialog'.op \in SnapshotOps \cup MachineOps
  BY <1>3, <1>5 DEF HasSnapshots, OpsOf
<1>7. dialog'.vm.state = machine.state /\ dialog'.vm.persistent = machine.persistent
  BY <1>5 DEF View
<1> DEFINE d == dialog'
<1>8. Progress(machine, d, 1)
  <2> HIDE DEF d
  <2>1. ~(1 > 1) /\ Undefining(d) \in {2, 3}
    BY DEF Undefining
  <2>2. CASE d.op \in {"create", "remove", "revert"}
    <3>1. CASE d.op = "create"
      BY <2>1, <3>1 DEF Progress
    <3>2. CASE d.op = "remove"
      BY <2>1, <3>2 DEF Progress
    <3>3. CASE d.op = "revert"
      BY <2>1, <3>3 DEF Progress
    <3>4. QED
      BY <2>2, <3>1, <3>2, <3>3
  <2>3. CASE d.op = "rename"
    BY <2>1, <2>3 DEF Progress
  <2>4. CASE d.op = "clone"
    BY <2>1, <2>4 DEF Progress
  <2>5. CASE d.op = "delete"
    <3>1. d.vm.state = "shutoff" => ~Active(machine)
      BY <1>7 DEF Active, d
    <3>2. ~(1 >= Undefining(d)) /\ ~(1 > Undefining(d))
      BY <2>1
    <3>3. QED
      BY <2>5, <3>1, <3>2 DEF Progress
  <2>6. CASE d.op = "migrate"
    BY <1>7, <2>6 DEF Progress, d
  <2>7. QED
    BY <1>6, <2>2, <2>3, <2>4, <2>5, <2>6 DEF SnapshotOps, MachineOps, d
<1>9. QED
  BY <1>2, <1>8

LEMMA CallReturnsKeepsDone == ASSUME TypeOK, DoneInv, CallReturns PROVE DoneInv'
<1>1. SUFFICES ASSUME ~disturbed', HasSnapshots'
               PROVE  /\ job' # NoJob => dialog' \in {job'.d, NoDialog} /\ Progress(machine', job'.d, job'.step)
                      /\ job' = NoJob /\ dialog' # NoDialog => Progress(machine', dialog', 1)
  BY DEF DoneInv
<1>2. /\ ~disturbed /\ subject' = subject /\ job # NoJob /\ ~IsDone /\ Answer.ok
      /\ machine' = Answer.m /\ dialog' \in {dialog, NoDialog}
  BY <1>1 DEF CallReturns
<1>3. HasSnapshots
  BY <1>1, <1>2 DEF HasSnapshots
<1>4. dialog \in {job.d, NoDialog} /\ Progress(machine, job.d, job.step)
  BY <1>2, <1>3 DEF DoneInv
<1>5. Progress(machine', job.d, job.step + 1)
  BY <1>2, <1>3, <1>4, CallMakesProgress
<1>6. job'.d = job.d /\ job'.step = job.step + 1 /\ job' # NoJob
  BY NextCall
<1>7. QED
  BY <1>2, <1>4, <1>5, <1>6

LEMMA CallIsRefusedKeepsDone == ASSUME TypeOK, DoneInv, CallIsRefused PROVE DoneInv'
<1>1. SUFFICES ASSUME ~disturbed', HasSnapshots'
               PROVE  /\ job' # NoJob => dialog' \in {job'.d, NoDialog} /\ Progress(machine', job'.d, job'.step)
                      /\ job' = NoJob /\ dialog' # NoDialog => Progress(machine', dialog', 1)
  BY DEF DoneInv
<1>2. /\ ~disturbed /\ subject' = subject /\ job # NoJob /\ ~IsDone /\ ~Answer.ok
      /\ machine' = Answer.m /\ Fail
  BY <1>1 DEF CallIsRefused
<1>3. HasSnapshots
  BY <1>1, <1>2 DEF HasSnapshots
<1>4. dialog \in {job.d, NoDialog} /\ Progress(machine, job.d, job.step)
  BY <1>2, <1>3 DEF DoneInv
<1>5. job.d.op = "migrate" => job.step = 1
  BY <1>2, <1>3, StepsOfThePlans
<1>6. job.d.op \in {"delete", "migrate"} =>
        machine'.state = machine.state /\ machine'.persistent = machine.persistent
  BY <1>2, <1>3, RefusalLeaves
<1>7. QED
  BY <1>2, <1>3, <1>4, <1>5, <1>6, FailLeavesDialog

\* An image that is not deleted is a warning; after any other accident the plan
\* ends, and the dialog may start again.
LEMMA CallFailsKeepsDone == ASSUME TypeOK, DoneInv, CallFails PROVE DoneInv'
<1>1. SUFFICES ASSUME ~disturbed', HasSnapshots'
               PROVE  /\ job' # NoJob => dialog' \in {job'.d, NoDialog} /\ Progress(machine', job'.d, job'.step)
                      /\ job' = NoJob /\ dialog' # NoDialog => Progress(machine', dialog', 1)
  BY DEF DoneInv
<1>2. /\ ~disturbed /\ subject' = subject /\ job # NoJob /\ ~IsDone
      /\ machine' \in {machine} \cup HalfDone /\ Call.do # "read"
  BY <1>1 DEF CallFails
<1>3. HasSnapshots
  BY <1>1, <1>2 DEF HasSnapshots
<1>4. dialog \in {job.d, NoDialog} /\ Progress(machine, job.d, job.step)
  BY <1>2, <1>3 DEF DoneInv
<1>5. job.d.op = "migrate" => job.step = 1
  BY <1>2, <1>3, StepsOfThePlans
<1>6. job.d.op \in {"delete", "migrate"} =>
        machine'.state = machine.state /\ machine'.persistent = machine.persistent
  <2>1. SUFFICES ASSUME job.d.op \in {"delete", "migrate"}, machine' \in HalfDone
                 PROVE  machine'.state = machine.state /\ machine'.persistent = machine.persistent
    BY <1>2
  <2>2. Call.do \in {"deleteSnapshots", "destroy", "undefine", "close", "deleteStorage", "migrate"}
    BY <1>2, <1>3, <2>1, StepsOfThePlans
  <2>3. CASE Call.do = "deleteSnapshots"
    <3>1. PICK some \in SUBSET Call.opt.names :
            machine' = [machine EXCEPT !.snaps = {x \in machine.snaps : x.id \notin some}]
      BY <2>1, <2>3 DEF HalfDone
    <3>2. QED
      BY <3>1 DEF TypeOK, Machine
  <2>4. CASE Call.do # "deleteSnapshots"
    BY <2>1, <2>2, <2>4 DEF HalfDone
  <2>5. QED
    BY <2>3, <2>4
<1>7. CASE Call.do = "deleteStorage"
  <2>1. job' = [job EXCEPT !.step = job.step + 1] /\ dialog' = dialog
    BY <1>7 DEF CallFails
  <2>2. job'.d = job.d /\ job'.step = job.step + 1 /\ job' # NoJob
    BY <1>2, <2>1, JobTyped, Bounds DEF Job
  <2>3. job.d.op = "delete" /\ job.step > Undefining(job.d) /\ job.step \in Nat /\ Undefining(job.d) \in {2, 3}
    BY <1>2, <1>3, <1>7, StepsOfThePlans, JobTyped DEF Undefining
  <2>4. machine.state = "gone"
    BY <1>4, <2>3 DEF Progress
  <2>5. machine'.state = "gone"
    BY <1>6, <2>3, <2>4
  <2>6. Progress(machine', job'.d, job'.step)
    BY <2>2, <2>3, <2>5 DEF Progress, Active
  <2>7. QED
    BY <1>4, <2>1, <2>2, <2>6
<1>8. CASE Call.do # "deleteStorage"
  <2>1. Fail
    BY <1>8 DEF CallFails
  <2>2. QED
    BY <1>2, <1>3, <1>4, <1>5, <1>6, <2>1, FailLeavesDialog
<1>9. QED
  BY <1>7, <1>8

LEMMA FinishKeepsDone == ASSUME TypeOK, DoneInv, Finish PROVE DoneInv'
<1>1. SUFFICES ASSUME ~disturbed', HasSnapshots', dialog' # NoDialog
               PROVE  job' = NoJob /\ Progress(machine', dialog', 1)
  BY DEF DoneInv, Finish
<1>2. ~disturbed /\ subject' = subject /\ machine' = machine /\ job # NoJob /\ job' = NoJob
  BY <1>1 DEF Finish
<1>3. HasSnapshots
  BY <1>1, <1>2 DEF HasSnapshots
<1>4. dialog \in {job.d, NoDialog} /\ Progress(machine, job.d, job.step)
  BY <1>2, <1>3 DEF DoneInv
<1>5. job.d.op = "delete" /\ dialog' = job.d
  BY <1>1, <1>4 DEF Finish
<1>6. Progress(machine, job.d, 1)
  BY <1>2, <1>4, <1>5, MayStartAgain DEF MachineOps
<1>7. QED
  BY <1>2, <1>5, <1>6

\* Whatever changes neither the machine nor the plan.
LEMMA OthersKeepDone ==
    ASSUME TypeOK, DoneInv, UNCHANGED <<subject, machine, job, disturbed>>, dialog' \in {dialog, NoDialog}
    PROVE  DoneInv'
<1>1. HasSnapshots' = HasSnapshots
  BY DEF HasSnapshots
<1>2. QED
  BY <1>1 DEF DoneInv

LEMMA SaveKeepsDone == ASSUME TypeOK, DoneInv, Save PROVE DoneInv'
<1>1. HasSnapshots' = HasSnapshots
  BY DEF Save, HasSnapshots
<1>2. job' # NoJob /\ job'.d = dialog /\ job'.step = 1 /\ dialog' = dialog /\ machine' = machine
      /\ disturbed' = disturbed /\ job = NoJob /\ dialog # NoDialog
  <2>1. job' = [d |-> dialog, step |-> 1, doc |-> <<>>] /\ dialog \in Dialog
    BY DEF Save, TypeOK
  <2>2. job' \in Job
    BY <2>1, EmptyList DEF Job
  <2>3. QED
    BY <2>1, <2>2, Bounds DEF Save
<1>3. ~disturbed /\ HasSnapshots => Progress(machine, dialog, 1)
  BY <1>2 DEF DoneInv
<1>4. ~disturbed' /\ HasSnapshots' => dialog' \in {job'.d, NoDialog} /\ Progress(machine', job'.d, job'.step)
  BY <1>1, <1>2, <1>3
<1>5. QED
  BY <1>2, <1>4 DEF DoneInv

LEMMA StepKeepsDone == TypeOK /\ DoneInv /\ [Next]_vars => DoneInv'
<1>1. SUFFICES ASSUME TypeOK, DoneInv, [Next]_vars
               PROVE  DoneInv'
  OBVIOUS
<1>2. CASE Open
  BY <1>1, <1>2, OpenKeepsDone
<1>3. CASE Save
  BY <1>1, <1>3, SaveKeepsDone
<1>4. CASE CallReturns
  BY <1>1, <1>4, CallReturnsKeepsDone
<1>5. CASE CallIsRefused
  BY <1>1, <1>5, CallIsRefusedKeepsDone
<1>6. CASE CallFails
  BY <1>1, <1>6, CallFailsKeepsDone
<1>7. CASE Finish
  BY <1>1, <1>7, FinishKeepsDone
<1>8. CASE Cancel \/ domainGet \/ snapshotGetAll \/ snapshotGetAllFails \/ UNCHANGED vars
  <2>1. UNCHANGED <<subject, machine, job, disturbed>> /\ dialog' \in {dialog, NoDialog}
    BY <1>8 DEF Cancel, domainGet, snapshotGetAll, snapshotGetAllFails, vars
  <2>2. QED
    BY <1>1, <2>1, OthersKeepDone
<1>9. CASE Outside
  BY <1>9 DEF Outside, DoneInv
<1>10. QED
  BY <1>1, <1>2, <1>3, <1>4, <1>5, <1>6, <1>7, <1>8, <1>9 DEF Next

LEMMA Lengths ==
    ASSUME NEW a, NEW b, NEW c
    PROVE  Len(<<a>>) = 1 /\ Len(<<a, b>>) = 2 /\ Len(<<a, b, c>>) = 3
OBVIOUS

\* A plan that is done has made its progress.
LEMMA ProgressIsSo ==
    ASSUME TypeOK, DoneInv, job # NoJob, IsDone, Undisturbed, subject \in {"snapshot", "machine"}
    PROVE  IsSo(job.d)
<1> DEFINE d == job.d
<1>1. d \in Dialog /\ job.step \in Nat \ {0} /\ Calls = Plan(d) /\ job.step > Len(Calls)
  BY JobTyped DEF Calls, IsDone
<1>2. Progress(machine, d, job.step)
  BY DEF DoneInv, Undisturbed, HasSnapshots
<1>3. (d.op \in SnapshotOps /\ subject = "snapshot") \/ d.op \in MachineOps
  BY JobTyped DEF OpsOf
<1>4. CASE d.op = "create"
  <2>1. Len(Calls) = 1 \/ Len(Calls) = 3
    BY <1>1, <1>4, CreatePlan, Lengths
  <2>2. job.step > 1
    <3>1. CASE Len(Calls) = 1
      BY <1>1, <3>1
    <3>2. CASE Len(Calls) = 3
      BY <1>1, <3>2
    <3>3. QED
      BY <2>1, <3>1, <3>2
  <2>3. QED
    BY <1>2, <1>4, <2>2 DEF Progress, IsSo
<1>5. CASE d.op = "remove" /\ subject = "snapshot"
  <2>1. Len(Calls) = 3
    BY <1>1, <1>5, RemovePlan, Lengths
  <2>2. job.step > 1
    BY <1>1, <2>1
  <2>3. QED
    BY <1>2, <1>5, <2>2 DEF Progress, IsSo
<1>6. CASE d.op = "revert"
  <2>1. Len(Calls) = 2
    BY <1>1, <1>6, RevertPlan, Lengths
  <2>2. job.step > 1
    BY <1>1, <2>1
  <2>3. QED
    BY <1>2, <1>6, <2>2 DEF Progress, IsSo
<1>7. CASE d.op = "delete"
  <2>1. Len(Plan(d)) \in Nat /\ Undefining(d) < Len(Plan(d)) /\ Undefining(d) \in {2, 3}
    BY <1>1, <1>7, DeletePlan DEF Undefining
  <2>2. job.step > Undefining(d)
    BY <1>1, <2>1
  <2>3. QED
    BY <1>2, <1>7, <2>2 DEF Progress, IsSo
<1>8. CASE d.op = "rename"
  <2>1. Len(Calls) = 1
    BY <1>1, <1>8, RenamePlan
  <2>2. job.step > 1
    BY <1>1, <2>1
  <2>3. QED
    BY <1>2, <1>8, <2>2 DEF Progress, IsSo
<1>9. CASE d.op = "clone"
  <2>1. Len(Calls) = 1
    BY <1>1, <1>9, ClonePlan
  <2>2. job.step > 1
    BY <1>1, <2>1
  <2>3. QED
    BY <1>2, <1>9, <2>2 DEF Progress, IsSo
<1>10. CASE d.op = "migrate"
  <2>1. Len(Calls) = 2
    BY <1>1, <1>10, MigratePlan, Lengths
  <2>2. job.step # 1
    BY <1>1, <2>1
  <2>3. QED
    BY <1>2, <1>10, <2>2 DEF Progress, IsSo
<1>11. QED
  BY <1>3, <1>4, <1>5, <1>6, <1>7, <1>8, <1>9, <1>10 DEF SnapshotOps, MachineOps

(* A dialog about snapshots or the whole machine is done only when what it  *)
(* has asked for has come true (snapshot.ts, and domainDelete, onRename,    *)
(* onClone and domainMigrateToUri of domain.ts), unless others interfere.   *)
THEOREM DoneIsDone == Spec => DoneIsSo
<1>1. Init => TypeOK /\ DoneInv
  BY InitTyped DEF Init, DoneInv
<1>2. TypeOK /\ DoneInv /\ [Next]_vars => (TypeOK /\ DoneInv)'
  BY StepKeepsTypes, StepKeepsDone
<1>3. TypeOK /\ DoneInv =>
        [job # NoJob /\ IsDone /\ job' = NoJob /\ Undisturbed /\ subject \in {"snapshot", "machine"}
            => IsSo(job.d)]_vars
  BY ProgressIsSo
<1>4. QED
  BY <1>1, <1>2, <1>3, PTL DEF Spec, DoneIsSo

-----------------------------------------------------------------------------
(* Lists of devices, and the devices that a dialog is about *)

\* A list that gets a device that it does not have.
LEMMA AddedTo ==
    ASSUME NEW list \in Seq(Devices), NEW d \in Dialog, ~Has(list, d.id)
    PROVE  LET new == Append(list, [id |-> d.id, v |-> d.v, img |-> d.img])
           IN  /\ new \in Seq(Devices) /\ Has(new, d.id)
               /\ AreDifferent(list) => AreDifferent(new)
               /\ d.id \in {d.chosen, d.new} => SameOthers(list, new, d)
<1> DEFINE e == [id |-> d.id, v |-> d.v, img |-> d.img]
           new == Append(list, e)
<1>1. e \in Devices /\ e.id = d.id
  BY DEF Devices, Dialog
<1> HIDE DEF e
<1>2. Len(list) \in Nat /\ DOMAIN list = 1 .. Len(list)
  BY LenProperties
<1>3. /\ new \in Seq(Devices) /\ Len(new) = Len(list) + 1
      /\ \A i \in 1 .. Len(list) : new[i] = list[i]
      /\ new[Len(list) + 1] = e
  BY <1>1, AppendProperties
<1> HIDE DEF new
<1>4. DOMAIN new = 1 .. Len(list) + 1
  BY <1>3, LenProperties
<1>5. Has(new, d.id)
  <2>1. Len(list) + 1 \in DOMAIN new /\ new[Len(list) + 1].id = d.id
    BY <1>1, <1>2, <1>3, <1>4
  <2>2. QED
    BY <2>1 DEF Has, IdsOf
<1>6. \A i \in 1 .. Len(list) : new[i].id = list[i].id /\ new[i].id # d.id
  BY <1>2, <1>3 DEF Has, IdsOf
<1>7. ASSUME AreDifferent(list)
      PROVE  AreDifferent(new)
  <2>1. SUFFICES ASSUME NEW i \in 1 .. Len(list) + 1, NEW j \in 1 .. Len(list) + 1, new[i].id = new[j].id
                 PROVE  i = j
    BY <1>4 DEF AreDifferent
  <2>2. CASE i \in 1 .. Len(list) /\ j \in 1 .. Len(list)
    BY <1>2, <1>6, <1>7, <2>1, <2>2 DEF AreDifferent
  <2>3. i = Len(list) + 1 => new[i].id = d.id
    BY <1>1, <1>3
  <2>4. j = Len(list) + 1 => new[j].id = d.id
    BY <1>1, <1>3
  <2>5. QED
    BY <1>2, <1>6, <2>1, <2>2, <2>3, <2>4
<1>8. ASSUME d.id \in {d.chosen, d.new}
      PROVE  SameOthers(list, new, d)
  <2>1. OtherPlaces(new, d) = OtherPlaces(list, d)
    <3>1. Len(list) + 1 \notin OtherPlaces(new, d)
      BY <1>1, <1>3, <1>8 DEF OtherPlaces
    <3>2. \A i \in 1 .. Len(list) : i \in OtherPlaces(new, d) <=> i \in OtherPlaces(list, d)
      BY <1>2, <1>4, <1>6 DEF OtherPlaces
    <3>3. OtherPlaces(new, d) \subseteq 1 .. Len(list) + 1 /\ OtherPlaces(list, d) \subseteq 1 .. Len(list)
      BY <1>2, <1>4 DEF OtherPlaces
    <3>4. \A i \in OtherPlaces(new, d) : i \in 1 .. Len(list)
      BY <1>2, <3>1, <3>3
    <3>5. QED
      BY <3>2, <3>3, <3>4
  <2> DEFINE f == [i \in OtherPlaces(list, d) |-> i]
  <2>2. f \in [OtherPlaces(list, d) -> OtherPlaces(new, d)]
    BY <2>1
  <2>3. \A i \in OtherPlaces(list, d) : new[f[i]] = list[i]
    BY <1>2, <1>3 DEF OtherPlaces
  <2>4. /\ \A i, j \in OtherPlaces(list, d) : i < j => f[i] < f[j]
        /\ \A k \in OtherPlaces(new, d) : \E i \in OtherPlaces(list, d) : f[i] = k
    BY <2>1
  <2> HIDE DEF f
  <2>5. QED
    BY <2>2, <2>3, <2>4 DEF SameOthers
<1>9. QED
  BY <1>3, <1>5, <1>7, <1>8 DEF new, e

\* Lists that differ only in the devices that the dialog is about.
LEMMA SamePlaces ==
    ASSUME NEW old \in Seq(Devices), NEW new \in Seq(Devices), NEW d, Len(new) = Len(old),
           \A i \in 1 .. Len(old) :
                \/ new[i] = old[i]
                \/ new[i].id \in {d.chosen, d.new} /\ old[i].id \in {d.chosen, d.new}
    PROVE  SameOthers(old, new, d)
<1>1. DOMAIN old = 1 .. Len(old) /\ DOMAIN new = 1 .. Len(old)
  BY LenProperties
<1>2. OtherPlaces(new, d) = OtherPlaces(old, d)
  BY <1>1 DEF OtherPlaces
<1>3. \A i \in OtherPlaces(old, d) : new[i] = old[i]
  BY <1>1 DEF OtherPlaces
<1> DEFINE f == [i \in OtherPlaces(old, d) |-> i]
<1>4. f \in [OtherPlaces(old, d) -> OtherPlaces(new, d)]
  BY <1>2
<1>5. \A i \in OtherPlaces(old, d) : new[f[i]] = old[i]
  BY <1>3
<1>6. /\ \A i, j \in OtherPlaces(old, d) : i < j => f[i] < f[j]
      /\ \A k \in OtherPlaces(new, d) : \E i \in OtherPlaces(old, d) : f[i] = k
  BY <1>2
<1> HIDE DEF f
<1>7. QED
  BY <1>4, <1>5, <1>6 DEF SameOthers

LEMMA SameList ==
    ASSUME NEW list \in Seq(Devices), NEW d
    PROVE  SameOthers(list, list, d)
BY SamePlaces

LEMMA SameAgain ==
    ASSUME NEW a, NEW b, NEW c, NEW d, SameOthers(a, b, d), SameOthers(b, c, d)
    PROVE  SameOthers(a, c, d)
<1>1. PICK f \in [OtherPlaces(a, d) -> OtherPlaces(b, d)] :
            /\ \A i \in OtherPlaces(a, d) : b[f[i]] = a[i]
            /\ \A i, j \in OtherPlaces(a, d) : i < j => f[i] < f[j]
            /\ \A k \in OtherPlaces(b, d) : \E i \in OtherPlaces(a, d) : f[i] = k
  BY DEF SameOthers
<1>2. PICK g \in [OtherPlaces(b, d) -> OtherPlaces(c, d)] :
            /\ \A i \in OtherPlaces(b, d) : c[g[i]] = b[i]
            /\ \A i, j \in OtherPlaces(b, d) : i < j => g[i] < g[j]
            /\ \A k \in OtherPlaces(c, d) : \E i \in OtherPlaces(b, d) : g[i] = k
  BY DEF SameOthers
<1> DEFINE h == [i \in OtherPlaces(a, d) |-> g[f[i]]]
<1>3. \A i \in OtherPlaces(a, d) : f[i] \in OtherPlaces(b, d) /\ h[i] = g[f[i]]
  OBVIOUS
<1>4. h \in [OtherPlaces(a, d) -> OtherPlaces(c, d)]
  BY <1>3
<1> HIDE DEF h
<1>5. \A i \in OtherPlaces(a, d) : c[h[i]] = a[i]
  BY <1>1, <1>2, <1>3
<1>6. \A i, j \in OtherPlaces(a, d) : i < j => h[i] < h[j]
  BY <1>1, <1>2, <1>3
<1>7. \A k \in OtherPlaces(c, d) : \E i \in OtherPlaces(a, d) : h[i] = k
  <2>1. SUFFICES ASSUME NEW k \in OtherPlaces(c, d)
                 PROVE  \E i \in OtherPlaces(a, d) : h[i] = k
    OBVIOUS
  <2>2. PICK j \in OtherPlaces(b, d) : g[j] = k
    BY <1>2
  <2>3. PICK i \in OtherPlaces(a, d) : f[i] = j
    BY <1>1
  <2>4. QED
    BY <1>3, <2>2, <2>3
<1>8. QED
  BY <1>4, <1>5, <1>6, <1>7 DEF SameOthers

\* A list that loses a device.
LEMMA LosesOne ==
    ASSUME NEW list \in Seq(Devices), NEW i \in DOMAIN list
    PROVE  LET new == Without(list, i)
           IN  /\ new \in Seq(Devices)
               /\ \A x : ~Has(list, x) => ~Has(new, x)
               /\ AreDifferent(list) => AreDifferent(new) /\ ~Has(new, list[i].id)
               /\ \A k \in DOMAIN new : \E j \in DOMAIN list : new[k] = list[j]
               /\ \A d : list[i].id \in {d.chosen, d.new} => SameOthers(list, new, d)
<1> DEFINE new == Without(list, i)
           from(k) == IF k < i THEN k ELSE k + 1
<1>1. Len(list) \in Nat /\ DOMAIN list = 1 .. Len(list) /\ i \in 1 .. Len(list)
  BY LenProperties
<1>2. /\ new \in Seq(Devices) /\ Len(new) = Len(list) - 1
      /\ \A k \in 1 .. Len(list) - 1 : new[k] = IF k < i THEN list[k] ELSE list[k + 1]
  BY WithoutTyped
<1> HIDE DEF new
<1>3. DOMAIN new = 1 .. Len(list) - 1
  BY <1>2, LenProperties
<1>4. \A k \in DOMAIN new : /\ from(k) \in DOMAIN list /\ from(k) # i /\ new[k] = list[from(k)]
                            /\ \A j \in DOMAIN new : from(j) = from(k) => j = k
  BY <1>1, <1>2, <1>3
<1> HIDE DEF from
<1>5. \A x : ~Has(list, x) => ~Has(new, x)
  BY <1>4 DEF Has, IdsOf
<1>6. AreDifferent(list) => AreDifferent(new)
  <2>1. SUFFICES ASSUME AreDifferent(list), NEW j \in DOMAIN new, NEW k \in DOMAIN new, new[j].id = new[k].id
                 PROVE  j = k
    BY DEF AreDifferent
  <2>2. list[from(j)].id = list[from(k)].id
    BY <1>4, <2>1
  <2>3. from(j) = from(k)
    BY <1>4, <2>1, <2>2 DEF AreDifferent
  <2>4. QED
    BY <1>4, <2>3
<1>7. AreDifferent(list) => ~Has(new, list[i].id)
  BY <1>4 DEF AreDifferent, Has, IdsOf
<1>8. ASSUME NEW d, list[i].id \in {d.chosen, d.new}
      PROVE  SameOthers(list, new, d)
  <2> DEFINE f == [k \in OtherPlaces(list, d) |-> IF k < i THEN k ELSE k - 1]
  <2>1. ASSUME NEW k \in OtherPlaces(list, d)
        PROVE  k \in 1 .. Len(list) /\ f[k] \in OtherPlaces(new, d) /\ new[f[k]] = list[k]
    <3>1. k \in 1 .. Len(list) /\ list[k].id \notin {d.chosen, d.new} /\ k # i
      BY <1>1, <1>8 DEF OtherPlaces
    <3>2. f[k] \in 1 .. Len(list) - 1 /\ new[f[k]] = list[k]
      BY <1>1, <1>2, <3>1
    <3>3. QED
      BY <1>3, <3>1, <3>2 DEF OtherPlaces
  <2>2. f \in [OtherPlaces(list, d) -> OtherPlaces(new, d)]
    BY <2>1
  <2>3. \A j, k \in OtherPlaces(list, d) : j < k => f[j] < f[k]
    <3>1. \A k \in OtherPlaces(list, d) : k # i
      BY <1>8 DEF OtherPlaces
    <3>2. QED
      BY <1>1, <2>1, <3>1
  <2>4. ASSUME NEW k \in OtherPlaces(new, d)
        PROVE  \E j \in OtherPlaces(list, d) : f[j] = k
    <3>1. k \in 1 .. Len(list) - 1 /\ k \in DOMAIN new /\ new[k].id \notin {d.chosen, d.new}
      BY <1>3 DEF OtherPlaces
    <3>2. from(k) \in OtherPlaces(list, d)
      BY <1>4, <3>1 DEF OtherPlaces
    <3>3. f[from(k)] = k
      BY <1>1, <3>1, <3>2 DEF from
    <3>4. QED
      BY <3>2, <3>3
  <2> HIDE DEF f
  <2>5. QED
    BY <2>1, <2>2, <2>3, <2>4 DEF SameOthers
<1>9. \A d : list[i].id \in {d.chosen, d.new} => SameOthers(list, new, d)
  BY <1>8
<1>10. QED
  BY <1>2, <1>4, <1>5, <1>6, <1>7, <1>9 DEF new

\* A device that a list has once is found by its name.
LEMMA FoundByName ==
    ASSUME NEW list \in Seq(Devices), AreDifferent(list), NEW i \in DOMAIN list
    PROVE  PlaceOf(list, list[i].id) = i /\ ValueOf(list, list[i].id) = list[i].v
<1>1. Has(list, list[i].id)
  BY DEF Has, IdsOf
<1>2. /\ PlaceOf(list, list[i].id) \in DOMAIN list
      /\ list[PlaceOf(list, list[i].id)].id = list[i].id
  BY <1>1, PlaceOfIsThere
<1>3. QED
  BY <1>2 DEF AreDifferent, ValueOf

\* A list of which one device gets another setting or name.
LEMMA SetsOne ==
    ASSUME NEW list \in Seq(Devices), NEW i \in DOMAIN list, NEW e \in Devices
    PROVE  LET new == [list EXCEPT ![i] = e]
           IN  /\ new \in Seq(Devices) /\ Has(new, e.id)
               /\ e.id = list[i].id => Names(new) = Names(list) /\ IdsOf(new) = IdsOf(list)
               /\ AreDifferent(list) /\ (e.id = list[i].id \/ ~Has(list, e.id))
                    => AreDifferent(new) /\ ValueOf(new, e.id) = e.v
               /\ \A d : {e.id, list[i].id} \subseteq {d.chosen, d.new} => SameOthers(list, new, d)
<1> DEFINE new == [list EXCEPT ![i] = e]
<1>1. Len(list) \in Nat /\ DOMAIN list = 1 .. Len(list) /\ i \in 1 .. Len(list)
  BY LenProperties
<1>2. /\ new \in Seq(Devices) /\ Len(new) = Len(list)
      /\ \A k \in 1 .. Len(list) : new[k] = IF k = i THEN e ELSE list[k]
  BY <1>1, ExceptSeq
<1>3. DOMAIN new = DOMAIN list
  BY <1>1, <1>2, LenProperties
<1> HIDE DEF new
<1>4. new[i] = e
  BY <1>1, <1>2
<1>5. Has(new, e.id)
  BY <1>3, <1>4 DEF Has, IdsOf
<1>6. ASSUME e.id = list[i].id
      PROVE  Names(new) = Names(list) /\ IdsOf(new) = IdsOf(list)
  <2>1. \A k \in DOMAIN list : new[k].id = list[k].id
    BY <1>1, <1>2, <1>6
  <2>2. QED
    BY <1>3, <2>1 DEF Names, IdsOf
<1>7. ASSUME AreDifferent(list), e.id = list[i].id \/ ~Has(list, e.id)
      PROVE  AreDifferent(new) /\ ValueOf(new, e.id) = e.v
  <2>1. \A k \in DOMAIN list : k # i => new[k].id = list[k].id /\ list[k].id # e.id
    BY <1>1, <1>2, <1>7 DEF AreDifferent, Has, IdsOf
  <2>2. AreDifferent(new)
    BY <1>3, <1>4, <1>7, <2>1 DEF AreDifferent
  <2>3. QED
    BY <1>2, <1>3, <1>4, <2>2, FoundByName
<1>8. ASSUME NEW d, {e.id, list[i].id} \subseteq {d.chosen, d.new}
      PROVE  SameOthers(list, new, d)
  <2>1. \A k \in 1 .. Len(list) :
            new[k] = list[k] \/ (new[k].id \in {d.chosen, d.new} /\ list[k].id \in {d.chosen, d.new})
    BY <1>2, <1>8
  <2>2. QED
    BY <1>2, <2>1, SamePlaces
<1>9. \A d : {e.id, list[i].id} \subseteq {d.chosen, d.new} => SameOthers(list, new, d)
  BY <1>8
<1>10. QED
  BY <1>2, <1>5, <1>6, <1>7, <1>9 DEF new

\* Setting only the value of a device.
LEMMA SetsValue ==
    ASSUME NEW list \in Seq(Devices), NEW i \in DOMAIN list, NEW v \in {0, 1},
           NEW set, set = [list EXCEPT ![i].v = v]
    PROVE  /\ set \in Seq(Devices) /\ Has(set, list[i].id)
           /\ Names(set) = Names(list) /\ IdsOf(set) = IdsOf(list)
           /\ AreDifferent(list) => AreDifferent(set) /\ ValueOf(set, list[i].id) = v
           /\ \A d : list[i].id \in {d.chosen, d.new} => SameOthers(list, set, d)
<1> DEFINE e == [list[i] EXCEPT !.v = v]
<1>1. list[i] \in Devices
  BY Elements
<1>2. e \in Devices /\ e.id = list[i].id /\ e.v = v
  BY <1>1 DEF Devices
<1>3. [list EXCEPT ![i].v = v] = [list EXCEPT ![i] = e]
  OBVIOUS
<1> HIDE DEF e
<1> DEFINE new == [list EXCEPT ![i] = e]
<1>4. /\ new \in Seq(Devices) /\ Has(new, e.id)
      /\ e.id = list[i].id => Names(new) = Names(list) /\ IdsOf(new) = IdsOf(list)
      /\ AreDifferent(list) /\ (e.id = list[i].id \/ ~Has(list, e.id))
            => AreDifferent(new) /\ ValueOf(new, e.id) = e.v
      /\ \A d : {e.id, list[i].id} \subseteq {d.chosen, d.new} => SameOthers(list, new, d)
  BY <1>2, SetsOne
<1> HIDE DEF new
<1>5. new = set
  BY <1>3 DEF new
<1>6. /\ set \in Seq(Devices) /\ Has(set, list[i].id)
      /\ Names(set) = Names(list) /\ IdsOf(set) = IdsOf(list)
      /\ AreDifferent(list) => AreDifferent(set) /\ ValueOf(set, list[i].id) = v
  BY <1>2, <1>4, <1>5
<1>7. \A d : list[i].id \in {d.chosen, d.new} => SameOthers(list, set, d)
  BY <1>2, <1>4, <1>5
<1>8. QED
  BY <1>6, <1>7

\* What the changes of a list that virt-xml and libvirt make come to.
LEMMA ChangeAdds ==
    ASSUME NEW list \in Seq(Devices), NEW d \in Dialog, CanChange(list, "add", d)
    PROVE  /\ Change(list, "add", d) \in Seq(Devices) /\ Has(Change(list, "add", d), d.id)
           /\ AreDifferent(list) => AreDifferent(Change(list, "add", d))
           /\ d.id \in {d.chosen, d.new} => SameOthers(list, Change(list, "add", d), d)
<1>1. ~Has(list, d.id)
  BY DEF CanChange
<1>2. Change(list, "add", d) = Append(list, [id |-> d.id, v |-> d.v, img |-> d.img])
  BY DEF Change
<1>3. QED
  BY <1>1, <1>2, AddedTo

LEMMA ChangeEdits ==
    ASSUME NEW list \in Seq(Devices), NEW d \in Dialog, d.op # "remove", CanChange(list, "edit", d)
    PROVE  /\ Change(list, "edit", d) \in Seq(Devices) /\ Has(Change(list, "edit", d), d.new)
           /\ d.new = d.id => /\ Names(Change(list, "edit", d)) = Names(list)
                              /\ IdsOf(Change(list, "edit", d)) = IdsOf(list)
           /\ AreDifferent(list) /\ (subject = "disk" \/ d.new = d.id)
                => /\ AreDifferent(Change(list, "edit", d))
                   /\ ValueOf(Change(list, "edit", d), d.new) = NewValue(ValueOf(list, d.id), d)
           /\ d.id \in {d.chosen, d.new} => SameOthers(list, Change(list, "edit", d), d)
<1> DEFINE i == Located(list, d)
           e == [id |-> d.new, v |-> NewValue(list[i].v, d), img |-> list[i].img]
<1>1. i = PlaceOf(list, d.id) /\ Has(list, d.id) /\ (subject = "disk" /\ d.new # d.id => ~Has(list, d.new))
  BY DEF CanChange, Located, IsFree
<1>2. i \in DOMAIN list /\ list[i].id = d.id /\ list[i].v = ValueOf(list, d.id)
  BY <1>1, PlaceOfIsThere DEF ValueOf
<1>3. Change(list, "edit", d) = [list EXCEPT ![i] = e]
  BY DEF Change
<1>4. e \in Devices
  BY <1>2, Elements DEF Devices, Dialog, NewValue
<1>5. e.id = d.new /\ e.v = NewValue(ValueOf(list, d.id), d)
  BY <1>2
<1> HIDE DEF i, e
<1> DEFINE new == [list EXCEPT ![i] = e]
<1>6. /\ new \in Seq(Devices) /\ Has(new, e.id)
      /\ e.id = list[i].id => Names(new) = Names(list) /\ IdsOf(new) = IdsOf(list)
      /\ AreDifferent(list) /\ (e.id = list[i].id \/ ~Has(list, e.id))
            => AreDifferent(new) /\ ValueOf(new, e.id) = e.v
      /\ \A o : {e.id, list[i].id} \subseteq {o.chosen, o.new} => SameOthers(list, new, o)
  BY <1>2, <1>4, SetsOne
<1> HIDE DEF new
<1>7. Change(list, "edit", d) = new
  BY <1>3 DEF new
<1>8. d.id \in {d.chosen, d.new} => SameOthers(list, new, d)
  <2>1. d.id \in {d.chosen, d.new} => {e.id, list[i].id} \subseteq {d.chosen, d.new}
    BY <1>2, <1>5
  <2>2. QED
    BY <1>6, <2>1
<1>9. QED
  BY <1>1, <1>2, <1>5, <1>6, <1>7, <1>8

LEMMA ChangeRemoves ==
    ASSUME NEW list \in Seq(Devices), NEW d \in Dialog, CanChange(list, "remove", d)
    PROVE  /\ Located(list, d) \in DOMAIN list
           /\ Change(list, "remove", d) = Without(list, Located(list, d))
           /\ subject # "nic" => list[Located(list, d)].id = d.id
           /\ subject = "nic" /\ d.op = "remove" => Located(list, d) = d.place
<1>1. Located(list, d) # 0 /\ Change(list, "remove", d) = Without(list, Located(list, d))
  BY DEF CanChange, Change
<1>2. Located(list, d) \in DOMAIN list
  BY <1>1, LocatedIsThere
<1>3. subject # "nic" => list[Located(list, d)].id = d.id
  BY <1>1, PlaceOfIsThere DEF Located
<1>4. subject = "nic" /\ d.op = "remove" => Located(list, d) = d.place
  BY <1>1 DEF Located, NumberInXML
<1>5. QED
  BY <1>1, <1>2, <1>3, <1>4

-----------------------------------------------------------------------------
(* The dialogs of devices *)

DeviceSubjects == AllSubjects \ {"snapshot", "machine"}

(* What is true of every dialog of a device, by the way the page opens it.  *)
OfDialog(d) ==
    /\ d.vm.persistent \/ d.vm.state # "shutoff"
    /\ d.op = "add" => (d.always => d.vm.persistent)
    /\ d.op = "add" /\ subject \in {"hostdev", "filesystem", "watchdog"} => d.always = d.vm.persistent
    /\ d.op = "add" /\ subject = "watchdog" => d.vm.live = <<>>
    /\ d.op # "edit" => d.chosen = d.id /\ d.new = d.id
    /\ d.op = "edit" => d.vm.persistent
    /\ d.op = "edit" /\ subject # "nic" => d.chosen = d.id
    /\ d.id \in {d.chosen, d.new}
    /\ subject \notin {"disk", "nic"} => d.new = d.id
    /\ d.op = "remove" /\ subject \in {"disk", "nic"} => d.vm.state # "paused"
    /\ d.op = "remove" /\ subject = "nic" => d.place \in DOMAIN d.vm.live /\ d.vm.live[d.place].id = d.id
    /\ d.op = "remove" /\ subject = "hostdev" => Has(d.vm.live, d.id)
    /\ d.op = "eject" => d.v = 0 /\ Has(d.vm.live, d.id)

(* The page shows transient machines only while they run, and one list of a *)
(* machine that is off.                                                     *)
RowInv == /\ row.persistent \/ row.state # "shutoff"
          /\ row.state = "shutoff" => row.live = row.inactive

LEMMA NamedFields ==
    ASSUME NEW o \in Dialog
    PROVE  /\ Named(o).op = o.op /\ Named(o).vm = o.vm /\ Named(o).id = o.id /\ Named(o).place = o.place
           /\ Named(o).chosen = o.chosen /\ Named(o).v = o.v /\ Named(o).always = o.always
           /\ Named(o).new = IF o.new = 0 THEN o.id ELSE o.new
           /\ Named(o).img = o.img /\ Named(o).image = o.image /\ Named(o).failed = o.failed
BY NamedTyped DEF Dialog

\* Dialogs that only name a device.
LEMMA PlainDialog ==
    ASSUME TypeOK, RowInv, NEW op \in {"add", "remove"}, NEW i \in Nat,
           subject \in {"hostdev", "filesystem", "watchdog"},
           op = "add" /\ subject = "watchdog" => row.live = <<>>,
           op = "remove" /\ subject = "hostdev" => i \in Known
    PROVE  OfDialog(Named(NewDialog(op, i))) /\ Named(NewDialog(op, i)).vm = row
<1> DEFINE o == NewDialog(op, i)
<1>1. o \in Dialog /\ o.op = op /\ o.vm = row
  BY NewDialogTyped DEF DeviceOps
<1>2. o.id = i /\ o.chosen = i /\ o.new = i /\ o.always = row.persistent
  BY DEF NewDialog
<1> HIDE DEF o
<1> DEFINE d == Named(o)
<1>3. d.op = op /\ d.vm = row /\ d.id = i /\ d.chosen = i /\ d.new = i /\ d.always = row.persistent
  BY <1>1, <1>2, NamedFields
<1> HIDE DEF d
<1>4. OfDialog(d)
  BY <1>3 DEF OfDialog, RowInv, Known, Has
<1>5. QED
  BY <1>3, <1>4 DEF d, o

LEMMA DiskDialogsAre ==
    ASSUME TypeOK, RowInv, subject = "disk", NEW o \in AddDisk \cup EditDisk \cup RemoveDiskModal
    PROVE  OfDialog(Named(o)) /\ Named(o).vm = row
<1> DEFINE d == Named(o)
<1>1. o \in Dialog
  BY DiskDialogs
<1>2. /\ d.op = o.op /\ d.vm = o.vm /\ d.id = o.id /\ d.chosen = o.chosen /\ d.always = o.always
      /\ d.new = IF o.new = 0 THEN o.id ELSE o.new
  BY <1>1, NamedFields
<1> HIDE DEF d
<1>3. CASE o \in AddDisk
  <2>1. PICK s \in CreateNew \cup UseExisting, a \in Permanence(row.persistent) : o = NewDisk(s, a)
    BY <1>3, AddDiskIs, SMT
  <2>2. o.op = "add" /\ o.vm = row /\ o.chosen = o.id /\ o.new = o.id /\ o.always = a
    BY <2>1 DEF NewDisk, NewDialog
  <2>3. a => row.persistent
    BY DEF Permanence
  <2>4. OfDialog(d)
    BY <1>2, <2>2, <2>3 DEF OfDialog, RowInv
  <2>5. QED
    BY <1>2, <2>2, <2>4 DEF d
<1>4. CASE o \in EditDisk
  <2>1. row.persistent
    BY <1>4, EditDiskIs
  <2>2. PICK i \in Known \cap IdsOf(row.inactive), v \in {0, 1}, n \in NewTargets : o = EditedDisk(i, v, n)
    BY <1>4, EditDiskIs, SMT
  <2>3. o.op = "edit" /\ o.vm = row /\ o.chosen = o.id
    BY <2>2 DEF EditedDisk, NewDialog
  <2>4. OfDialog(d)
    BY <1>2, <2>1, <2>3 DEF OfDialog, RowInv
  <2>5. QED
    BY <1>2, <2>3, <2>4 DEF d
<1>5. CASE o \in RemoveDiskModal
  <2>1. CanDetach
    BY <1>5, RemoveDiskIs
  <2>2. PICK k \in DOMAIN row.live, how \in {"none", "delete"} : o = RemovedDisk(k, how)
    BY <1>5, RemoveDiskIs, SMT
  <2>3. o.op = "remove" /\ o.vm = row /\ o.chosen = o.id /\ o.new = o.id
    BY <2>2 DEF RemovedDisk, NewDialog
  <2>4. OfDialog(d)
    BY <1>2, <2>1, <2>3 DEF OfDialog, RowInv, CanDetach
  <2>5. QED
    BY <1>2, <2>3, <2>4 DEF d
<1>6. QED
  BY <1>3, <1>4, <1>5

LEMMA MediaDialogsAre ==
    ASSUME TypeOK, RowInv, subject = "media", NEW o \in MediaDialogs
    PROVE  OfDialog(Named(o)) /\ Named(o).vm = row
<1> DEFINE d == Named(o)
<1>1. o \in Dialog /\ o.op \in {"insert", "eject"}
  BY MediaDialogsTyped
<1>2. /\ d.op = o.op /\ d.vm = o.vm /\ d.id = o.id /\ d.chosen = o.chosen /\ d.v = o.v
      /\ d.new = IF o.new = 0 THEN o.id ELSE o.new
  BY <1>1, NamedFields
<1> HIDE DEF d
<1>3. PICK k \in DOMAIN row.live :
        o = [NewDialog(IF row.live[k].v = 0 THEN "insert" ELSE "eject", row.live[k].id) EXCEPT !.v = 1 - row.live[k].v]
  BY DEF MediaDialogs
<1>4. /\ o.op = (IF row.live[k].v = 0 THEN "insert" ELSE "eject") /\ o.vm = row /\ o.id = row.live[k].id
      /\ o.chosen = o.id /\ o.new = o.id /\ o.v = 1 - row.live[k].v
  BY <1>3 DEF NewDialog
<1>5. row.live[k].v \in {0, 1}
  BY RowTyped, Elements
<1>6. Has(row.live, o.id)
  BY <1>4 DEF Has, IdsOf
<1>7. o.op = "eject" => o.v = 0
  BY <1>4, <1>5
<1>8. OfDialog(d)
  BY <1>1, <1>2, <1>4, <1>6, <1>7 DEF OfDialog, RowInv
<1>9. QED
  BY <1>2, <1>4, <1>8 DEF d

LEMMA NicDialogsAre ==
    ASSUME TypeOK, RowInv, subject = "nic", NEW o \in AddNIC \cup EditNICModal \cup RemoveNIC
    PROVE  OfDialog(Named(o)) /\ Named(o).vm = row
<1> DEFINE d == Named(o)
<1>1. o \in Dialog
  BY NicDialogs
<1>2. /\ d.op = o.op /\ d.vm = o.vm /\ d.id = o.id /\ d.chosen = o.chosen /\ d.always = o.always
      /\ d.place = o.place /\ d.new = IF o.new = 0 THEN o.id ELSE o.new
  BY <1>1, NamedFields
<1> HIDE DEF d
<1>3. CASE o \in AddNIC
  <2>1. PICK i \in Ids \ Known, v \in {0, 1}, a \in NicAttachments : o = NewNic(i, v, a)
    BY <1>3, AddNICIs, SMT
  <2>2. o.op = "add" /\ o.vm = row /\ o.chosen = o.id /\ o.new = o.id /\ o.always = a
    BY <2>1 DEF NewNic, NewDialog
  <2>3. a => row.persistent
    BY DEF NicAttachments, Permanence
  <2>4. OfDialog(d)
    BY <1>2, <2>2, <2>3 DEF OfDialog, RowInv
  <2>5. QED
    BY <1>2, <2>2, <2>4 DEF d
<1>4. CASE o \in EditNICModal
  <2>1. PICK k \in EditedNics, v \in {0, 1}, n \in NewAddresses : o = EditedNic(k, v, n)
    BY <1>4, EditNICIs, SMT
  <2>2. o.op = "edit" /\ o.vm = row /\ o.chosen = row.live[k].id /\ o.id = row.inactive[k].id /\ o.new = n
    BY <2>1 DEF EditedNic, NewDialog
  <2>3. row.persistent
    BY DEF EditedNics
  <2>4. n = 0 \/ row.live = row.inactive
    BY DEF NewAddresses, IsOff, RowInv
  <2>5. d.id \in {d.chosen, d.new}
    BY <1>2, <2>2, <2>4
  <2>6. OfDialog(d)
    BY <1>2, <2>2, <2>3, <2>5 DEF OfDialog, RowInv
  <2>7. QED
    BY <1>2, <2>2, <2>6 DEF d
<1>5. CASE o \in RemoveNIC
  <2>1. PICK k \in DOMAIN row.live : o = [NewDialog("remove", row.live[k].id) EXCEPT !.place = k]
    BY <1>5 DEF RemoveNIC
  <2>2. /\ o.op = "remove" /\ o.vm = row /\ o.chosen = o.id /\ o.new = o.id /\ o.place = k
        /\ o.id = row.live[k].id
    BY <2>1 DEF NewDialog
  <2>3. row.state # "paused"
    BY <1>5 DEF RemoveNIC, CanDetach
  <2>4. OfDialog(d)
    BY <1>2, <2>2, <2>3 DEF OfDialog, RowInv
  <2>5. QED
    BY <1>2, <2>2, <2>4 DEF d
<1>6. QED
  BY <1>3, <1>4, <1>5

LEMMA WatchdogDialogsAre ==
    ASSUME TypeOK, RowInv, subject = "watchdog", NEW o \in WatchdogModal
    PROVE  OfDialog(Named(o)) /\ Named(o).vm = row
<1> DEFINE d == Named(o)
<1>1. o \in Dialog
  BY WatchdogDialogs
<1>2. /\ d.op = o.op /\ d.vm = o.vm /\ d.id = o.id /\ d.chosen = o.chosen /\ d.always = o.always
      /\ d.new = IF o.new = 0 THEN o.id ELSE o.new
  BY <1>1, NamedFields
<1> HIDE DEF d
<1>3. CASE o = NewDialog("remove", 1)
  <2>1. OfDialog(Named(o)) /\ Named(o).vm = row
    BY <1>3, PlainDialog
  <2>2. QED
    BY <2>1
<1>4. CASE row.live = <<>> /\ \E v \in {0, 1} : o = [NewDialog("add", 1) EXCEPT !.v = v]
  <2>1. o.op = "add" /\ o.vm = row /\ o.chosen = o.id /\ o.new = o.id /\ o.always = row.persistent
    BY <1>4 DEF NewDialog
  <2>2. OfDialog(d)
    BY <1>2, <1>4, <2>1 DEF OfDialog, RowInv
  <2>3. QED
    BY <1>2, <2>1, <2>2 DEF d
<1>5. CASE row.persistent /\ \E v \in {0, 1} : o = [NewDialog("edit", 1) EXCEPT !.v = v]
  <2>1. o.op = "edit" /\ o.vm = row /\ o.chosen = o.id /\ o.new = o.id
    BY <1>5 DEF NewDialog
  <2>2. OfDialog(d)
    BY <1>2, <1>5, <2>1 DEF OfDialog, RowInv
  <2>3. QED
    BY <1>2, <2>1, <2>2 DEF d
<1>6. QED
  BY <1>3, <1>4, <1>5 DEF WatchdogModal

(* What the page opens for a machine that it shows as it may be.           *)
LEMMA DialogsAre ==
    ASSUME TypeOK, RowInv, subject \in DeviceSubjects, NEW d \in Dialogs
    PROVE  OfDialog(d) /\ d.vm = row
<1>1. CASE subject = "disk"
  <2>1. PICK o \in {a \in AddDisk \cup EditDisk \cup RemoveDiskModal : a.id # 0} : d = Named(o)
    BY <1>1 DEF Dialogs
  <2>2. QED
    BY <1>1, <2>1, DiskDialogsAre
<1>2. CASE subject = "media"
  <2>1. PICK o \in MediaDialogs : d = Named(o)
    BY <1>2 DEF Dialogs
  <2>2. QED
    BY <1>2, <2>1, MediaDialogsAre
<1>3. CASE subject = "nic"
  <2>1. PICK o \in AddNIC \cup EditNICModal \cup RemoveNIC : d = Named(o)
    BY <1>3 DEF Dialogs
  <2>2. QED
    BY <1>3, <2>1, NicDialogsAre
<1>4. CASE subject = "hostdev"
  <2>1. PICK o \in AddHostDev \cup RemoveHostDev : d = Named(o)
    BY <1>4 DEF Dialogs
  <2>2. PICK op \in {"add", "remove"}, i \in Ids \cup Known : o = NewDialog(op, i) /\ (op = "remove" => i \in Known)
    BY DEF AddHostDev, RemoveHostDev
  <2>3. i \in Nat
    BY IdsAreNumbers, RowTyped
  <2>4. QED
    BY <1>4, <2>1, <2>2, <2>3, PlainDialog
<1>5. CASE subject = "filesystem"
  <2>1. PICK o \in VmFilesystemActions \cup RemoveFilesystem : d = Named(o)
    BY <1>5 DEF Dialogs
  <2>2. PICK op \in {"add", "remove"}, i \in Ids \cup Known : o = NewDialog(op, i)
    BY DEF VmFilesystemActions, RemoveFilesystem
  <2>3. i \in Nat
    BY IdsAreNumbers, RowTyped
  <2>4. QED
    BY <1>5, <2>1, <2>2, <2>3, PlainDialog
<1>6. CASE subject = "watchdog"
  <2>1. PICK o \in WatchdogModal : d = Named(o)
    BY <1>6 DEF Dialogs
  <2>2. QED
    BY <1>6, <2>1, WatchdogDialogsAre
<1>7. QED
  BY <1>1, <1>2, <1>3, <1>4, <1>5, <1>6 DEF DeviceSubjects, AllSubjects

-----------------------------------------------------------------------------
(* What virt-xml does to a machine *)

Updates(m, opt) == opt.update /\ Active(m)

\* The configuration that virt-xml changes, once it has made n of m.
ConfigOf(m, n) == IF m.persistent THEN m.inactive ELSE n.live

LEMMA virtXmlIs ==
    ASSUME NEW m \in Machine, NEW d \in Dialog, NEW do \in {"add", "edit", "remove"},
           NEW opt \in HotplugOptions, NEW a, a = virtXml(m, do, opt, d)
    PROVE  /\ a.m \in Machine /\ a.m.state = m.state /\ a.m.images = m.images
           /\ a.m.live = IF Updates(m, opt) /\ CanChange(m.live, do, d) THEN Change(m.live, do, d) ELSE m.live
           /\ a.ok /\ Updates(m, opt) => CanChange(m.live, do, d)
           /\ a.ok /\ ~opt.noDefine => /\ a.m.persistent /\ CanChange(ConfigOf(m, a.m), do, d)
                                       /\ a.m.inactive = Change(ConfigOf(m, a.m), do, d)
           /\ ~a.ok \/ opt.noDefine => a.m.persistent = m.persistent /\ a.m.inactive = m.inactive
           /\ ~a.ok => \/ Updates(m, opt) /\ ~CanChange(m.live, do, d)
                       \/ ~opt.noDefine /\ ~CanChange(ConfigOf(m, a.m), do, d)
<1> DEFINE liveOk == Updates(m, opt) => CanChange(m.live, do, d)
           l == IF Updates(m, opt) /\ CanChange(m.live, do, d) THEN Change(m.live, do, d) ELSE m.live
           n == [m EXCEPT !.live = l]
           configOk == CanChange(InactiveOf(n), do, d)
<1>1. m = [m EXCEPT !.live = m.live]
  BY DEF Machine
<1>2. (IF Updates(m, opt) /\ liveOk THEN [m EXCEPT !.live = Change(m.live, do, d)] ELSE m) = n
  BY <1>1
<1>3. a = IF ~liveOk THEN [ok |-> FALSE, m |-> m]
          ELSE IF opt.noDefine THEN [ok |-> TRUE, m |-> n]
          ELSE [ok |-> configOk, m |-> IF configOk THEN ConfigChanged(n, do, d) ELSE n]
  BY <1>2 DEF virtXml, Updates
<1>4. l \in Seq(Devices)
  BY ListsTyped, ChangeTyped
<1>5. ~liveOk => n = m
  BY <1>1
<1> HIDE DEF l
<1>6. /\ n \in Machine /\ n.state = m.state /\ n.images = m.images /\ n.live = l
      /\ n.persistent = m.persistent /\ n.inactive = m.inactive
  BY <1>4 DEF Machine
<1> HIDE DEF n
<1>7. InactiveOf(n) = ConfigOf(m, n)
  BY <1>6 DEF InactiveOf, ConfigOf
<1> DEFINE c == ConfigChanged(n, do, d)
<1>8. configOk => /\ c \in Machine /\ c.state = n.state /\ c.images = n.images /\ c.live = n.live
                  /\ c.persistent /\ c.inactive = Change(InactiveOf(n), do, d)
  <2>1. configOk => c \in Machine
    BY <1>6, ConfigChangedTyped
  <2>2. QED
    BY <1>6, <2>1 DEF ConfigChanged, Machine
<1> HIDE DEF c, configOk, liveOk
<1>9. CASE ~liveOk
  <2>1. a.m = n /\ ~a.ok
    BY <1>3, <1>5, <1>9
  <2>2. Updates(m, opt) /\ ~CanChange(m.live, do, d)
    BY <1>9 DEF liveOk
  <2>3. QED
    BY <1>6, <2>1, <2>2 DEF l
<1>10. CASE liveOk /\ opt.noDefine
  <2>1. a.m = n /\ a.ok
    BY <1>3, <1>10
  <2>2. QED
    BY <1>6, <1>10, <2>1 DEF l, liveOk
<1>11. CASE liveOk /\ ~opt.noDefine /\ ~configOk
  <2>1. a.m = n /\ a.ok = configOk
    BY <1>3, <1>11
  <2>2. QED
    BY <1>6, <1>7, <1>11, <2>1 DEF l, configOk
<1>12. CASE liveOk /\ ~opt.noDefine /\ configOk
  <2>1. a.m = c /\ a.ok
    BY <1>3, <1>12 DEF c
  <2>2. ConfigOf(m, c) = ConfigOf(m, n)
    BY <1>6, <1>8, <1>12 DEF ConfigOf
  <2>3. CanChange(ConfigOf(m, n), do, d)
    BY <1>7, <1>12 DEF configOk
  <2>4. QED
    BY <1>6, <1>7, <1>8, <1>12, <2>1, <2>2, <2>3 DEF l, liveOk
<1>13. QED
  BY <1>9, <1>10, <1>11, <1>12

-----------------------------------------------------------------------------
(* The plans for devices, call by call *)

LEMMA EmptyFirst == ASSUME NEW a PROVE <<>> \o <<a>> = <<a>>
BY ConcatEmptySeq, <<a>> \in Seq({a})

LEMMA EmptyLast == ASSUME NEW a, NEW b PROVE <<a, b>> \o <<>> = <<a, b>> /\ <<a>> \o <<>> = <<a>>
BY ConcatEmptySeq, <<a, b>> \in Seq({a, b}), <<a>> \in Seq({a})

LEMMA TwoAndOne ==
    ASSUME NEW a, NEW b, NEW c
    PROVE  <<a, b>> \o <<c>> = <<a, b, c>>
<1> DEFINE S == {a, b, c}
<1>1. <<a, b>> \in Seq(S) /\ <<c>> \in Seq(S) /\ <<a, b, c>> \in Seq(S)
  OBVIOUS
<1>2. Len(<<a, b>>) = 2 /\ Len(<<c>>) = 1 /\ Len(<<a, b, c>>) = 3
  OBVIOUS
<1>3. /\ <<a, b>> \o <<c>> \in Seq(S)
      /\ Len(<<a, b>> \o <<c>>) = 3
      /\ \A i \in 1 .. 3 : (<<a, b>> \o <<c>>)[i] = IF i <= 2 THEN <<a, b>>[i] ELSE <<c>>[i - 2]
  BY <1>1, <1>2, ConcatProperties
<1>4. \A i \in 1 .. 3 : (<<a, b>> \o <<c>>)[i] = <<a, b, c>>[i]
  BY <1>3
<1>5. QED
  BY <1>1, <1>2, <1>3, <1>4, SeqEqual

AddStep(d) == IF subject = "hostdev" THEN Step("add", [update |-> d.vm.state # "shutoff", noDefine |-> FALSE])
              ELSE virtXmlHotAdd(d)

\* A device is added last, after a volume for it or shared memory.
LEMMA AddPlan ==
    ASSUME NEW d \in Dialog, d.op = "add", subject \in {"disk", "nic", "hostdev", "filesystem"}
    PROVE  \/ Plan(d) = <<AddStep(d)>>
           \/ subject = "disk" /\ Plan(d) = <<Step("createVolume", NoOptions), AddStep(d)>>
           \/ subject = "filesystem" /\ Plan(d) = <<Step("memorybacking", NoOptions), AddStep(d)>>
<1>1. CASE subject = "disk"
  <2>1. Plan(d) = add_disk(d) /\ AddStep(d) = virtXmlHotAdd(d)
    BY <1>1 DEF Plan, AddStep
  <2>2. QED
    BY <1>1, <2>1, EmptyFirst, Pair DEF add_disk
<1>2. CASE subject = "nic"
  BY <1>2 DEF Plan, AddStep, addNIC
<1>3. CASE subject = "hostdev"
  BY <1>3 DEF Plan, AddStep, domainAttachHostDevices
<1>4. CASE subject = "filesystem"
  <2>1. Plan(d) = addFilesystem(d) /\ AddStep(d) = virtXmlHotAdd(d)
    BY <1>4 DEF Plan, AddStep
  <2>2. QED
    BY <1>4, <2>1, EmptyFirst, Pair DEF addFilesystem
<1>5. QED
  BY <1>1, <1>2, <1>3, <1>4

\* A watchdog is hotplugged, and then saved for the next boot; or only saved for it.
LEMMA WatchdogPlan ==
    ASSUME NEW d \in Dialog, subject = "watchdog", d.op \in {"add", "edit"}
    PROVE  /\ saveWatchdog(d) = Plan(d)
           /\ (d.failed \/ d.vm.state # "running") /\ d.vm.persistent => Plan(d) = <<setWatchdog(d, FALSE)>>
           /\ ~((d.failed \/ d.vm.state # "running") /\ d.vm.persistent) =>
                /\ d.vm.persistent => Plan(d) = <<setWatchdog(d, TRUE), setWatchdog(d, FALSE)>>
                /\ ~d.vm.persistent => Plan(d) = <<setWatchdog(d, TRUE)>>
                /\ Plan(d) = setWatchdogHotplug(d)
<1>1. Plan(d) = saveWatchdog(d)
  BY DEF Plan
<1> DEFINE a == setWatchdog(d, TRUE)
           b == setWatchdog(d, FALSE)
<1>2. setWatchdogHotplug(d) = <<a>> \o (IF d.vm.persistent THEN <<b>> ELSE <<>>)
  BY DEF setWatchdogHotplug, setWatchdogColdplug
<1> HIDE DEF a, b
<1>3. setWatchdogHotplug(d) = IF d.vm.persistent THEN <<a, b>> ELSE <<a>>
  BY <1>2, Pair, EmptyLast
<1>4. QED
  BY <1>1, <1>3 DEF saveWatchdog, setWatchdogColdplug, a, b

Persists(d) == IF subject \in {"disk", "nic"} THEN Has(d.vm.inactive, d.id) ELSE TRUE
RemoveStep(d) == virtXmlHotRemove(d, Persists(d))

\* A device is removed first of all, and its image last.
LEMMA DeviceRemovePlan ==
    ASSUME NEW d \in Dialog, d.op = "remove", subject \in {"disk", "nic", "filesystem", "watchdog"}
    PROVE  \/ Plan(d) = <<RemoveStep(d)>> /\ subject # "disk"
           \/ Plan(d) = <<RemoveStep(d), ReadStep>>
           \/ subject = "disk" /\ Plan(d) = <<RemoveStep(d), ReadStep, Step("deleteStorage", NoOptions)>>
<1>1. CASE subject = "disk"
  <2>1. Plan(d) = onRemoveDisk(d) /\ RemoveStep(d) = virtXmlHotRemove(d, Has(d.vm.inactive, d.id))
    BY <1>1 DEF Plan, RemoveStep, Persists
  <2>2. QED
    BY <1>1, <2>1, EmptyLast, TwoAndOne DEF onRemoveDisk, ReadStep
<1>2. CASE subject = "nic"
  BY <1>2 DEF Plan, RemoveStep, Persists, removeNIC
<1>3. CASE subject = "filesystem"
  BY <1>3 DEF Plan, RemoveStep, Persists, removeFilesystem
<1>4. CASE subject = "watchdog"
  BY <1>4 DEF Plan, RemoveStep, Persists, detachWatchdog
<1>5. QED
  BY <1>1, <1>2, <1>3, <1>4

LEMMA DetachPlan ==
    ASSUME NEW d \in Dialog, d.op = "remove", subject = "hostdev"
    PROVE  Plan(d) = IF d.vm.state = "shutoff" THEN <<Step("detachConfig", NoOptions)>>
                     ELSE <<Step("detachConfig", NoOptions), Step("detachLive", NoOptions)>>
<1>1. Plan(d) = domainDetachHostDevice(d)
  BY DEF Plan
<1>2. QED
  BY <1>1, EmptyLast, Pair DEF domainDetachHostDevice

LEMMA OtherDevicePlans ==
    ASSUME NEW d \in Dialog
    PROVE  /\ d.op = "edit" /\ subject = "disk" => Plan(d) = <<Step("edit", NoOptions)>>
           /\ d.op = "edit" /\ subject = "nic" =>
                Plan(d) = <<Step("edit", NoOptions), Step("get", NoOptions), Step("define", NoOptions)>>
           /\ d.op = "insert" => Plan(d) = <<virtXmlHotEdit(d)>>
           /\ d.op = "eject" =>
                Plan(d) = <<Step("updateDevice", [live |-> d.vm.state = "running", force |-> d.failed]), ReadStep>>
<1>1. d.op = "edit" /\ subject = "nic" => Plan(d) = saveNIC(d)
  BY DEF Plan
<1>2. d.op = "eject" => Plan(d) = domainEjectDisk(d)
  BY DEF Plan
<1>3. d.op = "insert" => Plan(d) = insert_media(d)
  BY DEF Plan
<1>4. d.op = "edit" /\ subject = "disk" => Plan(d) = saveDisk(d)
  BY DEF Plan
<1>5. QED
  BY <1>1, <1>2, <1>3, <1>4, Triple DEF saveDisk, saveNIC, domainModifyXML, insert_media, domainEjectDisk, ReadStep

-----------------------------------------------------------------------------
(* How far a dialog of a device has come *)

(* A transient machine runs, and no two devices of a machine have one name: *)
(* only interfaces may repeat a MAC address.                                *)
SoundMachine(m) ==
    /\ m.persistent \/ m.state # "shutoff"
    /\ subject # "nic" => AreDifferent(m.live) /\ AreDifferent(m.inactive)

\* The interfaces that DevicesAreDone is about.
NicIsSound(d) ==
    subject = "nic" => /\ d.id = d.chosen /\ (d.op = "edit" => d.new = d.id)
                       /\ Names(d.vm.live) = Names(d.vm.inactive)
                       /\ AreDifferent(d.vm.live)

Lasting(d) == d.always \/ d.vm.state = "shutoff"

\* What DevicesAreDone says of a machine.
IsAchieved(m, d) ==
    /\ m.state = "running" /\ d.op # "edit" /\ ~(subject = "watchdog" /\ d.failed) => Achieved(d, m.live)
    /\ m.persistent /\ (d.op = "add" => Lasting(d)) /\ (d.op = "eject" => Has(d.vm.inactive, d.id))
        => Achieved(d, m.inactive)
    /\ m.persistent /\ d.op = "add" /\ ~Lasting(d) /\ ~Has(d.vm.inactive, d.id) => ~Has(m.inactive, d.id)

ConfigAsSeen(m, d) == m.persistent = d.vm.persistent /\ (m.persistent => m.inactive = d.vm.inactive)
Elems(list) == {list[i] : i \in DOMAIN list}

\* The configuration is left alone by devices that are not always attached.  The
\* second call for a watchdog is for the configuration.
Adding(m, d, step) ==
    /\ d.vm.state = "running" /\ ~d.always => ConfigAsSeen(m, d)
    /\ subject = "watchdog" /\ d.vm.persistent /\ step <= Len(Plan(d)) => ConfigAsSeen(m, d)
    /\ subject = "watchdog" /\ d.vm.state = "running" /\ ~d.failed /\ step > 1 => Has(m.live, d.id)
    /\ step > Len(Plan(d)) => IsAchieved(m, d)

Detaching(m, d, step) ==
    /\ step > 1 /\ m.persistent => ~Has(m.inactive, d.id)
    /\ d.vm.state # "shutoff" /\ step <= 2 => Has(m.live, d.id)
    /\ step > Len(Plan(d)) => IsAchieved(m, d)

\* The first call removes the device from both lists.
Removing(m, d, step) ==
    /\ d.vm.state = "running" /\ ~Has(d.vm.inactive, d.id) => ConfigAsSeen(m, d)
    /\ subject = "disk" => /\ Elems(LiveOf(m)) \subseteq Elems(d.vm.live)
                           /\ Elems(InactiveOf(m)) \subseteq Elems(d.vm.inactive)
    /\ subject = "nic" => /\ Names(LiveOf(m)) = Names(d.vm.live) \/ ~Has(LiveOf(m), d.id)
                          /\ Names(InactiveOf(m)) = Names(d.vm.live) \/ ~Has(InactiveOf(m), d.id)
    /\ step > 1 => ~Has(LiveOf(m), d.id) /\ ~Has(InactiveOf(m), d.id)

\* An interface keeps the setting 1 until the last call.
Editing(m, d, step) ==
    /\ subject # "nic" /\ step > 1 => IsAchieved(m, d)
    /\ subject = "nic" => /\ Names(m.inactive) = Names(d.vm.live)
                          /\ step > 1 => Has(m.inactive, d.id) /\ (d.v = 1 => ValueOf(m.inactive, d.id) = 1)
                          /\ step > 3 => ValueOf(m.inactive, d.id) = d.v

Inserting(m, d, step) == step > 1 => IsAchieved(m, d)

Ejecting(m, d, step) ==
    /\ IdsOf(LiveOf(m)) = IdsOf(d.vm.live) /\ IdsOf(InactiveOf(m)) = IdsOf(d.vm.inactive)
    /\ step > 1 => IsAchieved(m, d)

Doing(m, d, step) ==
    /\ d.op = "add" => Adding(m, d, step)
    /\ d.op = "remove" /\ subject = "hostdev" => Detaching(m, d, step)
    /\ d.op = "remove" /\ subject # "hostdev" => Removing(m, d, step)
    /\ d.op = "edit" => Editing(m, d, step)
    /\ d.op = "insert" => Inserting(m, d, step)
    /\ d.op = "eject" => Ejecting(m, d, step)

(* What the plan of dialog d has done to machine m when its next call is    *)
(* the one with the number step, and doc what it has read, if nobody        *)
(* interferes.                                                              *)
Going(m, d, step, doc) ==
    /\ m.state = d.vm.state
    /\ d.op \in {"remove", "insert", "eject"} /\ m.state # "paused" => m.persistent = d.vm.persistent
    /\ d.op = "edit" /\ subject = "nic" => m.persistent /\ (step = 3 => doc = m.inactive)
    /\ NicIsSound(d) /\ m.state # "paused" => Doing(m, d, step)

DeviceInv ==
    /\ dialog # NoDialog => dialog.vm.state # "gone"
    /\ job # NoJob => job.d.vm.state # "gone"
    /\ subject \in DeviceSubjects =>
        /\ RowInv /\ SoundMachine(machine)
        /\ dialog # NoDialog => OfDialog(dialog)
        /\ job # NoJob => OfDialog(job.d)
        /\ ~disturbed /\ job # NoJob =>
                dialog \in {job.d, NoDialog} /\ Going(machine, job.d, job.step, job.doc)
        /\ ~disturbed /\ job = NoJob /\ dialog # NoDialog => Going(machine, dialog, 1, <<>>)

\* Machines that differ in neither state nor devices.
SameLists(m, n) ==
    n.state = m.state /\ n.persistent = m.persistent /\ n.live = m.live /\ n.inactive = m.inactive

LEMMA SameListsOf ==
    ASSUME NEW m, NEW n, SameLists(m, n)
    PROVE  LiveOf(n) = LiveOf(m) /\ InactiveOf(n) = InactiveOf(m) /\ Active(n) = Active(m)
BY DEF SameLists, LiveOf, InactiveOf, Active

LEMMA SameDoing ==
    ASSUME NEW m, NEW n, SameLists(m, n), NEW d, NEW step, Doing(m, d, step)
    PROVE  Doing(n, d, step)
<1>1. IsAchieved(n, d) = IsAchieved(m, d) /\ ConfigAsSeen(n, d) = ConfigAsSeen(m, d)
  BY DEF SameLists, IsAchieved, ConfigAsSeen
<1>2. d.op = "add" => Adding(n, d, step)
  BY <1>1 DEF Doing, Adding, SameLists
<1>3. d.op = "remove" /\ subject = "hostdev" => Detaching(n, d, step)
  BY <1>1 DEF Doing, Detaching, SameLists
<1>4. d.op = "remove" /\ subject # "hostdev" => Removing(n, d, step)
  BY <1>1, SameListsOf DEF Doing, Removing
<1>5. d.op = "edit" => Editing(n, d, step)
  BY <1>1 DEF Doing, Editing, SameLists
<1>6. d.op = "insert" => Inserting(n, d, step)
  BY <1>1 DEF Doing, Inserting
<1>7. d.op = "eject" => Ejecting(n, d, step)
  BY <1>1, SameListsOf DEF Doing, Ejecting
<1>8. QED
  BY <1>2, <1>3, <1>4, <1>5, <1>6, <1>7 DEF Doing

\* Calls that change neither the state nor the devices.
LEMMA QuietCalls ==
    ASSUME NEW m \in Machine, NEW s, s.do \in {"get", "read", "createVolume", "deleteStorage", "memorybacking"},
           NEW d, NEW doc
    PROVE  SameLists(m, Does(m, s, d, doc).m)
<1>1. Does(m, s, d, doc).m \in {m, [m EXCEPT !.images = m.images \cup {d.img}],
                               [m EXCEPT !.images = m.images \ {d.img}], [m EXCEPT !.memory = TRUE]}
  BY DEF Does, DeviceCalls
<1>2. QED
  BY <1>1 DEF SameLists, Machine

\* The state of a machine of which a dialog is open.
LEMMA StateIs ==
    ASSUME NEW m \in Machine, m.state # "gone"
    PROVE  /\ m.state \in {"shutoff", "running", "paused"}
           /\ Active(m) <=> m.state # "shutoff"
BY DEF Machine, States, Active

LEMMA virtXmlDoes ==
    ASSUME NEW m, m.state # "gone", NEW s, s.do \in {"add", "edit", "remove"}, NEW d, NEW doc
    PROVE  Does(m, s, d, doc) = virtXml(m, s.do, s.opt, d)
BY DEF Does, DeviceCalls

LEMMA AddStepIs ==
    ASSUME NEW d, subject # "hostdev" \/ d.vm.state # "paused"
    PROVE  /\ AddStep(d).do = "add" /\ AddStep(d).opt \in HotplugOptions
           /\ AddStep(d).opt.update = (d.vm.state = "running") \/ subject = "hostdev"
           /\ AddStep(d).opt.noDefine =
                (subject # "hostdev" /\ d.vm.state = "running" /\ ~(d.vm.persistent /\ d.always))
           /\ subject = "hostdev" => AddStep(d).opt.update = (d.vm.state # "shutoff")
<1>1. CASE subject = "hostdev"
  <2> DEFINE o == [update |-> d.vm.state # "shutoff", noDefine |-> FALSE]
  <2>1. AddStep(d) = Step("add", o)
    BY <1>1 DEF AddStep
  <2>2. o \in HotplugOptions /\ o.update = (d.vm.state # "shutoff") /\ o.noDefine = FALSE
    BY DEF HotplugOptions
  <2> HIDE DEF o
  <2>3. AddStep(d).do = "add" /\ AddStep(d).opt = o
    BY <2>1, StepFields
  <2>4. QED
    BY <1>1, <2>2, <2>3
<1>2. CASE subject # "hostdev"
  <2>1. AddStep(d) = Step("add", hotplugExtraOptions(d.vm, d.always))
    BY <1>2 DEF AddStep, virtXmlHotAdd
  <2>2. QED
    BY <1>2, <2>1, StepFields, OptionsTyped DEF hotplugExtraOptions
<1>3. QED
  BY <1>1, <1>2

\* A device that is added is in every list that it belongs to.
LEMMA AddGoesOn ==
    ASSUME NEW m \in Machine, NEW d \in Dialog, OfDialog(d), SoundMachine(m), m.state = d.vm.state,
           m.state \in {"shutoff", "running"}, d.op = "add", subject \in {"disk", "nic", "hostdev", "filesystem"},
           NEW step \in 1 .. Len(Plan(d)), NEW s, s = Plan(d)[step], NEW doc,
           NEW a, a = Does(m, s, d, doc), a.ok, Adding(m, d, step)
    PROVE  Adding(a.m, d, step + 1)
<1>1. CASE s = AddStep(d) /\ step = Len(Plan(d))
  <2> DEFINE opt == AddStep(d).opt
  <2>1. /\ opt \in HotplugOptions /\ opt.update = (m.state = "running")
        /\ opt.noDefine = (subject # "hostdev" /\ m.state = "running" /\ ~(d.vm.persistent /\ d.always))
    BY AddStepIs
  <2>2. a = virtXml(m, "add", opt, d)
    <3>1. s.do = "add" /\ s.opt = opt
      BY <1>1, AddStepIs
    <3>2. QED
      BY <3>1, virtXmlDoes
  <2> HIDE DEF opt
  <2>3. Updates(m, opt) <=> m.state = "running"
    BY <2>1 DEF Updates, Active
  <2>4. /\ a.m.state = m.state
        /\ m.state = "running" => CanChange(m.live, "add", d) /\ a.m.live = Change(m.live, "add", d)
        /\ ~opt.noDefine => /\ a.m.persistent /\ CanChange(ConfigOf(m, a.m), "add", d)
                            /\ a.m.inactive = Change(ConfigOf(m, a.m), "add", d)
        /\ opt.noDefine => a.m.persistent = m.persistent /\ a.m.inactive = m.inactive
        /\ a.m \in Machine
    BY <2>1, <2>2, <2>3, virtXmlIs
  <2>5. m.state = "running" => Has(a.m.live, d.id)
    BY <2>4, ListsTyped, ChangeAdds
  <2>6. ~opt.noDefine => Has(a.m.inactive, d.id)
    <3>1. ConfigOf(m, a.m) \in Seq(Devices)
      BY <2>4, ListsTyped DEF ConfigOf
    <3>2. QED
      BY <2>4, <3>1, ChangeAdds
  <2>7. d.always => d.vm.persistent
    BY DEF OfDialog
  <2>8. ASSUME m.state = "running", ~d.always
        PROVE  opt.noDefine /\ ConfigAsSeen(a.m, d)
    <3>1. ConfigAsSeen(m, d)
      BY <2>8 DEF Adding
    <3>2. subject # "hostdev"
      <4>1. SUFFICES ASSUME subject = "hostdev"
                     PROVE  FALSE
        OBVIOUS
      <4>2. ~m.persistent /\ ~opt.noDefine
        BY <2>1, <2>8, <3>1, <4>1 DEF OfDialog, ConfigAsSeen
      <4>3. ~Has(a.m.live, d.id)
        BY <2>4, <4>2 DEF ConfigOf, CanChange
      <4>4. QED
        BY <2>5, <2>8, <4>3
    <3>3. QED
      BY <2>1, <2>4, <2>8, <3>1, <3>2 DEF ConfigAsSeen
  <2>9. IsAchieved(a.m, d)
    <3>1. a.m.state = "running" => Achieved(d, a.m.live)
      BY <2>4, <2>5 DEF Achieved
    <3>2. Lasting(d) => Achieved(d, a.m.inactive)
      BY <2>1, <2>6, <2>7 DEF Lasting, Achieved
    <3>3. a.m.persistent /\ ~Lasting(d) /\ ~Has(d.vm.inactive, d.id) => ~Has(a.m.inactive, d.id)
      BY <2>8 DEF Lasting, ConfigAsSeen
    <3>4. QED
      BY <3>1, <3>2, <3>3 DEF IsAchieved
  <2>10. QED
    BY <2>8, <2>9 DEF Adding
<1>2. CASE s.do \in {"createVolume", "memorybacking"} /\ step = 1 /\ Len(Plan(d)) = 2
  <2>1. SameLists(m, a.m)
    BY <1>2, QuietCalls
  <2>2. ConfigAsSeen(a.m, d) = ConfigAsSeen(m, d)
    BY <2>1 DEF SameLists, ConfigAsSeen
  <2>3. ~(step + 1 > Len(Plan(d)))
    BY <1>2
  <2>4. QED
    BY <2>2, <2>3 DEF Adding
<1>3. QED
  <2>1. CASE Plan(d) = <<AddStep(d)>>
    <3>1. Len(Plan(d)) = 1 /\ step = 1
      BY <2>1
    <3>2. QED
      BY <1>1, <2>1, <3>1
  <2>2. ASSUME NEW do \in {"createVolume", "memorybacking"}, Plan(d) = <<Step(do, NoOptions), AddStep(d)>>
        PROVE  Adding(a.m, d, step + 1)
    <3>1. Len(Plan(d)) = 2 /\ step \in {1, 2}
      BY <2>2
    <3>2. CASE step = 1
      <4>1. s.do = do
        BY <2>2, <3>2, StepFields
      <4>2. QED
        BY <1>2, <3>1, <3>2, <4>1
    <3>3. CASE step = 2
      BY <1>1, <2>2, <3>1, <3>3
    <3>4. QED
      BY <3>1, <3>2, <3>3
  <2>3. QED
    BY <2>1, <2>2, AddPlan

\* The calls for a watchdog.
LEMMA WatchdogStepIs ==
    ASSUME NEW d, NEW h \in BOOLEAN
    PROVE  /\ d.op = "edit" => setWatchdog(d, h) = Step("edit", NoOptions)
           /\ d.op # "edit" => /\ setWatchdog(d, h).do = "add" /\ setWatchdog(d, h).opt \in HotplugOptions
                               /\ setWatchdog(d, h).opt.update = h /\ setWatchdog(d, h).opt.noDefine = h
<1> DEFINE o == [update |-> h, noDefine |-> h]
<1>1. d.op # "edit" => setWatchdog(d, h) = Step("add", o)
  BY DEF setWatchdog
<1>2. o \in HotplugOptions /\ o.update = h /\ o.noDefine = h
  BY DEF HotplugOptions
<1> HIDE DEF o
<1>3. d.op = "edit" => setWatchdog(d, h) = Step("edit", NoOptions)
  BY DEF setWatchdog
<1>4. d.op # "edit" => setWatchdog(d, h).do = "add" /\ setWatchdog(d, h).opt = o
  BY <1>1, StepFields
<1>5. QED
  BY <1>2, <1>3, <1>4

\* Which calls a plan for a watchdog has.
LEMMA WatchdogPlanLength ==
    ASSUME NEW d \in Dialog, subject = "watchdog", d.op \in {"add", "edit"}, NEW step \in 1 .. Len(Plan(d))
    PROVE  /\ Len(Plan(d)) \in {1, 2}
           /\ Plan(d)[step] \in {setWatchdog(d, TRUE), setWatchdog(d, FALSE)}
           /\ \/ /\ d.vm.persistent /\ step = Len(Plan(d)) /\ Plan(d)[step] = setWatchdog(d, FALSE)
                 /\ d.vm.state = "running" /\ ~d.failed => step = 2
              \/ /\ ~((d.failed \/ d.vm.state # "running") /\ d.vm.persistent)
                 /\ step = 1 /\ Plan(d)[step] = setWatchdog(d, TRUE)
                 /\ Len(Plan(d)) = IF d.vm.persistent THEN 2 ELSE 1
<1> DEFINE a == setWatchdog(d, TRUE)
           b == setWatchdog(d, FALSE)
           cold == (d.failed \/ d.vm.state # "running") /\ d.vm.persistent
<1>1. /\ cold => Plan(d) = <<b>>
      /\ ~cold => (d.vm.persistent => Plan(d) = <<a, b>>) /\ (~d.vm.persistent => Plan(d) = <<a>>)
  BY WatchdogPlan
<1> HIDE DEF a, b
<1>2. CASE cold
  <2>1. Plan(d) = <<b>>
    <3> HIDE DEF cold
    <3>1. QED
      BY <1>1, <1>2
  <2> HIDE DEF cold
  <2>3. Len(Plan(d)) = 1 /\ step = 1 /\ Plan(d)[step] = b
    BY <2>1
  <2> USE DEF cold
  <2>2. d.vm.persistent /\ (d.vm.state = "running" /\ ~d.failed => step = 2)
    BY <1>2
  <2>4. QED
    BY <2>3, <2>2 DEF a, b
<1>3. CASE ~cold /\ d.vm.persistent
  <2>1. Plan(d) = <<a, b>> /\ Len(Plan(d)) = 2 /\ step \in {1, 2}
    BY <1>1, <1>3
  <2>2. CASE step = 1
    BY <1>3, <2>1, <2>2 DEF a, b
  <2>3. CASE step = 2
    BY <1>3, <2>1, <2>3 DEF a, b
  <2>4. QED
    BY <2>1, <2>2, <2>3
<1>4. CASE ~cold /\ ~d.vm.persistent
  <2>1. Plan(d) = <<a>> /\ Len(Plan(d)) = 1 /\ step = 1 /\ Plan(d)[step] = a
    BY <1>1, <1>4
  <2>2. QED
    BY <1>4, <2>1 DEF a, b
<1>5. QED
  BY <1>2, <1>3, <1>4

LEMMA WatchdogGoesOn ==
    ASSUME NEW m \in Machine, NEW d \in Dialog, OfDialog(d), SoundMachine(m), m.state = d.vm.state,
           m.state \in {"shutoff", "running"}, d.op = "add", subject = "watchdog",
           NEW step \in 1 .. Len(Plan(d)), NEW s, s = Plan(d)[step], NEW doc,
           NEW a, a = Does(m, s, d, doc), a.ok, Adding(m, d, step)
    PROVE  Adding(a.m, d, step + 1)
<1>1. d.always = d.vm.persistent
  BY DEF OfDialog
<1>2. step \in {1, 2} /\ Len(Plan(d)) \in {1, 2}
  BY WatchdogPlanLength
<1>3. PICK h \in BOOLEAN : s = setWatchdog(d, h)
  BY WatchdogPlanLength
<1> DEFINE opt == s.opt
<1>4. s.do = "add" /\ opt \in HotplugOptions /\ opt.update = h /\ opt.noDefine = h
  BY <1>3, WatchdogStepIs
<1>5. a = virtXml(m, "add", opt, d)
  BY <1>4, virtXmlDoes
<1> HIDE DEF opt
<1>6. /\ a.m \in Machine /\ a.m.state = m.state
      /\ h /\ m.state = "running" => CanChange(m.live, "add", d) /\ a.m.live = Change(m.live, "add", d)
      /\ ~h => /\ a.m.live = m.live
               /\ a.m.persistent /\ CanChange(ConfigOf(m, a.m), "add", d)
               /\ a.m.inactive = Change(ConfigOf(m, a.m), "add", d)
      /\ h => a.m.persistent = m.persistent /\ a.m.inactive = m.inactive
  BY <1>4, <1>5, virtXmlIs DEF Updates, Active
<1>7. h /\ m.state = "running" => Has(a.m.live, d.id)
  BY <1>6, ListsTyped, ChangeAdds
<1>8. ~h => Has(a.m.inactive, d.id)
  <2>1. ConfigOf(m, a.m) \in Seq(Devices)
    BY <1>6, ListsTyped DEF ConfigOf
  <2>2. QED
    BY <1>6, <2>1, ChangeAdds
<1>9. CASE d.vm.persistent /\ step = Len(Plan(d)) /\ s = setWatchdog(d, FALSE)
           /\ (d.vm.state = "running" /\ ~d.failed => step = 2)
  <2>1. ~h
    <3>1. setWatchdog(d, FALSE).opt.update = FALSE
      BY WatchdogStepIs
    <3>2. QED
      BY <1>4, <1>9, <3>1 DEF opt
  <2>2. d.vm.state = "running" /\ ~d.failed => Has(a.m.live, d.id)
    <3>1. SUFFICES ASSUME d.vm.state = "running", ~d.failed
                   PROVE  Has(m.live, d.id)
      BY <1>6, <2>1
    <3>2. step > 1
      BY <1>9, <3>1
    <3>3. QED
      BY <3>1, <3>2 DEF Adding
  <2>3. IsAchieved(a.m, d)
    BY <1>1, <1>6, <1>8, <1>9, <2>1, <2>2 DEF IsAchieved, Achieved, Lasting
  <2>4. ~(step + 1 <= Len(Plan(d)))
    BY <1>2, <1>9
  <2>5. QED
    BY <1>1, <1>9, <2>2, <2>3, <2>4 DEF Adding
<1>10. CASE /\ ~((d.failed \/ d.vm.state # "running") /\ d.vm.persistent)
            /\ step = 1 /\ s = setWatchdog(d, TRUE) 
            /\ Len(Plan(d)) = IF d.vm.persistent THEN 2 ELSE 1
  <2>1. h
    <3>1. setWatchdog(d, TRUE).opt.update = TRUE
      BY WatchdogStepIs
    <3>2. QED
      BY <1>4, <1>10, <3>1 DEF opt
  <2>2. m.state = "running"
    BY <1>10 DEF OfDialog
  <2>3. ConfigAsSeen(a.m, d) = ConfigAsSeen(m, d)
    BY <1>6, <2>1 DEF ConfigAsSeen
  <2>4. ConfigAsSeen(m, d)
    BY <1>1, <1>2, <1>10, <2>2 DEF Adding
  <2>5. ~d.vm.persistent => IsAchieved(a.m, d)
    BY <1>6, <1>7, <2>1, <2>2, <2>3, <2>4 DEF IsAchieved, Achieved, ConfigAsSeen
  <2>6. d.vm.persistent => ~(step + 1 > Len(Plan(d)))
    BY <1>2, <1>10
  <2>7. QED
    BY <1>7, <2>1, <2>2, <2>3, <2>4, <2>5, <2>6 DEF Adding
<1>11. QED
  BY <1>9, <1>10, WatchdogPlanLength

LEMMA AnswerFields ==
    ASSUME NEW ok, NEW m
    PROVE  [ok |-> ok, m |-> m].ok = ok /\ [ok |-> ok, m |-> m].m = m
OBVIOUS

LEMMA DetachGoesOn ==
    ASSUME NEW m \in Machine, NEW d \in Dialog, OfDialog(d), SoundMachine(m), m.state = d.vm.state,
           m.state \in {"shutoff", "running"}, d.op = "remove", subject = "hostdev",
           NEW step \in 1 .. Len(Plan(d)), NEW s, s = Plan(d)[step], NEW doc,
           NEW a, a = Does(m, s, d, doc), a.ok, Detaching(m, d, step)
    PROVE  Detaching(a.m, d, step + 1) /\ a.m.state = m.state /\ a.m.persistent = m.persistent
<1>1. d.chosen = d.id
  BY DEF OfDialog
<1>2. m.state # "gone"
  OBVIOUS
<1>3. CASE s = Step("detachConfig", NoOptions) /\ step = 1
  <2>1. s.do = "detachConfig"
    BY <1>3, StepFields
  <2>2. a = IF m.persistent
            THEN [ok |-> TRUE, m |-> IF Has(m.inactive, d.id)
                                     THEN [m EXCEPT !.inactive = Without(m.inactive, PlaceOf(m.inactive, d.id))] ELSE m]
            ELSE [ok |-> ~Has(m.live, d.id), m |-> m]
    BY <1>2, <2>1 DEF Does, DeviceCalls
  <2>3. CASE m.persistent /\ Has(m.inactive, d.id)
    <3> DEFINE i == PlaceOf(m.inactive, d.id)
    <3>1. i \in DOMAIN m.inactive /\ m.inactive[i].id = d.id /\ AreDifferent(m.inactive)
      BY <2>3, ListsTyped, PlaceOfIsThere DEF SoundMachine
    <3>2. ~Has(Without(m.inactive, i), d.id)
      BY <3>1, ListsTyped, LosesOne
    <3>3. a.m = [m EXCEPT !.inactive = Without(m.inactive, i)]
      BY <2>2, <2>3
    <3>4. /\ a.m.inactive = Without(m.inactive, i) /\ a.m.live = m.live
          /\ a.m.state = m.state /\ a.m.persistent = m.persistent
      BY <3>3 DEF Machine
    <3> HIDE DEF i
    <3>5. d.vm.state = "shutoff" => IsAchieved(a.m, d)
      BY <1>1, <3>2, <3>4 DEF IsAchieved, Achieved
    <3>6. d.vm.state # "shutoff" => Len(Plan(d)) = 2
      BY DetachPlan
    <3>7. d.vm.state # "shutoff" => Has(a.m.live, d.id)
      BY <1>3, <3>4 DEF Detaching
    <3>8. ~Has(a.m.inactive, d.id) /\ ~(2 > 2) /\ step + 1 = 2
      BY <1>3, <3>2, <3>4
    <3>9. QED
      BY <3>4, <3>5, <3>6, <3>7, <3>8 DEF Detaching
  <2>4. CASE ~(m.persistent /\ Has(m.inactive, d.id))
    <3>1. a.m = m /\ (~m.persistent => ~Has(m.live, d.id))
      <4>1. CASE m.persistent
        BY <2>2, <2>4, <4>1
      <4>2. CASE m.persistent = FALSE
        <5>1. a = [ok |-> ~Has(m.live, d.id), m |-> m]
          BY <2>2, <4>2
        <5>2. a.m = m /\ a.ok = ~Has(m.live, d.id)
          BY <5>1, AnswerFields
        <5>3. QED
          BY <5>2
      <4>3. QED
        BY <4>1, <4>2 DEF Machine
    <3>2. d.vm.state # "shutoff" => Has(m.live, d.id)
      BY <1>3 DEF Detaching
    <3>3. m.persistent /\ ~Has(m.inactive, d.id)
      BY <2>4, <3>1, <3>2 DEF SoundMachine
    <3>4. d.vm.state = "shutoff" => IsAchieved(a.m, d)
      BY <1>1, <3>1, <3>3 DEF IsAchieved, Achieved
    <3>5. d.vm.state # "shutoff" => Len(Plan(d)) = 2
      BY DetachPlan
    <3>6. ~(2 > 2) /\ step + 1 = 2
      BY <1>3
    <3>7. QED
      BY <3>1, <3>2, <3>3, <3>4, <3>5, <3>6 DEF Detaching
  <2>5. QED
    BY <2>3, <2>4
<1>4. CASE s = Step("detachLive", NoOptions) /\ step = 2
  <2>1. s.do = "detachLive"
    BY <1>4, StepFields
  <2> DEFINE i == PlaceOf(m.live, d.id)
  <2>2. a = IF Active(m) /\ Has(m.live, d.id)
            THEN [ok |-> TRUE, m |-> [m EXCEPT !.live = Without(m.live, i)]]
            ELSE [ok |-> FALSE, m |-> m]
    BY <1>2, <2>1 DEF Does, DeviceCalls
  <2>3. Has(m.live, d.id) /\ a.m = [m EXCEPT !.live = Without(m.live, i)]
    BY <2>2
  <2>4. i \in DOMAIN m.live /\ m.live[i].id = d.id /\ AreDifferent(m.live)
    BY <2>3, ListsTyped, PlaceOfIsThere DEF SoundMachine
  <2>5. ~Has(Without(m.live, i), d.id)
    BY <2>4, ListsTyped, LosesOne
  <2>6. /\ a.m.inactive = m.inactive /\ a.m.live = Without(m.live, i)
        /\ a.m.state = m.state /\ a.m.persistent = m.persistent
    BY <2>3 DEF Machine
  <2> HIDE DEF i
  <2>7. m.persistent => ~Has(m.inactive, d.id)
    BY <1>4 DEF Detaching
  <2>8. IsAchieved(a.m, d)
    BY <1>1, <2>5, <2>6, <2>7 DEF IsAchieved, Achieved
  <2>9. QED
    BY <1>4, <2>6, <2>7, <2>8 DEF Detaching
<1>5. QED
  <2>1. CASE d.vm.state = "shutoff"
    <3>1. Plan(d) = <<Step("detachConfig", NoOptions)>>
      BY <2>1, DetachPlan
    <3>2. Len(Plan(d)) = 1 /\ step = 1
      BY <3>1
    <3>3. QED
      BY <1>3, <3>1, <3>2
  <2>2. CASE d.vm.state # "shutoff"
    <3>1. Plan(d) = <<Step("detachConfig", NoOptions), Step("detachLive", NoOptions)>>
      BY <2>2, DetachPlan
    <3>2. Len(Plan(d)) = 2 /\ step \in {1, 2}
      BY <3>1
    <3>3. CASE step = 1
      BY <1>3, <3>1, <3>3
    <3>4. CASE step = 2
      BY <1>4, <3>1, <3>4
    <3>5. QED
      BY <3>2, <3>3, <3>4
  <2>3. QED
    BY <2>1, <2>2

\* Devices are found by name, interfaces by their number in the list as the dialog
\* has seen it.
LEMMA RemovesIt ==
    ASSUME NEW list \in Seq(Devices), NEW d \in Dialog, d.op = "remove", OfDialog(d), NicIsSound(d),
           subject # "nic" => AreDifferent(list),
           subject = "nic" => Names(list) = Names(d.vm.live) \/ ~Has(list, d.id),
           CanChange(list, "remove", d)
    PROVE  /\ Change(list, "remove", d) \in Seq(Devices)
           /\ ~Has(Change(list, "remove", d), d.id)
           /\ Elems(Change(list, "remove", d)) \subseteq Elems(list)
<1> DEFINE i == Located(list, d)
           new == Change(list, "remove", d)
<1>1. i \in DOMAIN list /\ new = Without(list, i)
  BY ChangeRemoves
<1>2. ~Has(list, d.id) \/ (AreDifferent(list) /\ list[i].id = d.id)
  <2>1. CASE subject # "nic"
    BY <2>1, ChangeRemoves
  <2>2. CASE subject = "nic" /\ Names(list) = Names(d.vm.live)
    <3>1. i = d.place /\ d.vm.live[d.place].id = d.id /\ AreDifferent(d.vm.live)
      BY <2>2, ChangeRemoves DEF OfDialog, NicIsSound
    <3>2. DOMAIN list = DOMAIN d.vm.live /\ \A k \in DOMAIN list : list[k].id = d.vm.live[k].id
      <4>1. DOMAIN Names(list) = DOMAIN list /\ DOMAIN Names(d.vm.live) = DOMAIN d.vm.live
        BY DEF Names
      <4>2. DOMAIN list = DOMAIN d.vm.live
        BY <2>2, <4>1
      <4>3. ASSUME NEW k \in DOMAIN list
            PROVE  list[k].id = d.vm.live[k].id
        <5>1. Names(list)[k] = list[k].id /\ Names(d.vm.live)[k] = d.vm.live[k].id
          BY <4>2, <4>3 DEF Names
        <5>2. QED
          BY <2>2, <5>1
      <4>4. QED
        BY <4>2, <4>3
    <3>3. QED
      BY <1>1, <3>1, <3>2 DEF AreDifferent
  <2>3. QED
    BY <2>1, <2>2
<1> HIDE DEF i
<1>3. /\ Without(list, i) \in Seq(Devices)
      /\ ~Has(list, d.id) => ~Has(Without(list, i), d.id)
      /\ AreDifferent(list) => ~Has(Without(list, i), list[i].id)
      /\ \A k \in DOMAIN Without(list, i) : \E j \in DOMAIN list : Without(list, i)[k] = list[j]
  BY <1>1, LosesOne
<1> HIDE DEF new
<1>4. ~Has(new, d.id) /\ new \in Seq(Devices)
  BY <1>1, <1>2, <1>3
<1>5. Elems(new) \subseteq Elems(list)
  BY <1>1, <1>3 DEF Elems
<1>6. QED
  BY <1>4, <1>5 DEF new

LEMMA RemoveStepIs ==
    ASSUME NEW d
    PROVE  /\ RemoveStep(d).do = "remove" /\ RemoveStep(d).opt \in HotplugOptions
           /\ RemoveStep(d).opt.update = (d.vm.state = "running")
           /\ RemoveStep(d).opt.noDefine = (d.vm.state = "running" /\ ~(d.vm.persistent /\ Persists(d)))
BY StepFields, OptionsTyped DEF RemoveStep, virtXmlHotRemove, hotplugExtraOptions

\* The first call changes both lists, or leaves the configuration alone when the
\* device is not in it.
LEMMA RemoveChanges ==
    ASSUME NEW m \in Machine, NEW d \in Dialog, OfDialog(d), SoundMachine(m), m.state = d.vm.state,
           m.state \in {"shutoff", "running"}, d.op = "remove",
           subject \in {"disk", "nic", "filesystem", "watchdog"}, m.persistent = d.vm.persistent,
           d.vm.state = "running" /\ ~Has(d.vm.inactive, d.id) => ConfigAsSeen(m, d),
           NEW a, a = virtXml(m, "remove", RemoveStep(d).opt, d), a.ok
    PROVE  /\ a.m \in Machine /\ a.m.state = m.state /\ a.m.persistent = m.persistent
           /\ CanChange(LiveOf(m), "remove", d) /\ LiveOf(a.m) = Change(LiveOf(m), "remove", d)
           /\ \/ CanChange(InactiveOf(m), "remove", d) /\ InactiveOf(a.m) = Change(InactiveOf(m), "remove", d)
              \/ InactiveOf(a.m) = InactiveOf(m) /\ ~Has(InactiveOf(m), d.id)
           /\ d.vm.state = "running" /\ ~Has(d.vm.inactive, d.id) => ConfigAsSeen(a.m, d)
<1> DEFINE opt == RemoveStep(d).opt
<1>1. /\ opt \in HotplugOptions /\ opt.update = (m.state = "running")
      /\ opt.noDefine = (m.state = "running" /\ ~(m.persistent /\ Persists(d)))
  BY RemoveStepIs
<1> HIDE DEF opt
<1>2. Updates(m, opt) <=> m.state = "running"
  BY <1>1 DEF Updates, Active
<1>3. /\ a.m \in Machine /\ a.m.state = m.state
      /\ m.state = "running" => CanChange(m.live, "remove", d) /\ a.m.live = Change(m.live, "remove", d)
      /\ m.state # "running" => a.m.live = m.live
      /\ ~opt.noDefine => /\ a.m.persistent /\ CanChange(ConfigOf(m, a.m), "remove", d)
                          /\ a.m.inactive = Change(ConfigOf(m, a.m), "remove", d)
      /\ opt.noDefine => a.m.persistent = m.persistent /\ a.m.inactive = m.inactive
  BY <1>1, <1>2, virtXmlIs DEF opt
<1>4. CASE m.state = "running"
  <2>1. LiveOf(m) = m.live /\ LiveOf(a.m) = a.m.live
    BY <1>3, <1>4 DEF LiveOf, Active
  <2>2. CASE ~m.persistent
    <3>1. InactiveOf(m) = m.live /\ InactiveOf(a.m) = a.m.live /\ a.m.persistent = m.persistent
      BY <1>1, <1>3, <1>4, <2>2 DEF InactiveOf
    <3>2. QED
      BY <1>3, <1>4, <2>1, <2>2, <3>1 DEF ConfigAsSeen
  <2>3. CASE m.persistent /\ ~Persists(d)
    <3>1. ~Has(d.vm.inactive, d.id)
      BY <2>3 DEF Persists
    <3>2. m.inactive = d.vm.inactive
      BY <1>4, <2>3, <3>1 DEF ConfigAsSeen
    <3>3. a.m.persistent = m.persistent /\ a.m.inactive = m.inactive
      BY <1>1, <1>3, <1>4, <2>3
    <3>4. InactiveOf(m) = m.inactive /\ InactiveOf(a.m) = m.inactive
      BY <2>3, <3>3 DEF InactiveOf
    <3>5. QED
      BY <1>3, <1>4, <2>1, <3>1, <3>2, <3>3, <3>4 DEF ConfigAsSeen
  <2>4. CASE m.persistent /\ Persists(d)
    <3>1. /\ a.m.persistent /\ CanChange(m.inactive, "remove", d)
          /\ a.m.inactive = Change(m.inactive, "remove", d)
      BY <1>1, <1>3, <1>4, <2>4 DEF ConfigOf
    <3>2. InactiveOf(m) = m.inactive /\ InactiveOf(a.m) = a.m.inactive
      BY <2>4, <3>1 DEF InactiveOf
    <3>3. Has(d.vm.inactive, d.id)
      <4>1. SUFFICES ASSUME ~Has(d.vm.inactive, d.id)
                     PROVE  FALSE
        OBVIOUS
      <4>2. m.inactive = d.vm.inactive
        BY <1>4, <2>4, <4>1 DEF ConfigAsSeen
      <4>3. subject # "nic" /\ subject # "disk"
        BY <2>4, <4>1 DEF Persists
      <4>4. QED
        BY <3>1, <4>1, <4>2, <4>3 DEF CanChange, Located
    <3>4. a.m.persistent = m.persistent
      BY <1>3, <2>4, <3>1 DEF Machine
    <3>5. QED
      BY <1>3, <1>4, <2>1, <3>1, <3>2, <3>3, <3>4
  <2>5. QED
    BY <2>2, <2>3, <2>4
<1>5. CASE m.state = "shutoff"
  <2>1. m.persistent /\ ~opt.noDefine
    BY <1>1, <1>5 DEF SoundMachine
  <2>2. /\ a.m.persistent /\ CanChange(m.inactive, "remove", d)
        /\ a.m.inactive = Change(m.inactive, "remove", d)
    BY <1>3, <2>1 DEF ConfigOf
  <2>3. LiveOf(m) = m.inactive /\ LiveOf(a.m) = a.m.inactive
    BY <1>3, <1>5 DEF LiveOf, Active
  <2>4. InactiveOf(m) = m.inactive /\ InactiveOf(a.m) = a.m.inactive
    BY <2>1, <2>2 DEF InactiveOf
  <2>5. a.m.persistent = m.persistent
    BY <1>3, <2>1, <2>2 DEF Machine
  <2>6. QED
    BY <1>3, <1>5, <2>2, <2>3, <2>4, <2>5
<1>6. QED
  BY <1>4, <1>5

LEMMA RemoveGoesOn ==
    ASSUME NEW m \in Machine, NEW d \in Dialog, OfDialog(d), SoundMachine(m), NicIsSound(d), m.state = d.vm.state,
           m.state \in {"shutoff", "running"}, d.op = "remove",
           subject \in {"disk", "nic", "filesystem", "watchdog"}, m.persistent = d.vm.persistent,
           NEW step \in 1 .. Len(Plan(d)), NEW s, s = Plan(d)[step], NEW doc,
           NEW a, a = Does(m, s, d, doc), a.ok, Removing(m, d, step)
    PROVE  Removing(a.m, d, step + 1)
<1>1. CASE s = RemoveStep(d) /\ step = 1
  <2>1. a = virtXml(m, "remove", RemoveStep(d).opt, d)
    BY <1>1, RemoveStepIs, virtXmlDoes
  <2>2. d.vm.state = "running" /\ ~Has(d.vm.inactive, d.id) => ConfigAsSeen(m, d)
    BY DEF Removing
  <2>3. /\ CanChange(LiveOf(m), "remove", d) /\ LiveOf(a.m) = Change(LiveOf(m), "remove", d)
        /\ \/ CanChange(InactiveOf(m), "remove", d) /\ InactiveOf(a.m) = Change(InactiveOf(m), "remove", d)
           \/ InactiveOf(a.m) = InactiveOf(m) /\ ~Has(InactiveOf(m), d.id)
        /\ d.vm.state = "running" /\ ~Has(d.vm.inactive, d.id) => ConfigAsSeen(a.m, d)
    BY <2>1, <2>2, RemoveChanges
  <2>4. /\ LiveOf(m) \in Seq(Devices) /\ InactiveOf(m) \in Seq(Devices)
        /\ subject # "nic" => AreDifferent(LiveOf(m)) /\ AreDifferent(InactiveOf(m))
    BY ListsTyped DEF LiveOf, InactiveOf, SoundMachine
  <2>5. subject = "nic" => /\ Names(LiveOf(m)) = Names(d.vm.live) \/ ~Has(LiveOf(m), d.id)
                           /\ Names(InactiveOf(m)) = Names(d.vm.live) \/ ~Has(InactiveOf(m), d.id)
    BY DEF Removing
  <2>6. ~Has(LiveOf(a.m), d.id) /\ Elems(LiveOf(a.m)) \subseteq Elems(LiveOf(m))
    BY <2>3, <2>4, <2>5, RemovesIt
  <2>7. ~Has(InactiveOf(a.m), d.id) /\ Elems(InactiveOf(a.m)) \subseteq Elems(InactiveOf(m))
    <3>1. CASE CanChange(InactiveOf(m), "remove", d) /\ InactiveOf(a.m) = Change(InactiveOf(m), "remove", d)
      BY <2>4, <2>5, <3>1, RemovesIt
    <3>2. CASE InactiveOf(a.m) = InactiveOf(m) /\ ~Has(InactiveOf(m), d.id)
      BY <3>2
    <3>3. QED
      BY <2>3, <3>1, <3>2
  <2>8. QED
    BY <2>3, <2>6, <2>7 DEF Removing
<1>2. CASE s.do \in {"read", "deleteStorage"} /\ step > 1
  <2>1. SameLists(m, a.m)
    BY <1>2, QuietCalls
  <2>2. ConfigAsSeen(a.m, d) = ConfigAsSeen(m, d) /\ LiveOf(a.m) = LiveOf(m) /\ InactiveOf(a.m) = InactiveOf(m)
    BY <2>1, SameListsOf DEF SameLists, ConfigAsSeen
  <2>3. QED
    BY <1>2, <2>2 DEF Removing
<1>3. Plan(d)[1] = RemoveStep(d) /\ (step > 1 => Plan(d)[step].do \in {"read", "deleteStorage"})
  <2>1. CASE Plan(d) = <<RemoveStep(d)>>
    BY <2>1
  <2>2. CASE Plan(d) = <<RemoveStep(d), ReadStep>>
    <3>1. step > 1 => Plan(d)[step] = ReadStep
      BY <2>2
    <3>2. QED
      BY <2>2, <3>1, StepFields DEF ReadStep
  <2>3. CASE Plan(d) = <<RemoveStep(d), ReadStep, Step("deleteStorage", NoOptions)>>
    <3>1. step > 1 => Plan(d)[step] \in {ReadStep, Step("deleteStorage", NoOptions)}
      BY <2>3
    <3>2. QED
      BY <2>3, <3>1, StepFields DEF ReadStep
  <2>4. QED
    BY <2>1, <2>2, <2>3, DeviceRemovePlan
<1>4. CASE step = 1
  BY <1>1, <1>3, <1>4
<1>5. CASE step > 1
  BY <1>2, <1>3, <1>5
<1>6. QED
  BY <1>4, <1>5

\* An edit is for the configuration only.
LEMMA EditIs ==
    ASSUME NEW m \in Machine, m.state # "gone", NEW d \in Dialog, NEW doc,
           NEW a, a = Does(m, Step("edit", NoOptions), d, doc), a.ok
    PROVE  /\ a.m \in Machine /\ a.m.state = m.state /\ a.m.live = m.live /\ a.m.persistent
           /\ CanChange(InactiveOf(m), "edit", d) /\ a.m.inactive = Change(InactiveOf(m), "edit", d)
<1>1. a = virtXml(m, "edit", NoOptions, d)
  BY StepFields, virtXmlDoes
<1>2. NoOptions \in HotplugOptions /\ NoOptions.update = FALSE /\ NoOptions.noDefine = FALSE
  BY OptionsTyped DEF NoOptions
<1>3. ~Updates(m, NoOptions)
  BY <1>2 DEF Updates
<1>4. /\ a.m \in Machine /\ a.m.state = m.state /\ a.m.live = m.live
      /\ a.m.persistent /\ CanChange(ConfigOf(m, a.m), "edit", d)
      /\ a.m.inactive = Change(ConfigOf(m, a.m), "edit", d)
  BY <1>1, <1>2, <1>3, virtXmlIs
<1>5. ConfigOf(m, a.m) = InactiveOf(m)
  BY <1>4 DEF ConfigOf, InactiveOf
<1>6. QED
  BY <1>4, <1>5

LEMMA SameNames ==
    ASSUME NEW one, NEW two, Names(one) = Names(two)
    PROVE  /\ DOMAIN one = DOMAIN two /\ \A k \in DOMAIN one : one[k].id = two[k].id
           /\ IdsOf(one) = IdsOf(two)
           /\ AreDifferent(two) => AreDifferent(one)
<1>1. DOMAIN Names(one) = DOMAIN one /\ DOMAIN Names(two) = DOMAIN two
  BY DEF Names
<1>2. DOMAIN one = DOMAIN two
  BY <1>1
<1>3. ASSUME NEW k \in DOMAIN one
      PROVE  one[k].id = two[k].id
  <2>1. Names(one)[k] = one[k].id /\ Names(two)[k] = two[k].id
    BY <1>2, <1>3 DEF Names
  <2>2. QED
    BY <2>1
<1>4. QED
  BY <1>2, <1>3 DEF AreDifferent, IdsOf

LEMMA ValueTyped ==
    ASSUME NEW list \in Seq(Devices), NEW id, Has(list, id)
    PROVE  ValueOf(list, id) \in {0, 1}
BY PlaceOfIsThere, Elements DEF ValueOf

\* Each call for a disk or a watchdog sets the value, and so do the three for an
\* interface together.
LEMMA EditGoesOn ==
    ASSUME NEW m \in Machine, NEW d \in Dialog, OfDialog(d), SoundMachine(m), NicIsSound(d),
           m.state # "gone", d.op = "edit", subject \in {"disk", "nic", "watchdog"},
           NEW step \in 1 .. Len(Plan(d)), NEW s, s = Plan(d)[step], NEW doc,
           subject = "nic" => m.persistent /\ (step = 3 => doc = m.inactive),
           NEW a, a = Does(m, s, d, doc), a.ok, Editing(m, d, step)
    PROVE  Editing(a.m, d, step + 1)
<1> USE DEF Achieved
<1>1. CASE subject # "nic"
  <2>1. s = Step("edit", NoOptions)
    <3>1. CASE subject = "disk"
      <4>1. Plan(d) = <<Step("edit", NoOptions)>>
        BY <3>1, OtherDevicePlans
      <4>2. QED
        BY <4>1
    <3>2. CASE subject = "watchdog"
      BY <3>2, WatchdogPlanLength, WatchdogStepIs
    <3>3. QED
      BY <1>1, <3>1, <3>2
  <2>2. CanChange(InactiveOf(m), "edit", d) /\ a.m.inactive = Change(InactiveOf(m), "edit", d)
    BY <2>1, EditIs
  <2>3. InactiveOf(m) \in Seq(Devices) /\ AreDifferent(InactiveOf(m))
    BY <1>1, ListsTyped DEF InactiveOf, SoundMachine
  <2>4. subject = "disk" \/ d.new = d.id
    BY <1>1 DEF OfDialog
  <2>5. /\ Has(a.m.inactive, d.new)
        /\ ValueOf(a.m.inactive, d.new) = NewValue(ValueOf(InactiveOf(m), d.id), d)
    BY <2>2, <2>3, <2>4, ChangeEdits
  <2>6. Achieved(d, a.m.inactive)
    BY <1>1, <2>5 DEF NewValue
  <2>7. QED
    BY <1>1, <2>6 DEF Editing, IsAchieved
<1>2. CASE subject = "nic"
  <2>1. /\ d.new = d.id /\ Names(m.inactive) = Names(d.vm.live) /\ AreDifferent(d.vm.live)
        /\ m.persistent /\ InactiveOf(m) = m.inactive /\ m.inactive \in Seq(Devices)
    BY <1>2, ListsTyped DEF NicIsSound, Editing, InactiveOf
  <2>2. AreDifferent(m.inactive)
    BY <2>1, SameNames
  <2>3. /\ Plan(d) = <<Step("edit", NoOptions), Step("get", NoOptions), Step("define", NoOptions)>>
        /\ step \in {1, 2, 3}
    <3>1. Plan(d) = <<Step("edit", NoOptions), Step("get", NoOptions), Step("define", NoOptions)>>
      BY <1>2, OtherDevicePlans
    <3>2. QED
      BY <3>1
  <2>4. CASE step = 1
    <3>1. CanChange(m.inactive, "edit", d) /\ a.m.inactive = Change(m.inactive, "edit", d)
      BY <2>1, <2>3, <2>4, EditIs
    <3>2. /\ Has(a.m.inactive, d.id) /\ Names(a.m.inactive) = Names(m.inactive)
          /\ ValueOf(a.m.inactive, d.id) = NewValue(ValueOf(m.inactive, d.id), d)
      BY <2>1, <2>2, <3>1, ChangeEdits
    <3>3. d.v = 1 => ValueOf(a.m.inactive, d.id) = 1
      BY <3>2 DEF NewValue
    <3>4. QED
      BY <1>2, <2>1, <2>4, <3>2, <3>3 DEF Editing
  <2>5. CASE step = 2
    <3>1. SameLists(m, a.m)
      <4>1. s.do = "get"
        BY <2>3, <2>5, StepFields
      <4>2. QED
        BY <4>1, QuietCalls
    <3>2. a.m.inactive = m.inactive
      BY <3>1 DEF SameLists
    <3>3. QED
      BY <1>2, <2>5, <3>2 DEF Editing
  <2>6. CASE step = 3
    <3> DEFINE i == PlaceOf(m.inactive, d.id)
               new == [m.inactive EXCEPT ![i].v = 0]
    <3>1. Has(m.inactive, d.id) /\ (d.v = 1 => ValueOf(m.inactive, d.id) = 1)
      BY <1>2, <2>6 DEF Editing
    <3>2. s.do = "define" /\ doc = m.inactive
      BY <1>2, <2>3, <2>6, StepFields
    <3>3. a.m = IF d.v = 0 /\ ValueOf(m.inactive, d.id) # 0 THEN [m EXCEPT !.inactive = new] ELSE m
      <4>1. a = DeviceCalls(m, s, d, doc)
        BY <3>2 DEF Does
      <4>2. DeviceCalls(m, s, d, doc).m = IF d.v = 0 /\ Has(doc, d.id) /\ ValueOf(doc, d.id) # 0
                THEN [m EXCEPT !.inactive = [doc EXCEPT ![PlaceOf(doc, d.id)].v = 0]] ELSE m
        BY <3>2 DEF DeviceCalls
      <4>3. QED
        BY <3>1, <3>2, <4>1, <4>2
    <3>4. i \in DOMAIN m.inactive /\ m.inactive[i].id = d.id
      BY <2>1, <3>1, PlaceOfIsThere
    <3> HIDE DEF i
    <3>5. Has(new, d.id) /\ Names(new) = Names(m.inactive) /\ ValueOf(new, d.id) = 0
      <4> DEFINE v == 0
      <4>1. v \in {0, 1} /\ new = [m.inactive EXCEPT ![i].v = v]
        OBVIOUS
      <4> HIDE DEF v, new
      <4> DEFINE list == m.inactive
      <4>3. list \in Seq(Devices) /\ i \in DOMAIN list /\ new = [list EXCEPT ![i].v = v]
        BY <2>1, <3>4, <4>1
      <4> HIDE DEF list
      <4>4. /\ Has(new, list[i].id) /\ Names(new) = Names(list)
            /\ AreDifferent(list) => ValueOf(new, list[i].id) = v
        BY <4>1, <4>3, SetsValue
      <4>2. /\ Has(new, m.inactive[i].id) /\ Names(new) = Names(m.inactive)
            /\ ValueOf(new, m.inactive[i].id) = v
        BY <2>2, <4>4 DEF list
      <4>5. QED
        BY <3>4, <4>2 DEF v
    <3> HIDE DEF new
    <3>6. ValueOf(m.inactive, d.id) \in {0, 1} /\ d.v \in {0, 1}
      BY <2>1, <3>1, ValueTyped DEF Dialog
    <3>7. a.m.inactive = IF d.v = 0 /\ ValueOf(m.inactive, d.id) # 0 THEN new ELSE m.inactive
      BY <3>3 DEF Machine
    <3>8. Has(a.m.inactive, d.id) /\ Names(a.m.inactive) = Names(m.inactive) /\ ValueOf(a.m.inactive, d.id) = d.v
      BY <3>1, <3>5, <3>6, <3>7
    <3>9. QED
      BY <1>2, <2>1, <2>6, <3>8 DEF Editing
  <2>7. QED
    BY <2>3, <2>4, <2>5, <2>6
<1>3. QED
  BY <1>1, <1>2

\* A disk in a list without its medium.
Emptied(list, d) == IF Has(list, d.id) THEN [list EXCEPT ![PlaceOf(list, d.id)].v = 0] ELSE list

LEMMA EmptiedIs ==
    ASSUME NEW list \in Seq(Devices), NEW d
    PROVE  /\ Emptied(list, d) \in Seq(Devices) /\ IdsOf(Emptied(list, d)) = IdsOf(list)
           /\ AreDifferent(list) => AreDifferent(Emptied(list, d))
           /\ AreDifferent(list) /\ Has(list, d.id) =>
                Has(Emptied(list, d), d.id) /\ ValueOf(Emptied(list, d), d.id) = 0
           /\ d.id \in {d.chosen, d.new} => SameOthers(list, Emptied(list, d), d)
<1>1. CASE Has(list, d.id)
  <2> DEFINE i == PlaceOf(list, d.id)
             e == [list[i] EXCEPT !.v = 0]
             set == [list EXCEPT ![i] = e]
  <2>1. i \in DOMAIN list /\ list[i].id = d.id /\ list[i] \in Devices
    BY <1>1, PlaceOfIsThere, Elements
  <2>2. Emptied(list, d) = set
    BY <1>1 DEF Emptied
  <2> HIDE DEF i
  <2>3. e \in Devices /\ e.id = list[i].id /\ e.v = 0
    BY <2>1 DEF Devices
  <2> HIDE DEF e
  <2>4. /\ set \in Seq(Devices) /\ Has(set, e.id)
        /\ e.id = list[i].id => IdsOf(set) = IdsOf(list)
        /\ AreDifferent(list) /\ (e.id = list[i].id \/ ~Has(list, e.id))
              => AreDifferent(set) /\ ValueOf(set, e.id) = e.v
        /\ {e.id, list[i].id} \subseteq {d.chosen, d.new} => SameOthers(list, set, d)
    BY <2>1, <2>3, SetsOne
  <2> HIDE DEF set
  <2>5. QED
    BY <2>1, <2>2, <2>3, <2>4
<1>2. CASE ~Has(list, d.id)
  BY <1>2, SameList DEF Emptied
<1>3. QED
  BY <1>1, <1>2

\* Which lists are changed.
EmptiesConfig(m, d) == d.vm.persistent /\ Has(InactiveOf(m), d.id)
EmptiesLive(m, opt, d) == opt.live \/ (~EmptiesConfig(m, d) /\ Active(m))

LEMMA UpdateDeviceIs ==
    ASSUME NEW m \in Machine, NEW d, NEW opt, NEW a, a = UpdateDevice(m, opt, d)
    PROVE  /\ a.m \in Machine /\ a.m.state = m.state /\ a.m.persistent = m.persistent /\ a.m.images = m.images
           /\ a.m.live \in {m.live, Emptied(m.live, d)} /\ a.m.inactive \in {m.inactive, Emptied(m.inactive, d)}
           /\ a.ok /\ EmptiesLive(m, opt, d) => Active(m) /\ Has(m.live, d.id) /\ a.m.live = Emptied(m.live, d)
           /\ a.ok /\ (EmptiesConfig(m, d) \/ ~EmptiesLive(m, opt, d)) =>
                Has(m.inactive, d.id) /\ a.m.inactive = Emptied(m.inactive, d)
           /\ ~a.ok => a.m = m
           /\ ~a.ok => \/ EmptiesLive(m, opt, d) /\ ~(Active(m) /\ Has(m.live, d.id))
                       \/ (EmptiesConfig(m, d) \/ ~EmptiesLive(m, opt, d)) /\ ~Has(m.inactive, d.id)
<1> DEFINE live == EmptiesLive(m, opt, d)
           both == EmptiesConfig(m, d) \/ ~live
           bad == (live /\ ~(Active(m) /\ Has(m.live, d.id))) \/ (both /\ ~Has(m.inactive, d.id))
           l == IF live THEN Emptied(m.live, d) ELSE m.live
           c == IF both THEN Emptied(m.inactive, d) ELSE m.inactive
           n == [m EXCEPT !.live = l, !.inactive = c]
<1>1. a = IF bad THEN [ok |-> FALSE, m |-> m] ELSE [ok |-> TRUE, m |-> n]
  BY DEF UpdateDevice, EmptiesLive, EmptiesConfig, Emptied
<1>2. l \in Seq(Devices) /\ c \in Seq(Devices)
  BY ListsTyped, EmptiedIs
<1>3. l \in {m.live, Emptied(m.live, d)} /\ c \in {m.inactive, Emptied(m.inactive, d)}
  OBVIOUS
<1>4. (live => l = Emptied(m.live, d)) /\ (both => c = Emptied(m.inactive, d))
  OBVIOUS
<1> HIDE DEF l, c
<1>5. /\ n \in Machine /\ n.state = m.state /\ n.persistent = m.persistent /\ n.images = m.images
      /\ n.live = l /\ n.inactive = c
  BY <1>2 DEF Machine
<1> HIDE DEF n
<1>6. CASE bad
  <2>1. a.m = m /\ a.ok = FALSE
    BY <1>1, <1>6
  <2>2. QED
    BY <1>6, <2>1
<1>7. CASE ~bad
  <2>1. a.m = n /\ a.ok = TRUE
    BY <1>1, <1>7
  <2>2. QED
    BY <1>3, <1>4, <1>5, <1>7, <2>1
<1>8. QED
  BY <1>6, <1>7

\* A medium is inserted into the running machine and into its configuration.
LEMMA InsertGoesOn ==
    ASSUME NEW m \in Machine, NEW d \in Dialog, OfDialog(d), SoundMachine(m), m.state = d.vm.state,
           m.state \in {"shutoff", "running"}, d.op = "insert", subject = "media", m.persistent = d.vm.persistent,
           NEW step \in 1 .. Len(Plan(d)), NEW s, s = Plan(d)[step], NEW doc,
           NEW a, a = Does(m, s, d, doc), a.ok
    PROVE  Inserting(a.m, d, step + 1)
<1> DEFINE opt == virtXmlHotEdit(d).opt
<1>1. s = virtXmlHotEdit(d)
  <2>1. Plan(d) = <<virtXmlHotEdit(d)>>
    BY OtherDevicePlans
  <2> HIDE DEF opt
  <2>2. Len(Plan(d)) = 1 /\ step = 1
    BY <2>1
  <2>3. QED
    BY <2>1, <2>2
<1>2. /\ s.do = "edit" /\ s.opt = opt /\ opt \in HotplugOptions /\ opt.update = (m.state = "running")
      /\ opt.noDefine = (m.state = "running" /\ ~m.persistent)
  BY <1>1, StepFields, OptionsTyped DEF virtXmlHotEdit, hotplugExtraOptions
<1>3. a = virtXml(m, "edit", opt, d)
  BY <1>2, virtXmlDoes
<1> HIDE DEF opt
<1>4. Updates(m, opt) <=> m.state = "running"
  BY <1>2 DEF Updates, Active
<1>5. /\ a.m \in Machine /\ a.m.state = m.state
      /\ m.state = "running" => CanChange(m.live, "edit", d) /\ a.m.live = Change(m.live, "edit", d)
      /\ ~opt.noDefine => /\ CanChange(ConfigOf(m, a.m), "edit", d)
                          /\ a.m.inactive = Change(ConfigOf(m, a.m), "edit", d)
      /\ opt.noDefine => a.m.persistent = m.persistent
  BY <1>2, <1>3, <1>4, virtXmlIs
<1>6. d.new = d.id
  BY DEF OfDialog
<1>7. ASSUME NEW list \in Seq(Devices), AreDifferent(list), CanChange(list, "edit", d)
      PROVE  Achieved(d, Change(list, "edit", d))
  BY <1>6, <1>7, ChangeEdits DEF Achieved, NewValue
<1>8. m.state = "running" => Achieved(d, a.m.live)
  BY <1>5, <1>7, ListsTyped DEF SoundMachine
<1>9. a.m.persistent => Achieved(d, a.m.inactive)
  <2>1. SUFFICES ASSUME a.m.persistent
                 PROVE  Achieved(d, a.m.inactive)
    OBVIOUS
  <2>2. ~opt.noDefine /\ ConfigOf(m, a.m) = m.inactive
    BY <1>2, <1>5, <2>1 DEF SoundMachine, ConfigOf
  <2>3. QED
    BY <1>5, <1>7, <2>2, ListsTyped DEF SoundMachine
<1>10. QED
  BY <1>5, <1>8, <1>9 DEF Inserting, IsAchieved

LEMMA EjectGoesOn ==
    ASSUME NEW m \in Machine, NEW d \in Dialog, OfDialog(d), SoundMachine(m), m.state = d.vm.state,
           m.state \in {"shutoff", "running"}, d.op = "eject", subject = "media", m.persistent = d.vm.persistent,
           NEW step \in 1 .. Len(Plan(d)), NEW s, s = Plan(d)[step], NEW doc,
           NEW a, a = Does(m, s, d, doc), a.ok, Ejecting(m, d, step)
    PROVE  Ejecting(a.m, d, step + 1)
<1> DEFINE opt == [live |-> d.vm.state = "running", force |-> d.failed]
           first == Step("updateDevice", opt)
<1>1. opt.live = (m.state = "running")
  OBVIOUS
<1>2. Plan(d) = <<first, ReadStep>>
  BY OtherDevicePlans
<1> HIDE DEF opt
<1>3. first.do = "updateDevice" /\ first.opt = opt /\ ReadStep.do = "read"
  BY StepFields DEF ReadStep
<1> HIDE DEF first
<1>4. Len(Plan(d)) = 2 /\ step \in {1, 2}
  BY <1>2
<1>5. d.new = d.id /\ d.v = 0 /\ AreDifferent(m.live) /\ AreDifferent(m.inactive)
  BY DEF OfDialog, SoundMachine
<1>6. CASE step = 1
  <2>1. a = UpdateDevice(m, opt, d)
    <3>1. s = first
      BY <1>2, <1>6
    <3>2. QED
      BY <1>3, <3>1 DEF Does, DeviceCalls
  <2>2. /\ a.m.state = m.state /\ a.m.persistent = m.persistent
        /\ a.m.live \in {m.live, Emptied(m.live, d)} /\ a.m.inactive \in {m.inactive, Emptied(m.inactive, d)}
        /\ EmptiesLive(m, opt, d) => Has(m.live, d.id) /\ a.m.live = Emptied(m.live, d)
        /\ EmptiesConfig(m, d) \/ ~EmptiesLive(m, opt, d) =>
             Has(m.inactive, d.id) /\ a.m.inactive = Emptied(m.inactive, d)
    BY <2>1, UpdateDeviceIs
  <2>3. IdsOf(a.m.live) = IdsOf(m.live) /\ IdsOf(a.m.inactive) = IdsOf(m.inactive)
    BY <2>2, EmptiedIs, ListsTyped
  <2>4. IdsOf(LiveOf(a.m)) = IdsOf(LiveOf(m)) /\ IdsOf(InactiveOf(a.m)) = IdsOf(InactiveOf(m))
    BY <2>2, <2>3 DEF LiveOf, InactiveOf, Active
  <2>8. ASSUME NEW list \in Seq(Devices), AreDifferent(list), Has(list, d.id)
        PROVE  Achieved(d, Emptied(list, d))
    BY <1>5, <2>8, EmptiedIs DEF Achieved
  <2>5. m.state = "running" => Achieved(d, a.m.live)
    BY <1>1, <1>5, <2>2, <2>8, ListsTyped DEF EmptiesLive
  <2>6. m.persistent /\ Has(d.vm.inactive, d.id) => Achieved(d, a.m.inactive)
    <3>1. SUFFICES ASSUME m.persistent, Has(d.vm.inactive, d.id)
                   PROVE  Achieved(d, a.m.inactive)
      OBVIOUS
    <3>2. EmptiesConfig(m, d)
      BY <3>1 DEF EmptiesConfig, Ejecting, Has
    <3>3. QED
      BY <1>5, <2>2, <2>8, <3>2, ListsTyped
  <2>7. QED
    BY <2>2, <2>4, <2>5, <2>6 DEF Ejecting, IsAchieved
<1>7. CASE step = 2
  <2>1. SameLists(m, a.m)
    <3>1. s = ReadStep
      BY <1>2, <1>7
    <3>2. QED
      BY <1>3, <3>1, QuietCalls
  <2>2. LiveOf(a.m) = LiveOf(m) /\ InactiveOf(a.m) = InactiveOf(m) /\ IsAchieved(a.m, d) = IsAchieved(m, d)
    BY <2>1, SameListsOf DEF SameLists, IsAchieved
  <2>5. step > 1
    BY <1>7
  <2>6. IsAchieved(m, d)
    BY <2>5 DEF Ejecting
  <2>3. IsAchieved(a.m, d)
    BY <2>2, <2>6
  <2>4. QED
    BY <2>2, <2>3 DEF Ejecting
<1>8. QED
  BY <1>4, <1>6, <1>7

-----------------------------------------------------------------------------
(* Every call of a dialog of a device *)

\* Which calls a dialog makes.
IsCallOf(d, s) ==
    \/ s.do = "add" /\ s.opt \in HotplugOptions /\ d.op = "add"
    \/ s.do = "edit" /\ s.opt \in HotplugOptions /\ d.op \in {"edit", "insert"}
    \/ s.do = "remove" /\ s.opt \in HotplugOptions /\ d.op = "remove" /\ subject # "hostdev"
    \/ s.do = "updateDevice" /\ d.op = "eject"
    \/ s.do \in {"detachConfig", "detachLive"} /\ d.op = "remove" /\ subject = "hostdev"
    \/ s.do = "get" /\ d.op = "edit" /\ subject = "nic"
    \/ s.do = "define" /\ d.op = "edit" /\ subject = "nic"
    \/ s.do = "read" /\ d.op \in {"remove", "eject"}
    \/ s.do = "createVolume" /\ d.op = "add" /\ subject = "disk"
    \/ s.do = "memorybacking" /\ d.op = "add" /\ subject = "filesystem"
    \/ s.do = "deleteStorage" /\ d.op = "remove" /\ subject = "disk"

LEMMA CallIs ==
    ASSUME NEW d \in Dialog, subject \in DeviceSubjects, d.op \in OpsOf(subject), NEW step \in 1 .. Len(Plan(d))
    PROVE  /\ IsCallOf(d, Plan(d)[step])
           /\ d.op = "edit" /\ subject = "nic" /\ step = 2 => Plan(d)[step].do = "get"
           /\ Plan(d)[step].do = "get" => step = 2
           /\ Plan(d)[step].do = "deleteStorage" => step > 1
<1> DEFINE s == Plan(d)[step]
<1>0. subject \in {"disk", "media", "nic", "hostdev", "filesystem", "watchdog"}
  BY DEF DeviceSubjects, AllSubjects
<1>1. NoOptions \in HotplugOptions
  BY OptionsTyped
<1>2. CASE d.op = "add" /\ subject \in {"disk", "nic", "hostdev", "filesystem"}
  <2>1. AddStep(d).do = "add" /\ AddStep(d).opt \in HotplugOptions
    <3> DEFINE o == [update |-> d.vm.state # "shutoff", noDefine |-> FALSE]
    <3>1. o \in HotplugOptions
      BY DEF HotplugOptions
    <3>2. subject = "hostdev" => AddStep(d) = Step("add", o)
      BY DEF AddStep
    <3> HIDE DEF o
    <3>3. subject # "hostdev" => AddStep(d) = Step("add", hotplugExtraOptions(d.vm, d.always))
      BY DEF AddStep, virtXmlHotAdd
    <3>4. QED
      BY <3>1, <3>2, <3>3, StepFields, OptionsTyped
  <2>2. CASE Plan(d) = <<AddStep(d)>>
    <3>1. s = AddStep(d)
      BY <2>2
    <3>2. QED
      BY <1>2, <2>1, <3>1 DEF IsCallOf
  <2>3. CASE subject = "disk" /\ Plan(d) = <<Step("createVolume", NoOptions), AddStep(d)>>
    <3>1. s \in {Step("createVolume", NoOptions), AddStep(d)}
      BY <2>3
    <3>2. QED
      BY <1>2, <2>1, <2>3, <3>1, StepFields DEF IsCallOf
  <2>4. CASE subject = "filesystem" /\ Plan(d) = <<Step("memorybacking", NoOptions), AddStep(d)>>
    <3>1. s \in {Step("memorybacking", NoOptions), AddStep(d)}
      BY <2>4
    <3>2. QED
      BY <1>2, <2>1, <2>4, <3>1, StepFields DEF IsCallOf
  <2>5. QED
    BY <1>2, <2>2, <2>3, <2>4, AddPlan
<1>3. CASE d.op \in {"add", "edit"} /\ subject = "watchdog"
  <2>1. PICK h \in BOOLEAN : s = setWatchdog(d, h)
    BY <1>3, WatchdogPlanLength
  <2>2. CASE d.op = "edit"
    <3>1. s = Step("edit", NoOptions)
      BY <2>1, <2>2, WatchdogStepIs
    <3>2. s.do = "edit" /\ s.opt = NoOptions
      BY <3>1, StepFields
    <3>3. QED
      BY <1>1, <1>3, <2>2, <3>2 DEF IsCallOf
  <2>3. CASE d.op = "add"
    BY <2>1, <2>3, WatchdogStepIs DEF IsCallOf
  <2>4. QED
    BY <1>3, <2>2, <2>3
<1>4. CASE d.op = "remove" /\ subject \in {"disk", "nic", "filesystem", "watchdog"}
  <2>1. CASE s = RemoveStep(d)
    BY <1>4, <2>1, RemoveStepIs DEF IsCallOf
  <2>2. CASE s = ReadStep
    BY <1>4, <2>2, StepFields DEF IsCallOf, ReadStep
  <2>3. CASE s = Step("deleteStorage", NoOptions) /\ subject = "disk" /\ step > 1
    BY <1>4, <2>3, StepFields DEF IsCallOf
  <2>4. s \in {RemoveStep(d), ReadStep} \/ (s = Step("deleteStorage", NoOptions) /\ subject = "disk" /\ step > 1)
    <3>1. CASE Plan(d) = <<RemoveStep(d)>>
      BY <3>1
    <3>2. CASE Plan(d) = <<RemoveStep(d), ReadStep>>
      BY <3>2
    <3>3. CASE subject = "disk" /\ Plan(d) = <<RemoveStep(d), ReadStep, Step("deleteStorage", NoOptions)>>
      <4>1. (step = 1 /\ s = RemoveStep(d)) \/ (step = 2 /\ s = ReadStep)
            \/ (step = 3 /\ s = Step("deleteStorage", NoOptions))
        BY <3>3
      <4>2. QED
        BY <3>3, <4>1
    <3>4. QED
      BY <1>4, <3>1, <3>2, <3>3, DeviceRemovePlan
  <2>5. QED
    BY <2>1, <2>2, <2>3, <2>4
<1>5. CASE d.op = "remove" /\ subject = "hostdev"
  <2>1. s \in {Step("detachConfig", NoOptions), Step("detachLive", NoOptions)}
    <3>1. CASE Plan(d) = <<Step("detachConfig", NoOptions)>>
      BY <3>1
    <3>2. CASE Plan(d) = <<Step("detachConfig", NoOptions), Step("detachLive", NoOptions)>>
      BY <3>2
    <3>3. QED
      BY <1>5, <3>1, <3>2, DetachPlan
  <2>2. QED
    BY <1>5, <2>1, StepFields DEF IsCallOf
<1>6. CASE d.op = "edit" /\ subject = "disk"
  <2>1. Plan(d) = <<Step("edit", NoOptions)>>
    BY <1>6, OtherDevicePlans
  <2>2. s = Step("edit", NoOptions)
    BY <2>1
  <2>3. QED
    BY <1>1, <1>6, <2>2, StepFields DEF IsCallOf
<1>7. CASE d.op = "edit" /\ subject = "nic"
  <2>1. Plan(d) = <<Step("edit", NoOptions), Step("get", NoOptions), Step("define", NoOptions)>>
    BY <1>7, OtherDevicePlans
  <2>2. (step = 1 /\ s = Step("edit", NoOptions)) \/ (step = 2 /\ s = Step("get", NoOptions))
        \/ (step = 3 /\ s = Step("define", NoOptions))
    BY <2>1
  <2>3. QED
    BY <1>1, <1>7, <2>2, StepFields DEF IsCallOf
<1>8. CASE d.op = "insert"
  <2>1. Plan(d) = <<virtXmlHotEdit(d)>>
    BY <1>8, OtherDevicePlans
  <2>2. s = virtXmlHotEdit(d)
    BY <2>1
  <2>3. s.do = "edit" /\ s.opt \in HotplugOptions
    <3> DEFINE o == hotplugExtraOptions(d.vm, TRUE)
    <3>1. s = Step("edit", o) /\ o \in HotplugOptions
      BY <2>2, OptionsTyped DEF virtXmlHotEdit
    <3> HIDE DEF o
    <3>2. QED
      BY <3>1, StepFields
  <2>4. QED
    BY <1>8, <2>3 DEF IsCallOf
<1>9. CASE d.op = "eject"
  <2> DEFINE first == Step("updateDevice", [live |-> d.vm.state = "running", force |-> d.failed])
  <2>1. Plan(d) = <<first, ReadStep>>
    BY <1>9, OtherDevicePlans
  <2>2. first.do = "updateDevice" /\ ReadStep.do = "read"
    BY StepFields DEF ReadStep
  <2> HIDE DEF first
  <2>3. s \in {first, ReadStep}
    BY <2>1
  <2>4. QED
    BY <1>9, <2>2, <2>3 DEF IsCallOf
<1>10. QED
  BY <1>0, <1>2, <1>3, <1>4, <1>5, <1>6, <1>7, <1>8, <1>9 DEF OpsOf

\* No change gives two devices one name, but for interfaces.
LEMMA ChangeKeepsNames ==
    ASSUME NEW list \in Seq(Devices), AreDifferent(list), NEW d \in Dialog, OfDialog(d), subject # "nic",
           NEW do \in {"add", "edit", "remove"}, do = "edit" => d.op # "remove", CanChange(list, do, d)
    PROVE  AreDifferent(Change(list, do, d))
<1>1. CASE do = "add"
  BY <1>1, ChangeAdds
<1>2. CASE do = "edit"
  <2>1. subject = "disk" \/ d.new = d.id
    BY DEF OfDialog
  <2>2. QED
    BY <1>2, <2>1, ChangeEdits
<1>3. CASE do = "remove"
  <2>1. Located(list, d) \in DOMAIN list /\ Change(list, "remove", d) = Without(list, Located(list, d))
    BY <1>3, ChangeRemoves
  <2> DEFINE i == Located(list, d)
  <2> HIDE DEF i
  <2>2. i \in DOMAIN list /\ Change(list, "remove", d) = Without(list, i)
    BY <2>1 DEF i
  <2>3. QED
    BY <1>3, <2>2, LosesOne
<1>4. QED
  BY <1>1, <1>2, <1>3

LEMMA virtXmlKeeps ==
    ASSUME NEW m \in Machine, SoundMachine(m), NEW d \in Dialog, OfDialog(d),
           NEW do \in {"add", "edit", "remove"}, do = "edit" => d.op # "remove", NEW opt \in HotplugOptions
    PROVE  /\ virtXml(m, do, opt, d).m.state = m.state
           /\ m.persistent => virtXml(m, do, opt, d).m.persistent
           /\ SoundMachine(virtXml(m, do, opt, d).m)
<1> DEFINE a == virtXml(m, do, opt, d)
<1> HIDE DEF a
<1>1. /\ a.m \in Machine /\ a.m.state = m.state
      /\ a.m.live = IF Updates(m, opt) /\ CanChange(m.live, do, d) THEN Change(m.live, do, d) ELSE m.live
      /\ a.ok /\ ~opt.noDefine => /\ a.m.persistent /\ CanChange(ConfigOf(m, a.m), do, d)
                                  /\ a.m.inactive = Change(ConfigOf(m, a.m), do, d)
      /\ ~a.ok \/ opt.noDefine => a.m.persistent = m.persistent /\ a.m.inactive = m.inactive
  BY virtXmlIs DEF a
<1>2. m.persistent => a.m.persistent
  BY <1>1
<1>3. ASSUME subject # "nic"
      PROVE  AreDifferent(a.m.live) /\ AreDifferent(a.m.inactive)
  <2>1. AreDifferent(m.live) /\ AreDifferent(m.inactive)
    BY <1>3 DEF SoundMachine
  <2>2. AreDifferent(a.m.live)
    <3>1. CASE CanChange(m.live, do, d)
      <4>1. AreDifferent(Change(m.live, do, d))
        BY <1>3, <2>1, <3>1, ListsTyped, ChangeKeepsNames
      <4>2. QED
        BY <1>1, <2>1, <4>1
    <3>2. CASE ~CanChange(m.live, do, d)
      BY <1>1, <2>1, <3>2
    <3>3. QED
      BY <3>1, <3>2
  <2>3. ConfigOf(m, a.m) \in Seq(Devices) /\ AreDifferent(ConfigOf(m, a.m))
    BY <1>1, <2>1, <2>2, ListsTyped DEF ConfigOf
  <2>4. a.ok /\ ~opt.noDefine => AreDifferent(a.m.inactive)
    BY <1>1, <1>3, <2>3, ChangeKeepsNames
  <2>5. QED
    BY <1>1, <2>1, <2>2, <2>4
<1>4. SoundMachine(a.m)
  BY <1>1, <1>2, <1>3 DEF SoundMachine
<1>5. QED
  BY <1>1, <1>2, <1>4 DEF a

\* No call changes the state of the machine or takes its configuration away.
LEMMA CallKeeps ==
    ASSUME NEW m \in Machine, SoundMachine(m), NEW d \in Dialog, OfDialog(d), NEW s, IsCallOf(d, s),
           NEW doc, NEW n, n = Does(m, s, d, doc).m
    PROVE  n.state = m.state /\ (m.persistent => n.persistent) /\ SoundMachine(n)
<1>1. ASSUME SameLists(m, n)
      PROVE  n.state = m.state /\ (m.persistent => n.persistent) /\ SoundMachine(n)
  BY <1>1 DEF SameLists, SoundMachine
<1>2. CASE s.do \in {"get", "read", "createVolume", "deleteStorage", "memorybacking"}
  BY <1>1, <1>2, QuietCalls
<1> DEFINE changes == {"add", "edit", "remove", "updateDevice", "detachConfig", "detachLive", "define"}
<1>3. CASE s.do \in changes /\ m.state = "gone"
  <2>1. n = m
    BY <1>3 DEF Does
  <2>2. QED
    BY <1>1, <2>1 DEF SameLists
<1>4. ASSUME s.do \in changes, m.state # "gone"
      PROVE  Does(m, s, d, doc) = DeviceCalls(m, s, d, doc)
  BY <1>4 DEF Does
<1>5. CASE s.do \in {"add", "edit", "remove"} /\ m.state # "gone"
  <2>1. n = virtXml(m, s.do, s.opt, d).m
    BY <1>5, virtXmlDoes
  <2>2. s.opt \in HotplugOptions /\ (s.do = "edit" => d.op # "remove")
    BY <1>5 DEF IsCallOf
  <2>3. QED
    BY <1>5, <2>1, <2>2, virtXmlKeeps
<1>6. CASE s.do = "updateDevice" /\ m.state # "gone"
  <2> DEFINE a == UpdateDevice(m, s.opt, d)
  <2>1. n = a.m
    BY <1>4, <1>6 DEF DeviceCalls
  <2> HIDE DEF a
  <2>2. /\ a.m.state = m.state /\ a.m.persistent = m.persistent
        /\ a.m.live \in {m.live, Emptied(m.live, d)} /\ a.m.inactive \in {m.inactive, Emptied(m.inactive, d)}
    BY UpdateDeviceIs DEF a
  <2>3. AreDifferent(m.live) => AreDifferent(a.m.live)
    BY <2>2, EmptiedIs, ListsTyped
  <2>4. AreDifferent(m.inactive) => AreDifferent(a.m.inactive)
    BY <2>2, EmptiedIs, ListsTyped
  <2>5. QED
    BY <2>1, <2>2, <2>3, <2>4 DEF SoundMachine
<1>7. CASE s.do = "detachConfig" /\ m.state # "gone"
  <2> DEFINE i == PlaceOf(m.inactive, d.id)
             l == Without(m.inactive, i)
  <2>1. n = m \/ (Has(m.inactive, d.id) /\ n = [m EXCEPT !.inactive = l])
    BY <1>4, <1>7 DEF DeviceCalls
  <2>2. Has(m.inactive, d.id) => i \in DOMAIN m.inactive
    BY ListsTyped, PlaceOfIsThere
  <2> HIDE DEF i
  <2>3. Has(m.inactive, d.id) /\ AreDifferent(m.inactive) => AreDifferent(l)
    BY <2>2, ListsTyped, LosesOne
  <2> HIDE DEF l
  <2>4. CASE n = m
    BY <1>1, <2>4 DEF SameLists
  <2>5. CASE Has(m.inactive, d.id) /\ n = [m EXCEPT !.inactive = l]
    <3>1. n.state = m.state /\ n.persistent = m.persistent /\ n.live = m.live /\ n.inactive = l
      BY <2>5 DEF Machine
    <3>2. QED
      BY <2>3, <2>5, <3>1 DEF SoundMachine
  <2>6. QED
    BY <2>1, <2>4, <2>5
<1>8. CASE s.do = "detachLive" /\ m.state # "gone"
  <2> DEFINE i == PlaceOf(m.live, d.id)
             l == Without(m.live, i)
  <2>1. n = m \/ (Has(m.live, d.id) /\ n = [m EXCEPT !.live = l])
    BY <1>4, <1>8 DEF DeviceCalls
  <2>2. Has(m.live, d.id) => i \in DOMAIN m.live
    BY ListsTyped, PlaceOfIsThere
  <2> HIDE DEF i
  <2>3. Has(m.live, d.id) /\ AreDifferent(m.live) => AreDifferent(l)
    BY <2>2, ListsTyped, LosesOne
  <2> HIDE DEF l
  <2>4. CASE n = m
    BY <1>1, <2>4 DEF SameLists
  <2>5. CASE Has(m.live, d.id) /\ n = [m EXCEPT !.live = l]
    <3>1. n.state = m.state /\ n.persistent = m.persistent /\ n.inactive = m.inactive /\ n.live = l
      BY <2>5 DEF Machine
    <3>2. QED
      BY <2>3, <2>5, <3>1 DEF SoundMachine
  <2>6. QED
    BY <2>1, <2>4, <2>5
<1>9. CASE s.do = "define" /\ m.state # "gone"
  <2> DEFINE l == [doc EXCEPT ![PlaceOf(doc, d.id)].v = 0]
  <2>1. n = m \/ n = [m EXCEPT !.inactive = l]
    BY <1>4, <1>9 DEF DeviceCalls
  <2> HIDE DEF l
  <2>2. n.state = m.state /\ n.persistent = m.persistent
    BY <2>1 DEF Machine
  <2>3. subject = "nic"
    BY <1>9 DEF IsCallOf
  <2>4. QED
    BY <2>2, <2>3 DEF SoundMachine
<1>10. QED
  BY <1>2, <1>3, <1>5, <1>6, <1>7, <1>8, <1>9 DEF IsCallOf

\* Removing and inserting never make a transient machine persistent.
LEMMA NothingIsDefined ==
    ASSUME NEW d \in Dialog, subject \in DeviceSubjects, d.op \in OpsOf(subject), d.op \in {"remove", "insert"},
           NEW step \in 1 .. Len(Plan(d)), NEW s, s = Plan(d)[step], s.do \in {"remove", "edit"},
           ~s.opt.noDefine, d.vm.state = "running"
    PROVE  d.vm.persistent
<1>1. CASE d.op = "insert"
  <2>1. Plan(d) = <<virtXmlHotEdit(d)>>
    BY <1>1, OtherDevicePlans
  <2> DEFINE one == virtXmlHotEdit(d)
             o == hotplugExtraOptions(d.vm, TRUE)
  <2>2. one.opt = o
    BY StepFields DEF virtXmlHotEdit
  <2>3. o.noDefine = (d.vm.state = "running" /\ ~d.vm.persistent)
    BY DEF hotplugExtraOptions
  <2> HIDE DEF one, o
  <2>4. s = one
    BY <2>1 DEF one
  <2>5. QED
    BY <2>2, <2>3, <2>4
<1>2. CASE d.op = "remove" /\ subject = "hostdev"
  BY <1>2, CallIs DEF IsCallOf
<1>3. CASE d.op = "remove" /\ subject # "hostdev"
  <2>1. subject \in {"disk", "nic", "filesystem", "watchdog"}
    BY <1>3 DEF DeviceSubjects, AllSubjects, OpsOf
  <2>2. s \in {RemoveStep(d), ReadStep, Step("deleteStorage", NoOptions)}
    <3>1. CASE Plan(d) = <<RemoveStep(d)>>
      BY <3>1
    <3>2. CASE Plan(d) = <<RemoveStep(d), ReadStep>>
      BY <3>2
    <3>3. CASE Plan(d) = <<RemoveStep(d), ReadStep, Step("deleteStorage", NoOptions)>>
      BY <3>3
    <3>4. QED
      BY <1>3, <2>1, <3>1, <3>2, <3>3, DeviceRemovePlan
  <2>3. s = RemoveStep(d)
    BY <2>2, StepFields DEF ReadStep
  <2>4. QED
    BY <2>3, RemoveStepIs
<1>4. QED
  BY <1>1, <1>2, <1>3

LEMMA PersistenceStays ==
    ASSUME NEW m \in Machine, NEW d \in Dialog, SoundMachine(m), m.state = d.vm.state,
           m.state \in {"shutoff", "running"}, m.persistent = d.vm.persistent,
           subject \in DeviceSubjects, d.op \in OpsOf(subject), d.op \in {"remove", "insert", "eject"},
           NEW step \in 1 .. Len(Plan(d)), NEW s, s = Plan(d)[step], NEW doc, NEW n, n = Does(m, s, d, doc).m
    PROVE  n.persistent = m.persistent
<1>1. IsCallOf(d, s)
  BY CallIs
<1>2. CASE s.do \in {"get", "read", "createVolume", "deleteStorage", "memorybacking"}
  BY <1>2, QuietCalls DEF SameLists
<1>3. CASE s.do \in {"remove", "edit"}
  <2> DEFINE a == virtXml(m, s.do, s.opt, d)
  <2>1. n = a.m
    BY <1>3, virtXmlDoes
  <2>2. s.opt \in HotplugOptions
    BY <1>1, <1>3 DEF IsCallOf
  <2>3. /\ a.ok /\ ~s.opt.noDefine => a.m.persistent
        /\ ~a.ok \/ s.opt.noDefine => a.m.persistent = m.persistent
        /\ a.m \in Machine
    <3> HIDE DEF a
    <3>1. a = virtXml(m, s.do, s.opt, d)
      BY DEF a
    <3>2. s.do \in {"add", "edit", "remove"}
      BY <1>3
    <3>3. QED
      BY <2>2, <3>1, <3>2, virtXmlIs
  <2>4. ~s.opt.noDefine => m.persistent
    <3>1. CASE m.state = "shutoff"
      BY <3>1 DEF SoundMachine
    <3>2. CASE m.state = "running"
      <4>1. d.op \in {"remove", "insert"}
        BY <1>1, <1>3 DEF IsCallOf
      <4>2. QED
        BY <1>3, <3>2, <4>1, NothingIsDefined
    <3>3. QED
      BY <3>1, <3>2
  <2> HIDE DEF a
  <2>5. QED
    BY <2>1, <2>3, <2>4 DEF Machine
<1>4. CASE s.do = "updateDevice"
  <2>1. n = UpdateDevice(m, s.opt, d).m
    BY <1>4 DEF Does, DeviceCalls
  <2>2. QED
    BY <2>1, UpdateDeviceIs
<1>5. CASE s.do \in {"detachConfig", "detachLive"}
  <2>1. n \in {m, [m EXCEPT !.inactive = Without(m.inactive, PlaceOf(m.inactive, d.id))],
               [m EXCEPT !.live = Without(m.live, PlaceOf(m.live, d.id))]}
    BY <1>5 DEF Does, DeviceCalls
  <2>2. QED
    BY <2>1 DEF Machine
<1>6. QED
  BY <1>1, <1>2, <1>3, <1>4, <1>5 DEF IsCallOf

\* What a plan has read, after call s for machine m.
ReadBy(m, s, doc) == IF s.do = "get" THEN InactiveOf(m) ELSE doc

\* Every call that succeeds brings the plan one step further.
LEMMA StepGoesOn ==
    ASSUME NEW m \in Machine, NEW d \in Dialog, SoundMachine(m), OfDialog(d), d.vm.state # "gone",
           subject \in DeviceSubjects, d.op \in OpsOf(subject),
           NEW step \in 1 .. Len(Plan(d)), NEW s, s = Plan(d)[step], NEW doc, Going(m, d, step, doc),
           NEW a, a = Does(m, s, d, doc), a.ok
    PROVE  Going(a.m, d, step + 1, ReadBy(m, s, doc))
<1>1. /\ IsCallOf(d, s) /\ (d.op = "edit" /\ subject = "nic" /\ step = 2 => s.do = "get")
      /\ m.state = d.vm.state
  BY CallIs DEF Going
<1>2. a.m.state = m.state /\ (m.persistent => a.m.persistent)
  BY <1>1, CallKeeps
<1>3. m.state # "paused" => m.state \in {"shutoff", "running"}
  BY <1>1, StateIs
<1>4. d.op \in {"remove", "insert", "eject"} /\ m.state # "paused" => a.m.persistent = d.vm.persistent
  BY <1>1, <1>3, PersistenceStays DEF Going
<1>5. d.op = "edit" /\ subject = "nic" => a.m.persistent /\ (step + 1 = 3 => ReadBy(m, s, doc) = a.m.inactive)
  <2>1. SUFFICES ASSUME d.op = "edit", subject = "nic"
                 PROVE  a.m.persistent /\ (step + 1 = 3 => ReadBy(m, s, doc) = a.m.inactive)
    OBVIOUS
  <2>2. m.persistent
    BY <2>1 DEF Going
  <2>3. ASSUME step + 1 = 3
        PROVE  ReadBy(m, s, doc) = a.m.inactive
    <3>1. s.do = "get"
      BY <1>1, <2>1, <2>3
    <3>2. SameLists(m, a.m)
      BY <3>1, QuietCalls
    <3>3. QED
      BY <2>2, <3>1, <3>2 DEF ReadBy, SameLists, InactiveOf
  <2>4. QED
    BY <1>2, <2>2, <2>3
<1>6. ASSUME NicIsSound(d), m.state # "paused"
      PROVE  Doing(a.m, d, step + 1)
  <2>1. Doing(m, d, step) /\ m.state \in {"shutoff", "running"} /\ m.state # "gone"
    BY <1>3, <1>6 DEF Going
  <2>2. CASE d.op = "add" /\ subject = "watchdog"
    BY <1>1, <2>1, <2>2, WatchdogGoesOn DEF Doing
  <2>3. CASE d.op = "add" /\ subject \in {"disk", "nic", "hostdev", "filesystem"}
    BY <1>1, <2>1, <2>3, AddGoesOn DEF Doing
  <2>4. CASE d.op = "remove" /\ subject = "hostdev"
    BY <1>1, <2>1, <2>4, DetachGoesOn DEF Doing
  <2>5. CASE d.op = "remove" /\ subject \in {"disk", "nic", "filesystem", "watchdog"}
    <3>1. m.persistent = d.vm.persistent
      BY <2>1, <2>5 DEF Going
    <3>2. QED
      BY <1>1, <1>6, <2>1, <2>5, <3>1, RemoveGoesOn DEF Doing
  <2>6. CASE d.op = "edit" /\ subject \in {"disk", "nic", "watchdog"}
    <3>1. subject = "nic" => m.persistent /\ (step = 3 => doc = m.inactive)
      BY <2>6 DEF Going
    <3>2. QED
      BY <1>1, <1>6, <2>1, <2>6, <3>1, EditGoesOn DEF Doing
  <2>7. CASE d.op = "insert" /\ subject = "media"
    <3>1. m.persistent = d.vm.persistent
      BY <2>1, <2>7 DEF Going
    <3>2. QED
      BY <1>1, <2>1, <2>7, <3>1, InsertGoesOn DEF Doing
  <2>8. CASE d.op = "eject" /\ subject = "media"
    <3>1. m.persistent = d.vm.persistent
      BY <2>1, <2>8 DEF Going
    <3>2. QED
      BY <1>1, <2>1, <2>8, <3>1, EjectGoesOn DEF Doing
  <2>9. QED
    BY <2>2, <2>3, <2>4, <2>5, <2>6, <2>7, <2>8 DEF DeviceSubjects, AllSubjects, OpsOf
<1>7. QED
  BY <1>1, <1>2, <1>4, <1>5, <1>6 DEF Going

\* What a call that fails, or that is cut short, leaves: at most the live half.
HalfLeft(m, n, d, s) ==
    /\ n \in Machine /\ n.state = m.state /\ n.persistent = m.persistent /\ n.inactive = m.inactive
    /\ \/ n.live = m.live
       \/ /\ s.do \in {"add", "edit", "remove"} /\ Active(m)
          /\ CanChange(m.live, s.do, d) /\ n.live = Change(m.live, s.do, d)

LEMMA SameIsHalf ==
    ASSUME NEW m \in Machine, NEW n \in Machine, SameLists(m, n), NEW d, NEW s
    PROVE  HalfLeft(m, n, d, s)
BY DEF SameLists, HalfLeft

LEMMA RefusalLeavesHalf ==
    ASSUME NEW m \in Machine, NEW d \in Dialog, NEW s, IsCallOf(d, s), NEW doc \in Seq(Devices),
           NEW a, a = Does(m, s, d, doc), a.m \in Machine, ~a.ok
    PROVE  HalfLeft(m, a.m, d, s)
<1>1. ASSUME a.m = m
      PROVE  HalfLeft(m, a.m, d, s)
  BY <1>1, SameIsHalf DEF SameLists
<1>2. CASE s.do \in {"get", "read", "createVolume", "deleteStorage", "memorybacking"}
  BY <1>2, QuietCalls, SameIsHalf
<1> DEFINE changes == {"add", "edit", "remove", "updateDevice", "detachConfig", "detachLive", "define"}
<1>3. CASE s.do \in changes /\ m.state = "gone"
  BY <1>1, <1>3 DEF Does
<1>4. CASE s.do \in {"add", "edit", "remove"} /\ m.state # "gone"
  <2>1. a = virtXml(m, s.do, s.opt, d) /\ s.opt \in HotplugOptions
    BY <1>4, virtXmlDoes DEF IsCallOf
  <2>2. /\ a.m.state = m.state /\ a.m.persistent = m.persistent /\ a.m.inactive = m.inactive
        /\ a.m.live = IF Updates(m, s.opt) /\ CanChange(m.live, s.do, d) THEN Change(m.live, s.do, d) ELSE m.live
    BY <1>4, <2>1, virtXmlIs
  <2>3. QED
    BY <1>4, <2>2 DEF HalfLeft, Updates
<1>5. CASE s.do = "updateDevice" /\ m.state # "gone"
  <2>1. a = UpdateDevice(m, s.opt, d)
    BY <1>5 DEF Does, DeviceCalls
  <2>2. QED
    BY <1>1, <2>1, UpdateDeviceIs
<1>6. CASE s.do = "detachConfig" /\ m.state # "gone"
  <2>1. a = IF m.persistent
            THEN [ok |-> TRUE, m |-> IF Has(m.inactive, d.id)
                                     THEN [m EXCEPT !.inactive = Without(m.inactive, PlaceOf(m.inactive, d.id))] ELSE m]
            ELSE [ok |-> ~Has(m.live, d.id), m |-> m]
    BY <1>6 DEF Does, DeviceCalls
  <2>2. a.m = m
    <3>1. CASE m.persistent
      BY <2>1, <3>1
    <3>2. CASE m.persistent = FALSE
      BY <2>1, <3>2, AnswerFields
    <3>3. QED
      BY <3>1, <3>2 DEF Machine
  <2>3. QED
    BY <1>1, <2>2
<1>7. CASE s.do = "detachLive" /\ m.state # "gone"
  <2>1. a.m = m
    BY <1>7 DEF Does, DeviceCalls
  <2>2. QED
    BY <1>1, <2>1
<1>8. CASE s.do = "define" /\ m.state # "gone"
  <2>1. a.ok
    BY <1>8 DEF Does, DeviceCalls
  <2>2. QED
    BY <2>1
<1>9. QED
  BY <1>2, <1>3, <1>4, <1>5, <1>6, <1>7, <1>8 DEF IsCallOf

LEMMA AccidentLeavesHalf ==
    ASSUME TypeOK, job # NoJob, ~IsDone, IsCallOf(job.d, Call), NEW n \in {machine} \cup HalfDone
    PROVE  HalfLeft(machine, n, job.d, Call)
<1>1. machine \in Machine /\ job.d \in Dialog
  BY JobTyped DEF TypeOK
<1>2. CASE n = machine
  BY <1>1, <1>2, SameIsHalf DEF SameLists
<1>3. CASE n \in HalfDone
  <2> DEFINE opt == [update |-> TRUE, noDefine |-> TRUE]
  <2>1. Call.do # "deleteSnapshots"
    BY DEF IsCallOf
  <2>2. Call.do \in {"add", "edit", "remove"} /\ n = virtXml(machine, Call.do, opt, job.d).m
    BY <1>3, <2>1 DEF HalfDone
  <2>3. opt \in HotplugOptions /\ opt.noDefine
    BY DEF HotplugOptions
  <2> HIDE DEF opt
  <2>4. /\ n \in Machine /\ n.state = machine.state /\ n.persistent = machine.persistent
        /\ n.inactive = machine.inactive
        /\ n.live = IF Updates(machine, opt) /\ CanChange(machine.live, Call.do, job.d)
                    THEN Change(machine.live, Call.do, job.d) ELSE machine.live
    BY <1>1, <2>2, <2>3, virtXmlIs
  <2>5. QED
    BY <2>2, <2>4 DEF HalfLeft, Updates
<1>4. QED
  BY <1>2, <1>3

LEMMA HalfIsSound ==
    ASSUME NEW m \in Machine, SoundMachine(m), NEW d \in Dialog, OfDialog(d), NEW s, IsCallOf(d, s),
           NEW n, HalfLeft(m, n, d, s)
    PROVE  SoundMachine(n)
<1>1. subject # "nic" => AreDifferent(n.live)
  <2>1. SUFFICES ASSUME subject # "nic", s.do \in {"add", "edit", "remove"}, CanChange(m.live, s.do, d)
                 PROVE  AreDifferent(Change(m.live, s.do, d))
    BY DEF HalfLeft, SoundMachine
  <2>2. s.do = "edit" => d.op # "remove"
    BY DEF IsCallOf
  <2>3. QED
    BY <2>1, <2>2, ListsTyped, ChangeKeepsNames DEF SoundMachine
<1>2. QED
  BY <1>1 DEF HalfLeft, SoundMachine

\* A failure changes the dialog in one field.
LEMMA AfterFailureIs ==
    ASSUME NEW d \in Dialog, NEW step
    PROVE  LET e == AfterFailure(d, step)
           IN  /\ e.op = d.op /\ e.vm = d.vm /\ e.id = d.id /\ e.place = d.place /\ e.chosen = d.chosen
               /\ e.v = d.v /\ e.new = d.new /\ e.img = d.img /\ e.image = d.image /\ e.always = d.always
               /\ (OfDialog(d) => OfDialog(e)) /\ NicIsSound(e) = NicIsSound(d)
<1> DEFINE e == AfterFailure(d, step)
<1>1. /\ e.op = d.op /\ e.vm = d.vm /\ e.id = d.id /\ e.place = d.place /\ e.chosen = d.chosen
      /\ e.v = d.v /\ e.new = d.new /\ e.img = d.img /\ e.image = d.image /\ e.always = d.always
  BY DEF AfterFailure, Dialog
<1> HIDE DEF e
<1>2. (OfDialog(d) => OfDialog(e)) /\ NicIsSound(e) = NicIsSound(d)
  BY <1>1 DEF OfDialog, NicIsSound
<1>3. QED
  BY <1>1, <1>2 DEF e

LEMMA PlanIsNotEmpty ==
    ASSUME NEW d \in Dialog, subject \in DeviceSubjects, d.op \in OpsOf(subject), d.op \in {"add", "remove"}
    PROVE  Len(Plan(d)) >= 1 /\ (d.op = "remove" /\ subject = "hostdev" => Len(Plan(d)) <= 2)
<1>1. subject \in {"disk", "nic", "hostdev", "filesystem", "watchdog"}
  BY DEF DeviceSubjects, AllSubjects, OpsOf
<1>2. ASSUME NEW a, Plan(d) = <<a>>
      PROVE  Len(Plan(d)) = 1
  BY <1>2
<1>3. ASSUME NEW a, NEW b, Plan(d) = <<a, b>>
      PROVE  Len(Plan(d)) = 2
  BY <1>3
<1>4. ASSUME NEW a, NEW b, NEW c, Plan(d) = <<a, b, c>>
      PROVE  Len(Plan(d)) = 3
  BY <1>4
<1>5. 1 >= 1 /\ 2 >= 1 /\ 3 >= 1 /\ 1 <= 2 /\ 2 <= 2
  OBVIOUS
<1>6. CASE d.op = "add" /\ subject = "watchdog"
  <2>1. \/ Plan(d) = <<setWatchdog(d, FALSE)>> \/ Plan(d) = <<setWatchdog(d, TRUE)>>
        \/ Plan(d) = <<setWatchdog(d, TRUE), setWatchdog(d, FALSE)>>
    BY <1>6, WatchdogPlan
  <2>2. QED
    BY <1>2, <1>3, <1>5, <1>6, <2>1
<1>7. CASE d.op = "add" /\ subject # "watchdog"
  <2>1. \/ Plan(d) = <<AddStep(d)>>
        \/ Plan(d) = <<Step("createVolume", NoOptions), AddStep(d)>>
        \/ Plan(d) = <<Step("memorybacking", NoOptions), AddStep(d)>>
    BY <1>1, <1>7, AddPlan
  <2>2. QED
    BY <1>2, <1>3, <1>5, <1>7, <2>1
<1>8. CASE d.op = "remove" /\ subject = "hostdev"
  <2>1. \/ Plan(d) = <<Step("detachConfig", NoOptions)>>
        \/ Plan(d) = <<Step("detachConfig", NoOptions), Step("detachLive", NoOptions)>>
    BY <1>8, DetachPlan
  <2>2. QED
    BY <1>2, <1>3, <1>5, <2>1
<1>9. CASE d.op = "remove" /\ subject # "hostdev"
  <2>1. \/ Plan(d) = <<RemoveStep(d)>> \/ Plan(d) = <<RemoveStep(d), ReadStep>>
        \/ Plan(d) = <<RemoveStep(d), ReadStep, Step("deleteStorage", NoOptions)>>
    BY <1>1, <1>9, DeviceRemovePlan
  <2>2. QED
    BY <1>2, <1>3, <1>4, <1>5, <1>9, <2>1
<1>10. QED
  BY <1>6, <1>7, <1>8, <1>9

\* A list that a half done removal has changed has lost the device.
LEMMA HalfRemoved ==
    ASSUME NEW m \in Machine, SoundMachine(m), NEW d \in Dialog, OfDialog(d), NicIsSound(d), d.op = "remove",
           NEW s, IsCallOf(d, s), NEW n, HalfLeft(m, n, d, s),
           subject = "nic" => Names(LiveOf(m)) = Names(d.vm.live) \/ ~Has(LiveOf(m), d.id)
    PROVE  n.live = m.live \/ (Active(m) /\ ~Has(n.live, d.id) /\ Elems(n.live) \subseteq Elems(m.live))
<1>1. SUFFICES ASSUME n.live # m.live
               PROVE  Active(m) /\ ~Has(n.live, d.id) /\ Elems(n.live) \subseteq Elems(m.live)
  OBVIOUS
<1>2. Active(m) /\ CanChange(m.live, s.do, d) /\ n.live = Change(m.live, s.do, d)
      /\ s.do \in {"add", "edit", "remove"}
  BY <1>1 DEF HalfLeft
<1>3. s.do = "remove"
  BY <1>2 DEF IsCallOf
<1>4. LiveOf(m) = m.live /\ m.live \in Seq(Devices) /\ (subject # "nic" => AreDifferent(m.live))
  BY <1>2, ListsTyped DEF LiveOf, SoundMachine
<1>5. CanChange(m.live, "remove", d) /\ n.live = Change(m.live, "remove", d)
  BY <1>2, <1>3
<1>6. ~Has(Change(m.live, "remove", d), d.id) /\ Elems(Change(m.live, "remove", d)) \subseteq Elems(m.live)
  BY <1>4, <1>5, RemovesIt
<1>7. QED
  BY <1>2, <1>5, <1>6

LEMMA HalfIsBefore ==
    ASSUME NEW m \in Machine, SoundMachine(m), NEW d \in Dialog, OfDialog(d), subject \in DeviceSubjects,
           d.op \in OpsOf(subject), NEW step \in 1 .. Len(Plan(d)), NEW s, s = Plan(d)[step],
           NicIsSound(d), m.state \in {"shutoff", "running"}, m.state = d.vm.state, Doing(m, d, step),
           NEW n, HalfLeft(m, n, d, s)
    PROVE  Doing(n, AfterFailure(d, step), 1)
<1> DEFINE e == AfterFailure(d, step)
<1>1. /\ e \in Dialog /\ e.op = d.op /\ e.vm = d.vm /\ e.id = d.id /\ e.chosen = d.chosen
      /\ e.v = d.v /\ e.new = d.new /\ e.always = d.always
  BY AfterFailureIs, AfterFailureTyped
<1> HIDE DEF e
<1>2. IsCallOf(d, s)
  BY CallIs
<1>3. n.state = m.state /\ n.persistent = m.persistent /\ n.inactive = m.inactive
  BY DEF HalfLeft
<1>4. ConfigAsSeen(n, e) = ConfigAsSeen(m, d)
  BY <1>1, <1>3 DEF ConfigAsSeen
<1>5. ASSUME e.op = "add"
      PROVE  Adding(n, e, 1)
  <2>1. Adding(m, d, step) /\ step <= Len(Plan(d))
    BY <1>1, <1>5 DEF Doing
  <2>2. ~(1 > Len(Plan(e)))
    <3>1. Len(Plan(e)) >= 1
      BY <1>1, <1>5, PlanIsNotEmpty
    <3>2. Len(Plan(e)) \in Nat
      BY <1>1, PlanTyped
    <3>3. QED
      BY <3>1, <3>2
  <2>3. ~(1 > 1)
    OBVIOUS
  <2>4. QED
    BY <1>1, <1>4, <2>1, <2>2, <2>3 DEF Adding
<1>6. ASSUME e.op = "remove", subject = "hostdev"
      PROVE  Detaching(n, e, 1)
  <2>1. Detaching(m, d, step) /\ Len(Plan(d)) <= 2
    BY <1>1, <1>6, PlanIsNotEmpty DEF Doing
  <2>2. n.live = m.live
    BY <1>1, <1>2, <1>6 DEF HalfLeft, IsCallOf
  <2>3. step <= 2 /\ ~(1 > 1)
    BY <2>1
  <2>4. ~(1 > Len(Plan(e)))
    <3>1. Len(Plan(e)) >= 1
      BY <1>1, <1>6, PlanIsNotEmpty
    <3>2. Len(Plan(e)) \in Nat
      BY <1>1, PlanTyped
    <3>3. QED
      BY <3>1, <3>2
  <2>5. e.vm.state # "shutoff" => Has(n.live, e.id)
    BY <1>1, <2>1, <2>2, <2>3 DEF Detaching
  <2>6. QED
    BY <2>3, <2>4, <2>5 DEF Detaching
<1>7. ASSUME e.op = "remove", subject # "hostdev"
      PROVE  Removing(n, e, 1)
  <2>1. Removing(m, d, step)
    BY <1>1, <1>7 DEF Doing
  <2>2. subject = "nic" => Names(LiveOf(m)) = Names(d.vm.live) \/ ~Has(LiveOf(m), d.id)
    BY <2>1 DEF Removing
  <2>3. n.live = m.live \/ (Active(m) /\ ~Has(n.live, d.id) /\ Elems(n.live) \subseteq Elems(m.live))
    BY <1>1, <1>2, <1>7, <2>2, HalfRemoved
  <2>4. /\ LiveOf(n) = LiveOf(m) \/ (~Has(LiveOf(n), d.id) /\ Elems(LiveOf(n)) \subseteq Elems(LiveOf(m)))
        /\ InactiveOf(n) = InactiveOf(m)
           \/ (~Has(InactiveOf(n), d.id) /\ Elems(InactiveOf(n)) \subseteq Elems(InactiveOf(m)))
    BY <1>3, <2>3 DEF LiveOf, InactiveOf, Active
  <2>5. ~(1 > 1)
    OBVIOUS
  <2>6. /\ d.vm.state = "running" /\ ~Has(d.vm.inactive, d.id) => ConfigAsSeen(n, e)
        /\ subject = "disk" => /\ Elems(LiveOf(n)) \subseteq Elems(d.vm.live)
                               /\ Elems(InactiveOf(n)) \subseteq Elems(d.vm.inactive)
        /\ subject = "nic" => /\ Names(LiveOf(n)) = Names(d.vm.live) \/ ~Has(LiveOf(n), d.id)
                              /\ Names(InactiveOf(n)) = Names(d.vm.live) \/ ~Has(InactiveOf(n), d.id)
    BY <1>4, <2>1, <2>4 DEF Removing
  <2>7. QED
    BY <1>1, <2>5, <2>6 DEF Removing
<1>8. ASSUME e.op = "edit"
      PROVE  Editing(n, e, 1)
  <2>1. Editing(m, d, step)
    BY <1>1, <1>8 DEF Doing
  <2>2. subject = "nic" => Names(n.inactive) = Names(e.vm.live)
    BY <1>1, <1>3, <2>1 DEF Editing
  <2>3. ~(1 > 1) /\ ~(1 > 3)
    OBVIOUS
  <2>4. QED
    BY <2>2, <2>3 DEF Editing
<1>9. Inserting(n, e, 1)
  <2>1. ~(1 > 1)
    OBVIOUS
  <2>2. QED
    BY <2>1 DEF Inserting
<1>10. ASSUME e.op = "eject"
       PROVE  Ejecting(n, e, 1)
  <2>1. Ejecting(m, d, step)
    BY <1>1, <1>10 DEF Doing
  <2>2. n.live = m.live
    BY <1>1, <1>2, <1>10 DEF HalfLeft, IsCallOf
  <2>3. LiveOf(n) = LiveOf(m) /\ InactiveOf(n) = InactiveOf(m) /\ ~(1 > 1)
    BY <1>3, <2>2 DEF LiveOf, InactiveOf, Active
  <2>4. QED
    BY <1>1, <2>1, <2>3 DEF Ejecting
<1>11. QED
  BY <1>5, <1>6, <1>7, <1>8, <1>9, <1>10 DEF Doing, e

\* A dialog whose plan has failed stands where it began, as far as its properties go.
LEMMA FailureGoesBack ==
    ASSUME NEW m \in Machine, SoundMachine(m), NEW d \in Dialog, OfDialog(d), d.vm.state # "gone",
           subject \in DeviceSubjects, d.op \in OpsOf(subject), NEW step \in 1 .. Len(Plan(d)),
           NEW s, s = Plan(d)[step], NEW doc, Going(m, d, step, doc), NEW n, HalfLeft(m, n, d, s)
    PROVE  Going(n, AfterFailure(d, step), 1, <<>>)
<1> DEFINE e == AfterFailure(d, step)
<1>1. e.op = d.op /\ e.vm = d.vm /\ NicIsSound(e) = NicIsSound(d)
  BY AfterFailureIs
<1>2. n.state = m.state /\ n.persistent = m.persistent
  BY DEF HalfLeft
<1>3. m.state = d.vm.state /\ (m.state # "paused" => m.state \in {"shutoff", "running"})
  BY StateIs DEF Going
<1>4. NicIsSound(d) /\ m.state # "paused" => Doing(n, e, 1)
  BY <1>3, HalfIsBefore DEF Going
<1> HIDE DEF e
<1>5. 1 # 3
  OBVIOUS
<1>6. Going(n, e, 1, <<>>)
  BY <1>1, <1>2, <1>3, <1>4, <1>5 DEF Going
<1>7. QED
  BY <1>6 DEF e

\* The image of a disk is deleted or not: the removal is done either way.
LEMMA DeletionGoesOn ==
    ASSUME NEW m \in Machine, NEW d \in Dialog, subject \in DeviceSubjects, d.op \in OpsOf(subject),
           NEW step \in 1 .. Len(Plan(d)), Plan(d)[step].do = "deleteStorage", NEW doc, Going(m, d, step, doc)
    PROVE  Going(m, d, step + 1, doc)
<1>1. d.op = "remove" /\ subject = "disk" /\ step > 1 /\ step + 1 > 1
  BY CallIs DEF IsCallOf
<1>2. Removing(m, d, step) => Removing(m, d, step + 1)
  BY <1>1 DEF Removing
<1>3. QED
  BY <1>1, <1>2 DEF Going, Doing

-----------------------------------------------------------------------------
(* The steps keep the dialogs of devices on their way *)

\* The subject never changes.
LEMMA DialogStays ==
    ASSUME subject' = subject
    PROVE  /\ OfDialog(dialog)' = OfDialog(dialog') /\ OfDialog(job.d)' = OfDialog(job'.d)
           /\ SoundMachine(machine)' = SoundMachine(machine')
           /\ NicIsSound(dialog)' = NicIsSound(dialog') /\ NicIsSound(job.d)' = NicIsSound(job'.d)
BY DEF OfDialog, SoundMachine, NicIsSound

LEMMA PlansStay ==
    ASSUME subject' = subject
    PROVE  Plan(dialog)' = Plan(dialog') /\ Plan(job.d)' = Plan(job'.d)
BY DEF Plan

LEMMA DoingStays ==
    ASSUME subject' = subject
    PROVE  /\ Doing(machine, dialog, 1)' = Doing(machine', dialog', 1)
           /\ Doing(machine, job.d, job.step)' = Doing(machine', job'.d, job'.step)
BY PlansStay DEF Doing, Adding, Detaching, Removing, Editing, Inserting, Ejecting, IsAchieved

LEMMA GoingStays ==
    ASSUME subject' = subject
    PROVE  /\ Going(machine, dialog, 1, <<>>)' = Going(machine', dialog', 1, <<>>)
           /\ Going(machine, job.d, job.step, job.doc)' = Going(machine', job'.d, job'.step, job'.doc)
BY DialogStays, DoingStays DEF Going

LEMMA DeviceInvNext ==
    ASSUME subject' = subject,
           dialog' # NoDialog => dialog'.vm.state # "gone",
           job' # NoJob => job'.d.vm.state # "gone",
           subject \in DeviceSubjects =>
                /\ RowInv' /\ SoundMachine(machine')
                /\ dialog' # NoDialog => OfDialog(dialog')
                /\ job' # NoJob => OfDialog(job'.d),
           subject \in DeviceSubjects /\ ~disturbed' /\ job' # NoJob =>
                dialog' \in {job'.d, NoDialog} /\ Going(machine', job'.d, job'.step, job'.doc),
           subject \in DeviceSubjects /\ ~disturbed' /\ job' = NoJob /\ dialog' # NoDialog =>
                Going(machine', dialog', 1, <<>>)
    PROVE  DeviceInv'
BY DialogStays, GoingStays DEF DeviceInv, DeviceSubjects

LEMMA RowOfSound ==
    ASSUME NEW m \in Machine, SoundMachine(m)
    PROVE  /\ View(m).persistent \/ View(m).state # "shutoff"
           /\ View(m).state = "shutoff" => View(m).live = View(m).inactive
BY DEF View, SoundMachine, LiveOf, InactiveOf, Active

\* A dialog that opens on a row that is up to date has done nothing yet.
LEMMA OpeningGoes ==
    ASSUME NEW m \in Machine, SoundMachine(m), m.state # "gone", NEW d \in Dialog, OfDialog(d), d.vm = View(m),
           subject \in DeviceSubjects, d.op \in OpsOf(subject)
    PROVE  Going(m, d, 1, <<>>)
<1>1. /\ d.vm.state = m.state /\ d.vm.persistent = m.persistent
      /\ d.vm.live = LiveOf(m) /\ d.vm.inactive = InactiveOf(m)
  BY DEF View
<1>2. m.persistent => InactiveOf(m) = m.inactive
  BY DEF InactiveOf
<1>3. ConfigAsSeen(m, d)
  BY <1>1, <1>2 DEF ConfigAsSeen
<1>4. ~(1 > 1) /\ ~(1 > 3) /\ 1 # 3
  OBVIOUS
<1>5. d.op \in {"add", "remove"} => ~(1 > Len(Plan(d)))
  <2>1. SUFFICES ASSUME d.op \in {"add", "remove"}
                 PROVE  ~(1 > Len(Plan(d)))
    OBVIOUS
  <2>2. Len(Plan(d)) >= 1
    BY <2>1, PlanIsNotEmpty
  <2>3. Len(Plan(d)) \in Nat
    BY PlanTyped
  <2>4. QED
    BY <2>2, <2>3
<1>6. d.op = "edit" => m.persistent
  BY <1>1 DEF OfDialog
<1>7. ASSUME NicIsSound(d), m.state # "paused"
      PROVE  Doing(m, d, 1)
  <2>1. d.op = "add" => Adding(m, d, 1)
    BY <1>3, <1>4, <1>5 DEF Adding
  <2>2. d.op = "remove" /\ subject = "hostdev" => Detaching(m, d, 1)
    <3>1. SUFFICES ASSUME d.op = "remove", subject = "hostdev"
                   PROVE  Detaching(m, d, 1)
      OBVIOUS
    <3>2. d.vm.state # "shutoff" => Has(m.live, d.id)
      BY <1>1, <3>1, StateIs DEF OfDialog, LiveOf
    <3>3. QED
      BY <1>4, <1>5, <3>1, <3>2 DEF Detaching
  <2>3. d.op = "remove" /\ subject # "hostdev" => Removing(m, d, 1)
    BY <1>1, <1>3, <1>4, <1>7 DEF Removing, NicIsSound
  <2>4. d.op = "edit" => Editing(m, d, 1)
    BY <1>1, <1>2, <1>4, <1>6, <1>7 DEF Editing, NicIsSound
  <2>5. Inserting(m, d, 1)
    BY <1>4 DEF Inserting
  <2>6. Ejecting(m, d, 1)
    BY <1>1, <1>4 DEF Ejecting
  <2>7. QED
    BY <2>1, <2>2, <2>3, <2>4, <2>5, <2>6 DEF Doing
<1>8. QED
  BY <1>1, <1>4, <1>6, <1>7 DEF Going

LEMMA FirstIsSound ==
    ASSUME NEW m \in Machines
    PROVE  SoundMachine(m)
<1>1. PICK st \in {"shutoff", "running", "paused"}, p \in BOOLEAN, l \in FirstLists,
           mem \in FirstMemories, sn \in FirstSnapshots :
             m = FirstMachine(st, p, l, mem, sn) /\ (m.persistent \/ Active(m))
  BY MachinesAre, SMT
<1>2. l = <<>> \/ l = <<Device(0)>> \/ l = <<Device(1)>>
  BY DEF FirstLists
<1>3. \A x : AreDifferent(<<>>) /\ AreDifferent(<<x>>)
  BY DEF AreDifferent
<1>4. m.live \in {<<>>, l} /\ m.inactive \in {<<>>, l}
  BY <1>1 DEF FirstMachine
<1>5. QED
  BY <1>1, <1>2, <1>3, <1>4 DEF SoundMachine, Active

LEMMA InitKeepsDevices == Init => DeviceInv
<1>1. SUFFICES ASSUME Init
               PROVE  DeviceInv
  OBVIOUS
<1>2. machine \in Machine /\ SoundMachine(machine) /\ row = View(machine)
  BY <1>1, FirstMachineTyped, FirstIsSound DEF Init
<1>3. RowInv
  BY <1>2, RowOfSound DEF RowInv
<1>4. dialog = NoDialog /\ job = NoJob
  BY <1>1 DEF Init
<1>5. QED
  BY <1>2, <1>3, <1>4 DEF DeviceInv

LEMMA OpenKeepsDevices == ASSUME TypeOK, DeviceInv, Open PROVE DeviceInv'
<1>1. /\ subject' = subject /\ machine' = machine /\ row' = row /\ job' = job /\ dialog' \in Dialogs
      /\ row.state # "gone" /\ (~disturbed' => job = NoJob /\ row = View(machine))
  BY DEF Open
<1>2. dialog' \in Dialog /\ dialog'.op \in OpsOf(subject) /\ (HasSnapshots => dialog'.vm = row)
  BY <1>1, DialogsTyped
<1>3. subject \in DeviceSubjects => OfDialog(dialog') /\ dialog'.vm = row
  BY <1>1, DialogsAre DEF DeviceInv
<1>4. dialog'.vm = row
  BY <1>2, <1>3, Bounds DEF HasSnapshots, DeviceSubjects, TypeOK
<1>5. RowInv' = RowInv
  BY <1>1 DEF RowInv
<1>6. ASSUME subject \in DeviceSubjects, ~disturbed'
      PROVE  Going(machine', dialog', 1, <<>>)
  <2> DEFINE d == dialog'
  <2>1. d \in Dialog /\ d.op \in OpsOf(subject) /\ OfDialog(d) /\ d.vm = View(machine)
    BY <1>1, <1>2, <1>3, <1>6
  <2> HIDE DEF d
  <2>2. machine \in Machine /\ SoundMachine(machine) /\ machine.state # "gone"
    BY <1>1, <1>6 DEF TypeOK, DeviceInv, View
  <2>3. Going(machine, d, 1, <<>>)
    BY <1>6, <2>1, <2>2, OpeningGoes
  <2>4. QED
    BY <1>1, <2>3 DEF d
<1>7. QED
  BY <1>1, <1>3, <1>4, <1>5, <1>6, DeviceInvNext DEF DeviceInv

LEMMA SaveKeepsDevices == ASSUME TypeOK, DeviceInv, Save PROVE DeviceInv'
<1>1. /\ subject' = subject /\ machine' = machine /\ row' = row /\ dialog' = dialog /\ disturbed' = disturbed
      /\ dialog # NoDialog /\ job = NoJob /\ job' = [d |-> dialog, step |-> 1, doc |-> <<>>]
  BY DEF Save
<1>2. job'.d = dialog /\ job'.step = 1 /\ job'.doc = <<>>
  BY <1>1
<1>3. RowInv' = RowInv
  BY <1>1 DEF RowInv
<1>4. job' # NoJob
  <2>1. dialog \in Dialog
    BY <1>1 DEF TypeOK
  <2>2. job' \in Job
    BY <1>1, <2>1, EmptyList DEF Job
  <2>3. QED
    BY <2>2, Bounds
<1>5. QED
  BY <1>1, <1>2, <1>3, <1>4, DeviceInvNext DEF DeviceInv

\* Whatever changes neither the machine nor the plan.
LEMMA OthersKeepDevices ==
    ASSUME TypeOK, DeviceInv, UNCHANGED <<subject, machine, job, disturbed>>, dialog' \in {dialog, NoDialog},
           row' \in {row, View(machine)}
    PROVE  DeviceInv'
<1>1. subject \in DeviceSubjects => RowInv'
  <2>1. SUFFICES ASSUME subject \in DeviceSubjects
                 PROVE  RowInv'
    OBVIOUS
  <2>2. machine \in Machine /\ SoundMachine(machine) /\ RowInv
    BY <2>1 DEF TypeOK, DeviceInv
  <2>3. CASE row' = row
    BY <2>2, <2>3 DEF RowInv
  <2>4. CASE row' = View(machine)
    BY <2>2, <2>4, RowOfSound DEF RowInv
  <2>5. QED
    BY <2>3, <2>4
<1>2. dialog' # NoDialog => dialog' = dialog
  OBVIOUS
<1>3. QED
  BY <1>1, <1>2, DeviceInvNext DEF DeviceInv

\* What is known of a plan that makes a call.
LEMMA CallingJob ==
    ASSUME TypeOK, DeviceInv, job # NoJob, ~IsDone
    PROVE  /\ machine \in Machine /\ job.d \in Dialog /\ job.doc \in Seq(Devices)
           /\ job.step \in 1 .. Len(Plan(job.d)) /\ Call = Plan(job.d)[job.step]
           /\ Answer = Does(machine, Call, job.d, job.doc) /\ Answer.m \in Machine
           /\ job.d.op \in OpsOf(subject) /\ job.d.vm.state # "gone"
           /\ subject \in DeviceSubjects =>
                /\ SoundMachine(machine) /\ OfDialog(job.d) /\ IsCallOf(job.d, Call)
                /\ ~disturbed => dialog \in {job.d, NoDialog} /\ Going(machine, job.d, job.step, job.doc)
<1>1. /\ machine \in Machine /\ job.d \in Dialog /\ job.doc \in Seq(Devices)
      /\ job.step \in 1 .. Len(Plan(job.d)) /\ Call = Plan(job.d)[job.step]
      /\ Answer = Does(machine, Call, job.d, job.doc) /\ job.d.op \in OpsOf(subject)
  BY JobTyped DEF TypeOK, Calls, Call, Answer
<1>2. subject \in DeviceSubjects => IsCallOf(job.d, Call)
  BY <1>1, CallIs
<1>3. QED
  BY <1>1, <1>2, AnswerTyped DEF DeviceInv

LEMMA CallReturnsKeepsDevices == ASSUME TypeOK, DeviceInv, CallReturns PROVE DeviceInv'
<1>1. /\ subject' = subject /\ job # NoJob /\ ~IsDone /\ Answer.ok /\ machine' = Answer.m
      /\ row' \in {row, View(machine)} /\ disturbed' = disturbed
      /\ dialog' = IF Call.do = "close" THEN NoDialog ELSE dialog
      /\ job' = [job EXCEPT !.step = job.step + 1, !.doc = IF Call.do = "get" THEN InactiveOf(machine) ELSE job.doc]
  BY DEF CallReturns
<1>2. job' # NoJob /\ job'.d = job.d /\ job'.step = job.step + 1 /\ job'.doc = ReadBy(machine, Call, job.doc)
  <2>1. job' # NoJob /\ job'.d = job.d /\ job'.step = job.step + 1
    BY NextCall
  <2>2. job'.doc = ReadBy(machine, Call, job.doc)
    BY <1>1, JobTyped DEF ReadBy, Job
  <2>3. QED
    BY <2>1, <2>2
<1>3. /\ machine \in Machine /\ job.d \in Dialog /\ job.step \in 1 .. Len(Plan(job.d))
      /\ Call = Plan(job.d)[job.step] /\ Answer = Does(machine, Call, job.d, job.doc)
      /\ job.d.op \in OpsOf(subject) /\ job.d.vm.state # "gone"
  BY <1>1, CallingJob
<1>4. ASSUME subject \in DeviceSubjects
      PROVE  RowInv' /\ SoundMachine(machine')
  <2>1. SoundMachine(machine) /\ OfDialog(job.d) /\ IsCallOf(job.d, Call)
    BY <1>1, <1>4, CallingJob
  <2>2. SoundMachine(machine')
    BY <1>1, <1>3, <2>1, CallKeeps
  <2>3. CASE row' = row
    BY <1>4, <2>2, <2>3 DEF DeviceInv, RowInv
  <2>4. CASE row' = View(machine)
    BY <1>3, <2>1, <2>2, <2>4, RowOfSound DEF RowInv
  <2>5. QED
    BY <1>1, <2>2, <2>3, <2>4
<1>5. ASSUME subject \in DeviceSubjects, ~disturbed
      PROVE  dialog' \in {job'.d, NoDialog} /\ Going(machine', job'.d, job'.step, job'.doc)
  <2>1. /\ SoundMachine(machine) /\ OfDialog(job.d) /\ IsCallOf(job.d, Call)
        /\ dialog \in {job.d, NoDialog} /\ Going(machine, job.d, job.step, job.doc)
    BY <1>1, <1>5, CallingJob
  <2>2. Going(Answer.m, job.d, job.step + 1, ReadBy(machine, Call, job.doc))
    BY <1>1, <1>3, <1>5, <2>1, StepGoesOn
  <2>3. QED
    BY <1>1, <1>2, <2>1, <2>2
<1>6. dialog' # NoDialog => dialog' = dialog
  BY <1>1
<1>7. QED
  BY <1>1, <1>2, <1>4, <1>5, <1>6, DeviceInvNext DEF DeviceInv

\* After a failure the dialog that has saved, if it is still open, is where it began.
LEMMA FailKeepsDevices ==
    ASSUME TypeOK, DeviceInv, job # NoJob, ~IsDone, Fail, subject' = subject, row' = row, disturbed' = disturbed,
           subject \in DeviceSubjects => HalfLeft(machine, machine', job.d, Call)
    PROVE  DeviceInv'
<1>1. /\ machine \in Machine /\ job.d \in Dialog /\ job.step \in 1 .. Len(Plan(job.d))
      /\ Call = Plan(job.d)[job.step] /\ job.d.op \in OpsOf(subject) /\ job.d.vm.state # "gone"
  BY CallingJob
<1>2. job' = NoJob /\ dialog' = IF dialog = job.d THEN AfterFailure(job.d, job.step) ELSE dialog
  BY DEF Fail
<1>3. ASSUME dialog' # NoDialog
      PROVE  dialog'.vm.state # "gone"
  <2>1. CASE dialog = job.d
    BY <1>1, <1>2, <2>1, AfterFailureIs
  <2>2. CASE dialog # job.d
    BY <1>2, <1>3, <2>2 DEF DeviceInv
  <2>3. QED
    BY <2>1, <2>2
<1>4. ASSUME subject \in DeviceSubjects
      PROVE  RowInv' /\ SoundMachine(machine') /\ (dialog' # NoDialog => OfDialog(dialog'))
  <2>1. SoundMachine(machine) /\ OfDialog(job.d) /\ IsCallOf(job.d, Call) /\ HalfLeft(machine, machine', job.d, Call)
    BY <1>4, CallingJob
  <2>2. SoundMachine(machine')
    BY <1>1, <2>1, HalfIsSound
  <2>3. RowInv'
    BY <1>4 DEF DeviceInv, RowInv
  <2>4. dialog' # NoDialog => OfDialog(dialog')
    <3>1. CASE dialog = job.d
      BY <1>1, <1>2, <2>1, <3>1, AfterFailureIs
    <3>2. CASE dialog # job.d
      BY <1>2, <1>4, <3>2 DEF DeviceInv
    <3>3. QED
      BY <3>1, <3>2
  <2>5. QED
    BY <2>2, <2>3, <2>4
<1>5. ASSUME subject \in DeviceSubjects, ~disturbed, dialog' # NoDialog
      PROVE  Going(machine', dialog', 1, <<>>)
  <2>1. /\ SoundMachine(machine) /\ OfDialog(job.d) /\ HalfLeft(machine, machine', job.d, Call)
        /\ dialog \in {job.d, NoDialog} /\ Going(machine, job.d, job.step, job.doc)
    BY <1>5, CallingJob
  <2>2. dialog' = AfterFailure(job.d, job.step)
    BY <1>2, <1>5, <2>1
  <2>3. Going(machine', AfterFailure(job.d, job.step), 1, <<>>)
    BY <1>1, <1>5, <2>1, FailureGoesBack
  <2>4. QED
    BY <2>2, <2>3
<1>6. QED
  BY <1>2, <1>3, <1>4, <1>5, DeviceInvNext

LEMMA CallIsRefusedKeepsDevices == ASSUME TypeOK, DeviceInv, CallIsRefused PROVE DeviceInv'
<1>1. /\ job # NoJob /\ ~IsDone /\ ~Answer.ok /\ machine' = Answer.m /\ Fail
      /\ subject' = subject /\ row' = row /\ disturbed' = disturbed
  BY DEF CallIsRefused
<1>2. subject \in DeviceSubjects => HalfLeft(machine, machine', job.d, Call)
  BY <1>1, CallingJob, RefusalLeavesHalf
<1>3. QED
  BY <1>1, <1>2, FailKeepsDevices

LEMMA CallFailsKeepsDevices == ASSUME TypeOK, DeviceInv, CallFails PROVE DeviceInv'
<1>1. /\ job # NoJob /\ ~IsDone /\ machine' \in {machine} \cup HalfDone
      /\ subject' = subject /\ row' = row /\ disturbed' = disturbed
  BY DEF CallFails
<1>2. subject \in DeviceSubjects => HalfLeft(machine, machine', job.d, Call)
  BY <1>1, CallingJob, AccidentLeavesHalf
<1>3. CASE Call.do # "deleteStorage"
  <2>1. Fail
    BY <1>3 DEF CallFails
  <2>2. QED
    BY <1>1, <1>2, <2>1, FailKeepsDevices
<1>4. CASE Call.do = "deleteStorage"
  <2>1. job' = [job EXCEPT !.step = job.step + 1] /\ dialog' = dialog
    BY <1>4 DEF CallFails
  <2>2. job'.d = job.d /\ job'.step = job.step + 1 /\ job'.doc = job.doc /\ job' # NoJob
    BY <1>1, <2>1, JobTyped, Bounds DEF Job
  <2>3. machine' = machine
    BY <1>1, <1>4 DEF HalfDone
  <2>4. RowInv' = RowInv
    BY <1>1 DEF RowInv
  <2>5. ASSUME subject \in DeviceSubjects, ~disturbed
        PROVE  dialog' \in {job'.d, NoDialog} /\ Going(machine', job'.d, job'.step, job'.doc)
    <3>1. /\ machine \in Machine /\ job.d \in Dialog /\ job.step \in 1 .. Len(Plan(job.d))
          /\ Call = Plan(job.d)[job.step] /\ job.d.op \in OpsOf(subject)
          /\ dialog \in {job.d, NoDialog} /\ Going(machine, job.d, job.step, job.doc)
      BY <1>1, <2>5, CallingJob
    <3>2. Going(machine, job.d, job.step + 1, job.doc)
      BY <1>4, <2>5, <3>1, DeletionGoesOn
    <3>3. QED
      BY <2>1, <2>2, <2>3, <3>1, <3>2
  <2>6. QED
    BY <1>1, <2>1, <2>2, <2>3, <2>4, <2>5, DeviceInvNext DEF DeviceInv
<1>5. QED
  BY <1>3, <1>4

LEMMA FinishKeepsDevices == ASSUME TypeOK, DeviceInv, Finish PROVE DeviceInv'
<1>1. /\ subject' = subject /\ machine' = machine /\ row' = row /\ disturbed' = disturbed /\ job # NoJob
      /\ job' = NoJob /\ dialog' = IF job.d.op = "delete" THEN dialog ELSE NoDialog
  BY DEF Finish
<1>2. subject \in DeviceSubjects => dialog' = NoDialog
  BY <1>1, JobTyped DEF DeviceSubjects, AllSubjects, OpsOf
<1>3. RowInv' = RowInv
  BY <1>1 DEF RowInv
<1>4. dialog' # NoDialog => dialog' = dialog
  BY <1>1
<1>5. QED
  BY <1>1, <1>2, <1>3, <1>4, DeviceInvNext DEF DeviceInv

\* Others start and stop the machine and change its configuration.
LEMMA OutsideIsSound ==
    ASSUME NEW n \in PowerChanged \cup ConfigEdited \cup SnapshotsEdited,
           machine \in Machine, SoundMachine(machine), subject \in DeviceSubjects
    PROVE  SoundMachine(n)
<1>1. \A x : AreDifferent(<<>>)
  BY DEF AreDifferent
<1>2. CASE n \in PowerChanged
  <2>1. CASE machine.state = "shutoff"
    <3>1. n = [machine EXCEPT !.state = "running", !.live = machine.inactive]
      BY <1>2, <2>1 DEF PowerChanged, Active
    <3>2. n.state = "running" /\ n.live = machine.inactive /\ n.inactive = machine.inactive
      BY <3>1 DEF Machine
    <3>3. QED
      BY <3>2 DEF SoundMachine
  <2>2. CASE Active(machine)
    <3>1. \/ n = Stopped(machine)
          \/ \E s \in {"running", "paused"} \ {machine.state} : n = [machine EXCEPT !.state = s]
      BY <1>2, <2>2 DEF PowerChanged, Active
    <3>2. CASE n = Stopped(machine) /\ machine.persistent
      <4>1. n = [machine EXCEPT !.state = "shutoff", !.live = <<>>]
        BY <3>2 DEF Stopped
      <4>2. n.persistent = machine.persistent /\ n.live = <<>> /\ n.inactive = machine.inactive
        BY <4>1 DEF Machine
      <4>3. QED
        BY <1>1, <3>2, <4>2 DEF SoundMachine
    <3>3. CASE n = Stopped(machine) /\ ~machine.persistent
      <4>1. n = [machine EXCEPT !.state = "gone", !.persistent = FALSE, !.live = <<>>, !.inactive = <<>>, !.snaps = {}]
        BY <3>3 DEF Stopped, Gone
      <4>2. n.state = "gone" /\ n.live = <<>> /\ n.inactive = <<>>
        BY <4>1 DEF Machine
      <4>3. QED
        BY <1>1, <4>2 DEF SoundMachine
    <3>4. CASE \E s \in {"running", "paused"} \ {machine.state} : n = [machine EXCEPT !.state = s]
      BY <3>4 DEF SoundMachine, Machine
    <3>5. QED
      BY <3>1, <3>2, <3>3, <3>4
  <2>3. QED
    BY <1>2, <2>1, <2>2 DEF PowerChanged, Machine, States, Active
<1>3. CASE n \in ConfigEdited
  <2>1. PICK k \in DOMAIN machine.inactive :
          \/ n = [machine EXCEPT !.inactive = Without(machine.inactive, k)]
          \/ n = [machine EXCEPT !.inactive[k].v = 1 - machine.inactive[k].v]
    BY <1>3 DEF ConfigEdited
  <2> DEFINE list == machine.inactive
             e == [list[k] EXCEPT !.v = 1 - list[k].v]
             set == [list EXCEPT ![k] = e]
  <2>2. list \in Seq(Devices) /\ k \in DOMAIN list
    BY <2>1, ListsTyped
  <2>3. n = [machine EXCEPT !.inactive = Without(list, k)] \/ n = [machine EXCEPT !.inactive = set]
    BY <2>1
  <2>4. AreDifferent(list) => AreDifferent(Without(list, k))
    <3> HIDE DEF list
    <3>1. QED
      BY <2>2, LosesOne
  <2>5. e \in Devices /\ e.id = list[k].id
    <3> HIDE DEF list
    <3>1. list[k] \in Devices /\ list[k].v \in {0, 1}
      BY <2>2, Elements
    <3>2. 1 - list[k].v \in {0, 1}
      BY <3>1
    <3>3. QED
      BY <3>1, <3>2 DEF Devices
  <2> HIDE DEF e
  <2>6. AreDifferent(list) => AreDifferent(set)
    <3> HIDE DEF list
    <3>1. QED
      BY <2>2, <2>5, SetsOne
  <2> HIDE DEF set
  <2>7. n.state = machine.state /\ n.persistent = machine.persistent /\ n.live = machine.live
        /\ n.inactive \in {Without(list, k), set}
    BY <2>3 DEF Machine
  <2>8. QED
    BY <2>4, <2>6, <2>7 DEF SoundMachine
<1>4. n \notin SnapshotsEdited
  BY DEF SnapshotsEdited, DeviceSubjects
<1>5. QED
  BY <1>2, <1>3, <1>4

LEMMA OutsideKeepsDevices == ASSUME TypeOK, DeviceInv, Outside PROVE DeviceInv'
<1>1. /\ subject' = subject /\ row' = row /\ dialog' = dialog /\ job' = job /\ disturbed' = TRUE
      /\ machine' \in PowerChanged \cup ConfigEdited \cup SnapshotsEdited
  BY DEF Outside
<1>2. subject \in DeviceSubjects => SoundMachine(machine')
  BY <1>1, OutsideIsSound DEF TypeOK, DeviceInv
<1>3. RowInv' = RowInv
  BY <1>1 DEF RowInv
<1>4. QED
  BY <1>1, <1>2, <1>3, DeviceInvNext DEF DeviceInv

LEMMA StepKeepsDevices == TypeOK /\ DeviceInv /\ [Next]_vars => DeviceInv'
<1>1. SUFFICES ASSUME TypeOK, DeviceInv, [Next]_vars
               PROVE  DeviceInv'
  OBVIOUS
<1>2. CASE Open
  BY <1>1, <1>2, OpenKeepsDevices
<1>3. CASE Save
  BY <1>1, <1>3, SaveKeepsDevices
<1>4. CASE CallReturns
  BY <1>1, <1>4, CallReturnsKeepsDevices
<1>5. CASE CallIsRefused
  BY <1>1, <1>5, CallIsRefusedKeepsDevices
<1>6. CASE CallFails
  BY <1>1, <1>6, CallFailsKeepsDevices
<1>7. CASE Finish
  BY <1>1, <1>7, FinishKeepsDevices
<1>8. CASE Cancel \/ domainGet \/ snapshotGetAll \/ snapshotGetAllFails \/ UNCHANGED vars
  <2>1. UNCHANGED <<subject, machine, job, disturbed>> /\ dialog' \in {dialog, NoDialog}
        /\ row' \in {row, View(machine)}
    BY <1>8 DEF Cancel, domainGet, snapshotGetAll, snapshotGetAllFails, vars
  <2>2. QED
    BY <1>1, <2>1, OthersKeepDevices
<1>9. CASE Outside
  BY <1>1, <1>9, OutsideKeepsDevices
<1>10. QED
  BY <1>1, <1>2, <1>3, <1>4, <1>5, <1>6, <1>7, <1>8, <1>9 DEF Next

LEMMA DevicesGoOn == Spec => [](TypeOK /\ DeviceInv)
<1>1. Init => TypeOK /\ DeviceInv
  BY InitTyped, InitKeepsDevices
<1>2. TypeOK /\ DeviceInv /\ [Next]_vars => (TypeOK /\ DeviceInv)'
  BY StepKeepsTypes, StepKeepsDevices
<1>3. QED
  BY <1>1, <1>2, PTL DEF Spec

-----------------------------------------------------------------------------
(* What the dialogs of devices have done when they close *)

LEMMA DoneIsAchieved ==
    ASSUME TypeOK, DeviceInv, job # NoJob, IsDone, IsCurrent(job.d), machine.state # "paused",
           subject \in DeviceSubjects, NicIsSound(job.d)
    PROVE  IsAchieved(machine, job.d)
<1> DEFINE d == job.d
           m == machine
           step == job.step
<1>1. /\ d \in Dialog /\ step \in Nat \ {0} /\ step > Len(Plan(d)) /\ Len(Plan(d)) \in Nat
      /\ d.op \in OpsOf(subject) /\ m \in Machine
  BY JobTyped, PlanTyped, LenProperties DEF Calls, IsDone, TypeOK
<1>2. OfDialog(d) /\ Going(m, d, step, job.doc)
  BY DEF DeviceInv, IsCurrent, Undisturbed
<1> SUFFICES IsAchieved(m, d)
  OBVIOUS
<1> HIDE DEF d, m, step
<1>3. Doing(m, d, step)
  BY <1>2 DEF Going, d, m
<1>4. CASE d.op = "add"
  BY <1>1, <1>3, <1>4 DEF Doing, Adding
<1>5. CASE d.op = "remove" /\ subject = "hostdev"
  BY <1>1, <1>3, <1>5 DEF Doing, Detaching
<1>6. CASE d.op = "remove" /\ subject # "hostdev"
  <2>1. Len(Plan(d)) >= 1
    BY <1>1, <1>6, PlanIsNotEmpty
  <2>2. step > 1
    BY <1>1, <2>1
  <2>3. ~Has(LiveOf(m), d.id) /\ ~Has(InactiveOf(m), d.id) /\ d.chosen = d.id
    BY <1>2, <1>3, <1>6, <2>2 DEF Doing, Removing, OfDialog
  <2>4. /\ m.state = "running" => ~Has(m.live, d.chosen)
        /\ m.persistent => ~Has(m.inactive, d.chosen)
    BY <2>3 DEF LiveOf, InactiveOf, Active
  <2>5. QED
    BY <1>6, <2>4 DEF IsAchieved, Achieved
<1>7. CASE d.op = "edit" /\ subject # "nic"
  <2>1. subject \in {"disk", "watchdog"}
    BY <1>1, <1>7 DEF OpsOf, DeviceSubjects, AllSubjects
  <2>2. Len(Plan(d)) >= 1
    <3>1. CASE subject = "disk"
      <4>1. Len(Plan(d)) = 1
        BY <1>1, <1>7, <3>1, OtherDevicePlans, Lengths
      <4>2. QED
        BY <4>1
    <3>2. CASE subject = "watchdog"
      <4>1. Len(Plan(d)) \in {1, 2}
        <5>1. \/ \E a : Plan(d) = <<a>>
              \/ \E a, b : Plan(d) = <<a, b>>
          BY <1>1, <1>7, <3>2, WatchdogPlan
        <5>2. QED
          BY <5>1, Lengths
      <4>2. QED
        BY <4>1
    <3>3. QED
      BY <2>1, <3>1, <3>2
  <2>3. step > 1
    BY <1>1, <2>2
  <2>4. QED
    BY <1>3, <1>7, <2>3 DEF Doing, Editing
<1>8. CASE d.op = "edit" /\ subject = "nic"
  <2>1. Len(Plan(d)) = 3
    BY <1>1, <1>8, OtherDevicePlans, Lengths
  <2>2. step > 1 /\ step > 3
    BY <1>1, <2>1
  <2>3. Has(m.inactive, d.id) /\ ValueOf(m.inactive, d.id) = d.v /\ d.new = d.id
    BY <1>3, <1>8, <2>2 DEF Doing, Editing, NicIsSound, d
  <2>4. QED
    BY <1>8, <2>3 DEF IsAchieved, Achieved
<1>9. CASE d.op = "insert"
  <2>1. Len(Plan(d)) = 1
    BY <1>1, <1>9, OtherDevicePlans, Lengths
  <2>2. step > 1
    BY <1>1, <2>1
  <2>3. QED
    BY <1>3, <1>9, <2>2 DEF Doing, Inserting
<1>10. CASE d.op = "eject"
  <2>1. Len(Plan(d)) = 2
    BY <1>1, <1>10, OtherDevicePlans, Lengths
  <2>2. step > 1
    BY <1>1, <2>1
  <2>3. QED
    BY <1>3, <1>10, <2>2 DEF Doing, Ejecting
<1>11. d.op \in {"add", "remove", "edit", "insert", "eject"}
  BY <1>1 DEF OpsOf, DeviceSubjects, AllSubjects
<1>12. QED
  BY <1>4, <1>5, <1>6, <1>7, <1>8, <1>9, <1>10, <1>11 DEF d, m

(* A dialog of a device (components/vm/disks, nics, hostdevs, filesystems,  *)
(* watchdog.tsx) that has saved closes only when the running machine and    *)
(* its configuration are as it has asked, unless others interfere.          *)
THEOREM DevicesAreAsAsked == Spec => DevicesAreDone
<1>1. Spec => [](TypeOK /\ DeviceInv)
  BY DevicesGoOn
<1>2. TypeOK /\ DeviceInv =>
        [job # NoJob /\ IsDone /\ job' = NoJob /\ IsCurrent(job.d) /\ machine.state # "paused"
            /\ subject \notin {"snapshot", "machine"}
            /\ (subject = "nic" => job.d.id = job.d.chosen /\ (job.d.op = "edit" => job.d.new = job.d.id)
                                   /\ Names(job.d.vm.live) = Names(job.d.vm.inactive)
                                   /\ AreDifferent(job.d.vm.live))
        => LET d == job.d
               lasting == d.always \/ d.vm.state = "shutoff"
           IN  /\ machine.state = "running" /\ d.op # "edit" /\ ~(subject = "watchdog" /\ d.failed)
                    => Achieved(d, machine.live)
               /\ machine.persistent /\ (d.op = "add" => lasting) /\ (d.op = "eject" => Has(d.vm.inactive, d.id))
                    => Achieved(d, machine.inactive)
               /\ machine.persistent /\ d.op = "add" /\ ~lasting /\ ~Has(d.vm.inactive, d.id)
                    => ~Has(machine.inactive, d.id)]_vars
  <2>1. SUFFICES ASSUME TypeOK, DeviceInv, job # NoJob, IsDone, IsCurrent(job.d), machine.state # "paused",
                        subject \notin {"snapshot", "machine"}, NicIsSound(job.d)
                 PROVE  IsAchieved(machine, job.d)
    BY DEF NicIsSound, IsAchieved, Lasting
  <2>2. subject \in DeviceSubjects
    BY <2>1, Bounds DEF TypeOK, DeviceSubjects
  <2>3. QED
    BY <2>1, <2>2, DoneIsAchieved
<1>3. QED
  BY <1>1, <1>2, PTL DEF DevicesAreDone

-----------------------------------------------------------------------------
(* Deleting the image of a disk *)

\* The machine is changed by the calls of a plan, or by others.
LEMMA WhoChanges ==
    ASSUME TypeOK, [Next]_vars, machine' # machine
    PROVE  \/ CallReturns \/ CallIsRefused \/ CallFails
           \/ Outside /\ outside' # outside
<1>1. Outside => outside' # outside
  BY DEF Outside, TypeOK
<1>2. ~(Open \/ Save \/ Cancel \/ Finish \/ domainGet \/ snapshotGetAll \/ snapshotGetAllFails \/ UNCHANGED vars)
  BY DEF Open, Save, Cancel, Finish, domainGet, snapshotGetAll, snapshotGetAllFails, vars
<1>3. QED
  BY <1>1, <1>2 DEF Next

LEMMA OutsideKeepsImages ==
    ASSUME TypeOK, Outside
    PROVE  machine'.images = machine.images
<1>1. machine \in Machine /\ machine' \in PowerChanged \cup ConfigEdited \cup SnapshotsEdited
  BY DEF TypeOK, Outside
<1>2. CASE machine' \in PowerChanged
  BY <1>1, <1>2 DEF PowerChanged, Stopped, Gone, Machine, States, Active
<1>3. CASE machine' \in ConfigEdited
  BY <1>1, <1>3 DEF ConfigEdited, Machine
<1>4. CASE machine' \in SnapshotsEdited
  BY <1>1, <1>4 DEF SnapshotsEdited, Machine
<1>5. QED
  BY <1>1, <1>2, <1>3, <1>4

\* The entries of a disk.
OnlyHas(list, id, img) == \A k \in DOMAIN list : list[k].img = img => list[k].id = id

\* A disk that only the removed entries had is in none that is left.
LEMMA DiskIsGone ==
    ASSUME NEW list, NEW before, NEW id, NEW img, Elems(list) \subseteq Elems(before), ~Has(list, id),
           OnlyHas(before, id, img)
    PROVE  \A k \in DOMAIN list : list[k].img # img
<1>1. SUFFICES ASSUME NEW k \in DOMAIN list, list[k].img = img
               PROVE  FALSE
  OBVIOUS
<1>2. PICK j \in DOMAIN before : before[j] = list[k]
  BY DEF Elems
<1>3. list[k].id = id
  BY <1>1, <1>2 DEF OnlyHas
<1>4. QED
  BY <1>3 DEF Has, IdsOf

LEMMA DeletedIsUnused ==
    ASSUME TypeOK, DeviceInv, DoneInv, job # NoJob, ~IsDone, Call.do = "deleteStorage", IsCurrent(job.d),
           \A list \in {job.d.vm.live, job.d.vm.inactive} : \A k \in DOMAIN list :
                    list[k].img = job.d.img => list[k].id = job.d.id
    PROVE  \A list \in {LiveOf(machine), InactiveOf(machine)} :
                \A k \in DOMAIN list : list[k].img # job.d.img
<1> DEFINE d == job.d
<1>1. /\ machine \in Machine /\ job.step \in 1 .. Len(Plan(d)) /\ Call = Plan(d)[job.step]
      /\ d \in Dialog /\ d.op \in OpsOf(subject) /\ d.vm.state # "gone"
  BY CallingJob
<1>2. ~disturbed /\ machine.state = d.vm.state
  BY DEF IsCurrent, Undisturbed
<1>3. ~HasSnapshots
  <2>1. SUFFICES ASSUME HasSnapshots
                 PROVE  FALSE
    OBVIOUS
  <2>2. d.op = "delete" /\ job.step > Undefining(d)
    BY <2>1, StepsOfThePlans
  <2>3. Progress(machine, d, job.step)
    BY <1>2, <2>1 DEF DoneInv
  <2>4. machine.state = "gone"
    BY <2>2, <2>3 DEF Progress
  <2>5. QED
    BY <1>1, <1>2, <2>4
<1>4. subject \in DeviceSubjects
  BY <1>3, Bounds DEF TypeOK, HasSnapshots, DeviceSubjects
<1>5. OfDialog(d) /\ IsCallOf(d, Call) /\ Going(machine, d, job.step, job.doc)
  BY <1>2, <1>4, CallingJob
<1>6. d.op = "remove" /\ subject = "disk"
  BY <1>5 DEF IsCallOf
<1>7. job.step > 1
  BY <1>1, <1>4, CallIs
<1>8. machine.state # "paused"
  BY <1>2, <1>5, <1>6 DEF OfDialog
<1>9. Removing(machine, d, job.step)
  BY <1>5, <1>6, <1>8 DEF Going, NicIsSound, Doing
<1> HIDE DEF d
<1>10. /\ Elems(LiveOf(machine)) \subseteq Elems(d.vm.live) /\ ~Has(LiveOf(machine), d.id)
       /\ Elems(InactiveOf(machine)) \subseteq Elems(d.vm.inactive) /\ ~Has(InactiveOf(machine), d.id)
  BY <1>6, <1>7, <1>9 DEF Removing
<1>11. \A k \in DOMAIN LiveOf(machine) : LiveOf(machine)[k].img # d.img
  <2> DEFINE before == d.vm.live
             list == LiveOf(machine)
  <2>1. OnlyHas(before, d.id, d.img)
    BY DEF d, OnlyHas
  <2>2. Elems(list) \subseteq Elems(before) /\ ~Has(list, d.id)
    BY <1>10
  <2> HIDE DEF before, list
  <2>3. \A k \in DOMAIN list : list[k].img # d.img
    BY <2>1, <2>2, DiskIsGone
  <2>4. QED
    BY <2>3 DEF list
<1>12. \A k \in DOMAIN InactiveOf(machine) : InactiveOf(machine)[k].img # d.img
  <2> DEFINE before == d.vm.inactive
             list == InactiveOf(machine)
  <2>1. OnlyHas(before, d.id, d.img)
    BY DEF d, OnlyHas
  <2>2. Elems(list) \subseteq Elems(before) /\ ~Has(list, d.id)
    BY <1>10
  <2> HIDE DEF before, list
  <2>3. \A k \in DOMAIN list : list[k].img # d.img
    BY <2>1, <2>2, DiskIsGone
  <2>4. QED
    BY <2>3 DEF list
<1>13. QED
  BY <1>11, <1>12 DEF d

(* vmDiskColumns.tsx and domainDelete: an image is deleted only when no disk *)
(* of the machine, as it runs or as it is configured, has it any more: the   *)
(* deletion of it comes after the removal, and is not reached when that has  *)
(* failed.                                                                   *)
THEOREM ImagesAreDeletedLast == Spec => DeletedImageIsUnused
<1>1. Init => DoneInv
  BY DEF Init, DoneInv
<1>2. TypeOK /\ DoneInv /\ [Next]_vars => DoneInv'
  BY StepKeepsDone
<1>3. TypeOK /\ DeviceInv /\ DoneInv /\ [Next]_vars =>
        [job # NoJob /\ machine'.images # machine.images /\ Call.do = "deleteStorage" /\ IsCurrent(job.d)
            /\ (\A list \in {job.d.vm.live, job.d.vm.inactive} : \A k \in DOMAIN list :
                    list[k].img = job.d.img => list[k].id = job.d.id)
        => \A list \in {LiveOf(machine), InactiveOf(machine)} :
                \A k \in DOMAIN list : list[k].img # job.d.img]_vars
  <2>1. SUFFICES ASSUME TypeOK, DeviceInv, DoneInv, [Next]_vars, job # NoJob, machine'.images # machine.images,
                        Call.do = "deleteStorage", IsCurrent(job.d),
                        \A list \in {job.d.vm.live, job.d.vm.inactive} : \A k \in DOMAIN list :
                            list[k].img = job.d.img => list[k].id = job.d.id
                 PROVE  \A list \in {LiveOf(machine), InactiveOf(machine)} :
                            \A k \in DOMAIN list : list[k].img # job.d.img
    OBVIOUS
  <2>2. ~IsDone
    <3>1. CallReturns \/ CallIsRefused \/ CallFails
      BY <2>1, WhoChanges, OutsideKeepsImages
    <3>2. QED
      BY <3>1 DEF CallReturns, CallIsRefused, CallFails
  <2>3. QED
    BY <2>1, <2>2, DeletedIsUnused
<1>4. Spec => [](TypeOK /\ DeviceInv)
  BY DevicesGoOn
<1>5. QED
  BY <1>1, <1>2, <1>3, <1>4, PTL DEF Spec, DeletedImageIsUnused

-----------------------------------------------------------------------------
(* The devices that a dialog is not about *)

(* An interface is removed by its number in the captured list.              *)
AsCaptured(d, s, list) == subject = "nic" /\ s.do = "remove" => Names(d.vm.live) = Names(list)

BothSameOthers(m, n, d) ==
    SameOthers(LiveOf(m), LiveOf(n), d) /\ SameOthers(InactiveOf(m), InactiveOf(n), d)

LEMMA SameListsSameOthers ==
    ASSUME NEW m \in Machine, NEW n, SameLists(m, n), NEW d
    PROVE  BothSameOthers(m, n, d)
<1>1. LiveOf(n) = LiveOf(m) /\ InactiveOf(n) = InactiveOf(m)
  BY SameListsOf
<1>2. LiveOf(m) \in Seq(Devices) /\ InactiveOf(m) \in Seq(Devices)
  BY ListsTyped
<1>3. QED
  BY <1>1, <1>2, SameList DEF BothSameOthers

LEMMA ChangeLeavesOthers ==
    ASSUME NEW list \in Seq(Devices), NEW d \in Dialog, OfDialog(d), NEW s, IsCallOf(d, s),
           s.do \in {"add", "edit", "remove"}, AsCaptured(d, s, list), CanChange(list, s.do, d)
    PROVE  Change(list, s.do, d) \in Seq(Devices) /\ SameOthers(list, Change(list, s.do, d), d)
<1>1. d.id \in {d.chosen, d.new}
  BY DEF OfDialog
<1>2. CASE s.do = "add"
  BY <1>1, <1>2, ChangeAdds
<1>3. CASE s.do = "edit"
  <2>1. d.op # "remove"
    BY <1>3 DEF IsCallOf
  <2>2. QED
    BY <1>1, <1>3, <2>1, ChangeEdits
<1>4. CASE s.do = "remove"
  <2> DEFINE i == Located(list, d)
  <2>1. /\ i \in DOMAIN list /\ Change(list, "remove", d) = Without(list, i)
        /\ subject # "nic" => list[i].id = d.id
        /\ subject = "nic" => i = d.place
    <3>1. d.op = "remove"
      BY <1>4 DEF IsCallOf
    <3>2. QED
      BY <1>4, <3>1, ChangeRemoves
  <2> HIDE DEF i
  <2>2. subject = "nic" => list[i].id = d.id
    <3>1. SUFFICES ASSUME subject = "nic"
                   PROVE  list[d.place].id = d.id
      BY <2>1
    <3>2. Names(list) = Names(d.vm.live) /\ d.op = "remove"
      BY <1>4, <3>1 DEF AsCaptured, IsCallOf
    <3>3. d.place \in DOMAIN d.vm.live /\ d.vm.live[d.place].id = d.id
      BY <3>1, <3>2 DEF OfDialog
    <3>4. QED
      BY <3>2, <3>3, SameNames
  <2>3. list[i].id \in {d.chosen, d.new}
    BY <1>1, <2>1, <2>2
  <2>4. QED
    BY <1>4, <2>1, <2>3, LosesOne
<1>5. QED
  BY <1>2, <1>3, <1>4

\* A call that fails, or is cut short.
LEMMA HalfLeavesOthers ==
    ASSUME NEW m \in Machine, NEW d \in Dialog, OfDialog(d), NEW s, IsCallOf(d, s), NEW n,
           HalfLeft(m, n, d, s), AsCaptured(d, s, LiveOf(m))
    PROVE  BothSameOthers(m, n, d)
<1>1. n.state = m.state /\ n.persistent = m.persistent /\ n.inactive = m.inactive
  BY DEF HalfLeft
<1>2. CASE n.live = m.live
  BY <1>1, <1>2, SameListsSameOthers DEF SameLists
<1>3. CASE /\ s.do \in {"add", "edit", "remove"} /\ Active(m)
           /\ CanChange(m.live, s.do, d) /\ n.live = Change(m.live, s.do, d)
  <2>1. LiveOf(m) = m.live /\ LiveOf(n) = n.live /\ m.live \in Seq(Devices) /\ m.inactive \in Seq(Devices)
    BY <1>1, <1>3, ListsTyped DEF LiveOf, Active
  <2>2. SameOthers(m.live, n.live, d)
    BY <1>3, <2>1, ChangeLeavesOthers
  <2>3. SameOthers(InactiveOf(m), InactiveOf(n), d)
    BY <1>1, <2>1, <2>2, SameList DEF InactiveOf
  <2>4. QED
    BY <2>1, <2>2, <2>3 DEF BothSameOthers
<1>4. QED
  BY <1>2, <1>3 DEF HalfLeft

\* virt-xml: what is defined is what it has made of the configuration, or, for a
\* transient machine, of the machine that runs.
LEMMA virtXmlLeavesOthers ==
    ASSUME NEW m \in Machine, SoundMachine(m), m.state # "gone", NEW d \in Dialog, OfDialog(d), NEW s,
           IsCallOf(d, s), s.do \in {"add", "edit", "remove"},
           AsCaptured(d, s, LiveOf(m)), AsCaptured(d, s, InactiveOf(m)),
           subject = "nic" /\ s.do = "remove" /\ ~m.persistent => s.opt.noDefine,
           NEW a, a = virtXml(m, s.do, s.opt, d), a.ok
    PROVE  BothSameOthers(m, a.m, d)
<1>1. s.opt \in HotplugOptions
  BY DEF IsCallOf
<1>2. /\ a.m.state = m.state
      /\ a.m.live = IF Updates(m, s.opt) /\ CanChange(m.live, s.do, d) THEN Change(m.live, s.do, d) ELSE m.live
      /\ ~s.opt.noDefine => /\ a.m.persistent /\ CanChange(ConfigOf(m, a.m), s.do, d)
                            /\ a.m.inactive = Change(ConfigOf(m, a.m), s.do, d)
      /\ s.opt.noDefine => a.m.persistent = m.persistent /\ a.m.inactive = m.inactive
  BY <1>1, virtXmlIs
<1>3. m.live \in Seq(Devices) /\ m.inactive \in Seq(Devices)
  BY ListsTyped
<1>4. a.m.live \in Seq(Devices) /\ SameOthers(m.live, a.m.live, d)
  <2>1. CASE Updates(m, s.opt) /\ CanChange(m.live, s.do, d)
    <3>1. AsCaptured(d, s, m.live)
      BY <2>1 DEF Updates, LiveOf
    <3>2. QED
      BY <1>2, <1>3, <2>1, <3>1, ChangeLeavesOthers
  <2>2. CASE ~(Updates(m, s.opt) /\ CanChange(m.live, s.do, d))
    BY <1>2, <1>3, <2>2, SameList
  <2>3. QED
    BY <2>1, <2>2
<1>5. SameOthers(InactiveOf(m), InactiveOf(a.m), d)
  <2>1. CASE s.opt.noDefine
    BY <1>2, <1>3, <1>4, <2>1, SameList DEF InactiveOf
  <2>2. CASE ~s.opt.noDefine /\ m.persistent
    <3>1. InactiveOf(m) = m.inactive /\ InactiveOf(a.m) = a.m.inactive /\ ConfigOf(m, a.m) = m.inactive
      BY <1>2, <2>2 DEF InactiveOf, ConfigOf
    <3>2. QED
      BY <1>2, <1>3, <2>2, <3>1, ChangeLeavesOthers
  <2>3. CASE ~s.opt.noDefine /\ ~m.persistent
    <3>1. InactiveOf(m) = m.live /\ InactiveOf(a.m) = a.m.inactive /\ ConfigOf(m, a.m) = a.m.live
      BY <1>2, <2>3 DEF InactiveOf, ConfigOf
    <3>2. AsCaptured(d, s, a.m.live)
      BY <2>3 DEF AsCaptured
    <3>3. SameOthers(a.m.live, a.m.inactive, d)
      BY <1>2, <1>4, <2>3, <3>1, <3>2, ChangeLeavesOthers
    <3>4. QED
      BY <1>4, <3>1, <3>3, SameAgain
  <2>4. QED
    BY <2>1, <2>2, <2>3
<1>6. SameOthers(LiveOf(m), LiveOf(a.m), d)
  <2>1. CASE Active(m)
    BY <1>2, <1>4, <2>1 DEF LiveOf, Active
  <2>2. CASE ~Active(m)
    <3>1. m.state = "shutoff"
      BY <2>2 DEF Machine, States, Active
    <3>2. m.persistent /\ LiveOf(m) = m.inactive /\ LiveOf(a.m) = a.m.inactive
      BY <1>2, <3>1 DEF SoundMachine, LiveOf, Active
    <3>3. a.m.persistent
      BY <1>2, <3>2
    <3>4. QED
      BY <1>5, <3>2, <3>3 DEF InactiveOf
  <2>3. QED
    BY <2>1, <2>2
<1>7. QED
  BY <1>5, <1>6 DEF BothSameOthers

\* Calls that change neither the state nor whether the machine is persistent.
LEMMA ListsSameOthers ==
    ASSUME NEW m, NEW n, NEW d, n.state = m.state, n.persistent = m.persistent,
           SameOthers(m.live, n.live, d), SameOthers(m.inactive, n.inactive, d)
    PROVE  BothSameOthers(m, n, d)
BY DEF BothSameOthers, LiveOf, InactiveOf, Active

LEMMA LosingLeavesOthers ==
    ASSUME NEW list \in Seq(Devices), NEW d, d.id \in {d.chosen, d.new}, Has(list, d.id)
    PROVE  SameOthers(list, Without(list, PlaceOf(list, d.id)), d)
<1> DEFINE i == PlaceOf(list, d.id)
<1>1. i \in DOMAIN list /\ list[i].id = d.id
  BY PlaceOfIsThere
<1> HIDE DEF i
<1>2. SameOthers(list, Without(list, i), d)
  BY <1>1, LosesOne
<1>3. QED
  BY <1>2 DEF i

LEMMA CallLeavesOthers ==
    ASSUME NEW m \in Machine, SoundMachine(m), NEW d \in Dialog, OfDialog(d), NEW s, IsCallOf(d, s),
           AsCaptured(d, s, LiveOf(m)), AsCaptured(d, s, InactiveOf(m)),
           subject = "nic" /\ s.do = "remove" /\ ~m.persistent => s.opt.noDefine,
           NEW doc, s.do = "define" => doc = m.inactive,
           NEW a, a = Does(m, s, d, doc), a.ok
    PROVE  BothSameOthers(m, a.m, d)
<1>1. d.id \in {d.chosen, d.new} /\ m.live \in Seq(Devices) /\ m.inactive \in Seq(Devices)
  BY ListsTyped DEF OfDialog
<1>2. SameOthers(m.live, m.live, d) /\ SameOthers(m.inactive, m.inactive, d)
  BY <1>1, SameList
<1>3. ASSUME SameLists(m, a.m)
      PROVE  BothSameOthers(m, a.m, d)
  BY <1>3, SameListsSameOthers
<1>4. CASE s.do \in {"get", "read", "createVolume", "deleteStorage", "memorybacking"}
  BY <1>3, <1>4, QuietCalls
<1> DEFINE changes == {"add", "edit", "remove", "updateDevice", "detachConfig", "detachLive", "define"}
<1>5. ASSUME s.do \in changes
      PROVE  m.state # "gone" /\ a = DeviceCalls(m, s, d, doc)
  BY <1>5 DEF Does
<1>6. CASE s.do \in {"add", "edit", "remove"}
  <2>1. a = virtXml(m, s.do, s.opt, d) /\ m.state # "gone"
    BY <1>5, <1>6 DEF DeviceCalls
  <2>2. QED
    BY <1>6, <2>1, virtXmlLeavesOthers
<1>7. CASE s.do = "updateDevice"
  <2>1. a = UpdateDevice(m, s.opt, d)
    BY <1>5, <1>7 DEF DeviceCalls
  <2>2. /\ a.m.state = m.state /\ a.m.persistent = m.persistent
        /\ a.m.live \in {m.live, Emptied(m.live, d)} /\ a.m.inactive \in {m.inactive, Emptied(m.inactive, d)}
    BY <2>1, UpdateDeviceIs
  <2>3. SameOthers(m.live, Emptied(m.live, d), d) /\ SameOthers(m.inactive, Emptied(m.inactive, d), d)
    BY <1>1, EmptiedIs
  <2>4. QED
    BY <1>2, <2>2, <2>3, ListsSameOthers
<1>8. CASE s.do = "detachConfig"
  <2> DEFINE l == Without(m.inactive, PlaceOf(m.inactive, d.id))
  <2>1. a.m = m \/ (Has(m.inactive, d.id) /\ a.m = [m EXCEPT !.inactive = l])
    BY <1>5, <1>8 DEF DeviceCalls
  <2>2. Has(m.inactive, d.id) => SameOthers(m.inactive, l, d)
    BY <1>1, LosingLeavesOthers
  <2> HIDE DEF l
  <2>3. CASE a.m = m
    BY <1>3, <2>3 DEF SameLists
  <2>4. CASE Has(m.inactive, d.id) /\ a.m = [m EXCEPT !.inactive = l]
    <3>1. /\ a.m.state = m.state /\ a.m.persistent = m.persistent
          /\ a.m.live = m.live /\ a.m.inactive = l
      BY <2>4 DEF Machine
    <3>2. QED
      BY <1>2, <2>2, <2>4, <3>1, ListsSameOthers
  <2>5. QED
    BY <2>1, <2>3, <2>4
<1>9. CASE s.do = "detachLive"
  <2> DEFINE l == Without(m.live, PlaceOf(m.live, d.id))
  <2>1. Has(m.live, d.id) /\ a.m = [m EXCEPT !.live = l]
    BY <1>5, <1>9 DEF DeviceCalls
  <2>2. SameOthers(m.live, l, d)
    BY <1>1, <2>1, LosingLeavesOthers
  <2> HIDE DEF l
  <2>3. /\ a.m.state = m.state /\ a.m.persistent = m.persistent
        /\ a.m.live = l /\ a.m.inactive = m.inactive
    BY <2>1 DEF Machine
  <2>4. QED
    BY <1>2, <2>2, <2>3, ListsSameOthers
<1>10. CASE s.do = "define"
  <2> DEFINE i == PlaceOf(m.inactive, d.id)
             l == [m.inactive EXCEPT ![i].v = 0]
  <2>1. a.m = m \/ (Has(m.inactive, d.id) /\ a.m = [m EXCEPT !.inactive = l])
    BY <1>5, <1>10 DEF DeviceCalls
  <2>2. Has(m.inactive, d.id) => i \in DOMAIN m.inactive /\ m.inactive[i].id = d.id
    BY <1>1, PlaceOfIsThere
  <2> HIDE DEF i
  <2>3. Has(m.inactive, d.id) => SameOthers(m.inactive, l, d)
    <3>1. SUFFICES ASSUME Has(m.inactive, d.id)
                   PROVE  SameOthers(m.inactive, l, d)
      OBVIOUS
    <3> DEFINE list == m.inactive
               set == [list EXCEPT ![i].v = 0]
    <3>2. list \in Seq(Devices) /\ i \in DOMAIN list /\ list[i].id \in {d.chosen, d.new}
      BY <1>1, <2>2, <3>1
    <3>3. l = set /\ m.inactive = list
      OBVIOUS
    <3> HIDE DEF list
    <3>4. SameOthers(list, set, d)
      BY <3>2, SetsValue
    <3>5. QED
      BY <3>3, <3>4
  <2> HIDE DEF l
  <2>4. CASE a.m = m
    BY <1>3, <2>4 DEF SameLists
  <2>5. CASE Has(m.inactive, d.id) /\ a.m = [m EXCEPT !.inactive = l]
    <3>1. /\ a.m.state = m.state /\ a.m.persistent = m.persistent
          /\ a.m.live = m.live /\ a.m.inactive = l
      BY <2>5 DEF Machine
    <3>2. QED
      BY <1>2, <2>3, <2>5, <3>1, ListsSameOthers
  <2>6. QED
    BY <2>1, <2>4, <2>5
<1>11. QED
  BY <1>4, <1>6, <1>7, <1>8, <1>9, <1>10 DEF IsCallOf

\* What is written back is the configuration that was read, and is still there.
LEMMA DefinesWhatItRead ==
    ASSUME NEW m \in Machine, NEW d \in Dialog, NEW step \in 1 .. Len(Plan(d)), NEW s, s = Plan(d)[step],
           IsCallOf(d, s), s.do = "define", NEW doc, Going(m, d, step, doc)
    PROVE  doc = m.inactive
<1>1. d.op = "edit" /\ subject = "nic"
  BY DEF IsCallOf
<1>2. Plan(d) = <<Step("edit", NoOptions), Step("get", NoOptions), Step("define", NoOptions)>>
  BY <1>1, OtherDevicePlans
<1>3. step = 3
  <2>1. step \in 1 .. 3
    BY <1>2
  <2>2. step = 1 => s = Step("edit", NoOptions)
    BY <1>2
  <2>3. step = 2 => s = Step("get", NoOptions)
    BY <1>2
  <2>4. QED
    BY <2>1, <2>2, <2>3, StepFields
<1>4. QED
  BY <1>1, <1>3 DEF Going

\* An interface of a transient machine is removed from the machine that runs only.
LEMMA TransientIsNotDefined ==
    ASSUME NEW m \in Machine, NEW d \in Dialog, OfDialog(d), d.vm.state # "gone", subject = "nic",
           d.op \in OpsOf(subject), NEW step \in 1 .. Len(Plan(d)), NEW s, s = Plan(d)[step],
           IsCallOf(d, s), s.do = "remove", NEW doc, Going(m, d, step, doc), ~m.persistent
    PROVE  s.opt.noDefine
<1>1. d.op = "remove" /\ s.opt \in HotplugOptions
  BY DEF IsCallOf
<1>2. d.vm.state # "paused" /\ m.state = d.vm.state
  BY <1>1 DEF OfDialog, Going
<1>3. ~d.vm.persistent
  BY <1>1, <1>2 DEF Going
<1>4. d.vm.state = "running"
  BY <1>2, <1>3 DEF OfDialog, Machine, States
<1>5. subject \in DeviceSubjects
  BY DEF DeviceSubjects, AllSubjects
<1>6. ~s.opt.noDefine => d.vm.persistent
  BY <1>1, <1>4, <1>5, NothingIsDefined
<1>7. QED
  BY <1>3, <1>6

LEMMA StepLeavesOthers ==
    ASSUME TypeOK, DeviceInv, [Next]_vars, job # NoJob, machine' # machine, outside' = outside,
           subject \in DeviceSubjects, subject = "nic" => Undisturbed,
           subject = "nic" /\ job.d.op = "remove" =>
                Names(job.d.vm.live) = Names(LiveOf(machine)) /\ Names(job.d.vm.live) = Names(InactiveOf(machine))
    PROVE  BothSameOthers(machine, machine', job.d)
<1>1. CallReturns \/ CallIsRefused \/ CallFails
  BY WhoChanges
<1>2. ~IsDone
  BY <1>1 DEF CallReturns, CallIsRefused, CallFails
<1>3. /\ machine \in Machine /\ job.d \in Dialog /\ job.doc \in Seq(Devices)
      /\ job.step \in 1 .. Len(Plan(job.d)) /\ Call = Plan(job.d)[job.step]
      /\ Answer = Does(machine, Call, job.d, job.doc) /\ Answer.m \in Machine
      /\ job.d.op \in OpsOf(subject) /\ job.d.vm.state # "gone"
      /\ SoundMachine(machine) /\ OfDialog(job.d) /\ IsCallOf(job.d, Call)
      /\ ~disturbed => Going(machine, job.d, job.step, job.doc)
  BY <1>2, CallingJob
<1>4. AsCaptured(job.d, Call, LiveOf(machine)) /\ AsCaptured(job.d, Call, InactiveOf(machine))
  BY <1>3 DEF AsCaptured, IsCallOf
<1>5. CASE CallReturns
  <2>1. Answer.ok /\ machine' = Answer.m
    BY <1>5 DEF CallReturns
  <2>2. subject = "nic" => Going(machine, job.d, job.step, job.doc)
    BY <1>3 DEF Undisturbed
  <2>3. Call.do = "define" => job.doc = machine.inactive
    <3>1. Call.do = "define" => subject = "nic"
      BY <1>3 DEF IsCallOf
    <3>2. QED
      BY <1>3, <2>2, <3>1, DefinesWhatItRead
  <2>4. subject = "nic" /\ Call.do = "remove" /\ ~machine.persistent => Call.opt.noDefine
    BY <1>3, <2>2, TransientIsNotDefined
  <2>5. QED
    BY <1>3, <1>4, <2>1, <2>3, <2>4, CallLeavesOthers
<1>6. CASE CallIsRefused \/ CallFails
  <2>1. HalfLeft(machine, machine', job.d, Call)
    <3>1. CASE CallIsRefused
      <4>1. ~Answer.ok /\ machine' = Answer.m
        BY <3>1 DEF CallIsRefused
      <4>2. QED
        BY <1>3, <4>1, RefusalLeavesHalf
    <3>2. CASE CallFails
      <4>1. machine' \in {machine} \cup HalfDone
        BY <3>2 DEF CallFails
      <4>2. QED
        BY <1>2, <1>3, <4>1, AccidentLeavesHalf
    <3>3. QED
      BY <1>6, <3>1, <3>2
  <2>2. QED
    BY <1>3, <1>4, <2>1, HalfLeavesOthers
<1>7. QED
  BY <1>1, <1>5, <1>6

(* Whatever a dialog saves (virtXmlHotAdd, virtXmlHotRemove, virtXmlHotEdit, *)
(* domainEjectDisk, domainDetachHostDevice and domainModifyXML of domain.ts), *)
(* and however it fails half way, the other devices of the machine stay as   *)
(* they are and in their order, in the machine that runs and in its          *)
(* configuration.                                                            *)
THEOREM OtherDevicesAreKept == Spec => OthersAreKept
<1>1. Spec => [](TypeOK /\ DeviceInv)
  BY DevicesGoOn
<1>2. TypeOK /\ DeviceInv /\ [Next]_vars =>
        [job # NoJob /\ machine' # machine /\ outside' = outside
            /\ subject \notin {"snapshot", "machine"} /\ (subject = "nic" => Undisturbed)
            /\ (subject = "nic" /\ job.d.op = "remove" =>
                    Names(job.d.vm.live) = Names(LiveOf(machine)) /\ Names(job.d.vm.live) = Names(InactiveOf(machine)))
        => /\ SameOthers(LiveOf(machine), LiveOf(machine'), job.d)
           /\ SameOthers(InactiveOf(machine), InactiveOf(machine'), job.d)]_vars
  <2>1. SUFFICES ASSUME TypeOK, DeviceInv, [Next]_vars, job # NoJob, machine' # machine, outside' = outside,
                        subject \notin {"snapshot", "machine"}, subject = "nic" => Undisturbed,
                        subject = "nic" /\ job.d.op = "remove" =>
                            /\ Names(job.d.vm.live) = Names(LiveOf(machine))
                            /\ Names(job.d.vm.live) = Names(InactiveOf(machine))
                 PROVE  BothSameOthers(machine, machine', job.d)
    BY DEF BothSameOthers
  <2>2. subject \in DeviceSubjects
    BY <2>1, Bounds DEF TypeOK, DeviceSubjects
  <2>3. QED
    BY <2>1, <2>2, StepLeavesOthers
<1>3. QED
  BY <1>1, <1>2, PTL DEF Spec, OthersAreKept

-----------------------------------------------------------------------------
(* Saving again *)

\* How a plan goes that starts well.
Began(m) == [ok |-> TRUE, m |-> m, at |-> 0]
After(before, d, s, i) ==
    IF ~before.ok THEN before
    ELSE LET a == Does(before.m, s, d, <<>>) IN [ok |-> a.ok, m |-> a.m, at |-> i]
IsRun(run, m, d, p) ==
    run = [i \in 0 .. Len(p) |-> IF i = 0 THEN Began(m) ELSE After(run[i - 1], d, p[i], i)]

LEMMA OutcomeIs ==
    ASSUME NEW m, NEW d, NEW run, IsRun(run, m, d, Plan(d)),
           \A other : IsRun(other, m, d, Plan(d)) => other = run
    PROVE  Outcome(m, d) = run[Len(Plan(d))]
<1> DEFINE p == Plan(d)
           chosen == CHOOSE f : IsRun(f, m, d, p)
<1>1. Outcome(m, d) = chosen[Len(p)]
  BY DEF Outcome, IsRun, Began, After
<1>2. IsRun(chosen, m, d, p)
  OBVIOUS
<1>3. QED
  BY <1>1, <1>2

\* A plan of one call, and a plan of two.
LEMMA OutcomeOfOne ==
    ASSUME NEW m, NEW d, NEW s, Plan(d) = <<s>>
    PROVE  Outcome(m, d) = After(Began(m), d, s, 1)
<1> DEFINE p == Plan(d)
           first == After(Began(m), d, s, 1)
           run == [i \in 0 .. 1 |-> IF i = 0 THEN Began(m) ELSE first]
           body(f) == [i \in 0 .. 1 |-> IF i = 0 THEN Began(m) ELSE After(f[i - 1], d, p[i], i)]
<1>1. Len(p) = 1 /\ p[1] = s
  OBVIOUS
<1>2. \A f : IsRun(f, m, d, p) <=> f = body(f)
  BY <1>1 DEF IsRun
<1> HIDE DEF p
<1>3. \A f : /\ body(f)[0] = Began(m)
             /\ body(f)[1] = After(f[0], d, s, 1)
             /\ f[0] = Began(m) /\ f[1] = first => body(f) = run
  <2>1. SUFFICES ASSUME NEW f
                 PROVE  /\ body(f)[0] = Began(m)
                        /\ body(f)[1] = After(f[0], d, s, 1)
                        /\ f[0] = Began(m) /\ f[1] = first => body(f) = run
    OBVIOUS
  <2>2. 0 \in 0 .. 1 /\ 1 \in 0 .. 1 /\ 1 - 1 = 0 /\ 1 # 0 /\ \A i \in 0 .. 1 : i = 0 \/ i = 1
    OBVIOUS
  <2>3. body(f)[0] = Began(m) /\ body(f)[1] = After(f[0], d, s, 1)
    BY <1>1, <2>2
  <2>4. ASSUME f[0] = Began(m)
        PROVE  body(f) = run
    <3>1. \A i \in 0 .. 1 : body(f)[i] = run[i]
      BY <2>2, <2>3, <2>4
    <3>2. QED
      BY <3>1
  <2>5. QED
    BY <2>3, <2>4
<1>4. run[0] = Began(m) /\ run[1] = first
  OBVIOUS
<1> HIDE DEF body, run, first
<1>5. IsRun(run, m, d, p)
  BY <1>2, <1>3, <1>4
<1>6. \A f : IsRun(f, m, d, p) => f = run
  <2>1. SUFFICES ASSUME NEW f, f = body(f)
                 PROVE  f = run
    BY <1>2
  <2>2. f[0] = Began(m)
    BY <1>3, <2>1
  <2>3. f[1] = first
    BY <1>3, <2>1, <2>2 DEF first
  <2>4. QED
    BY <1>3, <2>1, <2>2, <2>3
<1>7. Outcome(m, d) = run[1]
  BY <1>1, <1>5, <1>6, OutcomeIs DEF p
<1>8. QED
  BY <1>4, <1>7 DEF first

LEMMA OutcomeOfTwo ==
    ASSUME NEW m, NEW d, NEW s, NEW t, Plan(d) = <<s, t>>
    PROVE  Outcome(m, d) = After(After(Began(m), d, s, 1), d, t, 2)
<1> DEFINE p == Plan(d)
           first == After(Began(m), d, s, 1)
           second == After(first, d, t, 2)
           run == [i \in 0 .. 2 |-> IF i = 0 THEN Began(m) ELSE IF i = 1 THEN first ELSE second]
           body(f) == [i \in 0 .. 2 |-> IF i = 0 THEN Began(m) ELSE After(f[i - 1], d, p[i], i)]
<1>1. Len(p) = 2 /\ p[1] = s /\ p[2] = t
  OBVIOUS
<1>2. \A f : IsRun(f, m, d, p) <=> f = body(f)
  BY <1>1 DEF IsRun
<1> HIDE DEF p
<1>3. \A f : /\ body(f)[0] = Began(m)
             /\ body(f)[1] = After(f[0], d, s, 1)
             /\ body(f)[2] = After(f[1], d, t, 2)
             /\ f[0] = Began(m) /\ f[1] = first => body(f) = run
  <2>1. SUFFICES ASSUME NEW f
                 PROVE  /\ body(f)[0] = Began(m)
                        /\ body(f)[1] = After(f[0], d, s, 1)
                        /\ body(f)[2] = After(f[1], d, t, 2)
                        /\ f[0] = Began(m) /\ f[1] = first => body(f) = run
    OBVIOUS
  <2>2. /\ 0 \in 0 .. 2 /\ 1 \in 0 .. 2 /\ 2 \in 0 .. 2 /\ 1 - 1 = 0 /\ 2 - 1 = 1 /\ 1 # 0 /\ 2 # 0 /\ 2 # 1
        /\ \A i \in 0 .. 2 : i = 0 \/ i = 1 \/ i = 2
    OBVIOUS
  <2>3. body(f)[0] = Began(m) /\ body(f)[1] = After(f[0], d, s, 1) /\ body(f)[2] = After(f[1], d, t, 2)
    BY <1>1, <2>2
  <2>4. ASSUME f[0] = Began(m), f[1] = first
        PROVE  body(f) = run
    <3>1. \A i \in 0 .. 2 : body(f)[i] = run[i]
      BY <2>2, <2>3, <2>4
    <3>2. QED
      BY <3>1
  <2>5. QED
    BY <2>3, <2>4
<1>4. run[0] = Began(m) /\ run[1] = first /\ run[2] = second
  OBVIOUS
<1> HIDE DEF body, run, first, second
<1>5. IsRun(run, m, d, p)
  BY <1>2, <1>3, <1>4
<1>6. \A f : IsRun(f, m, d, p) => f = run
  <2>1. SUFFICES ASSUME NEW f, f = body(f)
                 PROVE  f = run
    BY <1>2
  <2>2. f[0] = Began(m)
    BY <1>3, <2>1
  <2>3. f[1] = first
    BY <1>3, <2>1, <2>2 DEF first
  <2>4. QED
    BY <1>3, <2>1, <2>2, <2>3
<1>7. Outcome(m, d) = run[2]
  BY <1>1, <1>5, <1>6, OutcomeIs DEF p
<1>8. QED
  BY <1>4, <1>7 DEF first, second

LEMMA CallGoesOn ==
    ASSUME NEW m \in Machine, NEW d \in Dialog, SoundMachine(m), OfDialog(d), d.vm.state # "gone",
           subject \in DeviceSubjects, d.op \in OpsOf(subject), d.op # "edit",
           NEW step \in 1 .. Len(Plan(d)), NEW s, s = Plan(d)[step], Going(m, d, step, <<>>),
           NEW a, a = Does(m, s, d, <<>>), a.ok
    PROVE  /\ a.m \in Machine /\ SoundMachine(a.m) /\ a.m.state = m.state /\ (m.persistent => a.m.persistent)
           /\ Going(a.m, d, step + 1, <<>>)
<1>1. IsCallOf(d, s)
  BY CallIs
<1>2. a.m \in Machine
  <2>1. IsCall(s)
    BY PlanTyped DEF DeviceSubjects
  <2>2. QED
    BY <2>1, DoesTyped, EmptyList DEF IsCall
<1>3. a.m.state = m.state /\ (m.persistent => a.m.persistent) /\ SoundMachine(a.m)
  BY <1>1, CallKeeps
<1>4. ReadBy(m, s, <<>>) = <<>>
  BY <1>1 DEF IsCallOf, ReadBy
<1>5. QED
  BY <1>2, <1>3, <1>4, StepGoesOn

LEMMA PlanIsDone ==
    ASSUME NEW m \in Machine, NEW d \in Dialog, subject \in {"media", "hostdev", "watchdog"}, m.state # "paused",
           d.op \in {"add", "eject"} \/ (d.op = "remove" /\ subject = "hostdev"),
           NEW step \in Nat, step > 1, step > Len(Plan(d)), NEW doc, Going(m, d, step, doc)
    PROVE  IsAchieved(m, d)
<1>1. Doing(m, d, step)
  BY DEF Going, NicIsSound
<1>2. QED
  BY <1>1 DEF Doing, Adding, Detaching, Ejecting

LEMMA RepeatsOne ==
    ASSUME NEW m \in Machine, NEW d \in Dialog, SoundMachine(m), OfDialog(d), d.vm.state # "gone",
           subject \in {"media", "hostdev", "watchdog"}, d.op \in OpsOf(subject),
           d.op \in {"add", "eject"} \/ (d.op = "remove" /\ subject = "hostdev"), m.state # "paused",
           Going(m, d, 1, <<>>), NEW s, Plan(d) = <<s>>, Does(m, s, d, <<>>).ok
    PROVE  LET r == Outcome(m, d)
           IN  r.ok /\ r.m.state = m.state /\ (m.persistent => r.m.persistent) /\ IsAchieved(r.m, d)
<1> DEFINE a == Does(m, s, d, <<>>)
<1>1. Outcome(m, d) = [ok |-> a.ok, m |-> a.m, at |-> 1]
  BY OutcomeOfOne DEF After, Began
<1>2. Len(Plan(d)) = 1 /\ Plan(d)[1] = s /\ 1 \in 1 .. 1 /\ 1 + 1 = 2 /\ 2 \in Nat /\ 2 > 1 /\ d.op # "edit"
      /\ subject \in DeviceSubjects
  BY DEF DeviceSubjects, AllSubjects
<1> HIDE DEF a
<1>3. /\ a.m \in Machine /\ a.m.state = m.state /\ (m.persistent => a.m.persistent)
      /\ Going(a.m, d, 2, <<>>)
  <2>1. 1 \in 1 .. Len(Plan(d)) /\ s = Plan(d)[1] /\ a.ok
    BY <1>2 DEF a
  <2>2. /\ a.m \in Machine /\ a.m.state = m.state /\ (m.persistent => a.m.persistent)
        /\ Going(a.m, d, 1 + 1, <<>>)
    BY <1>2, <2>1, CallGoesOn DEF a
  <2>3. QED
    BY <1>2, <2>2
<1>4. IsAchieved(a.m, d)
  BY <1>2, <1>3, PlanIsDone
<1>5. QED
  BY <1>1, <1>3, <1>4 DEF a

LEMMA RepeatsTwo ==
    ASSUME NEW m \in Machine, NEW d \in Dialog, SoundMachine(m), OfDialog(d), d.vm.state # "gone",
           subject \in {"media", "hostdev", "watchdog"}, d.op \in OpsOf(subject),
           d.op \in {"add", "eject"} \/ (d.op = "remove" /\ subject = "hostdev"), m.state # "paused",
           Going(m, d, 1, <<>>), NEW s, NEW t, Plan(d) = <<s, t>>, Does(m, s, d, <<>>).ok,
           \A n \in Machine : n.state = m.state /\ (m.persistent => n.persistent) /\ Going(n, d, 2, <<>>)
                => Does(n, t, d, <<>>).ok
    PROVE  LET r == Outcome(m, d)
           IN  r.ok /\ r.m.state = m.state /\ (m.persistent => r.m.persistent) /\ IsAchieved(r.m, d)
<1> DEFINE a == Does(m, s, d, <<>>)
           n == a.m
           b == Does(n, t, d, <<>>)
<1>1. a.ok => Outcome(m, d) = [ok |-> b.ok, m |-> b.m, at |-> 2]
  BY OutcomeOfTwo DEF After, Began
<1>2. /\ Len(Plan(d)) = 2 /\ Plan(d)[1] = s /\ Plan(d)[2] = t /\ 1 \in 1 .. 2 /\ 2 \in 1 .. 2
      /\ 1 + 1 = 2 /\ 2 + 1 = 3 /\ 3 \in Nat /\ 3 > 1 /\ 3 > 2 /\ d.op # "edit"
      /\ subject \in DeviceSubjects
  BY DEF DeviceSubjects, AllSubjects
<1> HIDE DEF a, b, n
<1>3. /\ n \in Machine /\ SoundMachine(n) /\ n.state = m.state /\ (m.persistent => n.persistent)
      /\ Going(n, d, 2, <<>>)
  <2>1. 1 \in 1 .. Len(Plan(d)) /\ s = Plan(d)[1] /\ a.ok
    BY <1>2 DEF a
  <2>2. /\ n \in Machine /\ SoundMachine(n) /\ n.state = m.state /\ (m.persistent => n.persistent)
        /\ Going(n, d, 1 + 1, <<>>)
    BY <1>2, <2>1, CallGoesOn DEF a, n
  <2>3. QED
    BY <1>2, <2>2
<1>4. b.ok
  BY <1>3 DEF b
<1>5. /\ b.m \in Machine /\ b.m.state = n.state /\ (n.persistent => b.m.persistent)
      /\ Going(b.m, d, 3, <<>>)
  <2>1. 2 \in 1 .. Len(Plan(d)) /\ t = Plan(d)[2]
    BY <1>2
  <2>2. /\ b.m \in Machine /\ b.m.state = n.state /\ (n.persistent => b.m.persistent)
        /\ Going(b.m, d, 2 + 1, <<>>)
    BY <1>2, <1>3, <1>4, <2>1, CallGoesOn DEF b
  <2>3. QED
    BY <1>2, <2>2
<1>6. IsAchieved(b.m, d)
  BY <1>2, <1>3, <1>5, PlanIsDone
<1>7. QED
  BY <1>1, <1>3, <1>4, <1>5, <1>6 DEF a

\* A host device: the configuration never refuses, and the machine that runs has it.
LEMMA DetachingRepeats ==
    ASSUME NEW m \in Machine, NEW d \in Dialog, SoundMachine(m), OfDialog(d), d.vm.state # "gone",
           subject = "hostdev", d.op = "remove", m.state # "paused", m.persistent, Going(m, d, 1, <<>>)
    PROVE  LET r == Outcome(m, d)
           IN  r.ok /\ r.m.state = m.state /\ (m.persistent => r.m.persistent) /\ IsAchieved(r.m, d)
<1> DEFINE s == Step("detachConfig", NoOptions)
           t == Step("detachLive", NoOptions)
<1>1. Plan(d) = IF d.vm.state = "shutoff" THEN <<s>> ELSE <<s, t>>
  BY DetachPlan
<1>2. m.state = d.vm.state /\ d.op \in OpsOf(subject)
  BY DEF Going, OpsOf
<1>3. s.do = "detachConfig" /\ t.do = "detachLive"
  BY StepFields
<1> HIDE DEF s, t
<1>4. Does(m, s, d, <<>>).ok
  <2>1. Does(m, s, d, <<>>) = DeviceCalls(m, s, d, <<>>)
    BY <1>2, <1>3 DEF Does
  <2>2. QED
    BY <1>3, <2>1 DEF DeviceCalls
<1>5. CASE d.vm.state = "shutoff"
  <2>1. Plan(d) = <<s>>
    BY <1>1, <1>5
  <2>2. QED
    BY <1>2, <1>4, <2>1, RepeatsOne
<1>6. CASE d.vm.state # "shutoff"
  <2>1. Plan(d) = <<s, t>>
    BY <1>1, <1>6
  <2>2. ASSUME NEW n \in Machine, n.state = m.state, Going(n, d, 2, <<>>)
        PROVE  Does(n, t, d, <<>>).ok
    <3>1. Doing(n, d, 2)
      BY <2>2 DEF Going, NicIsSound
    <3>2. Has(n.live, d.id) /\ Active(n) /\ n.state # "gone"
      <4>1. Detaching(n, d, 2)
        BY <3>1 DEF Doing
      <4>2. 2 <= 2
        OBVIOUS
      <4>3. Has(n.live, d.id)
        BY <1>6, <4>1, <4>2 DEF Detaching
      <4>4. QED
        BY <1>2, <1>6, <2>2, <4>3, StateIs
    <3>3. Does(n, t, d, <<>>) = DeviceCalls(n, t, d, <<>>)
      BY <1>3, <3>2 DEF Does
    <3>4. QED
      BY <1>3, <3>2, <3>3 DEF DeviceCalls
  <2>3. QED
    BY <1>2, <1>4, <2>1, <2>2, RepeatsTwo
<1>7. QED
  BY <1>5, <1>6

\* A medium: the drive is still there.
LEMMA EjectingRepeats ==
    ASSUME NEW m \in Machine, NEW d \in Dialog, SoundMachine(m), OfDialog(d), d.vm.state # "gone",
           subject = "media", d.op = "eject", m.state # "paused", m.persistent, Has(m.inactive, d.id),
           Going(m, d, 1, <<>>)
    PROVE  LET r == Outcome(m, d)
           IN  r.ok /\ r.m.state = m.state /\ (m.persistent => r.m.persistent) /\ IsAchieved(r.m, d)
<1> DEFINE opt == [live |-> d.vm.state = "running", force |-> d.failed]
           s == Step("updateDevice", opt)
<1>1. Plan(d) = <<s, ReadStep>>
  BY OtherDevicePlans
<1>2. m.state = d.vm.state /\ d.op \in OpsOf(subject) /\ m.persistent = d.vm.persistent
  BY DEF Going, OpsOf
<1>3. s.do = "updateDevice" /\ s.opt = opt /\ ReadStep.do = "read" /\ opt.live = (d.vm.state = "running")
  BY StepFields DEF ReadStep
<1> HIDE DEF s, opt
<1>4. Does(m, s, d, <<>>).ok
  <2> DEFINE a == UpdateDevice(m, opt, d)
  <2>1. Does(m, s, d, <<>>) = a
    BY <1>2, <1>3 DEF Does, DeviceCalls
  <2> HIDE DEF a
  <2>2. InactiveOf(m) = m.inactive
    BY DEF InactiveOf
  <2>3. EmptiesConfig(m, d)
    BY <1>2, <2>2 DEF EmptiesConfig
  <2>4. Ejecting(m, d, 1)
    BY DEF Going, NicIsSound, Doing
  <2>5. Has(LiveOf(m), d.id)
    BY <2>4 DEF Ejecting, OfDialog, Has
  <2>6. EmptiesLive(m, opt, d) => Active(m) /\ Has(m.live, d.id)
    BY <1>2, <1>3, <2>3, <2>5 DEF EmptiesLive, Active, LiveOf
  <2>7. ~a.ok => \/ EmptiesLive(m, opt, d) /\ ~(Active(m) /\ Has(m.live, d.id))
                 \/ (EmptiesConfig(m, d) \/ ~EmptiesLive(m, opt, d)) /\ ~Has(m.inactive, d.id)
    BY UpdateDeviceIs DEF a
  <2>8. QED
    BY <2>1, <2>6, <2>7
<1>5. \A n \in Machine : Does(n, ReadStep, d, <<>>).ok
  BY <1>3 DEF Does
<1>6. QED
  BY <1>1, <1>2, <1>4, <1>5, RepeatsTwo

\* A watchdog is saved for the next start when the configuration has none.
LEMMA ColdplugIsOk ==
    ASSUME NEW m \in Machine, m.state # "gone", m.persistent, m.inactive = <<>>, NEW d \in Dialog, d.op = "add"
    PROVE  Does(m, setWatchdog(d, FALSE), d, <<>>).ok
<1> DEFINE opt == [update |-> FALSE, noDefine |-> FALSE]
           s == setWatchdog(d, FALSE)
           a == virtXml(m, "add", opt, d)
<1>1. s = Step("add", opt)
  BY DEF setWatchdog
<1>2. opt \in HotplugOptions /\ ~opt.update
  BY DEF HotplugOptions
<1> HIDE DEF s, opt
<1>3. s.do = "add" /\ s.opt = opt
  BY <1>1, StepFields
<1>4. Does(m, s, d, <<>>) = a
  BY <1>3 DEF Does, DeviceCalls
<1> HIDE DEF a
<1>5. ~a.ok => ~CanChange(ConfigOf(m, a.m), "add", d)
  BY <1>2, virtXmlIs DEF a, Updates
<1>6. ConfigOf(m, a.m) = <<>>
  BY DEF ConfigOf
<1>7. CanChange(<<>>, "add", d)
  BY DEF CanChange, Has, IdsOf
<1>8. QED
  BY <1>4, <1>5, <1>6, <1>7 DEF s

\* The configuration has no watchdog, as the page has shown it.
LEMMA NoWatchdogYet ==
    ASSUME NEW m \in Machine, NEW d \in Dialog, OfDialog(d), d.vm.state # "gone", subject = "watchdog",
           d.op = "add", m.state # "paused", m.persistent, d.vm.live = d.vm.inactive,
           NEW step \in Nat, step <= Len(Plan(d)), Going(m, d, step, <<>>)
    PROVE  d.vm.persistent /\ d.always /\ m.inactive = <<>>
<1>1. Adding(m, d, step) /\ m.state = d.vm.state
  BY DEF Going, NicIsSound, Doing
<1>2. d.vm.persistent
  <2>1. SUFFICES ASSUME ~d.vm.persistent
                 PROVE  FALSE
    OBVIOUS
  <2>2. d.vm.state # "shutoff" /\ ~d.always
    BY <2>1 DEF OfDialog
  <2>3. d.vm.state = "running"
    BY <1>1, <2>2, StateIs
  <2>4. ConfigAsSeen(m, d)
    BY <1>1, <2>2, <2>3 DEF Adding
  <2>5. QED
    BY <2>1, <2>4 DEF ConfigAsSeen
<1>3. ConfigAsSeen(m, d)
  BY <1>1, <1>2 DEF Adding
<1>4. d.always = d.vm.persistent /\ d.vm.live = <<>>
  BY DEF OfDialog
<1>5. QED
  BY <1>2, <1>3, <1>4 DEF ConfigAsSeen

LEMMA ColdplugRepeats ==
    ASSUME NEW m \in Machine, NEW d \in Dialog, SoundMachine(m), OfDialog(d), d.vm.state # "gone",
           subject = "watchdog", d.op = "add", m.state # "paused", m.persistent, d.vm.persistent, d.always,
           m.inactive = <<>>, d.failed \/ d.vm.state # "running", Going(m, d, 1, <<>>)
    PROVE  Outcome(m, d).ok /\ Achieved(d, Outcome(m, d).m.inactive)
<1>1. Plan(d) = <<setWatchdog(d, FALSE)>>
  BY WatchdogPlan
<1>2. m.state # "gone" /\ d.op \in OpsOf(subject)
  BY DEF Going, OpsOf
<1>3. Does(m, setWatchdog(d, FALSE), d, <<>>).ok
  BY <1>2, ColdplugIsOk
<1> DEFINE r == Outcome(m, d)
           s == setWatchdog(d, FALSE)
<1> HIDE DEF s
<1>4. Plan(d) = <<s>> /\ Does(m, s, d, <<>>).ok
  BY <1>1, <1>3 DEF s
<1>5. r.ok /\ r.m.state = m.state /\ (m.persistent => r.m.persistent) /\ IsAchieved(r.m, d)
  BY <1>2, <1>4, RepeatsOne
<1> HIDE DEF r
<1>6. Achieved(d, r.m.inactive)
  BY <1>5 DEF IsAchieved, Lasting
<1>7. QED
  BY <1>5, <1>6 DEF r

\* A watchdog that the machine refuses is saved for the next start, once that is
\* what the dialog offers.
LEMMA WatchdogRepeats ==
    ASSUME NEW m \in Machine, NEW d \in Dialog, SoundMachine(m), OfDialog(d), d.vm.state # "gone",
           subject = "watchdog", d.op = "add", m.state # "paused", m.persistent, d.vm.live = d.vm.inactive,
           Going(m, d, 1, <<>>)
    PROVE  Retried(m, d).ok /\ Achieved(d, Retried(m, d).m.inactive)
<1>0. subject \in DeviceSubjects /\ d.op \in OpsOf(subject)
  BY DEF DeviceSubjects, AllSubjects, OpsOf
<1>1. Len(Plan(d)) >= 1 /\ 1 <= Len(Plan(d)) /\ 1 \in 1 .. Len(Plan(d)) /\ Len(Plan(d)) \in Nat
  <2>1. Len(Plan(d)) >= 1 /\ Len(Plan(d)) \in Nat
    BY <1>0, PlanIsNotEmpty, PlanTyped DEF DeviceSubjects
  <2>2. QED
    BY <2>1
<1>2. d.vm.persistent /\ d.always /\ m.inactive = <<>>
  BY <1>1, NoWatchdogYet
<1>3. CASE d.failed \/ d.vm.state # "running"
  <2>1. Outcome(m, d).ok /\ Achieved(d, Outcome(m, d).m.inactive)
    BY <1>2, <1>3, ColdplugRepeats
  <2>2. QED
    BY <2>1 DEF Retried
<1>4. CASE ~(d.failed \/ d.vm.state # "running")
  <2> DEFINE s == setWatchdog(d, TRUE)
             t == setWatchdog(d, FALSE)
             a == Does(m, s, d, <<>>)
  <2>1. Plan(d) = <<s, t>> /\ saveWatchdog(d) = setWatchdogHotplug(d)
    BY <1>2, <1>4, WatchdogPlan
  <2>2. \A n \in Machine : n.state = m.state /\ n.persistent /\ Going(n, d, 2, <<>>) => Does(n, t, d, <<>>).ok
    <3>1. SUFFICES ASSUME NEW n \in Machine, n.state = m.state, n.persistent, Going(n, d, 2, <<>>)
                   PROVE  Does(n, t, d, <<>>).ok
      OBVIOUS
    <3>2. 2 <= Len(Plan(d)) /\ 2 \in Nat
      BY <2>1
    <3>3. n.inactive = <<>>
      BY <3>1, <3>2, NoWatchdogYet
    <3>4. n.state # "gone"
      BY <3>1 DEF Going
    <3>5. QED
      BY <3>1, <3>3, <3>4, ColdplugIsOk
  <2> HIDE DEF s, t, a
  <2>3. CASE a.ok
    <3> DEFINE r == Outcome(m, d)
    <3>1. Does(m, s, d, <<>>).ok
      BY <2>3 DEF a
    <3>2. r.ok /\ r.m.state = m.state /\ (m.persistent => r.m.persistent) /\ IsAchieved(r.m, d)
      BY <1>0, <2>1, <2>2, <3>1, RepeatsTwo
    <3> HIDE DEF r
    <3>3. Achieved(d, r.m.inactive)
      BY <1>2, <3>2 DEF IsAchieved, Lasting
    <3>4. Retried(m, d) = r
      BY <3>2 DEF Retried, r
    <3>5. QED
      BY <3>2, <3>3, <3>4
  <2>4. CASE ~a.ok
    <3> DEFINE e == AfterFailure(d, 1)
    <3>1. ~Outcome(m, d).ok /\ Outcome(m, d).m = a.m /\ Outcome(m, d).at = 1
      <4>1. Outcome(m, d) = After(After(Began(m), d, s, 1), d, t, 2)
        BY <2>1, OutcomeOfTwo
      <4>2. After(Began(m), d, s, 1) = [ok |-> a.ok, m |-> a.m, at |-> 1]
        BY DEF After, Began, a
      <4>3. QED
        BY <2>4, <4>1, <4>2 DEF After
    <3>2. Retried(m, d) = Outcome(a.m, e)
      BY <3>1 DEF Retried
    <3>3. /\ e \in Dialog /\ e.op = d.op /\ e.vm = d.vm /\ e.id = d.id /\ e.chosen = d.chosen
          /\ e.v = d.v /\ e.new = d.new /\ e.always = d.always /\ OfDialog(e)
      BY AfterFailureIs, AfterFailureTyped
    <3>4. e.failed
      BY <1>2, <2>1 DEF AfterFailure, Dialog
    <3>5. s = Plan(d)[1] /\ IsCallOf(d, s)
      BY <1>0, <1>1, <2>1, CallIs
    <3>6. a.m \in Machine
      <4>1. IsCall(s)
        BY <1>0, <1>1, <3>5, PlanTyped DEF DeviceSubjects
      <4>2. QED
        BY <4>1, DoesTyped, EmptyList DEF IsCall, a
    <3>7. HalfLeft(m, a.m, d, s)
      BY <2>4, <3>5, <3>6, RefusalLeavesHalf, EmptyList DEF a
    <3>8. a.m.state = m.state /\ a.m.persistent /\ a.m.inactive = <<>> /\ SoundMachine(a.m)
      BY <1>2, <3>5, <3>7, HalfIsSound DEF HalfLeft
    <3>9. Going(a.m, e, 1, <<>>)
      BY <1>0, <1>1, <3>5, <3>7, FailureGoesBack
    <3> HIDE DEF e
    <3>10. Outcome(a.m, e).ok /\ Achieved(e, Outcome(a.m, e).m.inactive)
      BY <1>2, <3>3, <3>4, <3>6, <3>8, <3>9, ColdplugRepeats
    <3>11. \A list : Achieved(e, list) = Achieved(d, list)
      BY <3>3 DEF Achieved
    <3>12. QED
      BY <3>2, <3>10, <3>11
  <2>5. QED
    BY <2>3, <2>4
<1>5. QED
  BY <1>3, <1>4

LEMMA RepeatedIsAchieved ==
    ASSUME NEW m, NEW d, NEW r, r = Outcome(m, d), r.ok, r.m.state = m.state, m.state # "paused",
           r.m.persistent, IsAchieved(r.m, d), d.op \in {"remove", "eject"},
           d.op = "eject" => Has(d.vm.inactive, d.id), subject # "watchdog"
    PROVE  /\ Retried(m, d).ok
           /\ Active(Retried(m, d).m) /\ subject # "watchdog" => Achieved(d, Retried(m, d).m.live)
           /\ Achieved(d, Retried(m, d).m.inactive)
<1>1. Retried(m, d) = r
  BY DEF Retried
<1>2. Achieved(d, r.m.inactive) /\ (Active(r.m) => Achieved(d, r.m.live))
  BY DEF IsAchieved, Active
<1>3. QED
  BY <1>1, <1>2

LEMMA RepeatingWorks == TypeOK /\ DeviceInv => CanBeRepeated
<1>1. SUFFICES ASSUME TypeOK, DeviceInv, dialog # NoDialog, job = NoJob, IsCurrent(dialog), machine.persistent,
                      machine.state # "paused", dialog.vm.live = dialog.vm.inactive,
                      \/ subject = "hostdev" /\ dialog.op = "remove"
                      \/ dialog.op = "eject" /\ Has(machine.inactive, dialog.id)
                      \/ subject = "watchdog" /\ dialog.op = "add"
               PROVE  LET r == Retried(machine, dialog)
                      IN  /\ r.ok
                          /\ Active(r.m) /\ subject # "watchdog" => Achieved(dialog, r.m.live)
                          /\ Achieved(dialog, r.m.inactive)
  BY DEF CanBeRepeated
<1>2. machine \in Machine /\ dialog \in Dialog /\ dialog.op \in OpsOf(subject) /\ subject \in AllSubjects
  BY <1>1, Bounds DEF TypeOK
<1>3. dialog.op = "eject" => subject = "media"
  BY <1>2 DEF OpsOf, SnapshotOps, MachineOps, AllSubjects
<1>4. subject \in DeviceSubjects
  BY <1>1, <1>3 DEF DeviceSubjects, AllSubjects
<1>5. /\ SoundMachine(machine) /\ OfDialog(dialog) /\ dialog.vm.state # "gone"
      /\ Going(machine, dialog, 1, <<>>)
  BY <1>1, <1>4 DEF DeviceInv, IsCurrent, Undisturbed
<1> DEFINE r == Outcome(machine, dialog)
<1>6. CASE subject = "hostdev" /\ dialog.op = "remove"
  <2>1. r.ok /\ r.m.state = machine.state /\ r.m.persistent /\ IsAchieved(r.m, dialog)
    BY <1>1, <1>2, <1>5, <1>6, DetachingRepeats
  <2> HIDE DEF r
  <2>2. r = Outcome(machine, dialog)
    BY DEF r
  <2>3. QED
    BY <1>1, <1>6, <2>1, <2>2, RepeatedIsAchieved
<1>7. CASE dialog.op = "eject" /\ Has(machine.inactive, dialog.id)
  <2>1. r.ok /\ r.m.state = machine.state /\ r.m.persistent /\ IsAchieved(r.m, dialog)
    BY <1>1, <1>2, <1>3, <1>5, <1>7, EjectingRepeats
  <2> HIDE DEF r
  <2>2. r = Outcome(machine, dialog)
    BY DEF r
  <2>3. Has(dialog.vm.inactive, dialog.id)
    <3>1. Ejecting(machine, dialog, 1)
      BY <1>1, <1>3, <1>5, <1>7 DEF Going, NicIsSound, Doing
    <3>2. IdsOf(machine.inactive) = IdsOf(dialog.vm.inactive)
      BY <1>1, <3>1 DEF Ejecting, InactiveOf
    <3>3. QED
      BY <1>7, <3>2 DEF Has
  <2>4. QED
    BY <1>1, <1>3, <1>7, <2>1, <2>2, <2>3, RepeatedIsAchieved
<1>8. CASE subject = "watchdog" /\ dialog.op = "add"
  BY <1>1, <1>2, <1>5, <1>8, WatchdogRepeats
<1>9. QED
  BY <1>1, <1>6, <1>7, <1>8

(* domainDetachHostDevice, domainEjectDisk and setWatchdogHotplug: the       *)
(* dialog that has stayed open after a failure can finish, by its own means, *)
(* what it has begun.                                                        *)
THEOREM RepeatingHelps == Spec => []CanBeRepeated
<1>1. Spec => [](TypeOK /\ DeviceInv)
  BY DevicesGoOn
<1>2. TypeOK /\ DeviceInv => CanBeRepeated
  BY RepeatingWorks
<1>3. QED
  BY <1>1, <1>2, PTL
=============================================================================
