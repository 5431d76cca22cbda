----------------------------- MODULE Resources ------------------------------
(***************************************************************************)
(* The lists of storage pools and virtual networks of one connection:      *)
(* AppState.storagePools and AppState.networks (src/state.ts), the signal  *)
(* handlers of startEventMonitorStoragePools and startEventMonitorNetworks *)
(* (src/libvirtApi/common.ts), and the readers of src/libvirtApi/          *)
(* storagePool.ts, storageVolume.ts and network.ts.                        *)
(*                                                                         *)
(* The protocol is that of VmList with three differences.  A read that     *)
(* fails leaves the row alone.  A read may be "updateOnly", and then it    *)
(* never adds a row.  After a stop the page lists the objects first, since *)
(* a transient one is gone then.  What libvirt sends is handled in order.  *)
(*                                                                         *)
(* An object is inactive, active or gone, and so is what a row says of it. *)
(* The properties libvirt returns for an object that is gone lack the      *)
(* state, which is then "unknown".  What the page's own buttons and        *)
(* dialogs do to an object is among the changes of libvirt.                *)
(***************************************************************************)
EXTENDS Naturals, Sequences

CONSTANTS
    Objects,      \* object paths of storage pools and networks
    Reads,        \* slots for concurrent reads
    NoRead,       \* an unused slot
    MaxChanges    \* bound on what happens to the objects

Kinds      == {"pool", "network"}
States     == {"gone", "inactive", "active"}
RowStates  == {"unlisted", "unknown", "inactive", "active"}

Events == {"DEFINED", "CREATED", "STARTED", "STOPPED", "UNDEFINED", "DELETED", "Refresh"}

(* The calls of a read: ListNetworks or ListStoragePools after a stop; Get *)
(* and Refresh when the page starts; GetXMLDesc, GetAll, and for an active *)
(* pool ListStorageVolumes and GetXMLDesc of each volume.                  *)
Steps == {"list", "getActive", "refresh", "xml", "props", "volumes", "volumeXml"}

Read == [obj : Objects, step : Steps, updateOnly : BOOLEAN,
         answer : {"none", "ok", "absent", "error"}, active : RowStates \ {"unlisted"}]

ASSUME ResourcesAssumption ==
    /\ NoRead \notin Read
    /\ MaxChanges \in Nat

Message == [kind : {"signal"}, obj : Objects, event : Events]
           \cup [kind : {"read"}, read : Reads]
           \cup [kind : {"all"}, objs : SUBSET Objects]

VARIABLES
    kind,        \* which objects are pools, and which are networks
    object,      \* libvirt: the state of each object
    persistent,  \* libvirt: whether each object has a configuration on disk
    changes,     \* number of changes so far
    inbox,       \* what libvirt has sent and the page has not handled
    load,        \* storagePoolGetAll or networkGetAll: "asked", "answered", "done"
    reads,       \* the reads under way
    rows,        \* AppState.storagePools and AppState.networks
    missed,      \* history: objects of which a call has timed out, or whose
                 \* initial read has failed, which the page reports
    overlapped   \* history: objects of which two reads have overlapped

libvirtVars == <<kind, object, persistent, changes>>
history == <<missed, overlapped>>
vars == <<libvirtVars, inbox, load, reads, rows, history>>

TypeOK ==
    /\ kind \in [Objects -> Kinds]
    /\ object \in [Objects -> States]
    /\ persistent \in [Objects -> BOOLEAN]
    /\ changes \in 0..MaxChanges
    /\ inbox \in Seq(Message)
    /\ load \in {"asked", "answered", "done"}
    /\ reads \in [Reads -> Read \cup {NoRead}]
    /\ rows \in [Objects -> RowStates]
    /\ missed \subseteq Objects
    /\ overlapped \subseteq Objects

(* getApiData subscribes first, and then asks for the objects.             *)
Init ==
    /\ kind \in [Objects -> Kinds]
    /\ object \in [Objects -> States]
    /\ persistent \in [Objects -> BOOLEAN]
    /\ \A o \in Objects : object[o] = "inactive" => persistent[o]
    /\ \A o \in Objects : object[o] = "gone" => ~persistent[o]
    /\ changes = 0
    /\ inbox = <<>>
    /\ load = "asked"
    /\ reads = [r \in Reads |-> NoRead]
    /\ rows = [o \in Objects |-> "unlisted"]
    /\ missed = {}
    /\ overlapped = {}

-----------------------------------------------------------------------------
(* libvirt *)

Signal(o, e) == [kind |-> "signal", obj |-> o, event |-> e]

Change(o, s, p, e) ==
    /\ changes < MaxChanges
    /\ changes' = changes + 1
    /\ object' = [object EXCEPT ![o] = s]
    /\ persistent' = [persistent EXCEPT ![o] = p]
    /\ inbox' = Append(inbox, Signal(o, e))
    /\ UNCHANGED <<kind, load, reads, rows, history>>

\* A new object, a new configuration, or one for a transient object.
Define(o) ==
    Change(o, IF object[o] = "gone" THEN "inactive" ELSE object[o], TRUE, "DEFINED")

\* A transient object is created and started at once.
Start(o) == object[o] # "active" /\ Change(o, "active", persistent[o], "STARTED")

Stop(o) ==
    /\ object[o] = "active"
    /\ Change(o, IF persistent[o] THEN "inactive" ELSE "gone", persistent[o], "STOPPED")

Undefine(o) == object[o] = "inactive" /\ Change(o, "gone", FALSE, "UNDEFINED")

\* The storage of a pool is built, or erased; its volumes may have changed.
Build(o) ==
    /\ kind[o] = "pool"
    /\ object[o] = "inactive"
    /\ \E e \in {"CREATED", "DELETED"} : Change(o, "inactive", TRUE, e)

Refresh(o) == object[o] = "active" /\ Change(o, "active", persistent[o], "Refresh")

LibvirtChanges ==
    \E o \in Objects : Define(o) \/ Start(o) \/ Stop(o) \/ Undefine(o) \/ Build(o) \/ Refresh(o)

(* What libvirt says to the call of step s about object o: an answer, and  *)
(* the state of the object if that is what was asked for.                  *)
Answers(o, s) ==
    CASE s = "list" -> {IF object[o] = "gone" THEN "absent" ELSE "ok"}
      [] s = "props" -> IF object[o] = "gone" THEN {"ok", "error"} ELSE {"ok"}
      [] s \in {"xml", "getActive"} -> {IF object[o] = "gone" THEN "error" ELSE "ok"}
      [] s \in {"refresh", "volumes"} -> {IF object[o] = "active" THEN "ok" ELSE "error"}
      [] s = "volumeXml" -> {"ok"}

StateSeen(o) == IF object[o] = "gone" THEN "unknown" ELSE object[o]

AnswerRead(r) ==
    /\ reads[r] # NoRead
    /\ reads[r].answer = "none"
    /\ LET o == reads[r].obj
           s == reads[r].step
       IN \E a \in Answers(o, s) :
              /\ reads' = [reads EXCEPT ![r] =
                     [obj |-> o, step |-> s, updateOnly |-> reads[r].updateOnly, answer |-> a,
                      active |-> IF s \in {"props", "getActive"} /\ a = "ok"
                                 THEN StateSeen(o) ELSE reads[r].active]]
              /\ inbox' = (IF s = "refresh" /\ a = "ok"
                           THEN Append(inbox, Signal(o, "Refresh")) ELSE inbox)
                          \o <<[kind |-> "read", read |-> r]>>
    /\ UNCHANGED <<libvirtVars, load, rows, history>>

AnswerAll ==
    /\ load = "asked"
    /\ load' = "answered"
    /\ inbox' = Append(inbox, [kind |-> "all", objs |-> {o \in Objects : object[o] # "gone"}])
    /\ UNCHANGED <<libvirtVars, reads, rows, history>>

-----------------------------------------------------------------------------
(* The page *)

Receive == inbox # <<>> /\ inbox' = Tail(inbox)

FirstStep(o) == IF kind[o] = "pool" THEN "xml" ELSE "props"

At(o, step, updateOnly) ==
    [obj |-> o, step |-> step, updateOnly |-> updateOnly, answer |-> "none",
     active |-> "unknown"]

BeingRead == {reads[r].obj : r \in {q \in Reads : reads[q] # NoRead}}

(* A read of each of the objects begins, with the given call.  The slots   *)
(* are interchangeable.                                                    *)
Slots(objs) ==
    {slot \in [objs -> {r \in Reads : reads[r] = NoRead}] :
        \A o, p \in objs : slot[o] = slot[p] => o = p}

BeginReads(objs, step, updateOnly) ==
    /\ Slots(objs) # {}
    /\ LET slot == CHOOSE f \in Slots(objs) : TRUE
       IN  reads' = [r \in Reads |->
               IF \E o \in objs : slot[o] = r
               THEN LET o == CHOOSE p \in objs : slot[p] = r IN At(o, step[o], updateOnly)
               ELSE reads[r]]
    /\ overlapped' = overlapped \cup (objs \cap BeingRead)
    /\ UNCHANGED rows

(* storagePoolGetAll finds out whether a pool is active first, to have it  *)
(* refreshed; networkGetAll just reads every network.                      *)
FirstOfAll == [o \in Objects |-> IF kind[o] = "pool" THEN "getActive" ELSE FirstStep(o)]

ReceiveAll ==
    /\ Receive
    /\ Head(inbox).kind = "all"
    /\ load' = "done"
    /\ BeginReads(Head(inbox).objs, FirstOfAll, FALSE)
    /\ UNCHANGED <<libvirtVars, missed>>

(* A signal leads to a read of its object.                                 *)
ReadOnSignal(o, step, updateOnly) == BeginReads({o}, [p \in {o} |-> step], updateOnly)

ReceiveSignal(o, e) ==
    /\ Receive
    /\ Head(inbox) = Signal(o, e)
    /\ UNCHANGED <<libvirtVars, load, missed>>

OnDefined(o) ==
    /\ \E e \in {"DEFINED", "CREATED"} : ReceiveSignal(o, e)
    /\ ReadOnSignal(o, FirstStep(o), FALSE)

(* Faulty: a pool that was started is read only to refresh its volumes.    *)
OnStartedIfNetwork(o) ==
    /\ ReceiveSignal(o, "STARTED")
    /\ IF kind[o] = "pool" THEN UNCHANGED <<reads, rows, overlapped>>
       ELSE ReadOnSignal(o, FirstStep(o), FALSE)

OnStarted(o) ==
    /\ ReceiveSignal(o, "STARTED")
    /\ ReadOnSignal(o, FirstStep(o), kind[o] = "pool")

(* Faulty: what has stopped is taken to be gone.                           *)
OnStoppedForget(o) ==
    /\ ReceiveSignal(o, "STOPPED")
    /\ rows' = [rows EXCEPT ![o] = "unlisted"]
    /\ UNCHANGED <<reads, overlapped>>

(* storagePoolStopOrUndefine, networkUpdateOrDelete.                       *)
OnStopped(o) ==
    /\ ReceiveSignal(o, "STOPPED")
    /\ ReadOnSignal(o, "list", TRUE)

OnUndefined(o) ==
    /\ ReceiveSignal(o, "UNDEFINED")
    /\ rows' = [rows EXCEPT ![o] = "unlisted"]
    /\ UNCHANGED <<reads, overlapped>>

OnDeleted(o) ==
    /\ ReceiveSignal(o, "DELETED")
    /\ UNCHANGED <<reads, rows, overlapped>>

(* Faulty: a pool is refreshed once more before it is read.                *)
OnRefreshAgain(o) ==
    /\ ReceiveSignal(o, "Refresh")
    /\ ReadOnSignal(o, FirstOfAll[o], FALSE)

OnRefresh(o) ==
    /\ ReceiveSignal(o, "Refresh")
    /\ ReadOnSignal(o, FirstStep(o), FALSE)

-----------------------------------------------------------------------------
(* The reads, after each await *)

(* The call of read r has returned with the given answer.                  *)
Returns(r, answer) ==
    /\ Receive
    /\ Head(inbox) = [kind |-> "read", read |-> r]
    /\ reads[r] # NoRead
    /\ reads[r].answer = answer
    /\ UNCHANGED <<libvirtVars, load, overlapped>>

End(r) == reads' = [reads EXCEPT ![r] = NoRead]

(* The call that follows, if the one under way has succeeded, or "end".    *)
StepAfter(r) ==
    LET o == reads[r].obj
        s == reads[r].step
    IN CASE s = "list"        -> FirstStep(o)
         [] s = "getActive"   -> IF reads[r].active = "active" THEN "refresh" ELSE FirstStep(o)
         [] s = "refresh"     -> FirstStep(o)
         [] s = "xml"         -> IF kind[o] = "pool" THEN "props" ELSE "end"
         [] s = "props"       -> IF kind[o] = "network" THEN "xml"
                                 ELSE IF reads[r].active = "active" THEN "volumes" ELSE "end"
         [] s = "volumes"     -> "volumeXml"
         [] s = "volumeXml"   -> "end"

Proceed(r) ==
    /\ Returns(r, "ok")
    /\ StepAfter(r) # "end"
    /\ reads' = [reads EXCEPT ![r] =
           [obj |-> reads[r].obj, step |-> StepAfter(r), updateOnly |-> reads[r].updateOnly,
            answer |-> "none", active |-> reads[r].active]]
    /\ UNCHANGED <<rows, missed>>

(* updateStoragePool, updateNetwork: what was not read is kept, and no row *)
(* is added.  addStoragePool, addNetwork: the row is replaced, or added.   *)
Finish(r) ==
    /\ Returns(r, "ok")
    /\ StepAfter(r) = "end"
    /\ LET o == reads[r].obj
           a == reads[r].active
           keep == reads[r].updateOnly /\ (rows[o] = "unlisted" \/ a = "unknown")
       IN rows' = IF keep THEN rows ELSE [rows EXCEPT ![o] = a]
    /\ End(r)
    /\ UNCHANGED missed

(* "Transient pool which got undefined when stopped."                      *)
RemoveAbsent(r) ==
    /\ Returns(r, "absent")
    /\ rows' = [rows EXCEPT ![reads[r].obj] = "unlisted"]
    /\ End(r)
    /\ UNCHANGED missed

(* The readers log the error and leave the row as it is; storagePoolGetAll *)
(* rejects, and the page says "Failed to fetch some resources".            *)
Fail(r) ==
    /\ Returns(r, "error")
    /\ End(r)
    /\ missed' = IF reads[r].step \in {"getActive", "refresh"}
                 THEN missed \cup {reads[r].obj} ELSE missed
    /\ UNCHANGED rows

(* A call takes longer than 30 seconds.                                    *)
TimeOut(r) ==
    /\ reads[r] # NoRead
    /\ reads[r].answer = "none"
    /\ missed' = missed \cup {reads[r].obj}
    /\ End(r)
    /\ UNCHANGED <<libvirtVars, inbox, load, rows, overlapped>>

TimeOutAll ==
    /\ load = "asked"
    /\ load' = "done"
    /\ missed' = Objects
    /\ UNCHANGED <<libvirtVars, inbox, reads, rows, overlapped>>

-----------------------------------------------------------------------------
LibvirtAnswers == AnswerAll \/ \E r \in Reads : AnswerRead(r)

PageReceives ==
    \/ ReceiveAll
    \/ \E o \in Objects : \/ OnDefined(o) \/ OnStarted(o) \/ OnStopped(o)
                          \/ OnUndefined(o) \/ OnDeleted(o) \/ OnRefresh(o)
    \/ \E r \in Reads : Proceed(r) \/ Finish(r) \/ RemoveAbsent(r) \/ Fail(r)

TimesOut == TimeOutAll \/ \E r \in Reads : TimeOut(r)

Next == LibvirtChanges \/ LibvirtAnswers \/ PageReceives \/ TimesOut

Spec == Init /\ [][Next]_vars

(* Every call is answered or times out, and the page handles what it gets. *)
FairSpec ==
    /\ Spec
    /\ WF_vars(PageReceives)
    /\ WF_vars(LibvirtAnswers \/ TimesOut)

-----------------------------------------------------------------------------
(* Properties *)

Settled ==
    /\ inbox = <<>>
    /\ load = "done"
    /\ \A r \in Reads : reads[r] = NoRead

(* Once nothing is under way, the networks listed are those that exist,    *)
(* transient ones included, and every persistent pool has a row unless     *)
(* reads of it have overlapped: nothing that a read or a listing found out *)
(* earlier wins over the news.  Pools that are gone may leave a row.       *)
ListsAreRight ==
    Settled => \A o \in Objects \ missed :
                   IF kind[o] = "network" THEN (rows[o] # "unlisted") = (object[o] # "gone")
                   ELSE object[o] # "gone" /\ persistent[o] /\ o \notin overlapped => rows[o] # "unlisted"

(* Once nothing is under way, a row says whether its object is active,     *)
(* unless two reads of the object have overlapped: each event that changes *)
(* the state is followed by a read that begins after it.                   *)
StateIsCurrentUnlessOverlapped ==
    Settled => \A o \in Objects \ (missed \cup overlapped) :
                   object[o] # "gone" /\ rows[o] # "unlisted" => rows[o] = object[o]

(* Reading a pool has it refreshed only at the start, so that the signal   *)
(* of the refresh, which has the pool read again, does not lead to another *)
(* one: once libvirt is quiet, everything under way comes to an end.       *)
EverythingSettles == <>[]Settled
=============================================================================
