------------------------------- MODULE VmList -------------------------------
(***************************************************************************)
(* The list of virtual machines that cockpit-machines shows for one        *)
(* libvirt connection, and the protocol that keeps it in step with         *)
(* libvirt: AppState.vms (src/state.ts), the D-Bus signal handlers of      *)
(* startEventMonitorDomains (src/libvirtApi/common.ts), and the readers    *)
(* domainGetAll, domainGet and domainGetCapabilities                       *)
(* (src/libvirtApi/domain.ts).                                             *)
(*                                                                         *)
(* domainGet is five awaited D-Bus calls followed by one synchronous       *)
(* update.  Any number of them run concurrently, each with its own slot    *)
(* here; between two of their calls libvirt changes, signals are handled   *)
(* and other readers finish.  Everything libvirt sends to the page goes    *)
(* through "inbox"; InOrder says whether the page handles it in the order  *)
(* libvirt produced it, or whether a reply can overtake what is before it  *)
(* (every call opens a D-Bus client, hence a channel, of its own).         *)
(*                                                                         *)
(* A row here is the run state and the revision of the configuration XML.  *)
(* The fields of a row that other components own (operation in progress,   *)
(* usage samples, snapshots) and the placeholder rows of machines being    *)
(* created are left to the modules of those components.                    *)
(***************************************************************************)
EXTENDS Naturals, Sequences, SequencesExt

CONSTANTS
    Domains,      \* object paths of the domains libvirt may have
    Reads,        \* slots for concurrent runs of domainGet
    NoRead,       \* an unused slot
    NotListed,    \* the page has no row for the domain
    InOrder,      \* the page handles what libvirt sends in the order it was sent
    MayTimeOut,   \* calls may fail although libvirt is alive (30 s timeout)
    MaxChanges    \* bound on what happens to the domains

(* Run states (DOMAINSTATE in src/helpers.ts) this model tells apart.      *)
RunStates == {"shut off", "running", "paused", "pmsuspended"}
DomStates == RunStates \cup {"gone"}

(* Signals after which the domain is read again, those that carry the new  *)
(* state themselves, and those the page has no case for.                   *)
ReReadEvents   == {"DEFINED", "UNDEFINED", "STARTED", "STOPPED", "DeviceAdded"}
StateEvents    == {"SUSPENDED", "RESUMED"}
IgnoredEvents  == {"PMSUSPENDED"}
Events         == ReReadEvents \cup StateEvents \cup IgnoredEvents
StateOfEvent(e) == IF e = "SUSPENDED" THEN "paused" ELSE "running"

(* The calls of one domainGet, in order.                                   *)
XmlCall   == 1     \* GetXMLDesc; 2 is the inactive XML
PropsCall == 3     \* GetAll
CapsCall  == 4     \* the promise of GetDomainCapabilities
LastCall  == 5     \* GetState

(* A running domainGet: the call it awaits, whether libvirt has answered,  *)
(* and what the answers so far contained.                                  *)
Read == [dom : Domains, call : 1..LastCall, answer : {"none", "ok", "error"},
         rev : 0..MaxChanges, state : DomStates]
Row  == [state : DomStates, rev : 0..MaxChanges]

ASSUME VmListAssumption ==
    /\ NoRead \notin Read
    /\ NotListed \notin Row
    /\ InOrder \in BOOLEAN
    /\ MayTimeOut \in BOOLEAN
    /\ MaxChanges \in Nat

Signals == [kind : {"signal"}, dom : Domains, event : Events]
Replies == [kind : {"read"}, read : Reads]
Caps    == [kind : {"caps"}]
Listing == [kind : {"list"}, doms : SUBSET Domains]
Message == Signals \cup Replies \cup Caps \cup Listing

VARIABLES
    dom,         \* libvirt: the state of each domain
    rev,         \* libvirt: the revision of each domain's configuration
    changes,     \* libvirt: number of changes so far
    subscribed,  \* the page has subscribed to the domain signals
    inbox,       \* what libvirt has sent and the page has not yet handled
    load,        \* domainGetAll: "idle", "asked", "answered", "done"
    reads,       \* the running domainGets
    caps,        \* the cached promise: "unasked", "asked", "answered", "ok", "failed"
    rows,        \* AppState.vms
    unheard      \* history: domains that changed without a usable signal,
                 \* and whose state has not been read since

libvirtVars == <<dom, rev, changes>>
vars == <<dom, rev, changes, subscribed, inbox, load, reads, caps, rows, unheard>>

TypeOK ==
    /\ dom \in [Domains -> DomStates]
    /\ rev \in [Domains -> 0..MaxChanges]
    /\ changes \in 0..MaxChanges
    /\ subscribed \in BOOLEAN
    /\ inbox \in Seq(Message)
    /\ load \in {"idle", "asked", "answered", "done"}
    /\ reads \in [Reads -> Read \cup {NoRead}]
    /\ caps \in {"unasked", "asked", "answered", "ok", "failed"}
    /\ rows \in [Domains -> Row \cup {NotListed}]
    /\ unheard \in SUBSET Domains

Init ==
    /\ dom \in [Domains -> {"gone", "shut off", "running"}]
    /\ rev = [d \in Domains |-> 0]
    /\ changes = 0
    /\ subscribed = FALSE
    /\ inbox = <<>>
    /\ load = "idle"
    /\ reads = [r \in Reads |-> NoRead]
    /\ caps = "unasked"
    /\ rows = [d \in Domains |-> NotListed]
    /\ unheard = {}

-----------------------------------------------------------------------------
(* libvirt *)

(* Domain d goes to state s, with a new configuration if "edited", and     *)
(* libvirt emits event e to whoever has subscribed.                        *)
Change(d, s, edited, e) ==
    /\ changes < MaxChanges
    /\ changes' = changes + 1
    /\ dom' = [dom EXCEPT ![d] = s]
    /\ rev' = [rev EXCEPT ![d] = IF edited THEN @ + 1 ELSE @]
    /\ inbox' = IF subscribed
                THEN Append(inbox, [kind |-> "signal", dom |-> d, event |-> e])
                ELSE inbox
    /\ unheard' = IF subscribed /\ e \notin IgnoredEvents
                  THEN unheard ELSE unheard \cup {d}
    /\ UNCHANGED <<subscribed, load, reads, caps, rows>>

Define(d)    == dom[d] = "gone" /\ Change(d, "shut off", TRUE, "DEFINED")
Redefine(d)  == dom[d] # "gone" /\ Change(d, dom[d], TRUE, "DEFINED")
Undefine(d)  == dom[d] = "shut off" /\ Change(d, "gone", FALSE, "UNDEFINED")
Start(d)     == dom[d] \in {"gone", "shut off"} /\ Change(d, "running", FALSE, "STARTED")
Stop(d)      == /\ dom[d] \in {"running", "paused", "pmsuspended"}
                /\ \E s \in {"shut off", "gone"} :      \* gone: a transient domain
                       Change(d, s, FALSE, "STOPPED")
Suspend(d)   == dom[d] = "running" /\ Change(d, "paused", FALSE, "SUSPENDED")
Resume(d)    == dom[d] = "paused" /\ Change(d, "running", FALSE, "RESUMED")
Sleep(d)     == dom[d] = "running" /\ Change(d, "pmsuspended", FALSE, "PMSUSPENDED")
WakeUp(d)    == dom[d] = "pmsuspended" /\ Change(d, "running", FALSE, "STARTED")
AddDevice(d) == dom[d] # "gone" /\ Change(d, dom[d], TRUE, "DeviceAdded")

LibvirtChanges ==
    \E d \in Domains :
        \/ Define(d) \/ Redefine(d) \/ Undefine(d) \/ Start(d) \/ Stop(d)
        \/ Suspend(d) \/ Resume(d) \/ Sleep(d) \/ WakeUp(d) \/ AddDevice(d)

(* Read r as it is at call c, with answer a.                               *)
At(r, c, a) == [dom |-> reads[r].dom, call |-> c, answer |-> a,
                rev |-> reads[r].rev, state |-> reads[r].state]

(* libvirt serves the call that read r awaits.  A domain that is gone is   *)
(* "not found", except that GetAll may still return some properties.       *)
AnswerRead(r) ==
    /\ reads[r] # NoRead
    /\ reads[r].answer = "none"
    /\ reads[r].call # CapsCall
    /\ LET d == reads[r].dom
           c == reads[r].call
       IN \/ /\ dom[d] # "gone" \/ c = PropsCall
             /\ reads' = [reads EXCEPT ![r] =
                    [dom    |-> d,
                     call   |-> c,
                     answer |-> "ok",
                     rev    |-> IF c = XmlCall THEN rev[d] ELSE reads[r].rev,
                     state  |-> IF c = LastCall THEN dom[d] ELSE reads[r].state]]
             /\ unheard' = IF c = LastCall THEN unheard \ {d} ELSE unheard
          \/ /\ dom[d] = "gone"
             /\ reads' = [reads EXCEPT ![r] = At(r, c, "error")]
             /\ unheard' = unheard \ {d}
    /\ inbox' = Append(inbox, [kind |-> "read", read |-> r])
    /\ UNCHANGED <<libvirtVars, subscribed, load, caps, rows>>

(* libvirt serves GetDomainCapabilities.                                   *)
AnswerCaps ==
    /\ caps = "asked"
    /\ caps' = "answered"
    /\ inbox' = Append(inbox, [kind |-> "caps"])
    /\ UNCHANGED <<libvirtVars, subscribed, load, reads, rows, unheard>>

(* libvirt serves ListDomains.                                             *)
AnswerList ==
    /\ load = "asked"
    /\ load' = "answered"
    /\ inbox' = Append(inbox, [kind |-> "list",
                               doms |-> {d \in Domains : dom[d] # "gone"}])
    /\ UNCHANGED <<libvirtVars, subscribed, reads, caps, rows, unheard>>

-----------------------------------------------------------------------------
(* The page *)

(* The messages the page may handle next.  Signals come through one        *)
(* subscription and keep their order whatever InOrder says.                *)
Deliverable(i) ==
    \A j \in 1..(i - 1) :
        ~InOrder /\ ~(inbox[i].kind = "signal" /\ inbox[j].kind = "signal")

Receive(i) ==
    /\ Deliverable(i)
    /\ inbox' = RemoveAt(inbox, i)

(* domainGet(d) begins: its first call is sent.                            *)
NewRead(d) == [dom |-> d, call |-> XmlCall, answer |-> "none",
               rev |-> 0, state |-> "gone"]

(* startEventMonitor subscribes once getLibvirtVersion has answered.       *)
Subscribe ==
    /\ ~subscribed
    /\ subscribed' = TRUE
    /\ UNCHANGED <<libvirtVars, inbox, load, reads, caps, rows, unheard>>

(* initAllVMs calls domainGetAll, which asks for the domains.  Nothing     *)
(* orders this with Subscribe: App calls init() and initAllVMs() together. *)
domainGetAll ==
    /\ load = "idle"
    /\ load' = "asked"
    /\ UNCHANGED <<libvirtVars, subscribed, inbox, reads, caps, rows, unheard>>

(* ListDomains fails: GET_ALL_VMS action failed, and nothing is listed.    *)
TimeOutList ==
    /\ MayTimeOut
    /\ load = "asked"
    /\ load' = "done"
    /\ UNCHANGED <<libvirtVars, subscribed, inbox, reads, caps, rows, unheard>>

(* deleteUnlistedVMs, and one domainGet for each listed domain.            *)
ReceiveList(i) ==
    /\ inbox[i].kind = "list"
    /\ Receive(i)
    /\ load' = "done"
    /\ rows' = [d \in Domains |-> IF d \in inbox[i].doms THEN rows[d] ELSE NotListed]
    /\ \E slot \in [inbox[i].doms -> {r \in Reads : reads[r] = NoRead}] :
           /\ \A d, e \in inbox[i].doms : slot[d] = slot[e] => d = e
           /\ reads' = [r \in Reads |->
                  IF \E d \in inbox[i].doms : slot[d] = r
                  THEN NewRead(CHOOSE d \in inbox[i].doms : slot[d] = r)
                  ELSE reads[r]]
    /\ UNCHANGED <<libvirtVars, subscribed, caps, unheard>>

(* Faulty: only a machine that is in the list is read again.               *)
ReReadIfListed(i, r) ==
    /\ inbox[i].kind = "signal"
    /\ inbox[i].event \in ReReadEvents
    /\ Receive(i)
    /\ reads[r] = NoRead
    /\ reads' = IF rows[inbox[i].dom] = NotListed THEN reads
                ELSE [reads EXCEPT ![r] = NewRead(inbox[i].dom)]
    /\ UNCHANGED <<libvirtVars, subscribed, load, caps, rows, unheard>>

(* The handlers of DomainEvent and of the signals of the Domain interface. *)
ReReadOnSignal(i, r) ==
    /\ inbox[i].kind = "signal"
    /\ inbox[i].event \in ReReadEvents
    /\ Receive(i)
    /\ reads[r] = NoRead
    /\ reads' = [reads EXCEPT ![r] = NewRead(inbox[i].dom)]
    /\ UNCHANGED <<libvirtVars, subscribed, load, caps, rows, unheard>>

UpdateOnSignal(i) ==
    /\ inbox[i].kind = "signal"
    /\ inbox[i].event \in StateEvents
    /\ Receive(i)
    /\ LET d == inbox[i].dom IN
       rows' = IF rows[d] = NotListed THEN rows
               ELSE [rows EXCEPT ![d] = [state |-> StateOfEvent(inbox[i].event),
                                         rev   |-> rows[d].rev]]
    /\ UNCHANGED <<libvirtVars, subscribed, load, reads, caps, unheard>>

IgnoreSignal(i) ==
    /\ inbox[i].kind = "signal"
    /\ inbox[i].event \in IgnoredEvents
    /\ Receive(i)
    /\ UNCHANGED <<libvirtVars, subscribed, load, reads, caps, rows, unheard>>

(* Faulty: the read ends, and the row stays.                               *)
DropQuietly(r) ==
    /\ reads' = [reads EXCEPT ![r] = NoRead]
    /\ UNCHANGED rows

(* The catch block of domainGet: "if we can't get info about the VM, don't *)
(* show it".                                                               *)
Drop(r) ==
    /\ rows' = [rows EXCEPT ![reads[r].dom] = NotListed]
    /\ reads' = [reads EXCEPT ![r] = NoRead]

(* The answer to the call that read r awaits is handled.                   *)
Returns(i, r, answer) ==
    /\ inbox[i] = [kind |-> "read", read |-> r]
    /\ reads[r] # NoRead
    /\ reads[r].answer = answer
    /\ Receive(i)

(* An awaited call returns: the next one is sent.  When the next one is    *)
(* for the capabilities, the promise of the first such call is shared by   *)
(* all, and nothing is sent if there is one already.                       *)
ReceiveAnswer(i, r) ==
    /\ Returns(i, r, "ok")
    /\ reads[r].call < LastCall
    /\ reads' = [reads EXCEPT ![r] = At(r, reads[r].call + 1, "none")]
    /\ caps' = IF reads[r].call + 1 = CapsCall /\ caps = "unasked" THEN "asked" ELSE caps
    /\ UNCHANGED <<libvirtVars, subscribed, load, rows, unheard>>

(* The last call returns: updateOrAddVm.                                   *)
FinishRead(i, r) ==
    /\ Returns(i, r, "ok")
    /\ reads[r].call = LastCall
    /\ rows' = [rows EXCEPT ![reads[r].dom] = [state |-> reads[r].state, rev |-> reads[r].rev]]
    /\ reads' = [reads EXCEPT ![r] = NoRead]
    /\ UNCHANGED <<libvirtVars, subscribed, load, caps, unheard>>

FailRead(i, r) ==
    /\ Returns(i, r, "error")
    /\ Drop(r)
    /\ UNCHANGED <<libvirtVars, subscribed, load, caps, unheard>>

(* A call of domainGet times out; a reply that still comes is discarded.   *)
TimeOutRead(r) ==
    /\ MayTimeOut
    /\ reads[r] # NoRead
    /\ reads[r].answer = "none"
    /\ reads[r].call # CapsCall
    /\ Drop(r)
    /\ UNCHANGED <<libvirtVars, subscribed, inbox, load, caps, unheard>>

(* The promise of the capabilities settles, for the rest of the session.   *)
ReceiveCaps(i) ==
    /\ inbox[i].kind = "caps"
    /\ Receive(i)
    /\ caps' = "ok"
    /\ UNCHANGED <<libvirtVars, subscribed, load, reads, rows, unheard>>

TimeOutCaps ==
    /\ MayTimeOut
    /\ caps = "asked"
    /\ caps' = "failed"
    /\ UNCHANGED <<libvirtVars, subscribed, inbox, load, reads, rows, unheard>>

(* Faulty: only a fulfilled promise wakes up who waits for it.             *)
ResumeOnSuccess(r) ==
    /\ reads[r] # NoRead
    /\ reads[r].call = CapsCall
    /\ caps = "ok"
    /\ reads' = [reads EXCEPT ![r] = At(r, LastCall, "none")]
    /\ UNCHANGED <<libvirtVars, subscribed, inbox, load, caps, rows, unheard>>

(* domainGet continues after "await domainGetCapabilities".                *)
ResumeWithCaps(r) ==
    /\ reads[r] # NoRead
    /\ reads[r].call = CapsCall
    /\ \/ /\ caps = "ok"
          /\ reads' = [reads EXCEPT ![r] = At(r, LastCall, "none")]
          /\ UNCHANGED rows
       \/ /\ caps = "failed"
          /\ Drop(r)
    /\ UNCHANGED <<libvirtVars, subscribed, inbox, load, caps, unheard>>

-----------------------------------------------------------------------------
LibvirtAnswers == (\E r \in Reads : AnswerRead(r)) \/ AnswerCaps \/ AnswerList

PageReceives ==
    \E i \in 1..Len(inbox) :
        \/ ReceiveList(i) \/ UpdateOnSignal(i) \/ IgnoreSignal(i) \/ ReceiveCaps(i)
        \/ \E r \in Reads : \/ ReReadOnSignal(i, r) \/ ReceiveAnswer(i, r)
                            \/ FinishRead(i, r) \/ FailRead(i, r)

PageProceeds == domainGetAll \/ Subscribe \/ \E r \in Reads : ResumeWithCaps(r)

TimesOut == TimeOutList \/ TimeOutCaps \/ \E r \in Reads : TimeOutRead(r)

Next == LibvirtChanges \/ LibvirtAnswers \/ PageReceives \/ PageProceeds \/ TimesOut

Spec == Init /\ [][Next]_vars

(* The event loop runs what is ready, and every call is answered or times  *)
(* out.  Nothing obliges libvirt's domains to change.                      *)
Fairness ==
    /\ WF_vars(PageReceives)
    /\ WF_vars(domainGetAll) /\ WF_vars(Subscribe)
    /\ WF_vars(AnswerCaps \/ TimeOutCaps) /\ WF_vars(AnswerList \/ TimeOutList)
    /\ \A r \in Reads : /\ WF_vars(ResumeWithCaps(r))
                        /\ WF_vars(AnswerRead(r) \/ TimeOutRead(r))

FairSpec == Spec /\ Fairness

-----------------------------------------------------------------------------
(* Properties *)

(* Nothing is under way: the page has seen everything libvirt has sent.    *)
Settled ==
    /\ inbox = <<>>
    /\ load = "done"
    /\ \A r \in Reads : reads[r] = NoRead

(* Once nothing is under way, a row shows the run state libvirt has, and a *)
(* domain that is gone has no row, however the reads, signals and timeouts *)
(* before were interleaved (domainGet, startEventMonitorDomains).          *)
SettledRowsAreCurrent ==
    Settled => \A d \in Domains \ unheard :
                   rows[d] # NotListed => rows[d].state = dom[d]

(* Once nothing is under way and if no call has timed out, every domain of *)
(* libvirt has a row: a read that fails because its domain went away never *)
(* wins over the news that it is back (domainGet, domainGetAll).           *)
SettledListIsComplete ==
    Settled => \A d \in Domains \ unheard :
                   dom[d] # "gone" => rows[d] # NotListed

(* If a domain stops changing, the page soon shows it as it is, and for    *)
(* good, provided no call times out.                                       *)
RowsConverge ==
    \A d \in Domains : \A s \in DomStates :
        <>[](dom[d] = s /\ d \notin unheard)
            => <>[](IF s = "gone" THEN rows[d] = NotListed
                                  ELSE rows[d] # NotListed /\ rows[d].state = s)

(* Reads, signals and the shared promise of the capabilities do not wait   *)
(* for each other: once libvirt is quiet, everything under way comes to an *)
(* end, with timeouts too.                                                 *)
EverythingSettles == <>[]Settled

-----------------------------------------------------------------------------
(* Why the rows are current: an invariant that is inductive if InOrder.    *)

(* The messages that, when they are handled, set or drop the row of d or   *)
(* have it read again, and those of them that do so in line with libvirt.  *)
News(d) ==
    {m \in Signals : m.dom = d /\ m.event \notin IgnoredEvents}
    \cup {m \in Replies : /\ reads[m.read] # NoRead
                          /\ reads[m.read].dom = d
                          /\ \/ reads[m.read].answer = "error"
                             \/ reads[m.read].call = LastCall}

CurrentNews(d) ==
    {m \in News(d) :
        IF m.kind = "signal"
        THEN m.event \in ReReadEvents \/ StateOfEvent(m.event) = dom[d]
        ELSE reads[m.read].answer = "error" \/ reads[m.read].state = dom[d]}

(* Of the members of D in sequence s, the last one is in G.                *)
LastIsIn(s, D, G) ==
    \E i \in 1..Len(s) : s[i] \in G /\ \A j \in (i + 1)..Len(s) : s[j] \notin D

NoneIsIn(s, D) == \A i \in 1..Len(s) : s[i] \notin D

(* Some read of d has yet to get the answer that ends it.                  *)
BeingRead(d) ==
    \E r \in Reads : /\ reads[r] # NoRead
                     /\ reads[r].dom = d
                     /\ \/ reads[r].answer = "none"
                        \/ reads[r].answer = "ok" /\ reads[r].call # LastCall

RowIsCurrent(d) == rows[d] # NotListed => rows[d].state = dom[d]

(* The answer to a read is in the inbox once, and the read waits for it:   *)
(* no reply reaches a read that has ended or has been answered already.    *)
AnswersHaveReads ==
    /\ \A i \in 1..Len(inbox) :
           inbox[i].kind = "read" => /\ reads[inbox[i].read] # NoRead
                                     /\ reads[inbox[i].read].answer # "none"
    /\ \A i, j \in 1..Len(inbox) :
           inbox[i].kind = "read" /\ inbox[i] = inbox[j] => i = j
    /\ \A r \in Reads : reads[r] # NoRead /\ reads[r].call = CapsCall
                          => reads[r].answer = "none"

(* For each domain, the last of the news under way is current, or there is *)
(* none and the row is current or about to be read: what makes             *)
(* SettledRowsAreCurrent true although reads of one domain overlap.        *)
RowFollowsTheNews(d) ==
    \/ LastIsIn(inbox, News(d), CurrentNews(d))
    \/ /\ NoneIsIn(inbox, News(d))
       /\ RowIsCurrent(d) \/ BeingRead(d)

RowsFollowTheNews == \A d \in Domains \ unheard : RowFollowsTheNews(d)
=============================================================================
