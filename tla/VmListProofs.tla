---------------------------- MODULE VmListProofs ----------------------------
(* Proofs about the list of virtual machines, for any number of domains,   *)
(* of concurrent reads and of changes.                                     *)
EXTENDS MCVmList, SequenceTheorems, TLAPS

-----------------------------------------------------------------------------
(* Removing a message leaves the others, in their order.                   *)
LEMMA RemoveAtProperties ==
    ASSUME NEW S, NEW s \in Seq(S), NEW i \in 1..Len(s)
    PROVE  /\ RemoveAt(s, i) \in Seq(S)
           /\ Len(RemoveAt(s, i)) = Len(s) - 1
           /\ \A j \in 1..(Len(s) - 1) :
                  RemoveAt(s, i)[j] = IF j < i THEN s[j] ELSE s[j + 1]
<1> DEFINE a == SubSeq(s, 1, i - 1)
           b == SubSeq(s, i + 1, Len(s))
<1>0. Len(s) \in Nat /\ \A k \in 1..Len(s) : s[k] \in S
  OBVIOUS
<1>1. /\ a \in Seq(S) /\ Len(a) = i - 1
      /\ \A j \in 1..(i - 1) : a[j] = s[j]
  BY <1>0, SubSeqProperties
<1>2. /\ b \in Seq(S) /\ Len(b) = Len(s) - i
      /\ \A j \in 1..(Len(s) - i) : b[j] = s[i + j]
  BY <1>0, SubSeqProperties
<1>3. /\ a \o b \in Seq(S) /\ Len(a \o b) = Len(a) + Len(b)
      /\ \A j \in 1..(Len(a) + Len(b)) :
             (a \o b)[j] = IF j <= Len(a) THEN a[j] ELSE b[j - Len(a)]
  BY <1>1, <1>2, ConcatProperties
<1>4. RemoveAt(s, i) = a \o b
  BY DEF RemoveAt
<1> HIDE DEF a, b
<1>5. Len(RemoveAt(s, i)) = Len(s) - 1
  BY <1>0, <1>1, <1>2, <1>3, <1>4
<1>6. ASSUME NEW j \in 1..(Len(s) - 1)
      PROVE  RemoveAt(s, i)[j] = IF j < i THEN s[j] ELSE s[j + 1]
  <2>1. RemoveAt(s, i)[j] = IF j <= i - 1 THEN a[j] ELSE b[j - (i - 1)]
    BY <1>0, <1>1, <1>2, <1>3, <1>4
  <2>2. CASE j < i
    BY <2>1, <2>2, <1>1
  <2>3. CASE ~(j < i)
    <3>1. /\ j - (i - 1) \in 1..(Len(s) - i)
          /\ i + (j - (i - 1)) = j + 1
      BY <1>0, <2>3
    <3> QED  BY <2>1, <2>3, <3>1, <1>2
  <2> QED  BY <2>2, <2>3
<1> QED  BY <1>3, <1>4, <1>5, <1>6

-----------------------------------------------------------------------------
(* Type correctness.  A revision stays within its bound because every edit *)
(* is a change.                                                            *)
RevsBounded == \A d \in Domains : rev[d] <= changes

TypeInv == TypeOK /\ RevsBounded

LEMMA InitTypes == Init => TypeInv
<1> SUFFICES ASSUME Init
             PROVE  TypeInv
  OBVIOUS
<1>1. dom \in [Domains -> DomStates]
  BY DEF Init, DomStates, RunStates
<1>2. inbox \in Seq(Message)
  BY EmptySeq DEF Init
<1>3. reads \in [Reads -> Read \cup {NoRead}] /\ rows \in [Domains -> Row \cup {NotListed}]
  BY DEF Init
<1>4. rev = [d \in Domains |-> 0] /\ changes = 0
  BY DEF Init
<1>5. rev \in [Domains -> 0..MaxChanges] /\ changes \in 0..MaxChanges /\ RevsBounded
  BY <1>4, VmListAssumption DEF RevsBounded
<1> QED  BY <1>1, <1>2, <1>3, <1>5 DEF TypeInv, TypeOK, Init

LEMMA ChangeTypes ==
    ASSUME TypeInv, NEW d \in Domains, NEW s \in DomStates,
           NEW edited \in BOOLEAN, NEW e \in Events, Change(d, s, edited, e)
    PROVE  TypeInv'
<1> USE VmListAssumption DEF TypeInv, TypeOK, Change
<1>1. changes' \in 0..MaxChanges /\ dom' \in [Domains -> DomStates]
  OBVIOUS
<1>2. rev' \in [Domains -> 0..MaxChanges] /\ RevsBounded'
  BY DEF RevsBounded
<1>3. [kind |-> "signal", dom |-> d, event |-> e] \in Message
  BY DEF Message, Signals
<1>4. inbox' \in Seq(Message)
  BY <1>3
<1>5. unheard' \in SUBSET Domains
  OBVIOUS
<1> QED  BY <1>1, <1>2, <1>4, <1>5

(* Every step of libvirt is a change; an event that carries the new state   *)
(* carries the right one, and a domain that appears has itself read.        *)
LEMMA LibvirtChangesChange ==
    ASSUME TypeInv, LibvirtChanges
    PROVE  \E d \in Domains, s \in DomStates, e \in Events :
               /\ Change(d, s, TRUE, e) \/ Change(d, s, FALSE, e)
               /\ e \in StateEvents => StateOfEvent(e) = s
               /\ dom[d] = "gone" => e \in ReReadEvents
<1> PICK d \in Domains :
        \/ Define(d) \/ Redefine(d) \/ Undefine(d) \/ Start(d) \/ Stop(d)
        \/ Suspend(d) \/ Resume(d) \/ Sleep(d) \/ WakeUp(d) \/ AddDevice(d)
  BY DEF LibvirtChanges
<1>1. dom[d] \in DomStates
  BY DEF TypeInv, TypeOK
<1>2. {"gone", "shut off", "running", "paused", "pmsuspended"} \subseteq DomStates
  BY DEF DomStates, RunStates
<1>3. {"DEFINED", "UNDEFINED", "STARTED", "STOPPED", "SUSPENDED", "RESUMED",
       "PMSUSPENDED", "DeviceAdded"} \subseteq Events
  BY DEF Events, ReReadEvents, StateEvents, IgnoredEvents
<1>4. CASE Define(d) \/ Redefine(d) \/ AddDevice(d)
  BY <1>1, <1>2, <1>3, <1>4 DEF Define, Redefine, AddDevice, StateEvents, ReReadEvents
<1>5. CASE Undefine(d) \/ Start(d) \/ Stop(d)
  BY <1>2, <1>3, <1>5 DEF Undefine, Start, Stop, StateEvents, ReReadEvents
<1>6. CASE Suspend(d) \/ Resume(d)
  BY <1>2, <1>3, <1>6 DEF Suspend, Resume, StateOfEvent
<1>7. CASE Sleep(d) \/ WakeUp(d)
  BY <1>2, <1>3, <1>7 DEF Sleep, WakeUp, ReReadEvents, StateEvents
<1> QED  BY <1>4, <1>5, <1>6, <1>7

LEMMA LibvirtChangesTypes == TypeInv /\ LibvirtChanges => TypeInv'
  BY LibvirtChangesChange, ChangeTypes

LEMMA ReceiveTypes ==
    ASSUME inbox \in Seq(Message), NEW i \in 1..Len(inbox), Receive(i)
    PROVE  inbox' \in Seq(Message) /\ inbox[i] \in Message
  BY RemoveAtProperties DEF Receive

(* What At and NewRead make of the reads.                                  *)
LEMMA AtIsRead ==
    ASSUME NEW r \in Reads, reads[r] \in Read, NEW c \in 1..LastCall,
           NEW a \in {"none", "ok", "error"}
    PROVE  At(r, c, a) \in Read
  BY DEF At, Read

LEMMA NewReadIsRead ==
    ASSUME NEW d \in Domains
    PROVE  NewRead(d) \in Read
<1>1. 0 \in 0..MaxChanges /\ XmlCall \in 1..LastCall
  BY VmListAssumption DEF XmlCall, LastCall
<1> QED  BY <1>1 DEF NewRead, Read, DomStates

(* What libvirt's answer makes of a read: its domain and its call stay, and *)
(* the answer to the last call is the state the domain has.                 *)
LEMMA AnswerReadEffect ==
    ASSUME TypeInv, NEW r \in Reads, AnswerRead(r)
    PROVE  /\ reads' \in [Reads -> Read \cup {NoRead}]
           /\ reads'[r] # NoRead
           /\ reads'[r].dom = reads[r].dom /\ reads'[r].call = reads[r].call
           /\ reads'[r].answer \in {"ok", "error"}
           /\ reads[r].call = LastCall /\ reads'[r].answer = "ok"
                  => reads'[r].state = dom[reads[r].dom]
           /\ \A q \in Reads \ {r} : reads'[q] = reads[q]
<1> USE DEF TypeInv, TypeOK
<1>1. /\ reads[r] \in Read
      /\ reads[r].dom \in Domains /\ reads[r].call \in 1..LastCall
      /\ reads[r].rev \in 0..MaxChanges /\ reads[r].state \in DomStates
  BY DEF AnswerRead, Read
<1>2. CASE reads' = [reads EXCEPT ![r] = At(r, reads[r].call, "error")]
  <2>1. At(r, reads[r].call, "error") \in Read
    BY <1>1, AtIsRead
  <2>2. reads'[r] = At(r, reads[r].call, "error")
    BY <1>2
  <2> QED  BY <1>2, <2>1, <2>2, VmListAssumption DEF At
<1>3. CASE reads' # [reads EXCEPT ![r] = At(r, reads[r].call, "error")]
  <2> DEFINE v == IF reads[r].call = XmlCall THEN rev[reads[r].dom] ELSE reads[r].rev
             t == IF reads[r].call = LastCall THEN dom[reads[r].dom] ELSE reads[r].state
             read == [dom |-> reads[r].dom, call |-> reads[r].call,
                      answer |-> "ok", rev |-> v, state |-> t]
  <2>1. reads' = [reads EXCEPT ![r] = read]
    BY <1>3 DEF AnswerRead
  <2>2. v \in 0..MaxChanges /\ t \in DomStates
    BY <1>1
  <2>3. reads[r].call = LastCall => t = dom[reads[r].dom]
    OBVIOUS
  <2> HIDE DEF v, t
  <2>4. read \in Read
    BY <1>1, <2>2 DEF Read
  <2> QED  BY <2>1, <2>3, <2>4, VmListAssumption
<1> QED  BY <1>2, <1>3

LEMMA AnswersTypes == TypeInv /\ LibvirtAnswers => TypeInv'
<1> SUFFICES ASSUME TypeInv, LibvirtAnswers
             PROVE  TypeInv'
  OBVIOUS
<1> USE DEF TypeInv, TypeOK, libvirtVars, RevsBounded
<1>1. ASSUME NEW r \in Reads, AnswerRead(r)
      PROVE  TypeInv'
  <2>1. [kind |-> "read", read |-> r] \in Message
    BY DEF Message, Replies
  <2>2. inbox' \in Seq(Message)
    BY <1>1, <2>1 DEF AnswerRead
  <2>3. reads' \in [Reads -> Read \cup {NoRead}]
    BY <1>1, AnswerReadEffect
  <2>4. unheard' \in SUBSET Domains
    BY <1>1 DEF AnswerRead
  <2> QED  BY <1>1, <2>2, <2>3, <2>4 DEF AnswerRead
<1>2. CASE AnswerCaps
  <2>1. [kind |-> "caps"] \in Message
    BY DEF Message, Caps
  <2> QED  BY <1>2, <2>1 DEF AnswerCaps
<1>3. CASE AnswerList
  <2>1. [kind |-> "list", doms |-> {d \in Domains : dom[d] # "gone"}] \in Message
    BY DEF Message, Listing
  <2> QED  BY <1>3, <2>1 DEF AnswerList
<1> QED  BY <1>1, <1>2, <1>3 DEF LibvirtAnswers

LEMMA DropTypes ==
    ASSUME TypeInv, NEW r \in Reads, reads[r] # NoRead, Drop(r)
    PROVE  /\ reads' \in [Reads -> Read \cup {NoRead}]
           /\ rows' \in [Domains -> Row \cup {NotListed}]
  BY DEF Drop, TypeInv, TypeOK

LEMMA ReceivesTypes == TypeInv /\ PageReceives => TypeInv'
<1> SUFFICES ASSUME TypeInv, NEW i \in 1..Len(inbox),
                    \/ ReceiveList(i) \/ UpdateOnSignal(i) \/ IgnoreSignal(i) \/ ReceiveCaps(i)
                    \/ \E r \in Reads : \/ ReReadOnSignal(i, r) \/ ReceiveAnswer(i, r)
                                        \/ FinishRead(i, r) \/ FailRead(i, r)
             PROVE  TypeInv'
  BY DEF PageReceives
<1> USE DEF TypeInv, TypeOK, RevsBounded, libvirtVars
<1>1. CASE ReceiveList(i)
  <2>1. inbox' \in Seq(Message) /\ inbox[i] \in Message
    BY <1>1, ReceiveTypes DEF ReceiveList
  <2>2. inbox[i].doms \subseteq Domains
    BY <1>1, <2>1 DEF ReceiveList, Message, Signals, Replies, Caps, Listing
  <2>3. reads' \in [Reads -> Read \cup {NoRead}]
    <3> PICK slot \in [inbox[i].doms -> {r \in Reads : reads[r] = NoRead}] :
            reads' = [r \in Reads |->
                         IF \E d \in inbox[i].doms : slot[d] = r
                         THEN NewRead(CHOOSE d \in inbox[i].doms : slot[d] = r)
                         ELSE reads[r]]
      BY <1>1 DEF ReceiveList
    <3>1. ASSUME NEW r \in Reads
          PROVE  reads'[r] \in Read \cup {NoRead}
      <4>1. CASE \E d \in inbox[i].doms : slot[d] = r
        <5>1. (CHOOSE d \in inbox[i].doms : slot[d] = r) \in Domains
          BY <4>1, <2>2
        <5> QED  BY <4>1, <5>1, NewReadIsRead
      <4>2. CASE ~ \E d \in inbox[i].doms : slot[d] = r
        BY <4>2
      <4> QED  BY <4>1, <4>2
    <3> QED  BY <3>1
  <2> QED  BY <1>1, <2>1, <2>3 DEF ReceiveList
<1>2. CASE UpdateOnSignal(i)
  <2>1. inbox' \in Seq(Message) /\ inbox[i] \in Message
    BY <1>2, ReceiveTypes DEF UpdateOnSignal
  <2>2. inbox[i].dom \in Domains
    BY <1>2, <2>1 DEF UpdateOnSignal, Message, Signals, Replies, Caps, Listing
  <2>3. ASSUME rows[inbox[i].dom] # NotListed
        PROVE  [state |-> StateOfEvent(inbox[i].event),
                rev |-> rows[inbox[i].dom].rev] \in Row
    BY <2>2, <2>3 DEF Row, StateOfEvent, DomStates, RunStates
  <2> QED  BY <1>2, <2>1, <2>2, <2>3 DEF UpdateOnSignal
<1>3. CASE IgnoreSignal(i)
  BY <1>3, ReceiveTypes DEF IgnoreSignal
<1>4. CASE ReceiveCaps(i)
  BY <1>4, ReceiveTypes DEF ReceiveCaps
<1>5. ASSUME NEW r \in Reads, ReReadOnSignal(i, r)
      PROVE  TypeInv'
  <2>1. inbox' \in Seq(Message) /\ inbox[i] \in Message
    BY <1>5, ReceiveTypes DEF ReReadOnSignal
  <2>2. NewRead(inbox[i].dom) \in Read
    BY <1>5, <2>1, NewReadIsRead
    DEF ReReadOnSignal, Message, Signals, Replies, Caps, Listing
  <2> QED  BY <1>5, <2>1, <2>2 DEF ReReadOnSignal
<1>6. ASSUME NEW r \in Reads, ReceiveAnswer(i, r)
      PROVE  TypeInv'
  <2>1. inbox' \in Seq(Message)
    BY <1>6, ReceiveTypes DEF ReceiveAnswer, Returns
  <2>2. reads[r] \in Read /\ reads[r].call + 1 \in 1..LastCall
    <3>1. reads[r] \in Read
      BY <1>6 DEF ReceiveAnswer, Returns
    <3> QED  BY <1>6, <3>1 DEF ReceiveAnswer, Read, LastCall
  <2>3. At(r, reads[r].call + 1, "none") \in Read
    BY <2>2, AtIsRead
  <2> QED  BY <1>6, <2>1, <2>3 DEF ReceiveAnswer
<1>7. ASSUME NEW r \in Reads, FinishRead(i, r)
      PROVE  TypeInv'
  <2>1. inbox' \in Seq(Message)
    BY <1>7, ReceiveTypes DEF FinishRead, Returns
  <2>2. reads[r] \in Read
    BY <1>7 DEF FinishRead, Returns
  <2>3. [state |-> reads[r].state, rev |-> reads[r].rev] \in Row
    BY <2>2 DEF Read, Row
  <2> QED  BY <1>7, <2>1, <2>3 DEF FinishRead
<1>8. ASSUME NEW r \in Reads, FailRead(i, r)
      PROVE  TypeInv'
  <2>1. inbox' \in Seq(Message)
    BY <1>8, ReceiveTypes DEF FailRead, Returns
  <2>2. reads[r] # NoRead
    BY <1>8 DEF FailRead, Returns
  <2> QED  BY <1>8, <2>1, <2>2, DropTypes DEF FailRead
<1> QED  BY <1>1, <1>2, <1>3, <1>4, <1>5, <1>6, <1>7, <1>8

LEMMA ProceedsTypes == TypeInv /\ (PageProceeds \/ TimesOut) => TypeInv'
<1> SUFFICES ASSUME TypeInv, PageProceeds \/ TimesOut
             PROVE  TypeInv'
  OBVIOUS
<1> USE DEF TypeInv, TypeOK, RevsBounded, libvirtVars
<1>1. CASE domainGetAll \/ Subscribe \/ TimeOutList \/ TimeOutCaps
  BY <1>1 DEF domainGetAll, Subscribe, TimeOutList, TimeOutCaps
<1>2. ASSUME NEW r \in Reads, ResumeWithCaps(r)
      PROVE  TypeInv'
  <2>1. At(r, LastCall, "none") \in Read
    BY <1>2, AtIsRead DEF ResumeWithCaps, LastCall
  <2>2. CASE Drop(r)
    BY <1>2, <2>2, DropTypes DEF ResumeWithCaps
  <2>3. CASE ~Drop(r)
    BY <1>2, <2>1, <2>3 DEF ResumeWithCaps
  <2> QED  BY <2>2, <2>3
<1>3. ASSUME NEW r \in Reads, TimeOutRead(r)
      PROVE  TypeInv'
  BY <1>3, DropTypes DEF TimeOutRead
<1> QED  BY <1>1, <1>2, <1>3 DEF PageProceeds, TimesOut

LEMMA NextTypes == TypeInv /\ [Next]_vars => TypeInv'
<1>1. TypeInv /\ UNCHANGED vars => TypeInv'
  BY DEF TypeInv, TypeOK, RevsBounded, vars
<1> QED
  BY <1>1, LibvirtChangesTypes, AnswersTypes, ReceivesTypes, ProceedsTypes DEF Next

(* Whatever the domains, the slots and the bounds, the variables keep their *)
(* types: in particular every row and every read is about a domain, and no  *)
(* revision is ahead of the number of changes.                              *)
THEOREM TypeCorrect == Spec => []TypeOK
<1>1. TypeInv => TypeOK
  BY DEF TypeInv
<1> QED  BY <1>1, InitTypes, NextTypes, PTL DEF Spec

-----------------------------------------------------------------------------
(* Each answered read has its answer in the inbox once.                    *)

(* A message is removed, and the reads that have another one under way     *)
(* still wait for it.                                                      *)
LEMMA ReceiveKeepsAnswers ==
    ASSUME TypeInv, AnswersHaveReads, NEW i \in 1..Len(inbox), Receive(i),
           \A r \in Reads : \/ reads'[r] = reads[r]
                            \/ inbox[i] = [kind |-> "read", read |-> r]
                            \/ reads[r] = NoRead,
           \A r \in Reads : reads'[r] # NoRead /\ reads'[r].call = CapsCall
                            => reads'[r].answer = "none"
    PROVE  AnswersHaveReads'
<1>1. /\ inbox \in Seq(Message) /\ inbox' = RemoveAt(inbox, i)
      /\ Len(inbox) \in Nat
  BY DEF TypeInv, TypeOK, Receive
<1>2. /\ Len(inbox') = Len(inbox) - 1
      /\ \A j \in 1..Len(inbox') : inbox'[j] = IF j < i THEN inbox[j] ELSE inbox[j + 1]
  BY <1>1, RemoveAtProperties
<1>3. ASSUME NEW j \in 1..Len(inbox')
      PROVE  \E k \in 1..Len(inbox) \ {i} :
                 inbox'[j] = inbox[k] /\ k = IF j < i THEN j ELSE j + 1
  BY <1>1, <1>2
<1>4. ASSUME NEW j \in 1..Len(inbox'), inbox'[j].kind = "read"
      PROVE  reads'[inbox'[j].read] # NoRead /\ reads'[inbox'[j].read].answer # "none"
  <2> PICK k \in 1..Len(inbox) \ {i} : inbox'[j] = inbox[k]
    BY <1>3
  <2>1. inbox[k] \in Message /\ inbox[k].kind = "read"
    BY <1>1, <1>4
  <2>2. inbox[k] \in Replies
    BY <2>1 DEF Message, Signals, Caps, Listing
  <2>3. inbox[k] # inbox[i]
    BY <2>1 DEF AnswersHaveReads
  <2>4. inbox[k].read \in Reads /\ inbox[k] = [kind |-> "read", read |-> inbox[k].read]
    BY <2>2 DEF Replies
  <2>5. reads[inbox[k].read] # NoRead /\ reads[inbox[k].read].answer # "none"
    BY <2>1 DEF AnswersHaveReads
  <2> QED  BY <2>3, <2>4, <2>5
<1>5. ASSUME NEW j \in 1..Len(inbox'), NEW l \in 1..Len(inbox'),
             inbox'[j].kind = "read", inbox'[j] = inbox'[l]
      PROVE  j = l
  BY <1>1, <1>2, <1>5 DEF AnswersHaveReads
<1> QED  BY <1>4, <1>5 DEF AnswersHaveReads

LEMMA AppendKeepsAnswers ==
    ASSUME TypeInv, AnswersHaveReads, NEW m \in Message, m.kind # "read",
           inbox' = Append(inbox, m), reads' = reads
    PROVE  AnswersHaveReads'
<1>1. inbox \in Seq(Message) /\ Len(inbox) \in Nat
  BY DEF TypeInv, TypeOK
<1>2. /\ Len(inbox') = Len(inbox) + 1
      /\ \A j \in 1..Len(inbox') : inbox'[j] = IF j = Len(inbox) + 1 THEN m ELSE inbox[j]
  BY <1>1
<1> QED  BY <1>1, <1>2 DEF AnswersHaveReads

LEMMA AnswerReadKeepsAnswers ==
    ASSUME TypeInv, AnswersHaveReads, NEW r \in Reads, AnswerRead(r)
    PROVE  AnswersHaveReads'
<1> DEFINE m == [kind |-> "read", read |-> r]
<1>1. inbox \in Seq(Message) /\ Len(inbox) \in Nat
  BY DEF TypeInv, TypeOK
<1>2. /\ Len(inbox') = Len(inbox) + 1
      /\ \A j \in 1..Len(inbox') : inbox'[j] = IF j = Len(inbox) + 1 THEN m ELSE inbox[j]
  BY <1>1 DEF AnswerRead
<1>3. \A j \in 1..Len(inbox) : inbox[j] # m
  BY DEF AnswersHaveReads, AnswerRead
<1>5. /\ reads'[r] # NoRead /\ reads'[r].answer # "none" /\ reads'[r].call # CapsCall
      /\ \A q \in Reads \ {r} : reads'[q] = reads[q]
  <2>1. reads[r].call # CapsCall
    BY DEF AnswerRead
  <2> QED  BY <2>1, AnswerReadEffect
<1>6. ASSUME NEW j \in 1..Len(inbox'), inbox'[j].kind = "read"
      PROVE  reads'[inbox'[j].read] # NoRead /\ reads'[inbox'[j].read].answer # "none"
  <2>1. CASE j = Len(inbox) + 1
    BY <1>2, <1>5, <2>1
  <2>2. CASE j # Len(inbox) + 1
    <3>1. j \in 1..Len(inbox) /\ inbox'[j] = inbox[j]
      BY <1>1, <1>2, <2>2
    <3>2. inbox[j] \in Replies
      BY <1>1, <1>6, <3>1 DEF Message, Signals, Caps, Listing
    <3>3. inbox[j].read \in Reads \ {r}
      BY <1>3, <3>1, <3>2 DEF Replies
    <3> QED  BY <1>5, <1>6, <3>1, <3>3 DEF AnswersHaveReads
  <2> QED  BY <2>1, <2>2
<1>7. ASSUME NEW j \in 1..Len(inbox'), NEW l \in 1..Len(inbox'),
             inbox'[j].kind = "read", inbox'[j] = inbox'[l]
      PROVE  j = l
  BY <1>1, <1>2, <1>3, <1>7 DEF AnswersHaveReads
<1>8. \A q \in Reads : reads'[q] # NoRead /\ reads'[q].call = CapsCall
                      => reads'[q].answer = "none"
  BY <1>5 DEF AnswersHaveReads
<1> QED  BY <1>6, <1>7, <1>8 DEF AnswersHaveReads

(* The inbox stays as it is, and so do the reads it has answers for.       *)
LEMMA StayKeepsAnswers ==
    ASSUME TypeInv, AnswersHaveReads, inbox' = inbox,
           \A r \in Reads : \/ reads'[r] = reads[r]
                            \/ reads[r] = NoRead
                            \/ reads[r].answer = "none",
           \A r \in Reads : reads'[r] # NoRead /\ reads'[r].call = CapsCall
                            => reads'[r].answer = "none"
    PROVE  AnswersHaveReads'
<1>1. ASSUME NEW j \in 1..Len(inbox), inbox[j].kind = "read"
      PROVE  reads'[inbox[j].read] # NoRead /\ reads'[inbox[j].read].answer # "none"
  <2>1. inbox[j] \in Replies
    BY <1>1 DEF TypeInv, TypeOK, Message, Signals, Caps, Listing
  <2>2. inbox[j].read \in Reads
    BY <2>1 DEF Replies
  <2> QED  BY <1>1, <2>2 DEF AnswersHaveReads
<1> QED  BY <1>1 DEF AnswersHaveReads

LEMMA ChangeKeepsAnswers == TypeInv /\ AnswersHaveReads /\ LibvirtChanges => AnswersHaveReads'
<1> SUFFICES ASSUME TypeInv, AnswersHaveReads, LibvirtChanges
             PROVE  AnswersHaveReads'
  OBVIOUS
<1>1. PICK d \in Domains, s \in DomStates, e \in Events :
          Change(d, s, TRUE, e) \/ Change(d, s, FALSE, e)
  BY LibvirtChangesChange
<1>2. reads' = reads
  BY <1>1 DEF Change
<1>3. [kind |-> "signal", dom |-> d, event |-> e] \in Message
  BY DEF Message, Signals
<1>4. CASE subscribed
  BY <1>1, <1>2, <1>3, <1>4, AppendKeepsAnswers DEF Change
<1>5. CASE ~subscribed
  <2>1. inbox' = inbox
    BY <1>1, <1>5 DEF Change
  <2> QED  BY <1>2, <2>1 DEF AnswersHaveReads
<1> QED  BY <1>4, <1>5 DEF TypeInv, TypeOK

LEMMA LibvirtAnswersKeepsAnswers ==
    TypeInv /\ AnswersHaveReads /\ LibvirtAnswers => AnswersHaveReads'
<1> SUFFICES ASSUME TypeInv, AnswersHaveReads, LibvirtAnswers
             PROVE  AnswersHaveReads'
  OBVIOUS
<1>1. CASE AnswerCaps
  <2>1. [kind |-> "caps"] \in Message
    BY DEF Message, Caps
  <2> QED  BY <1>1, <2>1, AppendKeepsAnswers DEF AnswerCaps
<1>2. CASE AnswerList
  <2>1. [kind |-> "list", doms |-> {d \in Domains : dom[d] # "gone"}] \in Message
    BY DEF Message, Listing
  <2> QED  BY <1>2, <2>1, AppendKeepsAnswers DEF AnswerList
<1> QED  BY <1>1, <1>2, AnswerReadKeepsAnswers DEF LibvirtAnswers

LEMMA PageReceivesKeepsAnswers ==
    TypeInv /\ AnswersHaveReads /\ PageReceives => AnswersHaveReads'
<1> SUFFICES ASSUME TypeInv, AnswersHaveReads, NEW i \in 1..Len(inbox),
                    \/ ReceiveList(i) \/ UpdateOnSignal(i) \/ IgnoreSignal(i) \/ ReceiveCaps(i)
                    \/ \E r \in Reads : \/ ReReadOnSignal(i, r) \/ ReceiveAnswer(i, r)
                                        \/ FinishRead(i, r) \/ FailRead(i, r)
             PROVE  AnswersHaveReads'
  BY DEF PageReceives
<1>1. reads \in [Reads -> Read \cup {NoRead}]
  BY DEF TypeInv, TypeOK
<1>2. CASE UpdateOnSignal(i) \/ IgnoreSignal(i) \/ ReceiveCaps(i)
  <2>1. Receive(i) /\ reads' = reads
    BY <1>2 DEF UpdateOnSignal, IgnoreSignal, ReceiveCaps
  <2> QED  BY <2>1, ReceiveKeepsAnswers DEF AnswersHaveReads
<1>3. CASE ReceiveList(i)
  <2>1. Receive(i)
    BY <1>3 DEF ReceiveList
  <2>2. ASSUME NEW r \in Reads
        PROVE  \/ reads'[r] = reads[r]
               \/ /\ reads[r] = NoRead
                  /\ \E d \in inbox[i].doms : reads'[r] = NewRead(d)
    BY <1>3 DEF ReceiveList
  <2>3. \A r \in Reads : reads'[r] # NoRead /\ reads'[r].call = CapsCall
                        => reads'[r].answer = "none"
    <3>1. \A d : NewRead(d).answer = "none"
      BY DEF NewRead
    <3> QED  BY <2>2, <3>1 DEF AnswersHaveReads
  <2> QED  BY <2>1, <2>2, <2>3, ReceiveKeepsAnswers
<1>4. ASSUME NEW r \in Reads, ReReadOnSignal(i, r)
      PROVE  AnswersHaveReads'
  BY <1>1, <1>4, ReceiveKeepsAnswers DEF ReReadOnSignal, AnswersHaveReads, NewRead
<1>5. ASSUME NEW r \in Reads, ReceiveAnswer(i, r)
      PROVE  AnswersHaveReads'
  <2>1. Receive(i) /\ inbox[i] = [kind |-> "read", read |-> r]
    BY <1>5 DEF ReceiveAnswer, Returns
  <2>2. reads'[r].answer = "none" /\ \A q \in Reads \ {r} : reads'[q] = reads[q]
    BY <1>1, <1>5 DEF ReceiveAnswer, At
  <2> QED  BY <2>1, <2>2, ReceiveKeepsAnswers DEF AnswersHaveReads
<1>6. ASSUME NEW r \in Reads, FinishRead(i, r) \/ FailRead(i, r)
      PROVE  AnswersHaveReads'
  <2>1. Receive(i) /\ inbox[i] = [kind |-> "read", read |-> r]
    BY <1>6 DEF FinishRead, FailRead, Returns
  <2>2. reads'[r] = NoRead /\ \A q \in Reads \ {r} : reads'[q] = reads[q]
    BY <1>1, <1>6 DEF FinishRead, FailRead, Drop
  <2> QED  BY <2>1, <2>2, ReceiveKeepsAnswers DEF AnswersHaveReads
<1> QED  BY <1>2, <1>3, <1>4, <1>5, <1>6

LEMMA NextAnswers == TypeInv /\ AnswersHaveReads /\ [Next]_vars => AnswersHaveReads'
<1> SUFFICES ASSUME TypeInv, AnswersHaveReads, [Next]_vars
             PROVE  AnswersHaveReads'
  OBVIOUS
<1>1. reads \in [Reads -> Read \cup {NoRead}]
  BY DEF TypeInv, TypeOK
<1>2. CASE \/ domainGetAll \/ Subscribe \/ TimeOutList \/ TimeOutCaps \/ UNCHANGED vars
  <2>1. inbox' = inbox /\ reads' = reads
    BY <1>2 DEF domainGetAll, Subscribe, TimeOutList, TimeOutCaps, vars
  <2> QED  BY <2>1 DEF AnswersHaveReads
<1>3. ASSUME NEW r \in Reads, ResumeWithCaps(r) \/ TimeOutRead(r)
      PROVE  AnswersHaveReads'
  <2>1. inbox' = inbox /\ reads[r].answer = "none"
    BY <1>3 DEF ResumeWithCaps, TimeOutRead, AnswersHaveReads
  <2>2. \A q \in Reads \ {r} : reads'[q] = reads[q]
    BY <1>1, <1>3 DEF ResumeWithCaps, TimeOutRead, Drop
  <2>3. reads'[r] = NoRead \/ reads'[r].answer = "none"
    BY <1>1, <1>3 DEF ResumeWithCaps, TimeOutRead, Drop, At
  <2> QED  BY <2>1, <2>2, <2>3, StayKeepsAnswers DEF AnswersHaveReads
<1> QED
  BY <1>2, <1>3, ChangeKeepsAnswers, LibvirtAnswersKeepsAnswers, PageReceivesKeepsAnswers
  DEF Next, PageProceeds, TimesOut

-----------------------------------------------------------------------------
(* The last of some messages in a sequence that grows and shrinks.         *)
LEMMA LastAfterAppend ==
    ASSUME NEW S, NEW s \in Seq(S), NEW m \in S, NEW D, NEW G
    PROVE  /\ m \in G => LastIsIn(Append(s, m), D, G)
           /\ m \notin D /\ LastIsIn(s, D, G) => LastIsIn(Append(s, m), D, G)
           /\ m \notin D /\ NoneIsIn(s, D) => NoneIsIn(Append(s, m), D)
<1>1. /\ Len(s) \in Nat /\ Len(Append(s, m)) = Len(s) + 1
      /\ \A j \in 1..(Len(s) + 1) : Append(s, m)[j] = IF j = Len(s) + 1 THEN m ELSE s[j]
  OBVIOUS
<1>2. ASSUME m \in G PROVE LastIsIn(Append(s, m), D, G)
  BY <1>1, <1>2 DEF LastIsIn
<1>3. ASSUME m \notin D, LastIsIn(s, D, G) PROVE LastIsIn(Append(s, m), D, G)
  BY <1>1, <1>3 DEF LastIsIn
<1>4. ASSUME m \notin D, NoneIsIn(s, D) PROVE NoneIsIn(Append(s, m), D)
  BY <1>1, <1>4 DEF NoneIsIn
<1> QED  BY <1>2, <1>3, <1>4

LEMMA LastAfterRemove ==
    ASSUME NEW S, NEW s \in Seq(S), Len(s) # 0, NEW D, NEW G
    PROVE  /\ LastIsIn(s, D, G) =>
                  \/ LastIsIn(RemoveAt(s, 1), D, G)
                  \/ s[1] \in G /\ NoneIsIn(RemoveAt(s, 1), D)
           /\ NoneIsIn(s, D) => s[1] \notin D /\ NoneIsIn(RemoveAt(s, 1), D)
<1> DEFINE t == RemoveAt(s, 1)
<1>1. /\ Len(s) \in Nat /\ 1 \in 1..Len(s) /\ Len(t) = Len(s) - 1
      /\ \A j \in 1..Len(t) : t[j] = s[j + 1]
  <2>1. Len(s) \in Nat /\ 1 \in 1..Len(s)
    OBVIOUS
  <2>2. /\ Len(t) = Len(s) - 1
        /\ \A j \in 1..(Len(s) - 1) : t[j] = IF j < 1 THEN s[j] ELSE s[j + 1]
    BY <2>1, RemoveAtProperties
  <2> HIDE DEF t
  <2> QED  BY <2>1, <2>2
<1> HIDE DEF t
<1>2. ASSUME LastIsIn(s, D, G)
      PROVE  LastIsIn(t, D, G) \/ (s[1] \in G /\ NoneIsIn(t, D))
  <2> PICK i \in 1..Len(s) : s[i] \in G /\ \A j \in (i + 1)..Len(s) : s[j] \notin D
    BY <1>2 DEF LastIsIn
  <2>1. CASE i = 1
    BY <1>1, <2>1 DEF NoneIsIn
  <2>2. CASE i # 1
    <3>1. i - 1 \in 1..Len(t) /\ t[i - 1] \in G
      BY <1>1, <2>2
    <3>2. \A j \in ((i - 1) + 1)..Len(t) : t[j] \notin D
      BY <1>1, <2>2
    <3> QED  BY <3>1, <3>2 DEF LastIsIn
  <2> QED  BY <2>1, <2>2
<1>3. ASSUME NoneIsIn(s, D) PROVE s[1] \notin D /\ NoneIsIn(t, D)
  BY <1>1, <1>3 DEF NoneIsIn
<1> QED  BY <1>2, <1>3 DEF t

(* LastIsIn and NoneIsIn depend on the elements of the sequence alone.     *)
LEMMA LastOfOtherSets ==
    ASSUME NEW s, NEW D, NEW G, NEW D2, NEW G2,
           \A j \in 1..Len(s) : (s[j] \in D <=> s[j] \in D2) /\ (s[j] \in G => s[j] \in G2),
           Len(s) \in Nat
    PROVE  /\ LastIsIn(s, D, G) => LastIsIn(s, D2, G2)
           /\ NoneIsIn(s, D) => NoneIsIn(s, D2)
<1>1. ASSUME LastIsIn(s, D, G) PROVE LastIsIn(s, D2, G2)
  BY <1>1 DEF LastIsIn
<1> QED  BY <1>1 DEF NoneIsIn

-----------------------------------------------------------------------------
(* The rows follow the news.                                               *)

(* Whether a message is news of d depends on d's state and, for an answer, *)
(* on its read.                                                            *)
LEMMA SameNews ==
    ASSUME NEW d \in Domains, NEW m \in Message, dom'[d] = dom[d],
           m.kind = "read" => reads'[m.read] = reads[m.read]
    PROVE  /\ m \in News(d) <=> m \in News(d)'
           /\ m \in CurrentNews(d) <=> m \in CurrentNews(d)'
<1>1. m \in Replies => m.kind = "read"
  BY DEF Replies
<1>2. m \in Signals => m.kind = "signal"
  BY DEF Signals
<1>3. m \in News(d) <=> m \in News(d)'
  BY <1>1 DEF News
<1>4. m \in News(d) => m \in Signals \/ m \in Replies
  BY DEF News
<1> QED  BY <1>1, <1>2, <1>3, <1>4 DEF CurrentNews

(* A message that is not news of d is appended.                            *)
LEMMA AppendOther ==
    ASSUME TypeInv, NEW d \in Domains, NEW m \in Message,
           inbox' = Append(inbox, m), m \notin News(d)',
           \A j \in 1..Len(inbox) :
               /\ inbox[j] \in News(d) <=> inbox[j] \in News(d)'
               /\ inbox[j] \in CurrentNews(d) <=> inbox[j] \in CurrentNews(d)',
           rows' = rows, dom'[d] = dom[d],
           BeingRead(d) => BeingRead(d)',
           RowFollowsTheNews(d)
    PROVE  RowFollowsTheNews(d)'
<1>1. inbox \in Seq(Message) /\ Len(inbox) \in Nat
  BY DEF TypeInv, TypeOK
<1>2. CASE LastIsIn(inbox, News(d), CurrentNews(d))
  <2>1. LastIsIn(inbox, News(d)', CurrentNews(d)')
    BY <1>1, <1>2, LastOfOtherSets
  <2>2. LastIsIn(Append(inbox, m), News(d)', CurrentNews(d)')
    BY <1>1, <2>1, LastAfterAppend
  <2> QED  BY <2>2 DEF RowFollowsTheNews
<1>3. CASE NoneIsIn(inbox, News(d)) /\ (RowIsCurrent(d) \/ BeingRead(d))
  <2>1. NoneIsIn(inbox, News(d)')
    BY <1>1, <1>3, LastOfOtherSets
  <2>2. NoneIsIn(Append(inbox, m), News(d)')
    BY <1>1, <2>1, LastAfterAppend
  <2>3. RowIsCurrent(d)' \/ BeingRead(d)'
    BY <1>3 DEF RowIsCurrent
  <2> QED  BY <2>2, <2>3 DEF RowFollowsTheNews
<1> QED  BY <1>2, <1>3 DEF RowFollowsTheNews

(* Current news of d is appended.                                          *)
LEMMA AppendCurrent ==
    ASSUME TypeInv, NEW d \in Domains, NEW m \in Message,
           inbox' = Append(inbox, m), m \in CurrentNews(d)'
    PROVE  RowFollowsTheNews(d)'
<1>1. inbox \in Seq(Message)
  BY DEF TypeInv, TypeOK
<1>2. LastIsIn(Append(inbox, m), News(d)', CurrentNews(d)')
  BY <1>1, LastAfterAppend
<1> QED  BY <1>2 DEF RowFollowsTheNews


(* The inbox stays as it is.                                               *)
LEMMA StayFollows ==
    ASSUME TypeInv, NEW d \in Domains, inbox' = inbox,
           \A j \in 1..Len(inbox) :
               /\ inbox[j] \in News(d) <=> inbox[j] \in News(d)'
               /\ inbox[j] \in CurrentNews(d) <=> inbox[j] \in CurrentNews(d)',
           RowIsCurrent(d) \/ BeingRead(d) => RowIsCurrent(d)' \/ BeingRead(d)',
           RowFollowsTheNews(d)
    PROVE  RowFollowsTheNews(d)'
<1>1. Len(inbox) \in Nat
  BY DEF TypeInv, TypeOK
<1>2. LastIsIn(inbox, News(d), CurrentNews(d)) => LastIsIn(inbox, News(d)', CurrentNews(d)')
  BY <1>1, LastOfOtherSets
<1>3. NoneIsIn(inbox, News(d)) => NoneIsIn(inbox, News(d)')
  BY <1>1, LastOfOtherSets
<1> QED  BY <1>2, <1>3 DEF RowFollowsTheNews

LEMMA ChangeFollows ==
    ASSUME TypeInv, AnswersHaveReads, RowsFollowTheNews, LibvirtChanges,
           NEW d \in Domains, d \notin unheard'
    PROVE  RowFollowsTheNews(d)'
<1>1. PICK c \in Domains, s \in DomStates, e \in Events :
          /\ Change(c, s, TRUE, e) \/ Change(c, s, FALSE, e)
          /\ e \in StateEvents => StateOfEvent(e) = s
  BY LibvirtChangesChange
<1> DEFINE m == [kind |-> "signal", dom |-> c, event |-> e]
<1>2. /\ reads' = reads /\ rows' = rows
      /\ dom' = [dom EXCEPT ![c] = s]
      /\ inbox' = IF subscribed THEN Append(inbox, m) ELSE inbox
      /\ unheard' = IF subscribed /\ e \notin IgnoredEvents
                    THEN unheard ELSE unheard \cup {c}
  BY <1>1 DEF Change
<1>3. m \in Signals /\ m \in Message
  BY DEF Message, Signals
<1>4. dom \in [Domains -> DomStates]
  BY DEF TypeInv, TypeOK
<1>5. CASE c = d
  <2>1. subscribed /\ e \notin IgnoredEvents /\ inbox' = Append(inbox, m)
    BY <1>2, <1>5
  <2>2. m \in News(d)'
    BY <1>3, <1>5, <2>1 DEF News
  <2>3. e \in ReReadEvents \/ StateOfEvent(e) = dom'[d]
    BY <1>1, <1>2, <1>4, <1>5, <2>1 DEF Events
  <2>4. m \in CurrentNews(d)'
    BY <2>2, <2>3 DEF CurrentNews
  <2> QED  BY <1>3, <2>1, <2>4, AppendCurrent
<1>6. CASE c # d
  <2>1. dom'[d] = dom[d] /\ d \notin unheard
    BY <1>2, <1>4, <1>6
  <2>2. RowFollowsTheNews(d)
    BY <2>1 DEF RowsFollowTheNews
  <2>3. \A j \in 1..Len(inbox) :
            /\ inbox[j] \in News(d) <=> inbox[j] \in News(d)'
            /\ inbox[j] \in CurrentNews(d) <=> inbox[j] \in CurrentNews(d)'
    BY <1>2, <2>1, SameNews DEF TypeInv, TypeOK
  <2>4. BeingRead(d) => BeingRead(d)'
    BY <1>2 DEF BeingRead
  <2>5. CASE subscribed
    <3>1. m \notin News(d)'
      BY <1>6 DEF News, Replies
    <3> QED  BY <1>2, <1>3, <2>1, <2>2, <2>3, <2>4, <2>5, <3>1, AppendOther
  <2>6. CASE ~subscribed
    <3>1. inbox' = inbox /\ Len(inbox) \in Nat
      BY <1>2, <2>6 DEF TypeInv, TypeOK
    <3>2. RowIsCurrent(d) => RowIsCurrent(d)'
      BY <1>2, <2>1 DEF RowIsCurrent
    <3> QED  BY <2>2, <2>3, <2>4, <3>1, <3>2, StayFollows
  <2> QED  BY <2>5, <2>6 DEF TypeInv, TypeOK
<1> QED  BY <1>5, <1>6

LEMMA AnswerReadFollows ==
    ASSUME TypeInv, AnswersHaveReads, RowsFollowTheNews,
           NEW r \in Reads, AnswerRead(r), NEW d \in Domains, d \notin unheard'
    PROVE  RowFollowsTheNews(d)'
<1> DEFINE m == [kind |-> "read", read |-> r]
<1>1. m \in Replies /\ m \in Message
  BY DEF Message, Replies
<1>2. inbox' = Append(inbox, m) /\ dom' = dom /\ rows' = rows
  BY DEF AnswerRead, libvirtVars
<1>3. ASSUME NEW j \in 1..Len(inbox)
      PROVE  inbox[j] \in Message /\ inbox[j] # m
  <2>1. inbox[j] \in Message
    BY DEF TypeInv, TypeOK
  <2>2. inbox[j] # m
    BY DEF AnswerRead, AnswersHaveReads
  <2> QED  BY <2>1, <2>2
<1>4. \A q \in Reads \ {r} : reads'[q] = reads[q]
  BY AnswerReadEffect
<1>5. CASE /\ reads[r].dom = d
           /\ reads'[r].answer = "error" \/ reads[r].call = LastCall
  <2>1. m \in News(d)'
    BY <1>1, <1>5, AnswerReadEffect DEF News
  <2>2. m \in CurrentNews(d)'
    BY <1>2, <1>5, <2>1, AnswerReadEffect DEF CurrentNews
  <2> QED  BY <1>1, <1>2, <2>2, AppendCurrent
<1>6. CASE ~ /\ reads[r].dom = d
             /\ reads'[r].answer = "error" \/ reads[r].call = LastCall
  <2>1. m \notin News(d)'
    BY <1>6, AnswerReadEffect DEF News, Signals
  <2>2. d \notin unheard
    <3>1. CASE reads[r].dom # d
      BY <3>1 DEF AnswerRead
    <3>2. CASE reads[r].dom = d /\ reads[r].call # LastCall /\ reads'[r].answer # "error"
      <4>1. reads' # [reads EXCEPT ![r] = At(r, reads[r].call, "error")]
        BY <3>2 DEF At, TypeInv, TypeOK
      <4> QED  BY <3>2, <4>1 DEF AnswerRead
    <3> QED  BY <1>6, <3>1, <3>2
  <2>3. RowFollowsTheNews(d)
    BY <2>2 DEF RowsFollowTheNews
  <2>4. ASSUME NEW j \in 1..Len(inbox)
        PROVE  /\ inbox[j] \in News(d) <=> inbox[j] \in News(d)'
               /\ inbox[j] \in CurrentNews(d) <=> inbox[j] \in CurrentNews(d)'
    <3>1. inbox[j].kind = "read" => inbox[j] \in Replies
      BY <1>3 DEF Message, Signals, Caps, Listing
    <3>2. inbox[j].kind = "read" => inbox[j].read \in Reads \ {r}
      BY <1>3, <3>1 DEF Replies
    <3> QED  BY <1>2, <1>3, <1>4, <3>2, SameNews
  <2>5. BeingRead(d) => BeingRead(d)'
    <3> SUFFICES ASSUME NEW q \in Reads, reads[q] # NoRead, reads[q].dom = d,
                        \/ reads[q].answer = "none"
                        \/ reads[q].answer = "ok" /\ reads[q].call # LastCall
                 PROVE  BeingRead(d)'
      BY DEF BeingRead
    <3>1. CASE q = r
      BY <1>6, <3>1, AnswerReadEffect DEF BeingRead
    <3>2. CASE q # r
      BY <1>4, <3>2 DEF BeingRead
    <3> QED  BY <3>1, <3>2
  <2> QED  BY <1>1, <1>2, <2>1, <2>3, <2>4, <2>5, AppendOther
<1> QED  BY <1>5, <1>6


(* The oldest message is handled: if it was the last news of d, then it    *)
(* was current.                                                            *)
LEMMA ReceiveFollows ==
    ASSUME TypeInv, AnswersHaveReads, NEW i \in 1..Len(inbox), Receive(i), InOrder,
           NEW d \in Domains, dom' = dom, RowFollowsTheNews(d),
           \A r \in Reads : \/ reads'[r] = reads[r]
                            \/ inbox[i] = [kind |-> "read", read |-> r]
                            \/ reads[r] = NoRead,
           inbox[i] \in CurrentNews(d) => RowIsCurrent(d)' \/ BeingRead(d)',
           inbox[i] \notin News(d) /\ (RowIsCurrent(d) \/ BeingRead(d))
               => RowIsCurrent(d)' \/ BeingRead(d)'
    PROVE  RowFollowsTheNews(d)'
<1>1. i = 1 /\ inbox' = RemoveAt(inbox, 1) /\ inbox \in Seq(Message) /\ Len(inbox) # 0
  <2>1. inbox \in Seq(Message) /\ Len(inbox) \in Nat
    BY DEF TypeInv, TypeOK
  <2>2. ~ (1 \in 1..(i - 1))
    BY DEF Receive, Deliverable
  <2> QED  BY <2>1, <2>2 DEF Receive
<1>2. /\ inbox' \in Seq(Message) /\ Len(inbox') \in Nat /\ Len(inbox') = Len(inbox) - 1
      /\ \A j \in 1..(Len(inbox) - 1) :
             inbox'[j] = IF j < 1 THEN inbox[j] ELSE inbox[j + 1]
  <2>1. /\ inbox' \in Seq(Message) /\ Len(inbox') = Len(inbox) - 1
        /\ \A j \in 1..(Len(inbox) - 1) :
               inbox'[j] = IF j < 1 THEN inbox[j] ELSE inbox[j + 1]
    BY <1>1, RemoveAtProperties
  <2> QED  BY <2>1
<1>3. ASSUME NEW j \in 1..Len(inbox')
      PROVE  /\ inbox'[j] \in News(d) <=> inbox'[j] \in News(d)'
             /\ inbox'[j] \in CurrentNews(d) <=> inbox'[j] \in CurrentNews(d)'
  <2>1. j + 1 \in 1..Len(inbox) /\ inbox'[j] = inbox[j + 1] /\ j + 1 # i
    BY <1>1, <1>2
  <2>2. inbox'[j] \in Message
    BY <1>2
  <2>3. ASSUME inbox'[j].kind = "read"
        PROVE  reads'[inbox'[j].read] = reads[inbox'[j].read]
    <3>1. inbox'[j] \in Replies
      BY <2>2, <2>3 DEF Message, Signals, Caps, Listing
    <3>2. /\ inbox'[j].read \in Reads
          /\ inbox'[j] = [kind |-> "read", read |-> inbox'[j].read]
      BY <3>1 DEF Replies
    <3>3. reads[inbox'[j].read] # NoRead
      BY <2>1, <2>3 DEF AnswersHaveReads
    <3>4. inbox'[j] # inbox[i]
      BY <2>1, <2>3 DEF AnswersHaveReads
    <3> QED  BY <3>2, <3>3, <3>4
  <2> QED  BY <2>2, <2>3, SameNews
<1>4. CASE LastIsIn(inbox', News(d), CurrentNews(d))
  <2>1. LastIsIn(inbox', News(d)', CurrentNews(d)')
    BY <1>2, <1>3, <1>4, LastOfOtherSets
  <2> QED  BY <2>1 DEF RowFollowsTheNews
<1>5. CASE ~LastIsIn(inbox', News(d), CurrentNews(d))
  <2>1. NoneIsIn(inbox', News(d)) /\ (RowIsCurrent(d)' \/ BeingRead(d)')
    BY <1>1, <1>5, LastAfterRemove DEF RowFollowsTheNews
  <2>2. NoneIsIn(inbox', News(d)')
    BY <1>2, <1>3, <2>1, LastOfOtherSets
  <2> QED  BY <2>1, <2>2 DEF RowFollowsTheNews
<1> QED  BY <1>4, <1>5

(* A read of d is still under way if no slot but a free or an answered one *)
(* changes.                                                                *)
LEMMA StillBeingRead ==
    ASSUME NEW d \in Domains, BeingRead(d),
           \A q \in Reads : reads[q] # NoRead /\ reads[q].dom = d => reads'[q] = reads[q]
    PROVE  BeingRead(d)'
  BY DEF BeingRead

LEMMA PageReceivesFollows ==
    ASSUME TypeInv, AnswersHaveReads, RowsFollowTheNews, PageReceives, InOrder,
           NEW d \in Domains, d \notin unheard'
    PROVE  RowFollowsTheNews(d)'
<1> PICK i \in 1..Len(inbox) :
        \/ ReceiveList(i) \/ UpdateOnSignal(i) \/ IgnoreSignal(i) \/ ReceiveCaps(i)
        \/ \E r \in Reads : \/ ReReadOnSignal(i, r) \/ ReceiveAnswer(i, r)
                            \/ FinishRead(i, r) \/ FailRead(i, r)
  BY DEF PageReceives
<1>1. /\ reads \in [Reads -> Read \cup {NoRead}]
      /\ rows \in [Domains -> Row \cup {NotListed}]
      /\ inbox[i] \in Message
  BY DEF TypeInv, TypeOK
<1>2. Receive(i) /\ dom' = dom /\ unheard' = unheard
  BY DEF ReceiveList, UpdateOnSignal, IgnoreSignal, ReceiveCaps, ReReadOnSignal,
         ReceiveAnswer, FinishRead, FailRead, Returns, libvirtVars
<1>3. RowFollowsTheNews(d)
  BY <1>2 DEF RowsFollowTheNews
<1>4. CASE IgnoreSignal(i) \/ ReceiveCaps(i)
  <2>1. reads' = reads /\ rows' = rows
    BY <1>4 DEF IgnoreSignal, ReceiveCaps
  <2>2. inbox[i] \notin News(d)
    BY <1>4 DEF IgnoreSignal, ReceiveCaps, News, Signals, Replies
  <2>3. inbox[i] \notin CurrentNews(d)
    BY <2>2 DEF CurrentNews
  <2>4. RowIsCurrent(d) \/ BeingRead(d) => RowIsCurrent(d)' \/ BeingRead(d)'
    BY <1>2, <2>1 DEF RowIsCurrent, BeingRead
  <2> QED  BY <1>2, <1>3, <2>1, <2>3, <2>4, ReceiveFollows
<1>5. CASE ReceiveList(i)
  <2>1. inbox[i] \notin News(d) /\ inbox[i] \notin CurrentNews(d)
    BY <1>5 DEF ReceiveList, CurrentNews, News, Signals, Replies
  <2>2. \A r \in Reads : reads'[r] = reads[r] \/ reads[r] = NoRead
    BY <1>5 DEF ReceiveList
  <2>3. rows'[d] = rows[d] \/ rows'[d] = NotListed
    BY <1>5 DEF ReceiveList
  <2>4. RowIsCurrent(d) => RowIsCurrent(d)'
    BY <1>2, <2>3 DEF RowIsCurrent
  <2>5. BeingRead(d) => BeingRead(d)'
    BY <2>2, StillBeingRead
  <2> QED  BY <1>2, <1>3, <2>1, <2>2, <2>4, <2>5, ReceiveFollows
<1>6. CASE UpdateOnSignal(i)
  <2>1. reads' = reads
    BY <1>6 DEF UpdateOnSignal
  <2>2. ASSUME inbox[i] \in CurrentNews(d)
        PROVE  RowIsCurrent(d)'
    <3>1. inbox[i].dom = d /\ StateOfEvent(inbox[i].event) = dom[d]
      BY <1>6, <2>2
      DEF UpdateOnSignal, CurrentNews, News, Replies, StateEvents, ReReadEvents
    <3>2. CASE rows[d] = NotListed
      BY <1>6, <3>1, <3>2 DEF UpdateOnSignal, RowIsCurrent
    <3>3. CASE rows[d] # NotListed
      <4>1. rows'[d].state = StateOfEvent(inbox[i].event)
        BY <1>1, <1>6, <3>1, <3>3 DEF UpdateOnSignal
      <4> QED  BY <1>2, <3>1, <4>1 DEF RowIsCurrent
    <3> QED  BY <3>2, <3>3
  <2>3. ASSUME inbox[i] \notin News(d)
        PROVE  rows'[d] = rows[d]
    <3>1. inbox[i] \in Signals
      BY <1>1, <1>6 DEF UpdateOnSignal, Message, Replies, Caps, Listing
    <3>2. inbox[i].dom # d
      BY <1>6, <2>3, <3>1 DEF UpdateOnSignal, News, StateEvents, IgnoredEvents
    <3> QED  BY <1>1, <1>6, <3>2 DEF UpdateOnSignal
  <2>4. inbox[i] \notin News(d) /\ (RowIsCurrent(d) \/ BeingRead(d))
            => RowIsCurrent(d)' \/ BeingRead(d)'
    BY <1>2, <2>1, <2>3 DEF RowIsCurrent, BeingRead
  <2> QED  BY <1>2, <1>3, <2>1, <2>2, <2>4, ReceiveFollows
<1>7. ASSUME NEW r \in Reads, ReReadOnSignal(i, r)
      PROVE  RowFollowsTheNews(d)'
  <2>1. /\ reads[r] = NoRead /\ rows' = rows
        /\ reads' = [reads EXCEPT ![r] = NewRead(inbox[i].dom)]
    BY <1>7 DEF ReReadOnSignal
  <2>2. NewRead(inbox[i].dom) # NoRead
    <3>1. inbox[i].dom \in Domains
      BY <1>1, <1>7 DEF ReReadOnSignal, Message, Signals, Replies, Caps, Listing
    <3> QED  BY <3>1, NewReadIsRead, VmListAssumption
  <2>3. ASSUME inbox[i] \in News(d)
        PROVE  BeingRead(d)'
    <3>1. inbox[i].dom = d
      BY <1>7, <2>3 DEF ReReadOnSignal, News, Replies
    <3>2. reads'[r] # NoRead /\ reads'[r].dom = d /\ reads'[r].answer = "none"
      BY <1>1, <2>1, <2>2, <3>1 DEF NewRead
    <3> QED  BY <3>2 DEF BeingRead
  <2>4. BeingRead(d) => BeingRead(d)'
    BY <1>1, <2>1, StillBeingRead
  <2>5. RowIsCurrent(d) => RowIsCurrent(d)'
    BY <1>2, <2>1 DEF RowIsCurrent
  <2>6. inbox[i] \in CurrentNews(d) => inbox[i] \in News(d)
    BY DEF CurrentNews
  <2> QED  BY <1>1, <1>2, <1>3, <2>1, <2>3, <2>4, <2>5, <2>6, ReceiveFollows
<1>8. ASSUME NEW r \in Reads, ReceiveAnswer(i, r)
      PROVE  RowFollowsTheNews(d)'
  <2>1. /\ inbox[i] = [kind |-> "read", read |-> r] /\ rows' = rows
        /\ reads[r] # NoRead /\ reads[r].answer = "ok" /\ reads[r].call < LastCall
        /\ reads' = [reads EXCEPT ![r] = At(r, reads[r].call + 1, "none")]
    BY <1>8 DEF ReceiveAnswer, Returns
  <2>2. reads[r] \in Read /\ reads[r].call # LastCall
    BY <1>1, <2>1 DEF Read, LastCall
  <2>3. At(r, reads[r].call + 1, "none") # NoRead
    <3>1. reads[r].call + 1 \in 1..LastCall
      BY <2>1, <2>2 DEF Read, LastCall
    <3> QED  BY <2>2, <3>1, AtIsRead, VmListAssumption
  <2>4. inbox[i] \notin News(d) /\ inbox[i] \notin CurrentNews(d)
    BY <2>1, <2>2 DEF CurrentNews, News, Signals
  <2>5. BeingRead(d) => BeingRead(d)'
    <3> SUFFICES ASSUME NEW q \in Reads, reads[q] # NoRead, reads[q].dom = d,
                        \/ reads[q].answer = "none"
                        \/ reads[q].answer = "ok" /\ reads[q].call # LastCall
                 PROVE  BeingRead(d)'
      BY DEF BeingRead
    <3>1. CASE q = r
      BY <1>1, <2>1, <2>3, <3>1 DEF BeingRead, At
    <3>2. CASE q # r
      BY <1>1, <2>1, <3>2 DEF BeingRead
    <3> QED  BY <3>1, <3>2
  <2>6. RowIsCurrent(d) => RowIsCurrent(d)'
    BY <1>2, <2>1 DEF RowIsCurrent
  <2> QED  BY <1>1, <1>2, <1>3, <2>1, <2>4, <2>5, <2>6, ReceiveFollows
<1>9. ASSUME NEW r \in Reads, FinishRead(i, r) \/ FailRead(i, r)
      PROVE  RowFollowsTheNews(d)'
  <2>1. /\ inbox[i] = [kind |-> "read", read |-> r] /\ reads[r] # NoRead
        /\ reads' = [reads EXCEPT ![r] = NoRead]
        /\ reads[r].answer = "error" \/ (reads[r].answer = "ok" /\ reads[r].call = LastCall)
        /\ rows' = [rows EXCEPT ![reads[r].dom] =
                        IF reads[r].answer = "error" THEN NotListed
                        ELSE [state |-> reads[r].state, rev |-> reads[r].rev]]
    BY <1>9 DEF FinishRead, FailRead, Returns, Drop
  <2>2. CASE reads[r].dom = d
    <3>1. inbox[i] \in News(d)
      BY <2>1, <2>2 DEF News, Replies
    <3>2. ASSUME inbox[i] \in CurrentNews(d)
          PROVE  RowIsCurrent(d)'
      <4>1. reads[r].answer = "error" \/ reads[r].state = dom[d]
        BY <2>1, <3>2 DEF CurrentNews
      <4>2. rows'[d] = IF reads[r].answer = "error" THEN NotListed
                       ELSE [state |-> reads[r].state, rev |-> reads[r].rev]
        BY <1>1, <2>1, <2>2
      <4> QED  BY <1>2, <4>1, <4>2 DEF RowIsCurrent
    <3> QED  BY <1>1, <1>2, <1>3, <2>1, <3>1, <3>2, ReceiveFollows
  <2>3. CASE reads[r].dom # d
    <3>1. inbox[i] \notin CurrentNews(d)
      BY <2>1, <2>3 DEF CurrentNews, News, Signals
    <3>2. RowIsCurrent(d) => RowIsCurrent(d)'
      BY <1>1, <1>2, <2>1, <2>3 DEF RowIsCurrent
    <3>3. BeingRead(d) => BeingRead(d)'
      BY <1>1, <2>1, <2>3, StillBeingRead
    <3> QED  BY <1>1, <1>2, <1>3, <2>1, <3>1, <3>2, <3>3, ReceiveFollows
  <2> QED  BY <2>2, <2>3
<1> QED  BY <1>4, <1>5, <1>6, <1>7, <1>8, <1>9


LEMMA ProceedsFollows ==
    ASSUME TypeInv, AnswersHaveReads, RowsFollowTheNews,
           PageProceeds \/ TimesOut \/ UNCHANGED vars,
           NEW d \in Domains, d \notin unheard'
    PROVE  RowFollowsTheNews(d)'
<1>1. /\ reads \in [Reads -> Read \cup {NoRead}]
      /\ rows \in [Domains -> Row \cup {NotListed}]
      /\ inbox \in Seq(Message)
  BY DEF TypeInv, TypeOK
<1>2. inbox' = inbox /\ dom' = dom /\ unheard' = unheard
  BY DEF PageProceeds, TimesOut, domainGetAll, Subscribe, ResumeWithCaps, TimeOutList,
         TimeOutCaps, TimeOutRead, vars, libvirtVars
<1>3. RowFollowsTheNews(d)
  BY <1>2 DEF RowsFollowTheNews
<1>4. CASE domainGetAll \/ Subscribe \/ TimeOutList \/ TimeOutCaps \/ UNCHANGED vars
  <2>1. reads' = reads /\ rows' = rows
    BY <1>4 DEF domainGetAll, Subscribe, TimeOutList, TimeOutCaps, vars
  <2>2. \A j \in 1..Len(inbox) :
            /\ inbox[j] \in News(d) <=> inbox[j] \in News(d)'
            /\ inbox[j] \in CurrentNews(d) <=> inbox[j] \in CurrentNews(d)'
    BY <1>1, <1>2, <2>1, SameNews
  <2>3. RowIsCurrent(d) \/ BeingRead(d) => RowIsCurrent(d)' \/ BeingRead(d)'
    BY <1>2, <2>1 DEF RowIsCurrent, BeingRead
  <2> QED  BY <1>2, <1>3, <2>2, <2>3, StayFollows
<1>5. ASSUME NEW r \in Reads, ResumeWithCaps(r) \/ TimeOutRead(r)
      PROVE  RowFollowsTheNews(d)'
  <2>1. /\ reads[r] # NoRead /\ reads[r] \in Read /\ reads[r].answer = "none"
        /\ \A q \in Reads \ {r} : reads'[q] = reads[q]
        /\ \/ reads' = [reads EXCEPT ![r] = At(r, LastCall, "none")] /\ rows' = rows
           \/ Drop(r)
    BY <1>1, <1>5 DEF ResumeWithCaps, TimeOutRead, Drop, AnswersHaveReads
  <2>2. ASSUME NEW j \in 1..Len(inbox)
        PROVE  /\ inbox[j] \in News(d) <=> inbox[j] \in News(d)'
               /\ inbox[j] \in CurrentNews(d) <=> inbox[j] \in CurrentNews(d)'
    <3>1. inbox[j] \in Message
      BY <1>1
    <3>2. inbox[j].kind = "read" => inbox[j] \in Replies
      BY <3>1 DEF Message, Signals, Caps, Listing
    <3>3. inbox[j].kind = "read" => inbox[j].read \in Reads \ {r}
      BY <2>1, <3>2 DEF Replies, AnswersHaveReads
    <3> QED  BY <1>2, <2>1, <3>1, <3>3, SameNews
  <2>3. CASE reads[r].dom # d
    <3>1. rows'[d] = rows[d]
      BY <1>1, <2>1, <2>3 DEF Drop
    <3>2. RowIsCurrent(d) => RowIsCurrent(d)'
      BY <1>2, <3>1 DEF RowIsCurrent
    <3>3. BeingRead(d) => BeingRead(d)'
      BY <2>1, <2>3, StillBeingRead
    <3> QED  BY <1>2, <1>3, <2>2, <3>2, <3>3, StayFollows
  <2>4. CASE reads[r].dom = d /\ Drop(r)
    <3>1. RowIsCurrent(d)'
      BY <1>1, <2>4 DEF Drop, RowIsCurrent
    <3> QED  BY <1>2, <1>3, <2>2, <3>1, StayFollows
  <2>5. CASE reads[r].dom = d /\ ~Drop(r)
    <3>1. At(r, LastCall, "none") \in Read
      BY <2>1, AtIsRead DEF LastCall
    <3>2. BeingRead(d)'
      BY <1>1, <2>1, <2>5, <3>1, VmListAssumption DEF BeingRead, At
    <3> QED  BY <1>2, <1>3, <2>2, <3>2, StayFollows
  <2> QED  BY <2>3, <2>4, <2>5
<1> QED  BY <1>4, <1>5 DEF PageProceeds, TimesOut

LEMMA AnswersFollows ==
    ASSUME TypeInv, AnswersHaveReads, RowsFollowTheNews, AnswerCaps \/ AnswerList,
           NEW d \in Domains, d \notin unheard'
    PROVE  RowFollowsTheNews(d)'
<1>1. PICK m \in Caps \cup Listing : inbox' = Append(inbox, m)
  <2>1. [kind |-> "caps"] \in Caps
    BY DEF Caps
  <2>2. [kind |-> "list", doms |-> {c \in Domains : dom[c] # "gone"}] \in Listing
    BY DEF Listing
  <2> QED  BY <2>1, <2>2 DEF AnswerCaps, AnswerList
<1>2. dom' = dom /\ reads' = reads /\ rows' = rows /\ unheard' = unheard
  BY DEF AnswerCaps, AnswerList, libvirtVars
<1>3. m \in Message /\ m \notin News(d)'
  BY DEF Message, News, Caps, Listing, Signals, Replies
<1>4. \A j \in 1..Len(inbox) :
          /\ inbox[j] \in News(d) <=> inbox[j] \in News(d)'
          /\ inbox[j] \in CurrentNews(d) <=> inbox[j] \in CurrentNews(d)'
  BY <1>2, SameNews DEF TypeInv, TypeOK
<1>5. BeingRead(d) => BeingRead(d)'
  BY <1>2 DEF BeingRead
<1>6. RowFollowsTheNews(d)
  BY <1>2 DEF RowsFollowTheNews
<1> QED  BY <1>1, <1>2, <1>3, <1>4, <1>5, <1>6, AppendOther

-----------------------------------------------------------------------------
IInv == TypeInv /\ AnswersHaveReads /\ RowsFollowTheNews

LEMMA InitIInv == Init => IInv
<1> SUFFICES ASSUME Init
             PROVE  IInv
  OBVIOUS
<1>1. inbox = <<>> /\ Len(inbox) = 0
  BY EmptySeq DEF Init
<1>2. AnswersHaveReads
  <2>1. \A r \in Reads : reads[r] = NoRead
    BY DEF Init
  <2> QED  BY <1>1, <2>1 DEF AnswersHaveReads
<1>3. ASSUME NEW d \in Domains
      PROVE  RowIsCurrent(d) /\ NoneIsIn(inbox, News(d))
  <2>1. rows[d] = NotListed
    BY DEF Init
  <2> QED  BY <1>1, <2>1 DEF RowIsCurrent, NoneIsIn
<1> QED  BY <1>2, <1>3, InitTypes DEF IInv, RowsFollowTheNews, RowFollowsTheNews

LEMMA NextIInv == InOrder /\ IInv /\ [Next]_vars => IInv'
<1> SUFFICES ASSUME InOrder, IInv, [Next]_vars
             PROVE  IInv'
  OBVIOUS
<1>1. TypeInv' /\ AnswersHaveReads'
  BY NextTypes, NextAnswers DEF IInv
<1>2. ASSUME NEW d \in Domains, d \notin unheard'
      PROVE  RowFollowsTheNews(d)'
  <2> USE DEF IInv
  <2>1. CASE LibvirtChanges
    BY <1>2, <2>1, ChangeFollows
  <2>2. CASE LibvirtAnswers
    BY <1>2, <2>2, AnswerReadFollows, AnswersFollows DEF LibvirtAnswers
  <2>3. CASE PageReceives
    BY <1>2, <2>3, PageReceivesFollows
  <2>4. CASE PageProceeds \/ TimesOut \/ UNCHANGED vars
    BY <1>2, <2>4, ProceedsFollows
  <2> QED  BY <2>1, <2>2, <2>3, <2>4 DEF Next
<1>3. RowsFollowTheNews'
  BY <1>2 DEF RowsFollowTheNews
<1> QED  BY <1>1, <1>3 DEF IInv

LEMMA FollowingIsCurrent == IInv => SettledRowsAreCurrent
<1> SUFFICES ASSUME IInv, Settled, NEW d \in Domains \ unheard, rows[d] # NotListed
             PROVE  rows[d].state = dom[d]
  BY DEF SettledRowsAreCurrent
<1>1. Len(inbox) = 0
  BY EmptySeq DEF Settled
<1>2. RowFollowsTheNews(d)
  BY DEF IInv, RowsFollowTheNews
<1>3. ~LastIsIn(inbox, News(d), CurrentNews(d))
  BY <1>1 DEF LastIsIn
<1>4. ~BeingRead(d)
  BY DEF Settled, BeingRead
<1> QED  BY <1>2, <1>3, <1>4 DEF RowFollowsTheNews, RowIsCurrent

(* No reply reaches a read that has ended or has had its answer, in        *)
(* whatever order the page handles what libvirt sends (domainGet).         *)
THEOREM AnswersFindTheirReads == Spec => []AnswersHaveReads
<1>1. Init => TypeInv /\ AnswersHaveReads
  BY InitIInv DEF IInv
<1>2. (TypeInv /\ AnswersHaveReads) /\ [Next]_vars => (TypeInv /\ AnswersHaveReads)'
  BY NextTypes, NextAnswers
<1> QED  BY <1>1, <1>2, PTL DEF Spec

(* If the page handles what libvirt sends in the order it was sent, the    *)
(* rows follow the news of libvirt: for any number of domains, of          *)
(* overlapping reads of them and of changes, with or without timeouts      *)
(* (domainGet, startEventMonitorDomains).                                  *)
THEOREM RowsAlwaysFollow ==
    ASSUME InOrder
    PROVE  Spec => []RowsFollowTheNews
<1>1. Init => IInv
  BY InitIInv
<1>2. IInv /\ [Next]_vars => IInv'
  BY NextIInv
<1>3. IInv => RowsFollowTheNews
  BY DEF IInv
<1> QED  BY <1>1, <1>2, <1>3, PTL DEF Spec

(* Then, once nothing is under way, every row shows the run state libvirt  *)
(* has (domainGet, startEventMonitorDomains).                              *)
THEOREM RowsAreCurrent ==
    ASSUME InOrder
    PROVE  Spec => []SettledRowsAreCurrent
<1>1. Init => IInv
  BY InitIInv
<1>2. IInv /\ [Next]_vars => IInv'
  BY NextIInv
<1> QED  BY <1>1, <1>2, FollowingIsCurrent, PTL DEF Spec

-----------------------------------------------------------------------------
(* Why the list is complete, where no call is given up.                    *)

(* The messages that, when they are handled, may bring a row of d or drop  *)
(* it, and those of them that bring it or have d read.                     *)
ListNews(d) ==
    {m \in Signals : m.dom = d /\ m.event \in ReReadEvents}
    \cup {m \in Replies : /\ reads[m.read] # NoRead
                          /\ reads[m.read].dom = d
                          /\ \/ reads[m.read].answer = "error"
                             \/ reads[m.read].call = LastCall}
    \cup Listing

Brings(d) ==
    {m \in ListNews(d) : /\ m.kind = "read" => reads[m.read].answer # "error"
                         /\ m.kind = "list" => d \in m.doms}

(* The row is there, or about to be read, or the domains have yet to be    *)
(* listed.                                                                 *)
Coming(d) == rows[d] # NotListed \/ BeingRead(d) \/ load \in {"idle", "asked"}

(* The last of what brings or drops the row of d brings it.                *)
ListFollows(d) ==
    \/ LastIsIn(inbox, ListNews(d), Brings(d))
    \/ NoneIsIn(inbox, ListNews(d)) /\ Coming(d)

ListFollowsTheNews == \A d \in Domains \ unheard : dom[d] # "gone" => ListFollows(d)

PatientInv == TypeInv /\ AnswersHaveReads /\ caps # "failed" /\ ListFollowsTheNews

LEMMA SameListNews ==
    ASSUME NEW d \in Domains, NEW m \in Message,
           m.kind = "read" => reads'[m.read] = reads[m.read]
    PROVE  /\ m \in ListNews(d) <=> m \in ListNews(d)'
           /\ m \in Brings(d) <=> m \in Brings(d)'
<1>1. m \in Replies => m.kind = "read"
  BY DEF Replies
<1>2. m \in ListNews(d) <=> m \in ListNews(d)'
  BY <1>1 DEF ListNews
<1> QED  BY <1>2 DEF Brings

(* The inbox stays, or gets a message that is not list news of d.          *)
LEMMA OthersKeepList ==
    ASSUME TypeInv, NEW d \in Domains,
           \A j \in 1..Len(inbox) :
               inbox[j].kind = "read" => reads'[inbox[j].read] = reads[inbox[j].read],
           \/ inbox' = inbox
           \/ \E m \in Message : inbox' = Append(inbox, m) /\ m \notin ListNews(d)',
           Coming(d) => Coming(d)',
           ListFollows(d)
    PROVE  ListFollows(d)'
<1>1. inbox \in Seq(Message) /\ Len(inbox) \in Nat /\ \A j \in 1..Len(inbox) : inbox[j] \in Message
  BY DEF TypeInv, TypeOK
<1>2. \A j \in 1..Len(inbox) : /\ inbox[j] \in ListNews(d) <=> inbox[j] \in ListNews(d)'
                               /\ inbox[j] \in Brings(d) <=> inbox[j] \in Brings(d)'
  BY <1>1, SameListNews
<1>3. LastIsIn(inbox, ListNews(d), Brings(d)) => LastIsIn(inbox', ListNews(d)', Brings(d)')
  <2> SUFFICES ASSUME LastIsIn(inbox, ListNews(d), Brings(d))
               PROVE  LastIsIn(inbox', ListNews(d)', Brings(d)')
    OBVIOUS
  <2>1. LastIsIn(inbox, ListNews(d)', Brings(d)')
    BY <1>1, <1>2, LastOfOtherSets
  <2>2. CASE inbox' = inbox
    BY <2>1, <2>2
  <2>3. CASE inbox' # inbox
    <3> PICK m \in Message : inbox' = Append(inbox, m) /\ m \notin ListNews(d)'
      BY <2>3
    <3>1. LastIsIn(Append(inbox, m), ListNews(d)', Brings(d)')
      BY <1>1, <2>1, LastAfterAppend
    <3> QED  BY <3>1
  <2> QED  BY <2>2, <2>3
<1>4. NoneIsIn(inbox, ListNews(d)) => NoneIsIn(inbox', ListNews(d)')
  <2> SUFFICES ASSUME NoneIsIn(inbox, ListNews(d))
               PROVE  NoneIsIn(inbox', ListNews(d)')
    OBVIOUS
  <2>1. NoneIsIn(inbox, ListNews(d)')
    BY <1>1, <1>2, LastOfOtherSets
  <2> QED  BY <1>1, <2>1, LastAfterAppend
<1> QED  BY <1>3, <1>4 DEF ListFollows

(* News that brings the row of d is sent.                                  *)
LEMMA BringingFollows ==
    ASSUME TypeInv, NEW d \in Domains, NEW m \in Message,
           inbox' = Append(inbox, m), m \in Brings(d)'
    PROVE  ListFollows(d)'
<1>1. inbox \in Seq(Message)
  BY DEF TypeInv, TypeOK
<1>2. LastIsIn(Append(inbox, m), ListNews(d)', Brings(d)')
  BY <1>1, LastAfterAppend
<1> QED  BY <1>2 DEF ListFollows

(* The oldest message is handled: if it was the last of the list news of   *)
(* d, it has brought d.                                                    *)
LEMMA ReceiveFollowsList ==
    ASSUME TypeInv, AnswersHaveReads, NEW i \in 1..Len(inbox), Receive(i), InOrder,
           NEW d \in Domains, ListFollows(d),
           \A r \in Reads : \/ reads'[r] = reads[r]
                            \/ inbox[i] = [kind |-> "read", read |-> r]
                            \/ reads[r] = NoRead,
           inbox[i] \in Brings(d) => Coming(d)',
           inbox[i] \notin ListNews(d) /\ Coming(d) => Coming(d)'
    PROVE  ListFollows(d)'
<1>1. i = 1 /\ inbox' = RemoveAt(inbox, 1) /\ inbox \in Seq(Message) /\ Len(inbox) # 0
  <2>1. inbox \in Seq(Message) /\ Len(inbox) \in Nat
    BY DEF TypeInv, TypeOK
  <2>2. ~ (1 \in 1..(i - 1))
    BY DEF Receive, Deliverable
  <2> QED  BY <2>1, <2>2 DEF Receive
<1>2. /\ inbox' \in Seq(Message) /\ Len(inbox') \in Nat /\ Len(inbox') = Len(inbox) - 1
      /\ \A j \in 1..(Len(inbox) - 1) :
             inbox'[j] = IF j < 1 THEN inbox[j] ELSE inbox[j + 1]
  <2>1. /\ inbox' \in Seq(Message) /\ Len(inbox') = Len(inbox) - 1
        /\ \A j \in 1..(Len(inbox) - 1) :
               inbox'[j] = IF j < 1 THEN inbox[j] ELSE inbox[j + 1]
    BY <1>1, RemoveAtProperties
  <2> QED  BY <2>1
<1>3. ASSUME NEW j \in 1..Len(inbox')
      PROVE  /\ inbox'[j] \in ListNews(d) <=> inbox'[j] \in ListNews(d)'
             /\ inbox'[j] \in Brings(d) <=> inbox'[j] \in Brings(d)'
  <2>1. j + 1 \in 1..Len(inbox) /\ inbox'[j] = inbox[j + 1] /\ j + 1 # i
    BY <1>1, <1>2
  <2>2. inbox'[j] \in Message
    BY <1>2
  <2>3. ASSUME inbox'[j].kind = "read"
        PROVE  reads'[inbox'[j].read] = reads[inbox'[j].read]
    <3>1. inbox'[j] \in Replies
      BY <2>2, <2>3 DEF Message, Signals, Caps, Listing
    <3>2. /\ inbox'[j].read \in Reads
          /\ inbox'[j] = [kind |-> "read", read |-> inbox'[j].read]
      BY <3>1 DEF Replies
    <3>3. reads[inbox'[j].read] # NoRead
      BY <2>1, <2>3 DEF AnswersHaveReads
    <3>4. inbox'[j] # inbox[i]
      BY <2>1, <2>3 DEF AnswersHaveReads
    <3> QED  BY <3>2, <3>3, <3>4
  <2> QED  BY <2>2, <2>3, SameListNews
<1>4. CASE LastIsIn(inbox', ListNews(d), Brings(d))
  <2>1. LastIsIn(inbox', ListNews(d)', Brings(d)')
    BY <1>2, <1>3, <1>4, LastOfOtherSets
  <2> QED  BY <2>1 DEF ListFollows
<1>5. CASE ~LastIsIn(inbox', ListNews(d), Brings(d))
  <2>1. NoneIsIn(inbox', ListNews(d)) /\ Coming(d)'
    BY <1>1, <1>5, LastAfterRemove DEF ListFollows
  <2>2. NoneIsIn(inbox', ListNews(d)')
    BY <1>2, <1>3, <2>1, LastOfOtherSets
  <2> QED  BY <2>1, <2>2 DEF ListFollows
<1> QED  BY <1>4, <1>5

LEMMA ChangeKeepsList ==
    ASSUME PatientInv, LibvirtChanges, NEW d \in Domains, d \notin unheard', dom'[d] # "gone"
    PROVE  ListFollows(d)'
<1> USE DEF PatientInv
<1>1. PICK c \in Domains, s \in DomStates, e \in Events :
          /\ Change(c, s, TRUE, e) \/ Change(c, s, FALSE, e)
          /\ dom[c] = "gone" => e \in ReReadEvents
  BY LibvirtChangesChange
<1> DEFINE m == [kind |-> "signal", dom |-> c, event |-> e]
<1>2. /\ reads' = reads /\ rows' = rows /\ load' = load
      /\ dom' = [dom EXCEPT ![c] = s]
      /\ inbox' = IF subscribed THEN Append(inbox, m) ELSE inbox
      /\ unheard' = IF subscribed /\ e \notin IgnoredEvents
                    THEN unheard ELSE unheard \cup {c}
  BY <1>1 DEF Change
<1>3. m \in Signals /\ m \in Message /\ m.kind = "signal"
  BY DEF Message, Signals
<1>4. dom \in [Domains -> DomStates]
  BY DEF TypeInv, TypeOK
<1>5. CASE c = d /\ e \in ReReadEvents
  <2>1. inbox' = Append(inbox, m)
    BY <1>2, <1>5
  <2>2. m \in Brings(d)'
    BY <1>3, <1>5 DEF Brings, ListNews
  <2> QED  BY <1>3, <2>1, <2>2, BringingFollows
<1>6. CASE ~(c = d /\ e \in ReReadEvents)
  <2>1. m \notin ListNews(d)'
    BY <1>6 DEF ListNews, Replies, Listing
  <2>2. d \notin unheard /\ dom[d] # "gone"
    BY <1>1, <1>2, <1>4, <1>6
  <2>3. Coming(d) => Coming(d)'
    BY <1>2 DEF Coming, BeingRead
  <2>4. ListFollows(d)
    BY <2>2 DEF ListFollowsTheNews
  <2> QED  BY <1>2, <1>3, <2>1, <2>3, <2>4, OthersKeepList
<1> QED  BY <1>5, <1>6

LEMMA AnswerReadKeepsList ==
    ASSUME PatientInv, NEW r \in Reads, AnswerRead(r), NEW d \in Domains, d \notin unheard', dom'[d] # "gone"
    PROVE  ListFollows(d)'
<1> USE DEF PatientInv
<1> DEFINE m == [kind |-> "read", read |-> r]
<1>1. m \in Replies /\ m \in Message /\ m.kind = "read" /\ m.read = r
  BY DEF Message, Replies
<1>2. /\ inbox' = Append(inbox, m) /\ dom' = dom /\ rows' = rows /\ load' = load
      /\ reads[r] # NoRead /\ reads[r].answer = "none"
  BY DEF AnswerRead, libvirtVars
<1>3. /\ reads'[r] # NoRead
      /\ reads'[r].dom = reads[r].dom /\ reads'[r].call = reads[r].call
      /\ reads'[r].answer \in {"ok", "error"}
      /\ \A q \in Reads \ {r} : reads'[q] = reads[q]
  BY AnswerReadEffect
<1>4. reads[r].dom = d => reads'[r].answer = "ok"
  <2> SUFFICES ASSUME reads[r].dom = d PROVE reads'[r].answer = "ok"
    OBVIOUS
  <2> DEFINE v == IF reads[r].call = XmlCall THEN rev[reads[r].dom] ELSE reads[r].rev
             t == IF reads[r].call = LastCall THEN dom[reads[r].dom] ELSE reads[r].state
             read == [dom |-> reads[r].dom, call |-> reads[r].call,
                      answer |-> "ok", rev |-> v, state |-> t]
  <2>1. dom[reads[r].dom] # "gone"
    BY <1>2
  <2>2. reads' = [reads EXCEPT ![r] = read]
    BY <2>1 DEF AnswerRead
  <2>3. reads'[r] = read
    BY <2>2 DEF TypeInv, TypeOK
  <2> QED  BY <2>3
<1>5. CASE reads[r].dom = d /\ reads[r].call = LastCall
  <2>1. m \in Brings(d)'
    BY <1>1, <1>3, <1>4, <1>5 DEF Brings, ListNews
  <2> QED  BY <1>1, <1>2, <2>1, BringingFollows
<1>6. CASE ~(reads[r].dom = d /\ reads[r].call = LastCall)
  <2>1. m \notin ListNews(d)'
    <3>1. m \notin Signals /\ m \notin Listing
      BY <1>1 DEF Signals, Listing
    <3> QED  BY <1>1, <1>3, <1>4, <1>6, <3>1 DEF ListNews
  <2>2. d \notin unheard
    <3>1. unheard' = unheard \/ unheard' = unheard \ {reads[r].dom}
      BY DEF AnswerRead
    <3>2. CASE reads[r].dom = d
      <4>1. reads[r].call # LastCall
        BY <1>6, <3>2
      <4>2. unheard' = unheard
        BY <1>2, <3>2, <4>1 DEF AnswerRead
      <4> QED  BY <4>2
    <3>3. CASE reads[r].dom # d
      BY <3>1, <3>3
    <3> QED  BY <3>2, <3>3
  <2>3. ASSUME NEW j \in 1..Len(inbox), inbox[j].kind = "read"
        PROVE  reads'[inbox[j].read] = reads[inbox[j].read]
    <3>1. inbox[j] \in Message
      BY DEF TypeInv, TypeOK
    <3>2. inbox[j] \in Replies
      BY <2>3, <3>1 DEF Message, Signals, Caps, Listing
    <3>3. inbox[j].read \in Reads /\ reads[inbox[j].read].answer # "none"
      BY <2>3, <3>2 DEF Replies, AnswersHaveReads
    <3> QED  BY <1>2, <1>3, <3>3
  <2>4. BeingRead(d) => BeingRead(d)'
    <3> SUFFICES ASSUME NEW q \in Reads, reads[q] # NoRead, reads[q].dom = d,
                        \/ reads[q].answer = "none"
                        \/ reads[q].answer = "ok" /\ reads[q].call # LastCall
                 PROVE  BeingRead(d)'
      BY DEF BeingRead
    <3>1. CASE q = r
      BY <1>3, <1>4, <1>6, <3>1 DEF BeingRead
    <3>2. CASE q # r
      BY <1>3, <3>2 DEF BeingRead
    <3> QED  BY <3>1, <3>2
  <2>5. Coming(d) => Coming(d)'
    BY <1>2, <2>4 DEF Coming
  <2>6. ListFollows(d)
    BY <1>2, <2>2 DEF ListFollowsTheNews
  <2> QED  BY <1>1, <1>2, <2>1, <2>3, <2>5, <2>6, OthersKeepList
<1> QED  BY <1>5, <1>6

LEMMA AnswersKeepList ==
    ASSUME PatientInv, AnswerCaps \/ AnswerList, NEW d \in Domains, d \notin unheard', dom'[d] # "gone"
    PROVE  ListFollows(d)'
<1> USE DEF PatientInv
<1>1. dom' = dom /\ reads' = reads /\ rows' = rows /\ unheard' = unheard
  BY DEF AnswerCaps, AnswerList, libvirtVars
<1>2. ListFollows(d)
  BY <1>1 DEF ListFollowsTheNews
<1>3. CASE AnswerCaps
  <2> DEFINE m == [kind |-> "caps"]
  <2>1. m \in Message /\ inbox' = Append(inbox, m) /\ load' = load
    BY <1>3 DEF AnswerCaps, Message, Caps
  <2>2. m \notin ListNews(d)'
    BY DEF ListNews, Signals, Replies, Listing
  <2>3. Coming(d) => Coming(d)'
    BY <1>1, <2>1 DEF Coming, BeingRead
  <2> QED  BY <1>1, <1>2, <2>1, <2>2, <2>3, OthersKeepList
<1>4. CASE AnswerList
  <2> DEFINE m == [kind |-> "list", doms |-> {c \in Domains : dom[c] # "gone"}]
  <2>1. m \in Message /\ m \in Listing /\ inbox' = Append(inbox, m)
    BY <1>4 DEF AnswerList, Message, Listing
  <2>2. m \in Brings(d)'
    BY <1>1, <2>1 DEF Brings, ListNews
  <2> QED  BY <2>1, <2>2, BringingFollows
<1> QED  BY <1>3, <1>4

LEMMA PageReceivesKeepsList ==
    ASSUME PatientInv, PageReceives, InOrder, NEW d \in Domains, d \notin unheard', dom'[d] # "gone"
    PROVE  ListFollows(d)'
<1> USE DEF PatientInv
<1> PICK i \in 1..Len(inbox) :
        \/ ReceiveList(i) \/ UpdateOnSignal(i) \/ IgnoreSignal(i) \/ ReceiveCaps(i)
        \/ \E r \in Reads : \/ ReReadOnSignal(i, r) \/ ReceiveAnswer(i, r)
                            \/ FinishRead(i, r) \/ FailRead(i, r)
  BY DEF PageReceives
<1>1. /\ reads \in [Reads -> Read \cup {NoRead}]
      /\ rows \in [Domains -> Row \cup {NotListed}]
      /\ inbox[i] \in Message
  BY DEF TypeInv, TypeOK
<1>2. Receive(i) /\ dom' = dom /\ unheard' = unheard
  BY DEF ReceiveList, UpdateOnSignal, IgnoreSignal, ReceiveCaps, ReReadOnSignal,
         ReceiveAnswer, FinishRead, FailRead, Returns, libvirtVars
<1>3. ListFollows(d)
  BY <1>2 DEF ListFollowsTheNews
<1>4. Brings(d) \subseteq ListNews(d)
  BY DEF Brings
<1>5. CASE IgnoreSignal(i) \/ ReceiveCaps(i) \/ UpdateOnSignal(i)
  <2>1. reads' = reads /\ load' = load
    BY <1>5 DEF IgnoreSignal, ReceiveCaps, UpdateOnSignal
  <2>2. inbox[i] \notin ListNews(d)
    BY <1>5 DEF IgnoreSignal, ReceiveCaps, UpdateOnSignal, ListNews, Signals, Replies, Listing,
                IgnoredEvents, StateEvents, ReReadEvents
  <2>3. rows[d] # NotListed => rows'[d] # NotListed
    <3>1. CASE UpdateOnSignal(i)
      <4>1. inbox[i].dom \in Domains /\ inbox[i].event \in Events
        BY <1>1, <3>1 DEF UpdateOnSignal, Message, Signals, Replies, Caps, Listing
      <4>2. CASE inbox[i].dom = d /\ rows[d] # NotListed
        <5>1. /\ rows[d].rev \in 0..MaxChanges
              /\ StateOfEvent(inbox[i].event) \in {"paused", "running"}
          BY <1>1, <4>2 DEF Row, StateOfEvent
        <5>2. [state |-> StateOfEvent(inbox[i].event), rev |-> rows[d].rev] \in Row
          BY <5>1 DEF Row, DomStates, RunStates
        <5>3. rows'[d] = [state |-> StateOfEvent(inbox[i].event), rev |-> rows[d].rev]
          BY <1>1, <3>1, <4>2 DEF UpdateOnSignal
        <5> QED  BY <5>2, <5>3, VmListAssumption
      <4>3. CASE ~(inbox[i].dom = d /\ rows[d] # NotListed)
        BY <1>1, <3>1, <4>3 DEF UpdateOnSignal
      <4> QED  BY <4>2, <4>3
    <3>2. CASE ~UpdateOnSignal(i)
      BY <1>5, <3>2 DEF IgnoreSignal, ReceiveCaps
    <3> QED  BY <3>1, <3>2
  <2>4. Coming(d) => Coming(d)'
    BY <2>1, <2>3 DEF Coming, BeingRead
  <2> QED  BY <1>2, <1>3, <1>4, <2>1, <2>2, <2>4, ReceiveFollowsList
<1>6. CASE ReceiveList(i)
  <2>1. inbox[i].kind = "list" /\ inbox[i] \in Listing
    BY <1>1, <1>6 DEF ReceiveList, Message, Signals, Replies, Caps
  <2>2. \A r \in Reads : reads'[r] = reads[r] \/ reads[r] = NoRead
    BY <1>6 DEF ReceiveList
  <2>3. inbox[i] \in ListNews(d)
    BY <2>1 DEF ListNews
  <2>4. ASSUME inbox[i] \in Brings(d)
        PROVE  BeingRead(d)'
    <3>1. d \in inbox[i].doms /\ inbox[i].doms \subseteq Domains
      BY <2>1, <2>4 DEF Brings, Listing
    <3>2. PICK slot \in [inbox[i].doms -> {r \in Reads : reads[r] = NoRead}] :
             /\ \A b, e \in inbox[i].doms : slot[b] = slot[e] => b = e
             /\ reads' = [r \in Reads |->
                    IF \E b \in inbox[i].doms : slot[b] = r
                    THEN NewRead(CHOOSE b \in inbox[i].doms : slot[b] = r)
                    ELSE reads[r]]
      BY <1>6 DEF ReceiveList
    <3>3. slot[d] \in Reads
      BY <3>1, <3>2
    <3>4. reads'[slot[d]] = NewRead(CHOOSE b \in inbox[i].doms : slot[b] = slot[d])
      BY <3>1, <3>2, <3>3
    <3>5. (CHOOSE b \in inbox[i].doms : slot[b] = slot[d]) = d
      BY <3>1, <3>2
    <3>6. reads'[slot[d]] = NewRead(d)
      BY <3>4, <3>5
    <3>7. NewRead(d) # NoRead /\ NewRead(d).dom = d /\ NewRead(d).answer = "none"
      BY NewReadIsRead, VmListAssumption DEF NewRead
    <3> QED  BY <3>3, <3>6, <3>7 DEF BeingRead
  <2>5. inbox[i] \in Brings(d) => Coming(d)'
    BY <2>4 DEF Coming
  <2> QED  BY <1>2, <1>3, <2>2, <2>3, <2>5, ReceiveFollowsList
<1>7. ASSUME NEW r \in Reads, ReReadOnSignal(i, r)
      PROVE  ListFollows(d)'
  <2>1. /\ reads[r] = NoRead /\ rows' = rows /\ load' = load
        /\ reads' = [reads EXCEPT ![r] = NewRead(inbox[i].dom)]
    BY <1>7 DEF ReReadOnSignal
  <2>2. inbox[i].dom \in Domains /\ inbox[i].kind = "signal"
    BY <1>1, <1>7 DEF ReReadOnSignal, Message, Signals, Replies, Caps, Listing
  <2>3. NewRead(inbox[i].dom) # NoRead
    BY <2>2, NewReadIsRead, VmListAssumption
  <2>4. inbox[i] \in ListNews(d) => BeingRead(d)'
    <3> SUFFICES ASSUME inbox[i] \in ListNews(d) PROVE BeingRead(d)'
      OBVIOUS
    <3>1. inbox[i].dom = d
      BY <2>2 DEF ListNews, Replies, Listing
    <3>2. reads'[r] # NoRead /\ reads'[r].dom = d /\ reads'[r].answer = "none"
      BY <1>1, <2>1, <2>3, <3>1 DEF NewRead
    <3> QED  BY <3>2 DEF BeingRead
  <2>5. BeingRead(d) => BeingRead(d)'
    BY <1>1, <2>1, StillBeingRead
  <2>6. (inbox[i] \in Brings(d) => Coming(d)') /\ (Coming(d) => Coming(d)')
    BY <1>4, <2>1, <2>4, <2>5 DEF Coming
  <2> QED  BY <1>1, <1>2, <1>3, <2>1, <2>6, ReceiveFollowsList
<1>8. ASSUME NEW r \in Reads, ReceiveAnswer(i, r)
      PROVE  ListFollows(d)'
  <2>1. /\ inbox[i] = [kind |-> "read", read |-> r] /\ rows' = rows /\ load' = load
        /\ reads[r] # NoRead /\ reads[r].answer = "ok" /\ reads[r].call < LastCall
        /\ reads' = [reads EXCEPT ![r] = At(r, reads[r].call + 1, "none")]
    BY <1>8 DEF ReceiveAnswer, Returns
  <2>2. reads[r] \in Read /\ reads[r].call # LastCall
    BY <1>1, <2>1 DEF Read, LastCall
  <2>3. At(r, reads[r].call + 1, "none") # NoRead
    <3>1. reads[r].call + 1 \in 1..LastCall
      BY <2>1, <2>2 DEF Read, LastCall
    <3> QED  BY <2>2, <3>1, AtIsRead, VmListAssumption
  <2>4. inbox[i] \notin ListNews(d)
    BY <2>1, <2>2 DEF ListNews, Signals, Listing
  <2>5. BeingRead(d) => BeingRead(d)'
    <3> SUFFICES ASSUME NEW q \in Reads, reads[q] # NoRead, reads[q].dom = d,
                        \/ reads[q].answer = "none"
                        \/ reads[q].answer = "ok" /\ reads[q].call # LastCall
                 PROVE  BeingRead(d)'
      BY DEF BeingRead
    <3>1. CASE q = r
      BY <1>1, <2>1, <2>3, <3>1 DEF BeingRead, At
    <3>2. CASE q # r
      BY <1>1, <2>1, <3>2 DEF BeingRead
    <3> QED  BY <3>1, <3>2
  <2>6. Coming(d) => Coming(d)'
    BY <2>1, <2>5 DEF Coming
  <2> QED  BY <1>1, <1>2, <1>3, <1>4, <2>1, <2>4, <2>6, ReceiveFollowsList
<1>9. ASSUME NEW r \in Reads, FinishRead(i, r) \/ FailRead(i, r)
      PROVE  ListFollows(d)'
  <2>1. /\ inbox[i] = [kind |-> "read", read |-> r] /\ reads[r] # NoRead /\ load' = load
        /\ reads' = [reads EXCEPT ![r] = NoRead]
        /\ reads[r].answer = "error" \/ (reads[r].answer = "ok" /\ reads[r].call = LastCall)
        /\ rows' = [rows EXCEPT ![reads[r].dom] =
                        IF reads[r].answer = "error" THEN NotListed
                        ELSE [state |-> reads[r].state, rev |-> reads[r].rev]]
    BY <1>9 DEF FinishRead, FailRead, Returns, Drop
  <2>2. reads[r] \in Read /\ inbox[i].kind = "read" /\ inbox[i].read = r
    BY <1>1, <2>1
  <2>3. CASE reads[r].dom = d
    <3>1. inbox[i] \in Replies
      BY <2>1 DEF Replies
    <3>2. inbox[i] \in ListNews(d)
      BY <2>1, <2>2, <2>3, <3>1 DEF ListNews
    <3>3. ASSUME inbox[i] \in Brings(d)
          PROVE  rows'[d] # NotListed
      <4>1. reads[r].answer # "error"
        BY <2>2, <3>3 DEF Brings
      <4>2. [state |-> reads[r].state, rev |-> reads[r].rev] \in Row
        BY <2>2 DEF Read, Row
      <4>3. rows'[d] = [state |-> reads[r].state, rev |-> reads[r].rev]
        BY <1>1, <2>1, <2>3, <4>1
      <4> QED  BY <4>2, <4>3, VmListAssumption
    <3>4. inbox[i] \in Brings(d) => Coming(d)'
      BY <3>3 DEF Coming
    <3> QED  BY <1>1, <1>2, <1>3, <2>1, <3>2, <3>4, ReceiveFollowsList
  <2>4. CASE reads[r].dom # d
    <3>1. inbox[i] \notin ListNews(d)
      BY <2>2, <2>4 DEF ListNews, Signals, Listing
    <3>2. rows'[d] = rows[d]
      BY <1>1, <2>1, <2>4
    <3>3. BeingRead(d) => BeingRead(d)'
      BY <1>1, <2>1, <2>4, StillBeingRead
    <3>4. Coming(d) => Coming(d)'
      BY <2>1, <3>2, <3>3 DEF Coming
    <3> QED  BY <1>1, <1>2, <1>3, <1>4, <2>1, <3>1, <3>4, ReceiveFollowsList
  <2> QED  BY <2>3, <2>4
<1> QED  BY <1>5, <1>6, <1>7, <1>8, <1>9

LEMMA ProceedsKeepsList ==
    ASSUME PatientInv, PageProceeds \/ UNCHANGED vars, NEW d \in Domains, d \notin unheard', dom'[d] # "gone"
    PROVE  ListFollows(d)'
<1> USE DEF PatientInv
<1>1. reads \in [Reads -> Read \cup {NoRead}]
  BY DEF TypeInv, TypeOK
<1>2. inbox' = inbox /\ dom' = dom /\ unheard' = unheard
  BY DEF PageProceeds, domainGetAll, Subscribe, ResumeWithCaps, vars, libvirtVars
<1>3. ListFollows(d)
  BY <1>2 DEF ListFollowsTheNews
<1>4. CASE domainGetAll \/ Subscribe \/ UNCHANGED vars
  <2>1. reads' = reads /\ rows' = rows
    BY <1>4 DEF domainGetAll, Subscribe, vars
  <2>2. load' = load \/ load' \in {"idle", "asked"}
    BY <1>4 DEF domainGetAll, Subscribe, vars
  <2>3. Coming(d) => Coming(d)'
    BY <2>1, <2>2 DEF Coming, BeingRead
  <2> QED  BY <1>2, <1>3, <2>1, <2>3, OthersKeepList
<1>5. ASSUME NEW r \in Reads, ResumeWithCaps(r)
      PROVE  ListFollows(d)'
  <2>1. /\ reads[r] # NoRead /\ reads[r] \in Read /\ reads[r].answer = "none"
        /\ reads' = [reads EXCEPT ![r] = At(r, LastCall, "none")] /\ rows' = rows /\ load' = load
    BY <1>1, <1>5 DEF ResumeWithCaps, AnswersHaveReads
  <2>2. At(r, LastCall, "none") # NoRead
    BY <2>1, AtIsRead, VmListAssumption DEF LastCall
  <2>3. ASSUME NEW j \in 1..Len(inbox), inbox[j].kind = "read"
        PROVE  reads'[inbox[j].read] = reads[inbox[j].read]
    <3>1. inbox[j] \in Message
      BY DEF TypeInv, TypeOK
    <3>2. inbox[j] \in Replies
      BY <2>3, <3>1 DEF Message, Signals, Caps, Listing
    <3>3. inbox[j].read \in Reads /\ reads[inbox[j].read].answer # "none"
      BY <2>3, <3>2 DEF Replies, AnswersHaveReads
    <3> QED  BY <1>1, <2>1, <3>3
  <2>4. BeingRead(d) => BeingRead(d)'
    <3> SUFFICES ASSUME NEW q \in Reads, reads[q] # NoRead, reads[q].dom = d,
                        \/ reads[q].answer = "none"
                        \/ reads[q].answer = "ok" /\ reads[q].call # LastCall
                 PROVE  BeingRead(d)'
      BY DEF BeingRead
    <3>1. CASE q = r
      BY <1>1, <2>1, <2>2, <3>1 DEF BeingRead, At
    <3>2. CASE q # r
      BY <1>1, <2>1, <3>2 DEF BeingRead
    <3> QED  BY <3>1, <3>2
  <2>5. Coming(d) => Coming(d)'
    BY <2>1, <2>4 DEF Coming
  <2> QED  BY <1>2, <1>3, <2>3, <2>5, OthersKeepList
<1> QED  BY <1>4, <1>5 DEF PageProceeds

LEMMA NextPatient == InOrder /\ PatientInv /\ (UNCHANGED vars \/ (Next /\ ~TimesOut)) => PatientInv'
<1> SUFFICES ASSUME InOrder, PatientInv, UNCHANGED vars \/ (Next /\ ~TimesOut)
             PROVE  PatientInv'
  OBVIOUS
<1>1. TypeInv' /\ AnswersHaveReads'
  BY NextTypes, NextAnswers DEF PatientInv
<1>2. caps' # "failed"
  <2>1. CASE LibvirtChanges
    <3>1. \E d \in Domains, s \in DomStates, e \in Events : Change(d, s, TRUE, e) \/ Change(d, s, FALSE, e)
      BY <2>1, LibvirtChangesChange DEF PatientInv
    <3> QED  BY <3>1 DEF PatientInv, Change
  <2>2. CASE LibvirtAnswers \/ UNCHANGED vars
    BY <2>2 DEF PatientInv, LibvirtAnswers, AnswerRead, AnswerCaps, AnswerList, vars
  <2>3. CASE PageReceives
    BY <2>3 DEF PatientInv, PageReceives, ReceiveList, UpdateOnSignal, IgnoreSignal, ReceiveCaps, ReReadOnSignal,
                ReceiveAnswer, FinishRead, FailRead
  <2>4. CASE PageProceeds
    BY <2>4 DEF PatientInv, PageProceeds, domainGetAll, Subscribe, ResumeWithCaps
  <2> QED  BY <2>1, <2>2, <2>3, <2>4 DEF Next
<1>3. ASSUME NEW d \in Domains, d \notin unheard', dom'[d] # "gone"
      PROVE  ListFollows(d)'
  <2>1. CASE LibvirtChanges
    BY <1>3, <2>1, ChangeKeepsList
  <2>2. CASE LibvirtAnswers
    BY <1>3, <2>2, AnswerReadKeepsList, AnswersKeepList DEF LibvirtAnswers
  <2>3. CASE PageReceives
    BY <1>3, <2>3, PageReceivesKeepsList
  <2>4. CASE PageProceeds \/ UNCHANGED vars
    BY <1>3, <2>4, ProceedsKeepsList
  <2> QED  BY <2>1, <2>2, <2>3, <2>4 DEF Next
<1>4. ListFollowsTheNews'
  BY <1>3 DEF ListFollowsTheNews
<1> QED  BY <1>1, <1>2, <1>4 DEF PatientInv

LEMMA InitPatient == Init => PatientInv
<1> SUFFICES ASSUME Init
             PROVE  PatientInv
  OBVIOUS
<1>1. TypeInv /\ AnswersHaveReads
  BY InitIInv DEF IInv
<1>2. Len(inbox) = 0 /\ load = "idle" /\ caps = "unasked"
  BY EmptySeq DEF Init
<1>3. \A d \in Domains : ListFollows(d)
  BY <1>2 DEF ListFollows, NoneIsIn, Coming
<1> QED  BY <1>1, <1>2, <1>3 DEF PatientInv, ListFollowsTheNews

LEMMA PatientIsComplete == PatientInv => SettledListIsComplete
<1> SUFFICES ASSUME PatientInv, Settled, NEW d \in Domains \ unheard, dom[d] # "gone"
             PROVE  rows[d] # NotListed
  BY DEF SettledListIsComplete
<1>1. Len(inbox) = 0 /\ load = "done"
  BY EmptySeq DEF Settled
<1>2. ListFollows(d)
  BY DEF PatientInv, ListFollowsTheNews
<1>3. ~LastIsIn(inbox, ListNews(d), Brings(d))
  BY <1>1 DEF LastIsIn
<1>4. ~BeingRead(d)
  BY DEF Settled, BeingRead
<1> QED  BY <1>1, <1>2, <1>3, <1>4 DEF ListFollows, Coming

(* Where no call is given up and the page handles what libvirt sends in    *)
(* order, every machine of libvirt is listed once nothing is under way: a  *)
(* read that fails, or a listing without the machine, never wins over the  *)
(* news that it is back (domainGet, domainGetAll).                         *)
THEOREM ListIsComplete ==
    ASSUME InOrder
    PROVE  MCSpec => []PatientListIsComplete
<1> DEFINE I == patient => PatientInv
<1>1. MCInit => I
  BY InitPatient DEF MCInit
<1>2. I /\ [MCNext]_<<vars, patient>> => I'
  <2>1. CASE MCNext
    BY <2>1, NextPatient DEF MCNext
  <2>2. CASE UNCHANGED <<vars, patient>>
    BY <2>2, NextPatient
  <2> QED  BY <2>1, <2>2
<1>3. I => PatientListIsComplete
  BY PatientIsComplete DEF PatientListIsComplete
<1> QED  BY <1>1, <1>2, <1>3, PTL DEF MCSpec
=============================================================================
