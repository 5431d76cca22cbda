----------------------------- MODULE PageProofs -----------------------------
(***************************************************************************)
(* Theorems about what the pages do beside the list: UsagePolling, for any *)
(* machines, overlapping runs and changes, Startup, for any machines,      *)
(* connections and visits, and ConsoleStates, for any machines, consoles   *)
(* and room for cards.  The three share no state.                          *)
(***************************************************************************)
EXTENDS UsagePolling, Startup, ConsoleStates, FiniteSetTheorems, TLAPS

-----------------------------------------------------------------------------
(* Polling: a run that ends leaves a timer, which the page knows.          *)

TimerInv == timerId \in BOOLEAN /\ timers \in Nat /\ TimerIsKnown /\ NoIdleTimer

IInv == TypeOK /\ TimerInv /\ PollingGoesOn

LEMMA PollIsRun ==
    ASSUME NEW v \in Vms, NEW todo \in SUBSET Vms, NEW last \in [Vms -> 0..MaxCpu]
    PROVE  Poll(v, todo, last) \in Run /\ Poll(v, todo, last) # Idle
<1>1. 0 \in 0..MaxCpu
  BY UsagePollingAssumption
<1>2. Poll(v, todo, last) \in Run
  BY <1>1 DEF Poll, Run
<1> QED  BY <1>2, UsagePollingAssumption

LEMMA SamplesType == TypeOK => Samples \in [Vms -> 0..MaxCpu]
<1> SUFFICES ASSUME TypeOK, NEW v \in Vms
             PROVE  (IF rows[v] = NotListed THEN 0 ELSE rows[v].cpu) \in 0..MaxCpu
  BY DEF Samples
<1>1. CASE rows[v] = NotListed
  BY <1>1, UsagePollingAssumption
<1>2. CASE rows[v] # NotListed
  <2>1. rows[v] \in Row
    BY <1>2 DEF TypeOK
  <2> QED  BY <1>2, <2>1 DEF Row
<1> QED  BY <1>1, <1>2

(* The end of a run leaves one timer, which is known, if one is wanted.    *)
LEMMA RearmSchedules ==
    ASSUME NEW s \in Wishes, NEW h \in BOOLEAN, NEW id \in BOOLEAN, NEW armed \in Nat,
           armed = IF id THEN 1 ELSE 0, s = "none" \/ h => ~id, Rearm(s, h, id, armed)
    PROVE  /\ timerId' \in BOOLEAN /\ timers' \in Nat
           /\ timers' = IF timerId' THEN 1 ELSE 0
           /\ s = "none" \/ h => ~timerId'
           /\ s # "none" /\ ~h => timerId'
<1>1. CASE s # "none" /\ ~h /\ ~id
  <2>1. timerId' = TRUE
    BY <1>1 DEF Rearm
  <2>2. timers' = 1
    BY <1>1 DEF Rearm
  <2> QED  BY <1>1, <2>1, <2>2
<1>2. CASE ~(s # "none" /\ ~h /\ ~id)
  <2>1. timerId' = id /\ timers' = armed
    BY <1>2 DEF Rearm
  <2> QED  BY <1>2, <2>1
<1> QED  BY <1>1, <1>2

(* startUsagePolling with the timers "id" and "armed" keeps the timers     *)
(* known, and leaves a run or a timer if one is wanted.                    *)
LEMMA StartSchedules ==
    ASSUME TypeOK, NEW r \in Runs, NEW s \in Wishes, NEW h \in BOOLEAN, NEW id \in BOOLEAN,
           NEW armed \in Nat, armed = IF id THEN 1 ELSE 0, s = "none" \/ h => ~id,
           startUsagePolling(r, s, h, id, armed)
    PROVE  /\ runs' \in [Runs -> Run \cup {Idle}]
           /\ timerId' \in BOOLEAN /\ timers' \in Nat
           /\ timers' = IF timerId' THEN 1 ELSE 0
           /\ s = "none" \/ h => ~timerId'
           /\ s # "none" /\ ~h => timerId' \/ \E q \in Runs : runs'[q] # Idle
<1> DEFINE todo == IF h THEN {} ELSE {v \in Listed : s \in {"all", v}}
<1>1. CASE todo = {} /\ Rearm(s, h, id, armed) /\ UNCHANGED runs
  BY <1>1, RearmSchedules DEF TypeOK
<1>2. CASE /\ runs[r] = Idle
           /\ \E v \in todo : runs' = [runs EXCEPT ![r] = Poll(v, todo \ {v}, Samples)]
           /\ timerId' = id /\ timers' = armed
  <2>1. PICK v \in todo : runs' = [runs EXCEPT ![r] = Poll(v, todo \ {v}, Samples)]
    BY <1>2
  <2>2. todo \subseteq Vms
    BY DEF Listed
  <2> HIDE DEF todo
  <2>3. Poll(v, todo \ {v}, Samples) \in Run /\ Poll(v, todo \ {v}, Samples) # Idle
    BY <2>1, <2>2, PollIsRun, SamplesType
  <2>4. /\ runs' \in [Runs -> Run \cup {Idle}]
        /\ runs'[r] # Idle
    BY <2>1, <2>3 DEF TypeOK
  <2> QED  BY <1>2, <2>4
<1> QED  BY <1>1, <1>2 DEF startUsagePolling

(* NextVm keeps the timers known, and leaves a run or a timer if wanted.   *)
LEMMA NextVmSchedules ==
    ASSUME TypeOK, TimerInv, NEW r \in Runs, runs[r] # Idle, NextVm(r)
    PROVE  /\ runs' \in [Runs -> Run \cup {Idle}]
           /\ timerId' \in BOOLEAN /\ timers' \in Nat
           /\ timers' = IF timerId' THEN 1 ELSE 0
           /\ usagePolling = "none" \/ hidden => ~timerId'
           /\ usagePolling # "none" /\ ~hidden
                  => timerId' \/ \E q \in Runs : runs'[q] # Idle
<1>1. runs[r] \in Run
  BY DEF TypeOK
<1>2. ~timerId \/ (usagePolling # "none" /\ ~hidden)
  BY DEF TimerInv, NoIdleTimer, TimerIsKnown
<1>3. CASE runs' = [runs EXCEPT ![r] = Idle] /\ Rearm(usagePolling, hidden, timerId, timers)
  <2>1. /\ usagePolling \in Wishes /\ hidden \in BOOLEAN
        /\ timerId \in BOOLEAN /\ timers \in Nat /\ timers = IF timerId THEN 1 ELSE 0
    BY DEF TypeOK, TimerInv, TimerIsKnown
  <2>2. usagePolling = "none" \/ hidden => ~timerId
    BY <1>2
  <2>3. /\ timerId' \in BOOLEAN /\ timers' \in Nat
        /\ timers' = IF timerId' THEN 1 ELSE 0
        /\ usagePolling = "none" \/ hidden => ~timerId'
        /\ usagePolling # "none" /\ ~hidden => timerId'
    BY <1>3, <2>1, <2>2, RearmSchedules
  <2>4. runs' \in [Runs -> Run \cup {Idle}]
    BY <1>3 DEF TypeOK
  <2> QED  BY <2>3, <2>4
<1>4. CASE /\ \E v \in runs[r].todo :
                  runs' = [runs EXCEPT ![r] = Poll(v, runs[r].todo \ {v}, runs[r].last)]
           /\ UNCHANGED <<timerId, timers>>
  <2>1. PICK v \in runs[r].todo :
            runs' = [runs EXCEPT ![r] = Poll(v, runs[r].todo \ {v}, runs[r].last)]
    BY <1>4
  <2>2. /\ runs[r].todo \in SUBSET Vms /\ runs[r].last \in [Vms -> 0..MaxCpu]
        /\ v \in Vms
    BY <1>1 DEF Run
  <2>3. Poll(v, runs[r].todo \ {v}, runs[r].last) \in Run \ {Idle}
    BY <2>2, PollIsRun
  <2>4. runs' \in [Runs -> Run \cup {Idle}] /\ runs'[r] # Idle
    BY <2>1, <2>3 DEF TypeOK
  <2> QED  BY <1>2, <1>4, <2>4 DEF TimerInv, TimerIsKnown
<1> QED  BY <1>3, <1>4 DEF NextVm

-----------------------------------------------------------------------------
LEMMA InitIInv == Init => IInv
<1> SUFFICES ASSUME Init
             PROVE  IInv
  OBVIOUS
<1>1. rows \in [Vms -> Row \cup {NotListed}] /\ runs \in [Runs -> Run \cup {Idle}]
  BY DEF Init
<1>2. cpu \in [Vms -> 0..MaxCpu] /\ changes \in 0..MaxChanges
  <2>1. 0 \in 0..MaxCpu /\ 0 \in 0..MaxChanges
    BY UsagePollingAssumption
  <2> QED  BY <2>1 DEF Init
<1>3. TypeOK
  BY <1>1, <1>2 DEF Init, TypeOK, Wishes
<1>4. TimerInv /\ PollingGoesOn
  BY DEF Init, TimerInv, TimerIsKnown, NoIdleTimer, PollingGoesOn
<1> QED  BY <1>3, <1>4 DEF IInv

(* The timers that are left when the one the page knows is cleared.        *)
LEMMA CancelledIsNone == TimerInv => Cancelled = 0
  BY DEF TimerInv, TimerIsKnown, Cancelled

(* What the two helpers establish is the invariant.                        *)
LEMMA ScheduledIInv ==
    ASSUME usagePolling' \in Wishes, hidden' \in BOOLEAN,
           rows' \in [Vms -> Row \cup {NotListed}],
           machine' \in [Vms -> {"gone", "off", "on"}],
           cpu' \in [Vms -> 0..MaxCpu], changes' \in 0..MaxChanges,
           runs' \in [Runs -> Run \cup {Idle}],
           timerId' \in BOOLEAN, timers' \in Nat,
           timers' = IF timerId' THEN 1 ELSE 0,
           usagePolling' = "none" \/ hidden' => ~timerId',
           usagePolling' # "none" /\ ~hidden'
               => timerId' \/ \E q \in Runs : runs'[q] # Idle
    PROVE  IInv'
<1>1. TypeOK'
  BY DEF TypeOK
<1>2. TimerIsKnown'
  BY DEF TimerIsKnown
<1>3. NoIdleTimer'
  BY DEF NoIdleTimer
<1>4. PollingGoesOn'
  BY DEF PollingGoesOn, Active
<1> QED  BY <1>1, <1>2, <1>3, <1>4 DEF IInv, TimerInv

LEMMA CountChangeType == TypeOK /\ CountChange => changes' \in 0..MaxChanges
  BY UsagePollingAssumption DEF TypeOK, CountChange

LEMMA UserIInv == IInv /\ User => IInv'
<1> SUFFICES ASSUME IInv, NEW r \in Runs,
                    (\E s \in Wishes : ensureUsagePolling(s, r)) \/ Hide \/ Show(r)
             PROVE  IInv'
  BY DEF User
<1>1. TypeOK /\ TimerInv /\ Cancelled = 0
  BY CancelledIsNone DEF IInv
<1>2. ASSUME NEW s \in Wishes, ensureUsagePolling(s, r)
      PROVE  IInv'
  <2>1. startUsagePolling(r, s, hidden, FALSE, 0) /\ hidden \in BOOLEAN
    BY <1>1, <1>2 DEF ensureUsagePolling, TypeOK
  <2>2. /\ runs' \in [Runs -> Run \cup {Idle}]
        /\ timerId' \in BOOLEAN /\ timers' \in Nat
        /\ timers' = IF timerId' THEN 1 ELSE 0
        /\ s = "none" \/ hidden => ~timerId'
        /\ s # "none" /\ ~hidden => timerId' \/ \E q \in Runs : runs'[q] # Idle
    BY <1>1, <2>1, StartSchedules
  <2>3. /\ usagePolling' = s /\ hidden' = hidden /\ rows' = rows /\ machine' = machine
        /\ cpu' = cpu /\ changes' \in 0..MaxChanges
    BY <1>1, <1>2, CountChangeType DEF ensureUsagePolling, libvirtVars
  <2> QED  BY <1>1, <2>2, <2>3, ScheduledIInv DEF TypeOK
<1>3. CASE Hide
  <2>1. /\ hidden' = TRUE /\ timerId' = FALSE /\ timers' = 0
        /\ changes' \in 0..MaxChanges
        /\ UNCHANGED <<usagePolling, runs, rows, machine, cpu>>
    BY <1>1, <1>3, CountChangeType DEF Hide, libvirtVars
  <2> QED  BY <1>1, <2>1, ScheduledIInv DEF TypeOK
<1>4. CASE Show(r)
  <2>1. ~timerId /\ timers = 0
    BY <1>1, <1>4 DEF Show, TimerInv, TimerIsKnown, NoIdleTimer
  <2>2. startUsagePolling(r, usagePolling, FALSE, FALSE, 0)
    BY <1>1, <1>4, <2>1 DEF Show, TypeOK
  <2>3. /\ runs' \in [Runs -> Run \cup {Idle}]
        /\ timerId' \in BOOLEAN /\ timers' \in Nat
        /\ timers' = IF timerId' THEN 1 ELSE 0
        /\ usagePolling = "none" => ~timerId'
        /\ usagePolling # "none" => timerId' \/ \E q \in Runs : runs'[q] # Idle
    BY <1>1, <2>2, StartSchedules DEF TypeOK
  <2>4. /\ hidden' = FALSE /\ changes' \in 0..MaxChanges
        /\ UNCHANGED <<usagePolling, rows, machine, cpu>>
    BY <1>1, <1>4, CountChangeType DEF Show, libvirtVars
  <2> QED  BY <1>1, <2>3, <2>4, ScheduledIInv DEF TypeOK
<1> QED  BY <1>2, <1>3, <1>4

LEMMA PollingIInv == IInv /\ Polling => IInv'
<1> SUFFICES ASSUME IInv, NEW r \in Runs,
                    TimerFires(r) \/ ReceiveStats(r) \/ FailStats(r) \/ AnswerStats(r)
             PROVE  IInv'
  BY DEF Polling
<1>1. TypeOK /\ TimerInv
  BY DEF IInv
<1>2. CASE TimerFires(r)
  <2>1. timers = 1 /\ startUsagePolling(r, usagePolling, hidden, FALSE, 0)
    <3>1. timers > 0 /\ startUsagePolling(r, usagePolling, hidden, FALSE, timers - 1)
      BY <1>2 DEF TimerFires
    <3>2. timers = 1
      <4>1. timers = IF timerId THEN 1 ELSE 0
        BY <1>1 DEF TimerInv, TimerIsKnown
      <4> QED  BY <3>1, <4>1
    <3>3. timers - 1 = 0
      BY <3>2
    <3> QED  BY <3>1, <3>2, <3>3
  <2>3. /\ runs' \in [Runs -> Run \cup {Idle}]
        /\ timerId' \in BOOLEAN /\ timers' \in Nat
        /\ timers' = IF timerId' THEN 1 ELSE 0
        /\ usagePolling = "none" \/ hidden => ~timerId'
        /\ usagePolling # "none" /\ ~hidden => timerId' \/ \E q \in Runs : runs'[q] # Idle
    BY <1>1, <2>1, StartSchedules DEF TypeOK
  <2>4. UNCHANGED <<usagePolling, hidden, rows, machine, cpu, changes>>
    BY <1>2 DEF TimerFires, libvirtVars
  <2> QED  BY <1>1, <2>3, <2>4, ScheduledIInv DEF TypeOK
<1>3. CASE ReceiveStats(r) \/ FailStats(r)
  <2>1. /\ runs[r] # Idle /\ NextVm(r)
        /\ UNCHANGED <<usagePolling, hidden, machine, cpu, changes>>
    BY <1>3 DEF ReceiveStats, FailStats, libvirtVars
  <2>2. rows' \in [Vms -> Row \cup {NotListed}]
    <3>1. CASE FailStats(r)
      BY <1>1, <3>1 DEF FailStats, TypeOK
    <3>2. CASE ReceiveStats(r)
      <4>1. /\ runs[r] \in Run /\ runs[r].vm \in Vms /\ runs[r].sample \in 0..MaxCpu
        BY <1>1, <2>1 DEF TypeOK, Run
      <4>2. CASE rows[runs[r].vm] = NotListed
        BY <1>1, <3>2, <4>2 DEF ReceiveStats, TypeOK
      <4>3. CASE rows[runs[r].vm] # NotListed
        <5>1. rows[runs[r].vm] \in Row
          BY <1>1, <4>1, <4>3 DEF TypeOK
        <5>2. Usage(runs[r].last[runs[r].vm], runs[r].sample)
                  \in {"none", "zero", "positive", "negative"}
          BY DEF Usage
        <5>3. [running |-> rows[runs[r].vm].running, cpu |-> runs[r].sample,
               usage |-> Usage(runs[r].last[runs[r].vm], runs[r].sample)] \in Row
          BY <4>1, <5>1, <5>2 DEF Row
        <5> QED  BY <1>1, <3>2, <4>1, <4>3, <5>3 DEF ReceiveStats, TypeOK
      <4> QED  BY <4>2, <4>3
    <3> QED  BY <1>3, <3>1, <3>2
  <2>3. /\ runs' \in [Runs -> Run \cup {Idle}]
        /\ timerId' \in BOOLEAN /\ timers' \in Nat
        /\ timers' = IF timerId' THEN 1 ELSE 0
        /\ usagePolling = "none" \/ hidden => ~timerId'
        /\ usagePolling # "none" /\ ~hidden => timerId' \/ \E q \in Runs : runs'[q] # Idle
    BY <1>1, <2>1, NextVmSchedules
  <2> QED  BY <1>1, <2>1, <2>2, <2>3, ScheduledIInv DEF TypeOK
<1>4. CASE AnswerStats(r)
  <2> DEFINE v == runs[r].vm
             run == [vm |-> v, todo |-> runs[r].todo, last |-> runs[r].last,
                     reply |-> IF machine[v] = "gone" THEN "error" ELSE "ok",
                     sample |-> cpu[v]]
  <2>1. runs[r] \in Run
    BY <1>1, <1>4 DEF AnswerStats, TypeOK
  <2>2. run \in Run /\ run # Idle
    <3>1. run \in Run
      BY <1>1, <2>1 DEF Run, TypeOK
    <3> QED  BY <3>1, UsagePollingAssumption
  <2>3. /\ runs' = [runs EXCEPT ![r] = run]
        /\ UNCHANGED <<usagePolling, hidden, timerId, timers, rows, machine, cpu, changes>>
    BY <1>4 DEF AnswerStats, libvirtVars
  <2> HIDE DEF run
  <2>4. runs' \in [Runs -> Run \cup {Idle}] /\ runs'[r] # Idle
    BY <1>1, <2>2, <2>3 DEF TypeOK
  <2>5. timers = IF timerId THEN 1 ELSE 0
    BY <1>1 DEF TimerInv, TimerIsKnown
  <2>6. usagePolling = "none" \/ hidden => ~timerId
    BY <1>1 DEF TimerInv, TimerIsKnown, NoIdleTimer
  <2> QED  BY <1>1, <2>3, <2>4, <2>5, <2>6, ScheduledIInv DEF TypeOK
<1> QED  BY <1>2, <1>3, <1>4


LEMMA MachinesIInv == IInv /\ Machines => IInv'
<1> SUFFICES ASSUME IInv, NEW v \in Vms, ReadRow(v) \/ ChangeMachine(v) \/ Work(v)
             PROVE  IInv'
  BY DEF Machines
<1>1. TypeOK /\ TimerInv /\ PollingGoesOn
  BY DEF IInv
<1>2. UNCHANGED pageVars
  BY DEF ReadRow, ChangeMachine, Work
<1>3. rows' \in [Vms -> Row \cup {NotListed}]
  <2>1. CASE ReadRow(v)
    <3> DEFINE fresh == machine[v] = "off" \/ rows[v] = NotListed
               row == [running |-> machine[v] = "on",
                       cpu     |-> IF fresh THEN 0 ELSE rows[v].cpu,
                       usage   |-> IF fresh THEN "none" ELSE rows[v].usage]
    <3>1. CASE fresh
      <4>1. 0 \in 0..MaxCpu
        BY UsagePollingAssumption
      <4>2. row = [running |-> machine[v] = "on", cpu |-> 0, usage |-> "none"]
        BY <3>1
      <4>3. row \in Row
        BY <4>1, <4>2 DEF Row
      <4>4. rows' = [rows EXCEPT ![v] = IF machine[v] = "gone" THEN NotListed ELSE row]
        BY <2>1 DEF ReadRow
      <4> HIDE DEF row
      <4> QED  BY <1>1, <4>3, <4>4 DEF TypeOK
    <3>2. CASE ~fresh
      <4>1. rows[v] \in Row
        BY <1>1, <3>2 DEF TypeOK
      <4>2. row = [running |-> machine[v] = "on", cpu |-> rows[v].cpu,
                   usage |-> rows[v].usage]
        BY <3>2
      <4>3. row \in Row
        BY <4>1, <4>2 DEF Row
      <4>4. rows' = [rows EXCEPT ![v] = IF machine[v] = "gone" THEN NotListed ELSE row]
        BY <2>1 DEF ReadRow
      <4> HIDE DEF row
      <4> QED  BY <1>1, <4>3, <4>4 DEF TypeOK
    <3> QED  BY <3>1, <3>2
  <2>2. CASE ChangeMachine(v) \/ Work(v)
    BY <1>1, <2>2 DEF ChangeMachine, Work, TypeOK
  <2> QED  BY <2>1, <2>2
<1>4. /\ machine' \in [Vms -> {"gone", "off", "on"}] /\ cpu' \in [Vms -> 0..MaxCpu]
      /\ changes' \in 0..MaxChanges
  <2>1. CASE ReadRow(v)
    BY <1>1, <2>1 DEF ReadRow, libvirtVars, TypeOK
  <2>2. CASE ChangeMachine(v)
    <3>1. 0 \in 0..MaxCpu
      BY UsagePollingAssumption
    <3>2. cpu' \in [Vms -> 0..MaxCpu]
      BY <1>1, <2>2, <3>1 DEF ChangeMachine, TypeOK
    <3>3. machine' \in [Vms -> {"gone", "off", "on"}]
      BY <1>1, <2>2 DEF ChangeMachine, TypeOK
    <3> QED  BY <1>1, <2>2, <3>2, <3>3, CountChangeType DEF ChangeMachine
  <2>3. CASE Work(v)
    <3>1. cpu[v] + 1 \in 0..MaxCpu
      BY <1>1, <2>3, UsagePollingAssumption DEF Work, TypeOK
    <3> QED  BY <1>1, <2>3, <3>1 DEF Work, TypeOK
  <2> QED  BY <2>1, <2>2, <2>3
<1>5. TypeOK'
  BY <1>1, <1>2, <1>3, <1>4 DEF TypeOK, pageVars
<1>6. TimerInv'
  BY <1>1, <1>2 DEF TimerInv, TimerIsKnown, NoIdleTimer, pageVars
<1>7. PollingGoesOn'
  BY <1>1, <1>2 DEF PollingGoesOn, Active, pageVars
<1> QED  BY <1>5, <1>6, <1>7 DEF IInv

LEMMA StutterIInv == IInv /\ UNCHANGED vars => IInv'
<1> SUFFICES ASSUME IInv, UNCHANGED vars
             PROVE  IInv'
  OBVIOUS
<1>1. TypeOK' /\ TimerInv'
  BY DEF IInv, TypeOK, TimerInv, TimerIsKnown, NoIdleTimer, vars, pageVars, libvirtVars
<1>2. PollingGoesOn'
  BY DEF IInv, PollingGoesOn, Active, vars, pageVars
<1> QED  BY <1>1, <1>2 DEF IInv

(* The invariant holds in every state, whatever the user does and however  *)
(* the runs overlap.                                                       *)
LEMMA Invariance == Spec => []IInv
<1>1. IInv /\ [Next]_vars => IInv'
  BY UserIInv, PollingIInv, MachinesIInv, StutterIInv DEF Next
<1> QED  BY <1>1, InitIInv, PTL DEF Spec

-----------------------------------------------------------------------------
(* Every variable keeps its type: no run outlives its slot, and a sample   *)
(* never exceeds the CPU time of the machine (pollUsageNow).               *)
THEOREM UsageTypeCorrect == Spec => []TypeOK
<1>1. IInv => TypeOK
  BY DEF IInv
<1> QED  BY <1>1, Invariance, PTL

(* However the runs of startUsagePolling overlap, the page knows the only  *)
(* timer that is armed, and there is none for a page without usage.        *)
THEOREM TimersAreKnown == Spec => [](TimerIsKnown /\ NoIdleTimer)
<1>1. IInv => TimerIsKnown /\ NoIdleTimer
  BY DEF IInv, TimerInv
<1> QED  BY <1>1, Invariance, PTL

(* Polling never dies out while a page wants it and the tab is shown.      *)
THEOREM PollingNeverDies == Spec => []PollingGoesOn
<1>1. IInv => PollingGoesOn
  BY DEF IInv
<1> QED  BY <1>1, Invariance, PTL

(* What startUsagePolling begins with is wanted.                           *)
LEMMA StartsWithWanted ==
    ASSUME TypeOK, NEW q \in Runs, NEW r \in Runs, NEW s, NEW h, NEW id, NEW armed,
           startUsagePolling(q, s, h, id, armed),
           runs'[r] # Idle, runs[r] = Idle \/ runs'[r].todo # runs[r].todo
    PROVE  s \in {"all", runs'[r].vm} /\ ~h
<1> DEFINE todo == IF h THEN {} ELSE {v \in Listed : s \in {"all", v}}
<1>1. runs' # runs
  OBVIOUS
<1>2. PICK v \in todo : runs' = [runs EXCEPT ![q] = Poll(v, todo \ {v}, Samples)]
  BY <1>1, Zenon DEF startUsagePolling
<1>3. q = r
  BY <1>2 DEF TypeOK
<1>4. runs'[r].vm = v
  BY <1>2, <1>3 DEF TypeOK, Poll
<1> QED  BY <1>2, <1>4

(* A run goes on to its next machine only on the page of all machines.     *)
LEMMA GoesOnWithWanted ==
    ASSUME TypeOK, NEW q \in Runs, NEW r \in Runs, NextVm(q), runs[q] # Idle,
           runs'[r] # Idle, runs[r] = Idle \/ runs'[r].todo # runs[r].todo
    PROVE  usagePolling = "all" /\ ~hidden
<1>1. CASE usagePolling # "all" \/ hidden
  <2>1. runs' = [runs EXCEPT ![q] = Idle]
    BY <1>1, Zenon DEF NextVm
  <2> QED  BY <2>1 DEF TypeOK
<1> QED  BY <1>1

(* A run never asks libvirt about a machine that the page of the moment    *)
(* does not want, although it goes by the list of the page it began on     *)
(* (pollUsageNow).                                                         *)
THEOREM NobodyElseIsPolled == Spec => OnlyWantedIsPolled
<1>1. TypeOK /\ [Next]_vars =>
        [\A r \in Runs :
            (runs'[r] # Idle /\ (runs[r] = Idle \/ runs'[r].todo # runs[r].todo))
            => usagePolling' \in {"all", runs'[r].vm} /\ ~hidden']_vars
  <2> SUFFICES ASSUME TypeOK, Next, NEW r \in Runs, runs'[r] # Idle,
                      runs[r] = Idle \/ runs'[r].todo # runs[r].todo
               PROVE  usagePolling' \in {"all", runs'[r].vm} /\ ~hidden'
    OBVIOUS
  <2>1. ASSUME NEW q \in Runs, NEW s \in Wishes, ensureUsagePolling(s, q)
        PROVE  usagePolling' \in {"all", runs'[r].vm} /\ ~hidden'
    BY <2>1, StartsWithWanted DEF ensureUsagePolling
  <2>2. CASE Hide
    BY <2>2 DEF Hide
  <2>3. ASSUME NEW q \in Runs, Show(q) \/ TimerFires(q)
        PROVE  usagePolling' \in {"all", runs'[r].vm} /\ ~hidden'
    <3>1. CASE Show(q)
      BY <3>1, StartsWithWanted DEF Show
    <3>2. CASE TimerFires(q)
      BY <3>2, StartsWithWanted DEF TimerFires
    <3> QED  BY <2>3, <3>1, <3>2
  <2>4. ASSUME NEW q \in Runs, ReceiveStats(q) \/ FailStats(q)
        PROVE  usagePolling' \in {"all", runs'[r].vm} /\ ~hidden'
    BY <2>4, GoesOnWithWanted DEF ReceiveStats, FailStats
  <2>5. ASSUME NEW q \in Runs, AnswerStats(q)
        PROVE  FALSE
    <3>1. runs' = [runs EXCEPT ![q] = [vm |-> runs[q].vm, todo |-> runs[q].todo, last |-> runs[q].last,
                        reply |-> IF machine[runs[q].vm] = "gone" THEN "error" ELSE "ok",
                        sample |-> cpu[runs[q].vm]]]
      BY <2>5 DEF AnswerStats
    <3>2. runs[q] # Idle
      BY <2>5 DEF AnswerStats
    <3>3. CASE q = r
      BY <3>1, <3>2, <3>3 DEF TypeOK
    <3>4. CASE q # r
      BY <3>1, <3>4 DEF TypeOK
    <3> QED  BY <3>3, <3>4
  <2>6. CASE Machines
    BY <2>6 DEF Machines, ReadRow, ChangeMachine, Work, pageVars
  <2> QED  BY <2>1, <2>2, <2>3, <2>4, <2>5, <2>6 DEF Next, User, Polling
<1> QED  BY <1>1, UsageTypeCorrect, PTL DEF Spec, OnlyWantedIsPolled

-----------------------------------------------------------------------------
(* Startup: pages have other names than machines, and visits are counted.  *)

LEMMA PageNames ==
    /\ \A v \in VmNames : v # "overview" /\ v # "none" /\ v # ""
    /\ "overview" \in Pages
BY StartupAssumption DEF Pages

LEMMA VisitsBound == MaxVisits \in Nat
BY StartupAssumption

(* Every variable has its type; a lookup that ends has begun, so that the  *)
(* number of those under way is never negative.                            *)
THEOREM StartupTypeCorrect == AppSpec => []AppTypeOK
<1>0. MaxVisits \in Nat
  BY VisitsBound
<1>1. AppInit => AppTypeOK
  <2> SUFFICES ASSUME AppInit PROVE AppTypeOK
    OBVIOUS
  <2>1. visits = 0 /\ lookups = [v \in VmNames |-> 0]
    BY DEF AppInit
  <2>2. visits \in 0..MaxVisits /\ lookups \in [VmNames -> Nat]
    BY ONLY <1>0, <2>1
  <2>3. QED
    BY <2>2, Zenon DEF AppInit, AppTypeOK, Pages
<1>2. AppTypeOK /\ [AppNext]_appVars => AppTypeOK'
  <2> SUFFICES ASSUME AppTypeOK, [AppNext]_appVars PROVE AppTypeOK'
    OBVIOUS
  <2> USE DEF AppTypeOK
  <2>1. ASSUME NEW p \in Pages, App(p) PROVE AppTypeOK'
    <3>1. visits' \in 0..MaxVisits
      <4>1. visits \in 0..MaxVisits /\ visits < MaxVisits /\ visits' = visits + 1
        BY <2>1, Zenon DEF App
      <4>2. QED
        BY ONLY <1>0, <4>1
    <3>2. allVms' \in {"none", "names", "listing", "done"} /\ quiet' \in BOOLEAN
      BY <2>1 DEF App, initAllVMs
    <3>3. /\ vmRequested' \in VmNames \cup {""}
          /\ vmsInited' \in BOOLEAN
          /\ lookups' \in [VmNames -> Nat]
      <4>1. \/ p \in VmNames /\ vmRequested' = p /\ vmsInited' = FALSE
               /\ lookups' = [lookups EXCEPT ![p] = @ + 1]
            \/ UNCHANGED <<vmRequested, vmsInited, lookups>>
        BY <2>1, Zenon DEF App, initVM
      <4>2. lookups \in [VmNames -> Nat] /\ vmRequested \in VmNames \cup {""} /\ vmsInited \in BOOLEAN
        OBVIOUS
      <4>3. CASE UNCHANGED <<vmRequested, vmsInited, lookups>>
        BY ONLY <4>2, <4>3
      <4>4. CASE /\ p \in VmNames /\ vmRequested' = p /\ vmsInited' = FALSE
                 /\ lookups' = [lookups EXCEPT ![p] = @ + 1]
        <5>1. lookups \in [VmNames -> Nat] /\ p \in VmNames /\ lookups' = [lookups EXCEPT ![p] = @ + 1]
          BY <4>2, <4>4, Zenon
        <5>2. lookups' \in [VmNames -> Nat]
          BY ONLY <5>1
        <5>3. QED
          BY <4>4, <5>2, Zenon
      <4>5. QED
        BY <4>1, <4>3, <4>4
    <3>4. QED
      BY <2>1, <3>1, <3>2, <3>3 DEF App
  <2>2. CASE CallGetVms
    BY <2>2 DEF CallGetVms, initAllVMs, initVars
  <2>3. CASE GetVmsReturns
    BY <2>3 DEF GetVmsReturns, initVars, listVars
  <2>4. CASE UserIsKnown
    BY <2>4 DEF UserIsKnown, listVars
  <2>5. CASE InitIsDone
    BY <2>5 DEF InitIsDone, listVars
  <2>6. CASE ListingBegins
    BY <2>6 DEF ListingBegins, initVars
  <2>7. CASE ListingEnds
    BY <2>7 DEF ListingEnds, initVars
  <2>8. ASSUME NEW c \in Connections, VersionReturns(c) PROVE AppTypeOK'
    BY <2>8 DEF VersionReturns, listVars
  <2>9. ASSUME NEW c \in Connections, ResourcesAreRead(c) PROVE AppTypeOK'
    BY <2>9 DEF ResourcesAreRead, listVars
  <2>10. ASSUME NEW c \in Connections, domainGetAll(c) PROVE AppTypeOK'
    BY <2>10 DEF domainGetAll, initVars
  <2>11. ASSUME NEW v \in VmNames, LookupEnds(v) PROVE AppTypeOK'
    <3>1. lookups' \in [VmNames -> Nat] /\ lookedUp' \subseteq VmNames
      <4>1. /\ lookups[v] > 0
            /\ lookups' = [lookups EXCEPT ![v] = @ - 1]
            /\ lookedUp' = lookedUp \cup {v}
            /\ lookups \in [VmNames -> Nat]
            /\ lookedUp \subseteq VmNames
        BY <2>11, Zenon DEF LookupEnds, LookupIsOver
      <4>2. QED
        BY ONLY <4>1
    <3>2. vmsInited' \in BOOLEAN
      BY <2>11 DEF LookupEnds
    <3>3. QED
      BY <2>11, <3>1, <3>2 DEF LookupEnds, initVars, listVars
  <2>12. CASE UNCHANGED appVars
    BY <2>12 DEF appVars, initVars, listVars
  <2>13. QED
    BY <2>1, <2>2, <2>3, <2>4, <2>5, <2>6, <2>7, <2>8, <2>9, <2>10, <2>11, <2>12
    DEF AppNext, AppUser, Proceeds
<1>3. QED
  BY <1>1, <1>2, PTL DEF AppSpec

-----------------------------------------------------------------------------
(* Until the list of all machines is wanted, the page of a machine is the  *)
(* one that was requested, and the machine that was requested has been     *)
(* looked up when #vmsInited says so.                                      *)
RequestIsCurrent ==
    allVms = "none" =>
        /\ page \in VmNames => vmRequested = page
        /\ vmRequested # "" /\ vmsInited => vmRequested \in lookedUp

LEMMA RequestStaysCurrent ==
    AppTypeOK /\ RequestIsCurrent /\ [AppNext]_appVars => RequestIsCurrent'
<1> SUFFICES ASSUME AppTypeOK, RequestIsCurrent, [AppNext]_appVars, allVms' = "none"
             PROVE  /\ page' \in VmNames => vmRequested' = page'
                    /\ vmRequested' # "" /\ vmsInited' => vmRequested' \in lookedUp'
  BY DEF RequestIsCurrent
<1> USE DEF RequestIsCurrent
<1>1. ASSUME NEW p \in Pages, App(p)
      PROVE  /\ page' \in VmNames => vmRequested' = page'
             /\ vmRequested' # "" /\ vmsInited' => vmRequested' \in lookedUp'
  <2>1. p \in VmNames /\ allVms = "none"
    BY <1>1, PageNames DEF App, initAllVMs
  <2>2. CASE vmRequested = p
    BY <1>1, <2>1, <2>2 DEF App, initVM
  <2>3. CASE vmRequested # p
    BY <1>1, <2>1, <2>3 DEF App, initVM
  <2>4. QED
    BY <2>2, <2>3
<1>2. CASE CallGetVms
  BY <1>2 DEF CallGetVms, initAllVMs
<1>3. CASE ListingBegins \/ ListingEnds
  BY <1>3 DEF ListingBegins, ListingEnds
<1>4. CASE \/ GetVmsReturns \/ UserIsKnown \/ InitIsDone
           \/ \E c \in Connections : VersionReturns(c) \/ ResourcesAreRead(c) \/ domainGetAll(c)
  <2>1. page' = page /\ vmRequested' = vmRequested /\ allVms' = allVms /\ lookedUp' = lookedUp
    BY <1>4 DEF GetVmsReturns, UserIsKnown, InitIsDone, VersionReturns, ResourcesAreRead,
                domainGetAll, listVars
  <2>2. vmsInited' = vmsInited
    BY <1>4 DEF GetVmsReturns, UserIsKnown, InitIsDone, VersionReturns, ResourcesAreRead,
                domainGetAll
  <2>3. QED
    BY <2>1, <2>2
<1>5. ASSUME NEW v \in VmNames, LookupEnds(v)
      PROVE  /\ page' \in VmNames => vmRequested' = page'
             /\ vmRequested' # "" /\ vmsInited' => vmRequested' \in lookedUp'
  BY <1>5 DEF LookupEnds, LookupIsOver, listVars
<1>6. CASE UNCHANGED appVars
  BY <1>6 DEF appVars, listVars
<1>7. QED
  BY <1>1, <1>2, <1>3, <1>4, <1>5, <1>6 DEF AppNext, AppUser, Proceeds

(* The page of a machine that does not say "Loading" shows a machine that  *)
(* has been looked up, whatever pages the user has gone to before, and in  *)
(* whatever order the lookups end.                                         *)
THEOREM DetailsAlwaysLoaded == AppSpec => []DetailsAreLoaded
<1>1. AppInit => RequestIsCurrent
  BY PageNames DEF AppInit, RequestIsCurrent
<1>2. RequestIsCurrent => DetailsAreLoaded
  BY PageNames DEF RequestIsCurrent, DetailsAreLoaded, loadingResources
<1>3. AppSpec => []AppTypeOK
  BY StartupTypeCorrect
<1>4. AppTypeOK /\ RequestIsCurrent /\ [AppNext]_appVars => RequestIsCurrent'
  BY RequestStaysCurrent
<1>5. QED
  BY <1>1, <1>2, <1>3, <1>4, PTL DEF AppSpec

-----------------------------------------------------------------------------
(* Consoles: what happens to one card leaves the others as they are.       *)

(* The machine whose page is shown has a card (ConsoleCardStates.get).     *)
ShownHasCard == shown = NoKey \/ shown \in DOMAIN states

ConsolesInv == ConsolesTypeOK /\ ShownHasCard /\ NoTerminalLeaks /\ DisconnectedIsClosed

-----------------------------------------------------------------------------
(* Lists and cards *)

LEMMA Bounds == MaxPtys \in Nat /\ MaxRenders \in Nat /\ MaxMachineChanges \in Nat /\ NoKey \notin Keys
BY ConsoleStatesAssumption

LEMMA BoundedLists ==
  ASSUME NEW S, NEW n \in Nat, NEW s \in BoundedSeq(S, n)
  PROVE  /\ Len(s) \in 0..n
         /\ s \in [1..Len(s) -> S]
<1>1. PICK m \in 0..n : s \in [1..m -> S]
  BY DEF BoundedSeq, SeqOf
<1>2. s \in Seq(S) /\ Len(s) = m
  BY <1>1
<1> QED
  BY <1>1, <1>2

LEMMA ListsOfLength ==
  ASSUME NEW S, NEW n \in Nat, NEW m \in 0..n, NEW s \in [1..m -> S]
  PROVE  s \in BoundedSeq(S, n) /\ Len(s) = m
<1>1. s \in BoundedSeq(S, n)
  BY DEF BoundedSeq, SeqOf
<1>2. s \in Seq(S) /\ Len(s) = m
  OBVIOUS
<1> QED
  BY <1>1, <1>2

LEMMA CardParts ==
  ASSUME NEW card \in Card
  PROVE  /\ card.type \in Types /\ card.vnc \in VncStates /\ card.lost \in BOOLEAN
         /\ card.serials \in BoundedSeq(Serial, MaxPtys)
         /\ Len(card.serials) \in 0..MaxPtys
         /\ \A i \in 1..Len(card.serials) : card.serials[i] \in Serial
<1>1. card.type \in Types /\ card.vnc \in VncStates /\ card.lost \in BOOLEAN
      /\ card.serials \in BoundedSeq(Serial, MaxPtys)
  BY DEF Card
<1>2. Len(card.serials) \in 0..MaxPtys /\ card.serials \in [1..Len(card.serials) -> Serial]
  BY <1>1, BoundedLists, Bounds
<1> QED
  BY <1>1, <1>2

LEMMA NewCardTyped == NewCard \in Card /\ NewCard.serials = <<>>
<1>1. <<>> \in [1..0 -> Serial] /\ 0 \in 0..MaxPtys
  BY Bounds
<1>2. <<>> \in BoundedSeq(Serial, MaxPtys)
  BY <1>1, ListsOfLength, Bounds
<1> QED
  BY <1>2 DEF NewCard, Card, Types, Tabs, VncStates

LEMMA WithTypeTyped ==
  ASSUME NEW card \in Card, NEW t \in Types
  PROVE  WithType(card, t) \in Card /\ WithType(card, t).serials = card.serials
BY CardParts DEF WithType, Card

LEMMA WithVncStateTyped ==
  ASSUME NEW card \in Card, NEW v \in VncStates, NEW l \in BOOLEAN
  PROVE  WithVncState(card, v, l) \in Card /\ WithVncState(card, v, l).serials = card.serials
BY CardParts DEF WithVncState, Card

LEMMA WithSerialsTyped ==
  ASSUME NEW card \in Card, NEW s \in BoundedSeq(Serial, MaxPtys)
  PROVE  WithSerials(card, s) \in Card /\ WithSerials(card, s).serials = s
BY CardParts DEF WithSerials, Card

-----------------------------------------------------------------------------
(* The serial consoles of one card *)

(* DisconnectedIsClosed for a card.                                        *)
CardIsClosed(card) ==
    \A i \in 1..Len(card.serials) : ~card.serials[i].connected => card.serials[i].terminal = 0

(* The card that a rendering finds: new serial states are connected and    *)
(* have no terminal (SerialStates.ensure).                                 *)
LEMMA EnsuredTyped ==
  ASSUME ConsolesTypeOK, NEW k \in Keys, NEW card \in Card, CardIsClosed(card)
  PROVE  Ensured(card, k) \in Card /\ CardIsClosed(Ensured(card, k))
<1> DEFINE fresh == [i \in 1..Len(ptys[k]) |->
                       [alias |-> ptys[k][i], connected |-> TRUE, terminal |-> 0]]
<1>1. CASE SameConsoles(card, k)
  BY <1>1 DEF Ensured
<1>2. CASE ~SameConsoles(card, k)
  <2>1. ptys[k] \in PtyLists
    BY DEF ConsolesTypeOK
  <2>2. Len(ptys[k]) \in 0..MaxPtys /\ ptys[k] \in [1..Len(ptys[k]) -> Aliases]
    BY <2>1, BoundedLists, Bounds DEF PtyLists
  <2>3. \A i \in 1..Len(ptys[k]) : [alias |-> ptys[k][i], connected |-> TRUE, terminal |-> 0] \in Serial
    BY <2>2, Bounds DEF Serial
  <2>4. fresh \in [1..Len(ptys[k]) -> Serial]
    BY <2>3
  <2>5. fresh \in BoundedSeq(Serial, MaxPtys) /\ Len(fresh) = Len(ptys[k])
    <3> HIDE DEF fresh
    <3>1. PICK m \in 0..MaxPtys : m = Len(ptys[k])
      BY <2>2
    <3> QED
      BY <2>4, <3>1, ListsOfLength, Bounds
  <2>6. Ensured(card, k) = WithSerials(card, fresh)
    BY <1>2 DEF Ensured
  <2>7. WithSerials(card, fresh) \in Card /\ WithSerials(card, fresh).serials = fresh
    BY <2>5, WithSerialsTyped
  <2>8. \A i \in 1..Len(fresh) : fresh[i].connected
    BY <2>5
  <2> QED
    BY <2>6, <2>7, <2>8 DEF CardIsClosed
<1> QED
  BY <1>1, <1>2

(* A rendering opens a terminal and gives it to a connected console, and   *)
(* takes none from another (getTerminalState).                             *)
LEMMA WithTerminalTyped ==
  ASSUME ConsolesTypeOK, time < MaxRenders, NEW k \in Keys, NEW card \in Card, CardIsClosed(card)
  PROVE  /\ WithTerminal(card, k) \in Card
         /\ CardIsClosed(WithTerminal(card, k))
         /\ Terminals(card.serials) \subseteq Terminals(WithTerminal(card, k).serials)
         /\ Opened(k, card) \subseteq Terminals(WithTerminal(card, k).serials)
<1> DEFINE old == card.serials
           new == [i \in 1..Len(card.serials) |->
                      IF NeedsTerminal(card, k, i)
                      THEN [alias |-> card.serials[i].alias, connected |-> TRUE,
                            terminal |-> time + 1]
                      ELSE card.serials[i]]
<1>1. Len(old) \in 0..MaxPtys /\ \A i \in 1..Len(old) : old[i] \in Serial
  BY CardParts
<1>2. time + 1 \in 0..MaxRenders /\ time + 1 # 0
  BY Bounds DEF ConsolesTypeOK
<1>3. \A i \in 1..Len(old) : new[i] \in Serial
  BY <1>1, <1>2 DEF Serial
<1>4. new \in [1..Len(old) -> Serial]
  BY <1>3
<1>5. new \in BoundedSeq(Serial, MaxPtys) /\ Len(new) = Len(old)
  <2> HIDE DEF new, old
  <2>1. PICK m \in 0..MaxPtys : m = Len(old)
    BY <1>1
  <2> QED
    BY <1>4, <2>1, ListsOfLength, Bounds
<1>6. WithTerminal(card, k) = WithSerials(card, new)
  BY DEF WithTerminal
<1>7. WithTerminal(card, k) \in Card /\ WithTerminal(card, k).serials = new
  BY <1>5, <1>6, WithSerialsTyped
<1>8. CardIsClosed(WithTerminal(card, k))
  BY <1>5, <1>7 DEF CardIsClosed
<1>9. ASSUME NEW i \in 1..Len(old), old[i].terminal # 0
      PROVE  new[i].terminal = old[i].terminal
  BY <1>9 DEF NeedsTerminal
<1>10. Terminals(old) \subseteq Terminals(new)
  BY <1>5, <1>9 DEF Terminals
<1>11. ASSUME NEW i \in 1..Len(old), NeedsTerminal(card, k, i)
       PROVE  time + 1 \in Terminals(new)
  BY <1>2, <1>5, <1>11 DEF Terminals
<1>12. Opened(k, card) \subseteq Terminals(new)
  BY <1>11 DEF Opened
<1> QED
  BY <1>7, <1>8, <1>10, <1>12

-----------------------------------------------------------------------------
(* The inductive invariant *)

LEMMA IInvFacts ==
  ASSUME ConsolesInv
  PROVE  /\ time \in 0..MaxRenders /\ time \in Nat
         /\ DOMAIN states \subseteq Keys
         /\ states \in [DOMAIN states -> Card]
         /\ accessTimes \in [DOMAIN states -> 0..(time - 1)]
         /\ \A k \in DOMAIN states : states[k] \in Card /\ CardIsClosed(states[k])
         /\ shown # NoKey => shown \in DOMAIN states
BY Bounds DEF ConsolesInv, ConsolesTypeOK, ShownHasCard, DisconnectedIsClosed, CardIsClosed

LEMMA CardOfTyped ==
  ASSUME ConsolesInv, NEW k \in Keys
  PROVE  CardOf(k) \in Card /\ CardIsClosed(CardOf(k))
BY IInvFacts, NewCardTyped DEF CardOf, CardIsClosed

(* One card changes: it keeps its terminals, but for those that are        *)
(* closed.                                                                 *)
LEMMA SetCardKeepsIInv ==
  ASSUME ConsolesInv, NEW k \in DOMAIN states, NEW card \in Card, CardIsClosed(card),
         SetCard(k, card),
         channels' \subseteq channels,
         Terminals(states[k].serials) \cap channels' \subseteq Terminals(card.serials)
  PROVE  ConsolesInv'
<1>1. states' = [states EXCEPT ![k] = card]
      /\ UNCHANGED <<shown, accessTimes, time, ptys, running, machineChanges>>
  BY DEF SetCard, machineVars
<1>2. DOMAIN states' = DOMAIN states /\ states' \in [DOMAIN states' -> Card]
  BY <1>1, IInvFacts
<1>3. ConsolesTypeOK'
  <2>1. channels' \subseteq 1..MaxRenders
    BY DEF ConsolesInv, ConsolesTypeOK
  <2> QED
    BY <1>1, <1>2, <2>1 DEF ConsolesInv, ConsolesTypeOK
<1>4. ShownHasCard'
  BY <1>1, <1>2 DEF ConsolesInv, ShownHasCard
<1>5. \A j \in DOMAIN states' : states'[j] = IF j = k THEN card ELSE states[j]
  BY <1>1, <1>2
<1>6. NoTerminalLeaks'
  <2> SUFFICES ASSUME NEW c \in channels' PROVE c \in TerminalsOf(DOMAIN states)'
    BY DEF NoTerminalLeaks
  <2>1. PICK j \in DOMAIN states : c \in Terminals(states[j].serials)
    BY DEF ConsolesInv, NoTerminalLeaks, TerminalsOf
  <2>2. c \in Terminals(states'[j].serials)
    BY <1>2, <1>5, <2>1
  <2> QED
    BY <1>2, <2>1, <2>2 DEF TerminalsOf, Terminals
<1>7. DisconnectedIsClosed'
  BY <1>2, <1>5, IInvFacts DEF DisconnectedIsClosed, CardIsClosed
<1> QED
  BY <1>3, <1>4, <1>6, <1>7 DEF ConsolesInv

(* The card of another tab or VNC state, with the same serial consoles.    *)
LEMMA SameSerialsKeepIInv ==
  ASSUME ConsolesInv, NEW k \in DOMAIN states, NEW card \in Card,
         card.serials = states[k].serials,
         SetCard(k, card), UNCHANGED channels
  PROVE  ConsolesInv'
<1>1. CardIsClosed(card)
  BY IInvFacts DEF CardIsClosed
<1> QED
  BY <1>1, SetCardKeepsIInv

-----------------------------------------------------------------------------
LEMMA InitEstablishesIInv == ConsolesInit => ConsolesInv
<1> SUFFICES ASSUME ConsolesInit PROVE ConsolesInv
  OBVIOUS
<1>1. DOMAIN states = {} /\ states \in [{} -> Card] /\ accessTimes \in [{} -> 0..(time - 1)]
  BY DEF ConsolesInit
<1>2. ptys \in [Keys -> PtyLists]
  BY DEF ConsolesInit
<1>3. time \in 0..MaxRenders /\ machineChanges \in 0..MaxMachineChanges
  BY Bounds DEF ConsolesInit
<1>4. ConsolesTypeOK
  BY <1>1, <1>2, <1>3 DEF ConsolesInit, ConsolesTypeOK
<1> QED
  BY <1>1, <1>4 DEF ConsolesInit, ConsolesInv, ShownHasCard, NoTerminalLeaks, DisconnectedIsClosed

(* A rendering keeps the terminals of the cards it keeps, and closes those *)
(* of the cards it pushes out and of the consoles it replaces.             *)
LEMMA AppVMKeepsIInv ==
  ASSUME ConsolesInv, NEW k \in Keys, AppVM(k)
  PROVE  ConsolesInv'
<1>1. PICK card : card = Ensured(CardOf(k), k)
  OBVIOUS
<1>2. PICK new : new = WithTerminal(card, k)
  OBVIOUS
<1>3. PICK gone : gone = ToRemove(k)
  OBVIOUS
<1>4. time < MaxRenders /\ time' = time + 1 /\ shown' = k
      /\ states' = With(Without(gone), k, new)
      /\ accessTimes' = [j \in DOMAIN states' |-> IF j = k THEN time ELSE accessTimes[j]]
      /\ channels' = (channels \ Closed(k)) \cup Opened(k, card)
      /\ UNCHANGED <<ptys, running, machineChanges>>
  BY <1>1, <1>2, <1>3 DEF AppVM, machineVars
<1>5. gone \subseteq DOMAIN states /\ (k \in DOMAIN states => k \notin gone)
  BY <1>3 DEF ToRemove
<1>6. card \in Card /\ CardIsClosed(card)
  BY <1>1, CardOfTyped, EnsuredTyped DEF ConsolesInv
<1>7. /\ new \in Card /\ CardIsClosed(new)
      /\ Terminals(card.serials) \subseteq Terminals(new.serials)
      /\ Opened(k, card) \subseteq Terminals(new.serials)
  BY <1>2, <1>4, <1>6, WithTerminalTyped DEF ConsolesInv
<1>8. /\ DOMAIN states' = (DOMAIN states \ gone) \cup {k}
      /\ \A j \in DOMAIN states' : states'[j] = IF j = k THEN new ELSE states[j]
      /\ states' \in [DOMAIN states' -> Card]
  <2>1. DOMAIN states' = (DOMAIN states \ gone) \cup {k}
    BY <1>4 DEF With, Without
  <2>2. \A j \in DOMAIN states' : states'[j] = IF j = k THEN new ELSE states[j]
    BY <1>4 DEF With, Without
  <2>3. states' = [j \in DOMAIN states' |-> IF j = k THEN new ELSE states[j]]
    BY <1>4, <2>1, <2>2 DEF With, Without
  <2>4. \A j \in DOMAIN states' : states'[j] \in Card
    BY <1>7, <2>1, <2>2, IInvFacts
  <2> QED
    BY <2>1, <2>2, <2>3, <2>4
<1>9. ConsolesTypeOK'
  <2>1. time' \in 0..MaxRenders
    BY <1>4, IInvFacts, Bounds
  <2>2. DOMAIN states' \subseteq Keys
    BY <1>8, IInvFacts
  <2>3. accessTimes' \in [DOMAIN states' -> 0..(time' - 1)]
    <3>1. \A j \in DOMAIN states' : (IF j = k THEN time ELSE accessTimes[j]) \in 0..(time' - 1)
      BY <1>4, <1>8, IInvFacts
    <3> QED
      BY <1>4, <3>1
  <2>4. channels' \subseteq 1..MaxRenders
    <3>1. Opened(k, card) \subseteq {time + 1}
      BY DEF Opened
    <3>2. time + 1 \in 1..MaxRenders
      BY <1>4, IInvFacts, Bounds
    <3> QED
      BY <1>4, <3>1, <3>2 DEF ConsolesInv, ConsolesTypeOK
  <2> QED
    BY <1>4, <1>8, <2>1, <2>2, <2>3, <2>4 DEF ConsolesInv, ConsolesTypeOK
<1>10. ShownHasCard'
  BY <1>4, <1>8 DEF ShownHasCard
<1>11. NoTerminalLeaks'
  <2> SUFFICES ASSUME NEW c \in channels' PROVE c \in TerminalsOf(DOMAIN states)'
    BY DEF NoTerminalLeaks
  <2>1. CASE c \in Opened(k, card)
    <3>1. c \in Terminals(states'[k].serials)
      BY <1>7, <1>8, <2>1
    <3> QED
      BY <1>8, <3>1 DEF TerminalsOf, Terminals
  <2>2. CASE c \in channels /\ c \notin Closed(k)
    <3>1. PICK j \in DOMAIN states : c \in Terminals(states[j].serials)
      BY <2>2 DEF ConsolesInv, NoTerminalLeaks, TerminalsOf
    <3>2. j \notin gone
      BY <1>3, <2>2, <3>1 DEF Closed, TerminalsOf
    <3>3. CASE j # k
      <4>1. j \in DOMAIN states' /\ c \in Terminals(states'[j].serials)
        BY <1>8, <3>1, <3>2, <3>3
      <4> QED
        BY <4>1 DEF TerminalsOf, Terminals
    <3>4. CASE j = k
      <4>1. CardOf(k) = states[k]
        BY <3>1, <3>4 DEF CardOf
      <4>2. SameConsoles(CardOf(k), k)
        BY <2>2, <3>1, <3>4, <4>1 DEF Closed
      <4>3. card = states[k]
        BY <1>1, <4>1, <4>2 DEF Ensured
      <4>4. k \in DOMAIN states' /\ c \in Terminals(states'[k].serials)
        BY <1>7, <1>8, <3>1, <3>4, <4>3
      <4> QED
        BY <4>4 DEF TerminalsOf, Terminals
    <3> QED
      BY <3>3, <3>4
  <2> QED
    BY <1>4, <2>1, <2>2
<1>12. DisconnectedIsClosed'
  BY <1>7, <1>8, IInvFacts DEF DisconnectedIsClosed, CardIsClosed
<1> QED
  BY <1>9, <1>10, <1>11, <1>12 DEF ConsolesInv

LEMMA LeaveKeepsIInv == ASSUME ConsolesInv, Leave PROVE ConsolesInv'
BY DEF Leave, ConsolesInv, ConsolesTypeOK, ShownHasCard, NoTerminalLeaks, TerminalsOf, Terminals,
       DisconnectedIsClosed, machineVars

LEMMA TerminalEndsKeepsIInv == ASSUME ConsolesInv, TerminalEnds PROVE ConsolesInv'
<1>1. channels' \subseteq channels /\ UNCHANGED <<shown, states, accessTimes, time, machineVars>>
  BY DEF TerminalEnds
<1> QED
  BY <1>1 DEF ConsolesInv, ConsolesTypeOK, ShownHasCard, NoTerminalLeaks, TerminalsOf, Terminals,
              DisconnectedIsClosed, machineVars

-----------------------------------------------------------------------------
(* The consoles of the page that is shown *)

LEMMA SetTypeKeepsIInv ==
  ASSUME ConsolesInv, NEW t \in Tabs, SetType(t)
  PROVE  ConsolesInv'
<1>1. shown \in DOMAIN states /\ states[shown] \in Card
  BY IInvFacts DEF SetType
<1>2. PICK card : card = WithType(states[shown], t)
  OBVIOUS
<1>3. card \in Card /\ card.serials = states[shown].serials
  BY <1>1, <1>2, WithTypeTyped DEF Types
<1>4. SetCard(shown, card) /\ UNCHANGED channels
  BY <1>2 DEF SetType
<1>5. PICK k : k = shown
  OBVIOUS
<1> QED
  BY <1>1, <1>3, <1>4, <1>5, SameSerialsKeepIInv

LEMMA VncKeepsIInv ==
  ASSUME ConsolesInv, NEW k \in DOMAIN states, NEW v \in VncStates, NEW l \in BOOLEAN,
         SetCard(k, WithVncState(states[k], v, l)), UNCHANGED channels
  PROVE  ConsolesInv'
<1>1. PICK card : card = WithVncState(states[k], v, l)
  OBVIOUS
<1>2. card \in Card /\ card.serials = states[k].serials
  BY <1>1, IInvFacts, WithVncStateTyped
<1> QED
  BY <1>1, <1>2, SameSerialsKeepIInv

LEMMA VncStepKeepsIInv ==
  ASSUME ConsolesInv, VncSetConnected \/ VncSetNotConnected \/ VncIsRefused \/ VncBreaks
  PROVE  ConsolesInv'
<1>1. VncIsShown
  BY DEF VncSetConnected, VncSetNotConnected, VncIsRefused, VncBreaks
<1>2. shown \in Keys /\ shown # NoKey
  BY <1>1, ConsoleStatesAssumption DEF VncIsShown
<1>3. PICK k \in DOMAIN states : k = shown
  BY <1>2, IInvFacts
<1>4. states[k].lost \in BOOLEAN
  BY IInvFacts, CardParts
<1>5. \E v \in VncStates, l \in BOOLEAN : SetCard(k, WithVncState(states[k], v, l))
  BY <1>3, <1>4 DEF VncSetConnected, VncSetNotConnected, VncIsRefused, VncBreaks, VncStates
<1>6. UNCHANGED channels
  BY DEF VncSetConnected, VncSetNotConnected, VncIsRefused, VncBreaks
<1> QED
  BY <1>5, <1>6, VncKeepsIInv

LEMMA VncSetDisconnectedKeepsIInv ==
  ASSUME ConsolesInv, NEW k \in Keys, VncSetDisconnected(k)
  PROVE  ConsolesInv'
BY VncKeepsIInv DEF VncSetDisconnected, VncStates

(* Disconnecting forgets the terminal that it closes.                      *)
LEMMA SerialSetConnectedKeepsIInv ==
  ASSUME ConsolesInv, NEW i \in 1..MaxPtys, SerialSetConnected(i)
  PROVE  ConsolesInv'
<1>1. PICK k \in DOMAIN states : k = shown
  BY IInvFacts DEF SerialSetConnected
<1>2. PICK old : old = states[k].serials
  OBVIOUS
<1>3. PICK serial : serial = [alias |-> old[i].alias, connected |-> ~old[i].connected, terminal |-> 0]
  OBVIOUS
<1>4. PICK new : new = [old EXCEPT ![i] = serial]
  OBVIOUS
<1>5. PICK card : card = WithSerials(states[k], new)
  OBVIOUS
<1>6. /\ i \in 1..Len(old)
      /\ SetCard(k, card)
      /\ channels' = channels \ {old[i].terminal}
  BY <1>1, <1>2, <1>3, <1>4, <1>5 DEF SerialSetConnected
<1>7. /\ old \in BoundedSeq(Serial, MaxPtys) /\ Len(old) \in 0..MaxPtys
      /\ \A j \in 1..Len(old) : old[j] \in Serial
      /\ states[k] \in Card
  BY <1>2, IInvFacts, CardParts
<1>8. old \in [1..Len(old) -> Serial]
  BY <1>7, BoundedLists, Bounds
<1>9. serial \in Serial
  BY <1>3, <1>6, <1>7, Bounds DEF Serial
<1>10. new \in [1..Len(old) -> Serial]
       /\ \A j \in 1..Len(old) : new[j] = IF j = i THEN serial ELSE old[j]
  BY <1>4, <1>6, <1>8, <1>9
<1>11. PICK m \in 0..MaxPtys : m = Len(old)
  BY <1>7
<1>12. new \in BoundedSeq(Serial, MaxPtys) /\ Len(new) = Len(old)
  BY <1>10, <1>11, ListsOfLength, Bounds
<1>13. card \in Card /\ card.serials = new
  BY <1>5, <1>7, <1>12, WithSerialsTyped
<1>14. CardIsClosed(card)
  <2>1. CardIsClosed(states[k])
    BY IInvFacts
  <2> QED
    BY <1>2, <1>3, <1>10, <1>12, <1>13, <2>1 DEF CardIsClosed
<1>15. Terminals(states[k].serials) \cap channels' \subseteq Terminals(card.serials)
  <2> SUFFICES ASSUME NEW c \in Terminals(old), c \in channels' PROVE c \in Terminals(new)
    BY <1>2, <1>13
  <2>1. PICK j \in 1..Len(old) : c = old[j].terminal /\ c # 0
    BY DEF Terminals
  <2>2. j # i
    BY <1>6, <2>1
  <2> QED
    BY <1>10, <1>12, <2>1, <2>2 DEF Terminals
<1> QED
  BY <1>6, <1>13, <1>14, <1>15, SetCardKeepsIInv

-----------------------------------------------------------------------------
(* Machines *)

LEMMA CountChangeTyped == ASSUME ConsolesInv, CountMachineChange PROVE machineChanges' \in 0..MaxMachineChanges
BY Bounds DEF CountMachineChange, ConsolesInv, ConsolesTypeOK

LEMMA ChangeConsolesKeepsIInv ==
  ASSUME ConsolesInv, NEW k \in Keys, ChangeConsoles(k)
  PROVE  ConsolesInv'
<1>1. machineChanges' \in 0..MaxMachineChanges
  BY CountChangeTyped DEF ChangeConsoles
<1>2. ptys' \in [Keys -> PtyLists]
  BY DEF ChangeConsoles, ConsolesInv, ConsolesTypeOK
<1> QED
  BY <1>1, <1>2 DEF ChangeConsoles, ConsolesInv, ConsolesTypeOK, ShownHasCard, NoTerminalLeaks, TerminalsOf,
                    Terminals, DisconnectedIsClosed

LEMMA StopKeepsIInv ==
  ASSUME ConsolesInv, NEW k \in Keys, Stop(k)
  PROVE  ConsolesInv'
<1>1. machineChanges' \in 0..MaxMachineChanges
  BY CountChangeTyped DEF Stop
<1>2. running' \in [Keys -> BOOLEAN]
  BY DEF Stop, ConsolesInv, ConsolesTypeOK
<1> QED
  BY <1>1, <1>2 DEF Stop, ConsolesInv, ConsolesTypeOK, ShownHasCard, NoTerminalLeaks, TerminalsOf,
                    Terminals, DisconnectedIsClosed

LEMMA StartKeepsIInv ==
  ASSUME ConsolesInv, NEW k \in Keys, Start(k)
  PROVE  ConsolesInv'
<1>1. machineChanges' \in 0..MaxMachineChanges
  BY CountChangeTyped DEF Start
<1>2. running' \in [Keys -> BOOLEAN]
  BY DEF Start, ConsolesInv, ConsolesTypeOK
<1>3. /\ DOMAIN states' = DOMAIN states
      /\ states' \in [DOMAIN states -> Card]
      /\ \A j \in DOMAIN states : states'[j].serials = states[j].serials
  <2>1. CASE shown # k
    BY <2>1, IInvFacts DEF Start
  <2>2. CASE shown = k
    <3>1. k \in DOMAIN states
      BY <2>2, IInvFacts, Bounds
    <3>2. PICK card : card = WithVncState(states[k], "connected", states[k].lost)
      OBVIOUS
    <3>3. card \in Card /\ card.serials = states[k].serials
      BY <3>1, <3>2, IInvFacts, CardParts, WithVncStateTyped DEF VncStates
    <3>4. states' = [states EXCEPT ![k] = card]
      BY <2>2, <3>2 DEF Start
    <3> QED
      BY <3>1, <3>3, <3>4, IInvFacts
  <2> QED
    BY <2>1, <2>2
<1>4. ConsolesTypeOK'
  BY <1>1, <1>2, <1>3 DEF Start, ConsolesInv, ConsolesTypeOK
<1>5. ShownHasCard'
  BY <1>3 DEF Start, ConsolesInv, ShownHasCard
<1>6. NoTerminalLeaks'
  <2>1. channels' = channels
    BY DEF Start
  <2>2. channels \subseteq UNION {Terminals(states[j].serials) : j \in DOMAIN states}
    BY DEF ConsolesInv, NoTerminalLeaks, TerminalsOf
  <2>3. channels \subseteq UNION {Terminals(states'[j].serials) : j \in DOMAIN states}
    BY <1>3, <2>2
  <2> QED
    BY <1>3, <2>1, <2>3 DEF NoTerminalLeaks, TerminalsOf, Terminals
<1>7. DisconnectedIsClosed'
  BY <1>3 DEF ConsolesInv, DisconnectedIsClosed
<1> QED
  BY <1>4, <1>5, <1>6, <1>7 DEF ConsolesInv

LEMMA NextKeepsIInv == ASSUME ConsolesInv, [ConsolesNext]_consolesVars PROVE ConsolesInv'
<1>1. CASE \E k \in Keys : AppVM(k) \/ ChangeConsoles(k) \/ Stop(k) \/ Start(k)
  BY <1>1, AppVMKeepsIInv, ChangeConsolesKeepsIInv, StopKeepsIInv, StartKeepsIInv
<1>2. CASE \E t \in Tabs : SetType(t)
  BY <1>2, SetTypeKeepsIInv
<1>3. CASE VncSetConnected \/ VncSetNotConnected \/ VncIsRefused \/ VncBreaks
  BY <1>3, VncStepKeepsIInv
<1>4. CASE \E k \in Keys : VncSetDisconnected(k)
  BY <1>4, VncSetDisconnectedKeepsIInv
<1>5. CASE \E i \in 1..MaxPtys : SerialSetConnected(i)
  BY <1>5, SerialSetConnectedKeepsIInv
<1>6. CASE Leave \/ TerminalEnds
  BY <1>6, LeaveKeepsIInv, TerminalEndsKeepsIInv
<1>7. CASE UNCHANGED consolesVars
  BY <1>7 DEF consolesVars, machineVars, ConsolesInv, ConsolesTypeOK, ShownHasCard, NoTerminalLeaks, TerminalsOf,
              Terminals, DisconnectedIsClosed
<1> QED
  BY <1>1, <1>2, <1>3, <1>4, <1>5, <1>6, <1>7 DEF ConsolesNext

(* The inductive invariant: the page shown has a card, every open terminal *)
(* belongs to a card, and no disconnected console has one.                 *)
THEOREM InvariantHolds == ConsolesSpec => []ConsolesInv
BY InitEstablishesIInv, NextKeepsIInv, PTL DEF ConsolesSpec

(* The cards, their access times and the terminals keep their types,       *)
(* whichever cards are pushed out (ConsoleCardStates.get).                 *)
THEOREM ConsolesTypeCorrect == ConsolesSpec => []ConsolesTypeOK
<1>1. ConsolesInv => ConsolesTypeOK
  BY DEF ConsolesInv
<1> QED
  BY <1>1, InvariantHolds, PTL

(* Whatever pages are visited, whichever cards are pushed out and whatever *)
(* consoles change, every open terminal belongs to a card that is kept     *)
(* (ConsoleCardStates.#makeRoom, SerialStates.ensure).                     *)
THEOREM NoTerminalEverLeaks == ConsolesSpec => []NoTerminalLeaks
<1>1. ConsolesInv => NoTerminalLeaks
  BY DEF ConsolesInv
<1> QED
  BY <1>1, InvariantHolds, PTL

(* A serial console that the user has disconnected never has a terminal    *)
(* (SerialState.setConnected).                                             *)
THEOREM DisconnectedStaysClosed == ConsolesSpec => []DisconnectedIsClosed
<1>1. ConsolesInv => DisconnectedIsClosed
  BY DEF ConsolesInv
<1> QED
  BY <1>1, InvariantHolds, PTL

-----------------------------------------------------------------------------
(* The refinement of RecentConsoles.  No two cards were used at the same   *)
(* time, that of the page shown was used last, and there are no more cards *)
(* than are to be kept (ConsoleCardStates.get, #makeRoom).                 *)
Kept == Max({1, MaxConsoleCardStates})

TimesDiffer == \A i, j \in DOMAIN states : accessTimes[i] = accessTimes[j] => i = j

ShownIsNewest == shown # NoKey => accessTimes[shown] = time - 1

CardsFit == IsFiniteSet(DOMAIN states) /\ Cardinality(DOMAIN states) <= Kept

CardsInv == TimesDiffer /\ ShownIsNewest /\ CardsFit

LEMMA Room ==
  /\ Kept \in Nat \ {0}
  /\ Max({0, MaxConsoleCardStates - 1}) = Kept - 1
<1>1. PICK m \in Nat : m = MaxConsoleCardStates
  BY ConsoleStatesAssumption
<1>2. Max({1, m}) = IF m = 0 THEN 1 ELSE m
  <2>1. \A x \in {1, m} : (\A y \in {1, m} : x >= y) <=> x = IF m = 0 THEN 1 ELSE m
    OBVIOUS
  <2> QED
    BY <2>1 DEF Max
<1>3. Max({0, m - 1}) = IF m = 0 THEN 0 ELSE m - 1
  <2>1. \A x \in {0, m - 1} : (\A y \in {0, m - 1} : x >= y) <=> x = IF m = 0 THEN 0 ELSE m - 1
    OBVIOUS
  <2> QED
    BY <2>1 DEF Max
<1> QED
  BY <1>1, <1>2, <1>3 DEF Kept

(* The card that was used least recently.                                  *)
LEMMA OldestExists ==
  ASSUME ConsolesInv, DOMAIN states # {}
  PROVE  \E j \in DOMAIN states : \A i \in DOMAIN states : ~(accessTimes[i] < accessTimes[j])
<1> DEFINE times == {accessTimes[i] : i \in DOMAIN states}
<1>1. times \subseteq Nat /\ times # {}
  BY IInvFacts
<1>2. PICK n \in times : \A m \in times : <<m, n>> \notin OpToRel(<, Nat)
  BY <1>1, NatLessThanWellFounded, WFMin, Zenon
<1>3. \A m \in times : ~(m < n)
  BY <1>1, <1>2, Zenon DEF OpToRel
<1> QED
  BY <1>3

(* Room is made for one card, by removing the least recently used one.     *)
LEMMA RoomIsMade ==
  ASSUME ConsolesInv, CardsInv, NEW k \in Keys
  PROVE  /\ ToRemove(k) =
                IF k \in DOMAIN states \/ Cardinality(DOMAIN states) < Kept THEN {}
                ELSE {j \in DOMAIN states : \A i \in DOMAIN states : ~(accessTimes[i] < accessTimes[j])}
         /\ IsFiniteSet((DOMAIN states \ ToRemove(k)) \cup {k})
         /\ Cardinality((DOMAIN states \ ToRemove(k)) \cup {k}) <= Kept
<1> DEFINE D == DOMAIN states
           before(j) == {i \in D : accessTimes[i] < accessTimes[j]}
           oldest == {j \in D : \A i \in D : ~(accessTimes[i] < accessTimes[j])}
<1>1. /\ IsFiniteSet(D) /\ Cardinality(D) \in Nat /\ Cardinality(D) <= Kept
      /\ Kept \in Nat \ {0}
  BY FS_CardinalityType, Room DEF CardsInv, CardsFit
<1>2. CASE k \in D
  <2>1. ToRemove(k) = {} /\ (D \ {}) \cup {k} = D
    BY <1>2 DEF ToRemove
  <2> QED
    BY <1>1, <1>2, <2>1
<1>3. CASE k \notin D
  <2>1. ToRemove(k) = {j \in D : Cardinality(before(j)) < Cardinality(D) - (Kept - 1)}
    BY <1>3, Room DEF ToRemove
  <2>2. \A j \in D : IsFiniteSet(before(j)) /\ Cardinality(before(j)) \in Nat
    <3> SUFFICES ASSUME NEW j \in D PROVE IsFiniteSet(before(j)) /\ Cardinality(before(j)) \in Nat
      OBVIOUS
    <3>1. before(j) \in SUBSET D
      OBVIOUS
    <3> HIDE DEF before
    <3> QED
      BY <1>1, <3>1, FS_Subset, FS_CardinalityType
  <2>3. CASE Cardinality(D) < Kept
    <3>1. ToRemove(k) = {}
      <4> HIDE DEF before, D
      <4> QED
        BY <1>1, <2>1, <2>2, <2>3
    <3>2. IsFiniteSet(D \cup {k}) /\ Cardinality(D \cup {k}) = Cardinality(D) + 1
      BY <1>1, <1>3, FS_AddElement
    <3> QED
      BY <1>1, <1>3, <2>3, <3>1, <3>2
  <2>4. CASE ~(Cardinality(D) < Kept)
    <3>1. Cardinality(D) = Kept
      BY <1>1, <2>4
    <3>2. \A j \in D : Cardinality(before(j)) < Cardinality(D) - (Kept - 1) <=> before(j) = {}
      <4> HIDE DEF before, D
      <4>1. \A j \in D : Cardinality(before(j)) = 0 <=> before(j) = {}
        BY <2>2, FS_EmptySet
      <4> QED
        BY <1>1, <2>2, <3>1, <4>1
    <3>3. ToRemove(k) = oldest
      <4>1. \A j \in D : before(j) = {} <=> \A i \in D : ~(accessTimes[i] < accessTimes[j])
        OBVIOUS
      <4> HIDE DEF before, D
      <4> QED
        BY <2>1, <3>2, <4>1
    <3>4. PICK j \in D : j \in oldest
      <4>1. D # {}
        BY <1>1, <3>1, FS_EmptySet
      <4> QED
        BY <4>1, OldestExists
    <3>5. IsFiniteSet(D \ {j}) /\ Cardinality(D \ {j}) = Kept - 1
      BY <1>1, <3>1, <3>4, FS_RemoveElement
    <3>6. IsFiniteSet((D \ {j}) \cup {k}) /\ Cardinality((D \ {j}) \cup {k}) = Kept
      <4>1. k \notin D \ {j}
        BY <1>3
      <4> HIDE DEF D
      <4>2. Cardinality((D \ {j}) \cup {k}) = Cardinality(D \ {j}) + 1
        BY <3>5, <4>1, FS_AddElement
      <4> QED
        BY <1>1, <3>5, <4>2, FS_AddElement
    <3>7. (D \ oldest) \cup {k} \in SUBSET ((D \ {j}) \cup {k})
      BY <3>4
    <3>8. /\ IsFiniteSet((D \ oldest) \cup {k})
          /\ Cardinality((D \ oldest) \cup {k}) <= Kept
      <4> HIDE DEF oldest, D
      <4> QED
        BY <3>6, <3>7, FS_Subset
    <3> QED
      BY <1>3, <2>4, <3>3, <3>8
  <2> QED
    BY <2>3, <2>4
<1> QED
  BY <1>2, <1>3

(* What a rendering does to the cards and their types.                     *)
LEMMA AppVMCards ==
  ASSUME ConsolesInv, NEW k \in Keys, AppVM(k)
  PROVE  /\ time' = time + 1 /\ shown' = k
         /\ DOMAIN states' = (DOMAIN states \ ToRemove(k)) \cup {k}
         /\ \A j \in DOMAIN states' : accessTimes'[j] = IF j = k THEN time ELSE accessTimes[j]
         /\ \A j \in DOMAIN states' :
                states'[j].type = IF j \in DOMAIN states THEN states[j].type ELSE "null"
<1>1. PICK card : card = Ensured(CardOf(k), k)
  OBVIOUS
<1>2. PICK new : new = WithTerminal(card, k)
  OBVIOUS
<1>3. /\ time' = time + 1 /\ shown' = k
      /\ states' = With(Without(ToRemove(k)), k, new)
      /\ accessTimes' = [j \in DOMAIN states' |-> IF j = k THEN time ELSE accessTimes[j]]
  BY <1>1, <1>2 DEF AppVM
<1>4. new.type = IF k \in DOMAIN states THEN states[k].type ELSE "null"
  BY <1>1, <1>2 DEF WithTerminal, Ensured, WithSerials, CardOf, NewCard
<1>5. DOMAIN states' = (DOMAIN states \ ToRemove(k)) \cup {k}
  BY <1>3 DEF With, Without
<1>6. \A j \in DOMAIN states' : states'[j] = IF j = k THEN new ELSE states[j]
  BY <1>3 DEF With, Without
<1> QED
  BY <1>3, <1>4, <1>5, <1>6

(* The other steps change neither the cards nor when they were used; only  *)
(* SetType changes the type of one, that of the page shown.                *)
CardsKept ==
    /\ DOMAIN states' = DOMAIN states
    /\ UNCHANGED <<accessTimes, time>>
    /\ shown' \in {shown, NoKey}

TypesKept == \A j \in DOMAIN states : states'[j].type = states[j].type

LEMMA SetCardKeepsCards ==
  ASSUME ConsolesInv, NEW k, NEW card, SetCard(k, card)
  PROVE  /\ CardsKept
         /\ k \in DOMAIN states => states'[k] = card
         /\ \A j \in DOMAIN states : j # k => states'[j] = states[j]
BY IInvFacts DEF SetCard, CardsKept

LEMMA CardSteps ==
  ASSUME ConsolesInv, [ConsolesNext]_consolesVars
  PROVE  \/ \E k \in Keys : AppVM(k)
         \/ CardsKept /\ TypesKept
         \/ CardsKept /\ \E t \in Tabs : SetType(t)
<1>1. CASE \E k \in Keys : AppVM(k)
  BY <1>1
<1>2. CASE \E t \in Tabs : SetType(t)
  BY <1>2, SetCardKeepsCards DEF SetType
<1>3. ASSUME NEW k, NEW card, SetCard(k, card), card.type = states[k].type
      PROVE  CardsKept /\ TypesKept
  BY <1>3, SetCardKeepsCards DEF TypesKept
<1>4. CASE \/ VncSetConnected \/ VncSetNotConnected \/ VncIsRefused \/ VncBreaks
           \/ \E k \in Keys : VncSetDisconnected(k)
  <2>1. PICK k, v, l : SetCard(k, WithVncState(states[k], v, l))
    BY <1>4 DEF VncSetConnected, VncSetNotConnected, VncIsRefused, VncBreaks, VncSetDisconnected
  <2>2. PICK card : card = WithVncState(states[k], v, l)
    OBVIOUS
  <2>3. card.type = states[k].type
    BY <2>2 DEF WithVncState
  <2> QED
    BY <1>3, <2>1, <2>2, <2>3
<1>5. CASE \E i \in 1..MaxPtys : SerialSetConnected(i)
  <2>1. PICK serials : SetCard(shown, WithSerials(states[shown], serials))
    BY <1>5 DEF SerialSetConnected
  <2>2. PICK card : card = WithSerials(states[shown], serials)
    OBVIOUS
  <2>3. card.type = states[shown].type
    BY <2>2 DEF WithSerials
  <2> QED
    BY <1>3, <2>1, <2>2, <2>3
<1>6. ASSUME NEW k \in Keys, Start(k) PROVE CardsKept /\ TypesKept
  <2>1. UNCHANGED <<shown, accessTimes, time>>
    BY <1>6 DEF Start
  <2>2. CASE shown # k
    BY <1>6, <2>1, <2>2 DEF Start, CardsKept, TypesKept
  <2>3. CASE shown = k
    <3>1. PICK card : card = WithVncState(states[k], "connected", states[k].lost)
      OBVIOUS
    <3>2. states' = [states EXCEPT ![k] = card] /\ card.type = states[k].type
      BY <1>6, <2>3, <3>1 DEF Start, WithVncState
    <3>3. DOMAIN states' = DOMAIN states /\ \A j \in DOMAIN states : states'[j].type = states[j].type
      BY <3>2, IInvFacts
    <3> QED
      BY <2>1, <3>3 DEF CardsKept, TypesKept
  <2> QED
    BY <2>2, <2>3
<1>7. CASE \/ \E k \in Keys : ChangeConsoles(k) \/ Stop(k)
           \/ Leave \/ TerminalEnds \/ UNCHANGED consolesVars
  BY <1>7 DEF ChangeConsoles, Stop, Leave, TerminalEnds, consolesVars, CardsKept, TypesKept
<1> QED
  BY <1>1, <1>2, <1>4, <1>5, <1>6, <1>7 DEF ConsolesNext

LEMMA InitEstablishesCardsInv == ConsolesInit => CardsInv
<1> SUFFICES ASSUME ConsolesInit PROVE CardsInv
  OBVIOUS
<1>1. DOMAIN states = {} /\ shown = NoKey
  BY DEF ConsolesInit
<1> QED
  BY <1>1, FS_EmptySet, Room DEF CardsInv, TimesDiffer, ShownIsNewest, CardsFit

LEMMA NextKeepsCardsInv == ASSUME ConsolesInv, CardsInv, [ConsolesNext]_consolesVars PROVE CardsInv'
<1>1. ASSUME NEW k \in Keys, AppVM(k) PROVE CardsInv'
  <2>1. /\ time' = time + 1 /\ shown' = k
        /\ DOMAIN states' = (DOMAIN states \ ToRemove(k)) \cup {k}
        /\ \A j \in DOMAIN states' : accessTimes'[j] = IF j = k THEN time ELSE accessTimes[j]
    BY <1>1, AppVMCards
  <2>2. time \in Nat /\ \A j \in DOMAIN states : accessTimes[j] # time
    BY IInvFacts
  <2>3. TimesDiffer'
    BY <2>1, <2>2 DEF TimesDiffer, CardsInv
  <2>4. ShownIsNewest'
    BY <2>1, <2>2 DEF ShownIsNewest
  <2>5. CardsFit'
    BY <2>1, RoomIsMade DEF CardsFit, Kept
  <2> QED
    BY <2>3, <2>4, <2>5 DEF CardsInv
<1>2. CASE CardsKept
  BY <1>2 DEF CardsKept, CardsInv, TimesDiffer, ShownIsNewest, CardsFit, Kept
<1> QED
  BY <1>1, <1>2, CardSteps

(* Showing the page of a machine is what RecentConsoles says of it.        *)
LEMMA AppVMIsShow ==
  ASSUME ConsolesInv, CardsInv, NEW k \in Keys, AppVM(k)
  PROVE  RC!Show(k)
<1>1. /\ DOMAIN states' = (DOMAIN states \ ToRemove(k)) \cup {k}
      /\ \A j \in DOMAIN states' : accessTimes'[j] = IF j = k THEN time ELSE accessTimes[j]
      /\ \A j \in DOMAIN states' :
             states'[j].type = IF j \in DOMAIN states THEN states[j].type ELSE "null"
  BY AppVMCards
<1>2. DOMAIN states' = {k} \cup IF k \in DOMAIN states \/ Cardinality(DOMAIN states) < Kept
                                THEN DOMAIN states ELSE DOMAIN states \ RC!Oldest
  <2>1. RC!Oldest = {j \in DOMAIN states :
                        \A i \in DOMAIN states : ~(accessTimes[i] < accessTimes[j])}
    BY DEF RC!Oldest, Earlier
  <2> QED
    BY <1>1, <2>1, RoomIsMade
<1>3. Earlier' = {p \in (DOMAIN states') \X (DOMAIN states') : p[1] # k /\ (p[2] = k \/ p \in Earlier)}
  <2>1. \A j \in DOMAIN states' : j # k => j \in DOMAIN states /\ accessTimes[j] \in Nat /\ accessTimes[j] < time
    BY <1>1, IInvFacts
  <2>2. time \in Nat
    BY IInvFacts
  <2>3. \A i, j \in DOMAIN states' :
            accessTimes'[i] < accessTimes'[j] <=> i # k /\ (j = k \/ accessTimes[i] < accessTimes[j])
    BY <1>1, <2>1, <2>2
  <2>4. \A i, j \in DOMAIN states' : i # k /\ j # k => (<<i, j>> \in Earlier <=> accessTimes[i] < accessTimes[j])
    BY <2>1 DEF Earlier
  <2> QED
    BY <2>3, <2>4 DEF Earlier
<1>4. [j \in Keys |-> CardOf(j).type]'
          = [j \in Keys |-> IF j \in DOMAIN states' THEN [i \in Keys |-> CardOf(i).type][j] ELSE "null"]
  <2>1. \A j \in Keys : (CardOf(j).type)' = IF j \in DOMAIN states' THEN CardOf(j).type ELSE "null"
    BY <1>1 DEF CardOf, NewCard
  <2> QED
    BY <2>1
<1> QED
  <2>1. RC!Cardinality(DOMAIN states) = Cardinality(DOMAIN states)
    BY DEF RC!Cardinality, Cardinality
  <2> QED
    BY <1>2, <1>3, <1>4, <2>1 DEF RC!Show, Kept

(* The tab is chosen on the page that was shown last.                      *)
LEMMA SetTypeIsChooseTab ==
  ASSUME ConsolesInv, CardsInv, CardsKept, NEW t \in Tabs, SetType(t)
  PROVE  RC!ChooseTab(t)
<1>1. /\ shown # NoKey /\ shown \in DOMAIN states /\ shown \in Keys
      /\ SetCard(shown, WithType(states[shown], t))
  BY IInvFacts DEF SetType
<1>2. PICK card : card = WithType(states[shown], t)
  OBVIOUS
<1>3. /\ states'[shown] = card /\ card.type = t
      /\ \A j \in DOMAIN states : j # shown => states'[j] = states[j]
  BY <1>1, <1>2, SetCardKeepsCards DEF WithType
<1>4. shown \in RC!Newest
  <2>1. \A i \in DOMAIN states : ~(accessTimes[shown] < accessTimes[i])
    BY <1>1, IInvFacts DEF CardsInv, ShownIsNewest
  <2> QED
    BY <1>1, <2>1 DEF RC!Newest, Earlier
<1>5. [j \in Keys |-> CardOf(j).type]' = [[j \in Keys |-> CardOf(j).type] EXCEPT ![shown] = t]
  <2>1. \A j \in Keys : (CardOf(j).type)' = IF j = shown THEN t ELSE CardOf(j).type
    BY <1>1, <1>3 DEF CardsKept, CardOf
  <2> QED
    BY <1>1, <2>1
<1>6. DOMAIN states' = DOMAIN states /\ Earlier' = Earlier
  BY DEF CardsKept, Earlier
<1> QED
  BY <1>4, <1>5, <1>6 DEF RC!ChooseTab

(* The most recent consoles are kept, with what the user chose for them:   *)
(* every step of the cards is one that RecentConsoles allows, or changes   *)
(* nothing that it speaks of (ConsoleCardStates).                          *)
THEOREM TheMostRecentAreKept == ConsolesSpec => KeepsTheMostRecent
<1>1. ConsolesInit => RC!RCInit
  <2> SUFFICES ASSUME ConsolesInit PROVE RC!RCInit
    OBVIOUS
  <2>1. DOMAIN states = {}
    BY DEF ConsolesInit
  <2>2. \A k \in Keys : CardOf(k).type = "null"
    BY <2>1 DEF CardOf, NewCard
  <2> QED
    BY <2>1, <2>2 DEF RC!RCInit, Earlier
<1>2. ConsolesInv /\ CardsInv /\ [ConsolesNext]_consolesVars => [RC!RCNext]_(RC!rcVars)
  <2> SUFFICES ASSUME ConsolesInv, CardsInv, [ConsolesNext]_consolesVars PROVE [RC!RCNext]_(RC!rcVars)
    OBVIOUS
  <2>1. CASE \E k \in Keys : AppVM(k)
    BY <2>1, AppVMIsShow DEF RC!RCNext
  <2>2. CASE CardsKept /\ \E t \in Tabs : SetType(t)
    BY <2>2, SetTypeIsChooseTab DEF RC!RCNext
  <2>3. CASE CardsKept /\ TypesKept
    <3>1. \A k \in Keys : (CardOf(k).type)' = CardOf(k).type
      BY <2>3 DEF CardsKept, TypesKept, CardOf, NewCard
    <3>2. DOMAIN states' = DOMAIN states /\ Earlier' = Earlier
      BY <2>3 DEF CardsKept, Earlier
    <3> QED
      BY <3>1, <3>2 DEF RC!rcVars
  <2> QED
    BY <2>1, <2>2, <2>3, CardSteps
<1>3. ConsolesSpec => []CardsInv
  BY InitEstablishesCardsInv, NextKeepsCardsInv, InvariantHolds, PTL DEF ConsolesSpec
<1> QED
  BY <1>1, <1>2, <1>3, InvariantHolds, PTL DEF ConsolesSpec, KeepsTheMostRecent, RC!RCSpec
=============================================================================
