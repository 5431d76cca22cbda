---------------------------- MODULE UsagePolling ----------------------------
(***************************************************************************)
(* How the page polls the CPU and memory usage of the virtual machines:    *)
(* ensureUsagePolling, startUsagePolling, pollUsageNow and pollVmUsage in  *)
(* src/libvirtApi/common.ts.                                               *)
(*                                                                         *)
(* Every call of startUsagePolling is a run: it polls the machines the     *)
(* current page wants, one at a time, and then arms a timer that starts    *)
(* the next run.  A run awaits libvirt for each machine, and meanwhile the *)
(* user can change pages, hide the browser tab or show it again, each of   *)
(* which starts a run of its own.  A run works on the list of machines as  *)
(* it was when the run started.                                            *)
(*                                                                         *)
(* A usage sample is the CPU time of a machine, counted from its start; 0  *)
(* stands for no sample, as it does in timeSampleUsageData.  The rows are  *)
(* read again (domainGet, see VmList) in one step here.                    *)
(***************************************************************************)
EXTENDS Naturals, FiniteSets

CONSTANTS
    Vms,          \* the machines
    Runs,         \* slots for concurrent calls of startUsagePolling
    Idle,         \* an unused slot
    NotListed,    \* the page has no row for the machine
    MaxCpu,       \* bound on the CPU time of a machine
    MaxChanges    \* bound on what the user and libvirt do

Wishes == {"none", "all"} \cup Vms      \* UsagePollingSpec

Run == [vm : Vms, todo : SUBSET Vms, last : [Vms -> 0..MaxCpu],
        reply : {"none", "ok", "error"}, sample : 0..MaxCpu]
Row == [running : BOOLEAN, cpu : 0..MaxCpu, usage : {"none", "zero", "positive", "negative"}]

ASSUME UsagePollingAssumption ==
    /\ Idle \notin Run
    /\ NotListed \notin Row
    /\ Vms \cap {"none", "all"} = {}
    /\ MaxCpu \in Nat
    /\ MaxChanges \in Nat

VARIABLES
    usagePolling,  \* what the current page wants polled
    hidden,        \* cockpit.hidden
    timerId,       \* usagePollingTimeoutId is not 0
    timers,        \* how many timers the browser has armed for us
    runs,          \* the runs under way
    rows,          \* AppState.vms
    machine,       \* libvirt: "gone", "off" or "on"
    cpu,           \* libvirt: the CPU time of each machine since its start
    changes        \* what the user and libvirt have done so far

pageVars == <<usagePolling, hidden, timerId, timers, runs>>
libvirtVars == <<machine, cpu>>
vars == <<pageVars, rows, libvirtVars, changes>>

TypeOK ==
    /\ usagePolling \in Wishes
    /\ hidden \in BOOLEAN
    /\ timerId \in BOOLEAN
    /\ timers \in Nat
    /\ runs \in [Runs -> Run \cup {Idle}]
    /\ rows \in [Vms -> Row \cup {NotListed}]
    /\ machine \in [Vms -> {"gone", "off", "on"}]
    /\ cpu \in [Vms -> 0..MaxCpu]
    /\ changes \in 0..MaxChanges

Init ==
    /\ usagePolling = "none"
    /\ hidden = FALSE
    /\ timerId = FALSE
    /\ timers = 0
    /\ runs = [r \in Runs |-> Idle]
    /\ rows = [v \in Vms |-> NotListed]
    /\ machine \in [Vms -> {"gone", "off", "on"}]
    /\ cpu = [v \in Vms |-> 0]
    /\ changes = 0

CountChange == changes < MaxChanges /\ changes' = changes + 1

-----------------------------------------------------------------------------
(* The page *)

(* The rows the poller looks for; what a run remembers of their samples.   *)
Listed == {v \in Vms : rows[v] # NotListed}
Samples == [v \in Vms |-> IF rows[v] = NotListed THEN 0 ELSE rows[v].cpu]

(* The end of a run, with usagePolling = s, hidden = h and the timers as   *)
(* "id" and "armed" tell: the next run is scheduled, unless it is already. *)
Rearm(s, h, id, armed) ==
    IF s # "none" /\ ~h /\ ~id
    THEN timerId' = TRUE /\ timers' = armed + 1
    ELSE timerId' = id /\ timers' = armed

Poll(v, todo, last) ==
    [vm |-> v, todo |-> todo, last |-> last, reply |-> "none", sample |-> 0]

(* startUsagePolling, in slot r: it polls the first machine, or there is   *)
(* none to poll.                                                           *)
startUsagePolling(r, s, h, id, armed) ==
    LET todo == IF h THEN {} ELSE {v \in Listed : s \in {"all", v}} IN
    \/ /\ todo = {}
       /\ Rearm(s, h, id, armed)
       /\ UNCHANGED runs
    \/ /\ runs[r] = Idle
       /\ \E v \in todo : runs' = [runs EXCEPT ![r] = Poll(v, todo \ {v}, Samples)]
       /\ timerId' = id
       /\ timers' = armed

(* Faulty: cancelUsagePolling forgets to clear the timer it forgets.       *)
CancelledNot == timers

(* The timers that are left after cancelUsagePolling.                      *)
Cancelled == IF timerId THEN timers - 1 ELSE timers

(* A page with usage is mounted, or unmounted (then s is "none").          *)
ensureUsagePolling(s, r) ==
    /\ CountChange
    /\ s # usagePolling
    /\ usagePolling' = s
    /\ startUsagePolling(r, s, hidden, FALSE, Cancelled)
    /\ UNCHANGED <<hidden, rows, libvirtVars>>

Hide ==
    /\ CountChange
    /\ ~hidden
    /\ hidden' = TRUE
    /\ timerId' = FALSE
    /\ timers' = Cancelled
    /\ UNCHANGED <<usagePolling, runs, rows, libvirtVars>>

Show(r) ==
    /\ CountChange
    /\ hidden
    /\ hidden' = FALSE
    /\ startUsagePolling(r, usagePolling, FALSE, timerId, timers)
    /\ UNCHANGED <<usagePolling, rows, libvirtVars>>

(* Faulty: the page still has the identifier of a timer that has fired.    *)
TimerFiresKeepingId(r) ==
    /\ timers > 0
    /\ startUsagePolling(r, usagePolling, hidden, timerId, timers - 1)
    /\ UNCHANGED <<usagePolling, hidden, rows, libvirtVars, changes>>

(* The timer fires: whichever is armed, the page forgets the one it knows. *)
TimerFires(r) ==
    /\ timers > 0
    /\ startUsagePolling(r, usagePolling, hidden, FALSE, timers - 1)
    /\ UNCHANGED <<usagePolling, hidden, rows, libvirtVars, changes>>

(* Faulty: the list of a run is polled to its end whatever happens.        *)
NextVmAlways(r) ==
    LET todo == runs[r].todo IN
    \/ /\ todo = {}
       /\ runs' = [runs EXCEPT ![r] = Idle]
       /\ Rearm(usagePolling, hidden, timerId, timers)
    \/ /\ \E v \in todo : runs' = [runs EXCEPT ![r] = Poll(v, todo \ {v}, runs[r].last)]
       /\ UNCHANGED <<timerId, timers>>

(* A machine has been polled: the next one of the list, or the end.        *)
NextVm(r) ==
    LET todo == runs[r].todo
        over == todo = {} \/ usagePolling # "all" \/ hidden
    IN
    \/ /\ over
       /\ runs' = [runs EXCEPT ![r] = Idle]
       /\ Rearm(usagePolling, hidden, timerId, timers)
    \/ /\ ~over
       /\ \E v \in todo : runs' = [runs EXCEPT ![r] = Poll(v, todo \ {v}, runs[r].last)]
       /\ UNCHANGED <<timerId, timers>>

(* timeSampleUsageData: what a sample is worth, given the one before.      *)
Usage(last, new) ==
    IF last = 0 \/ new = 0 THEN "zero"
    ELSE IF new < last THEN "negative" ELSE "positive"

(* The reply to GetStats is handled.                                       *)
ReceiveStats(r) ==
    /\ runs[r] # Idle
    /\ runs[r].reply = "ok"
    /\ LET v == runs[r].vm
           c == runs[r].sample
       IN rows' = IF rows[v] = NotListed THEN rows
                  ELSE [rows EXCEPT ![v] =
                            [running |-> rows[v].running, cpu |-> c,
                             usage |-> Usage(runs[r].last[v], c)]]
    /\ NextVm(r)
    /\ UNCHANGED <<usagePolling, hidden, libvirtVars, changes>>

(* GetStats fails, or takes longer than 5 seconds.                         *)
FailStats(r) ==
    /\ runs[r] # Idle
    /\ runs[r].reply \in {"none", "error"}
    /\ NextVm(r)
    /\ UNCHANGED <<usagePolling, hidden, rows, libvirtVars, changes>>

(* domainGet brings the row of v up to date; the usage data are cleared    *)
(* when the machine is shut off.                                           *)
ReadRow(v) ==
    LET row == [running |-> machine[v] = "on",
                cpu   |-> IF machine[v] = "off" \/ rows[v] = NotListed THEN 0 ELSE rows[v].cpu,
                usage |-> IF machine[v] = "off" \/ rows[v] = NotListed THEN "none"
                          ELSE rows[v].usage]
    IN /\ rows' = [rows EXCEPT ![v] = IF machine[v] = "gone" THEN NotListed ELSE row]
       /\ rows' # rows
       /\ UNCHANGED <<pageVars, libvirtVars, changes>>

-----------------------------------------------------------------------------
(* libvirt *)

(* A machine is started, stopped, defined or undefined.                    *)
ChangeMachine(v) ==
    /\ CountChange
    /\ \E s \in {"gone", "off", "on"} \ {machine[v]} :
           machine' = [machine EXCEPT ![v] = s]
    /\ cpu' = [cpu EXCEPT ![v] = 0]
    /\ UNCHANGED <<pageVars, rows>>

Work(v) ==
    /\ machine[v] = "on"
    /\ cpu[v] < MaxCpu
    /\ cpu' = [cpu EXCEPT ![v] = @ + 1]
    /\ UNCHANGED <<pageVars, rows, machine, changes>>

(* GetStats: there are no CPU times for a machine that is off.             *)
AnswerStats(r) ==
    /\ runs[r] # Idle
    /\ runs[r].reply = "none"
    /\ LET v == runs[r].vm IN
       runs' = [runs EXCEPT ![r] = [vm |-> v, todo |-> runs[r].todo, last |-> runs[r].last,
                                    reply |-> IF machine[v] = "gone" THEN "error" ELSE "ok",
                                    sample |-> cpu[v]]]
    /\ UNCHANGED <<usagePolling, hidden, timerId, timers, rows, libvirtVars, changes>>

-----------------------------------------------------------------------------
User ==
    \E r \in Runs : (\E s \in Wishes : ensureUsagePolling(s, r)) \/ Hide \/ Show(r)

Polling ==
    \E r \in Runs : TimerFires(r) \/ ReceiveStats(r) \/ FailStats(r) \/ AnswerStats(r)

Machines == \E v \in Vms : ReadRow(v) \/ ChangeMachine(v) \/ Work(v)

Next == User \/ Polling \/ Machines

Spec == Init /\ [][Next]_vars

(* The browser fires its timers, and every GetStats ends within 5 seconds. *)
Fairness ==
    /\ WF_vars(\E r \in Runs : TimerFires(r))
    /\ \A r \in Runs : WF_vars(ReceiveStats(r) \/ FailStats(r))
    /\ \A v \in Vms : WF_vars(ReadRow(v))

FairSpec == Spec /\ Fairness

-----------------------------------------------------------------------------
(* Properties *)

Active == {r \in Runs : runs[r] # Idle}

(* The page knows every timer it has armed, so that it can cancel it: a    *)
(* run that ends never arms a second one (startUsagePolling).              *)
TimerIsKnown == timers = IF timerId THEN 1 ELSE 0

(* While a page with usage is shown, polling never dies out: a run is      *)
(* under way or one is scheduled, whichever runs overlapped before.        *)
PollingGoesOn ==
    usagePolling # "none" /\ ~hidden => timers > 0 \/ Active # {}

(* Nothing is scheduled for a page without usage or in a hidden tab.       *)
NoIdleTimer == usagePolling = "none" \/ hidden => timers = 0

(* A run asks libvirt only about a machine that the current page wants,    *)
(* although the page may have changed since the run started (pollUsageNow).*)
OnlyWantedIsPolled ==
    [][\A r \in Runs :
          (runs'[r] # Idle /\ (runs[r] = Idle \/ runs'[r].todo # runs[r].todo))
          => usagePolling' \in {"all", runs'[r].vm} /\ ~hidden']_vars

(* A machine of a page that stays is polled again and again.               *)
EveryVmIsPolled ==
    \A v \in Vms :
        <>[](usagePolling \in {"all", v} /\ ~hidden /\ rows[v] # NotListed)
        => []<>(\E r \in Active : runs[r].vm = v)
=============================================================================
