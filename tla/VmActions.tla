----------------------------- MODULE VmActions ------------------------------
(***************************************************************************)
(* What the buttons and menu entries of a virtual machine do: vmStart,     *)
(* vmShutdown and the other handlers of src/components/vm/vmActions.tsx,   *)
(* the "Shutdown and restart" dialog, and operationInProgressFromState,    *)
(* the field that says when a button shows a spinner.                      *)
(*                                                                         *)
(* There is one machine.  Its row is kept up to date as VmList has it: a   *)
(* signal about a start or a stop makes the page read the machine again,   *)
(* the others carry the new state.  A read is one step of libvirt here,    *)
(* and what libvirt sends is handled in order; the replies to the method   *)
(* calls of the buttons come in any order.                                 *)
(*                                                                         *)
(* A click is numbered, and its number is the name of the restart that it  *)
(* asks for.  Notifications and what the dialogs say are left out.         *)
(***************************************************************************)
EXTENDS Naturals, Sequences

CONSTANTS
    Calls,        \* slots for method calls under way
    Free,         \* an unused slot
    MayTimeOut,   \* the reply to a call may take longer than 30 seconds
    MaxClicks,    \* bound on what the user does
    MaxOutside    \* bound on what happens to the machine by itself

States  == {"shutoff", "running", "paused"}
Signals == {"STARTED", "STOPPED", "SUSPENDED", "RESUMED"}
Methods == {"Create", "Shutdown", "Destroy", "Suspend", "Resume", "Other"}
Clicks  == 1..MaxClicks

\* A method call: the restart it belongs to, or 0, and the answer so far.
Call == [method : Methods, from : States, restart : 0..MaxClicks,
         answer : {"none", "ok", "error"}]

ASSUME VmActionsAssumption ==
    /\ Free \notin Call
    /\ MayTimeOut \in BOOLEAN
    /\ MaxClicks \in Nat
    /\ MaxOutside \in Nat

VARIABLES
    persistent,  \* whether libvirt keeps the machine when it stops
    machine,     \* libvirt: the state of the machine, or "gone"
    stopping,    \* the state from which the guest was asked to shut down, or "none"
    inbox,       \* signals, and states that were read, not yet handled
    asked,       \* reads that libvirt has not answered
    state,       \* the state in the row of the machine, or "unlisted"
    operation,   \* operationInProgressFromState, or "none"
    dialog,      \* the state the machine had when the open dialog was opened
    calls,       \* method calls under way
    listeners,   \* restarts that wait for the machine to stop
    page,        \* "details" or "list"
    clicks,      \* number of clicks
    outside,     \* number of changes that nobody here asked for
    started,     \* history: how often each restart has started the machine
    failed,      \* history: restarts whose shutdown has failed
    moves        \* history: how often the machine has changed its state since
                 \* the last operation began, up to 2

row     == <<state, operation>>
libvirt == <<machine, stopping>>
history == <<started, failed, moves>>
vars == <<persistent, libvirt, inbox, asked, row, dialog, calls, listeners, page, clicks, outside, history>>

TypeOK ==
    /\ persistent \in BOOLEAN
    /\ machine \in States \cup {"gone"}
    /\ stopping \in States \cup {"none"}
    /\ inbox \in Seq(Signals \cup States \cup {"gone"})
    /\ asked \in Nat
    /\ state \in States \cup {"unlisted"}
    /\ operation \in States \cup {"none"}
    /\ dialog \in States \cup {"none"}
    /\ calls \in [Calls -> Call \cup {Free}]
    /\ listeners \subseteq [id : Clicks, from : States]
    /\ page \in {"details", "list"}
    /\ clicks \in 0..MaxClicks
    /\ outside \in 0..MaxOutside
    /\ started \in [Clicks -> Nat]
    /\ failed \subseteq Clicks
    /\ moves \in 0..2

Init ==
    /\ persistent \in BOOLEAN
    /\ machine \in IF persistent THEN States ELSE States \ {"shutoff"}
    /\ stopping = "none"
    /\ inbox = <<>>
    /\ asked = 0
    /\ state = machine
    /\ operation = "none"
    /\ dialog = "none"
    /\ calls = [c \in Calls |-> Free]
    /\ listeners = {}
    /\ page = "details"
    /\ clicks = 0
    /\ outside = 0
    /\ started = [i \in Clicks |-> 0]
    /\ failed = {}
    /\ moves = 0

-----------------------------------------------------------------------------
(* The user *)

Click == clicks < MaxClicks /\ clicks' = clicks + 1

NewCall(method, from, restart) ==
    [method |-> method, from |-> from, restart |-> restart, answer |-> "none"]

Send(c, method, from, restart) ==
    /\ calls[c] = Free
    /\ calls' = [calls EXCEPT ![c] = NewCall(method, from, restart)]

(* An operation begins, for the user who sees the machine in state s.      *)
startOperationProgress(s) ==
    /\ operation' = IF state = "unlisted" THEN operation ELSE s
    /\ moves' = 0

isOperationInProgress == state = operation

(* The Run button; the Start button of a console, on the page of the       *)
(* machine, is never disabled, and there for a machine that is paused too. *)
(* A dialog covers the page while it is open.                              *)
vmStart(c) ==
    /\ Click
    /\ dialog = "none"
    /\ \/ state = "shutoff" /\ ~isOperationInProgress
       \/ state \in {"shutoff", "paused"} /\ page = "details"
    /\ startOperationProgress(state)
    /\ Send(c, "Create", state, 0)
    /\ UNCHANGED <<libvirt, inbox, asked, state, dialog, listeners, page, outside, started, failed>>

(* The user goes to the list of machines, or back to the page of this one. *)
Visit ==
    /\ dialog = "none"
    /\ page' = IF page = "list" THEN "details" ELSE "list"
    /\ UNCHANGED <<libvirt, inbox, asked, row, dialog, calls, listeners, clicks, outside, history>>

(* The menu entries without a dialog: vmPause and vmResume.                *)
vmPauseOrResume(c) ==
    /\ Click
    /\ dialog = "none"
    /\ \/ state = "running" /\ Send(c, "Suspend", state, 0)
       \/ state = "paused" /\ Send(c, "Resume", state, 0)
    /\ UNCHANGED <<libvirt, inbox, asked, row, dialog, listeners, page, outside, history>>

(* The other actions ask for a confirmation first, and go on with the      *)
(* machine as it was when the dialog was opened.                           *)
OpenDialog ==
    /\ dialog = "none"
    /\ state \in {"running", "paused"}
    /\ dialog' = state
    /\ UNCHANGED <<libvirt, inbox, asked, row, calls, listeners, page, clicks, outside, history>>

Cancel ==
    /\ dialog # "none"
    /\ dialog' = "none"
    /\ UNCHANGED <<libvirt, inbox, asked, row, calls, listeners, page, clicks, outside, history>>

Confirm ==
    /\ Click
    /\ dialog # "none"
    /\ dialog' = "none"

vmShutdown(c) ==
    /\ Confirm
    /\ startOperationProgress(dialog)
    /\ Send(c, "Shutdown", dialog, 0)
    /\ UNCHANGED <<libvirt, inbox, asked, state, listeners, page, outside, started, failed>>

(* vmForceOff; vmReboot, vmForceReboot and onSendNMI.                      *)
vmConfirmed(c) ==
    /\ Confirm
    /\ \E method \in {"Destroy", "Other"} : Send(c, method, dialog, 0)
    /\ UNCHANGED <<libvirt, inbox, asked, row, listeners, page, outside, history>>

(* VmRestartDialog: a listener, and then the call.  Only persistent        *)
(* machines have pending changes.                                          *)
onRestart(c) ==
    /\ persistent
    /\ Confirm
    /\ startOperationProgress(dialog)
    /\ listeners' = listeners \cup {[id |-> clicks', from |-> dialog]}
    /\ \E method \in {"Shutdown", "Destroy"} : Send(c, method, dialog, clicks')
    /\ UNCHANGED <<libvirt, inbox, asked, state, page, outside, started, failed>>

-----------------------------------------------------------------------------
(* The page *)

(* The call of slot c has been served.  A transient machine is left.       *)
CallReturns(c) ==
    /\ calls[c] # Free
    /\ calls[c].answer = "ok"
    /\ calls' = [calls EXCEPT ![c] = Free]
    /\ page' = IF /\ calls[c].method \in {"Shutdown", "Destroy"}
                  /\ calls[c].restart = 0
                  /\ ~persistent
               THEN "list" ELSE page
    /\ UNCHANGED <<libvirt, inbox, asked, row, dialog, listeners, clicks, outside, history>>

(* Faulty: a restart that has failed goes on listening.                    *)
CallFailsListening(c) ==
    /\ calls[c] # Free
    /\ calls[c].answer = "error"
    /\ calls' = [calls EXCEPT ![c] = Free]
    /\ operation' = "none"
    /\ failed' = failed \cup ({calls[c].restart} \ {0})
    /\ UNCHANGED <<libvirt, inbox, asked, state, dialog, listeners, page, clicks, outside, started, moves>>

(* Faulty: the error is shown, and the operation is left in progress.      *)
CallFailsSpinning(c) ==
    /\ calls[c] # Free
    /\ calls[c].answer = "error"
    /\ calls' = [calls EXCEPT ![c] = Free]
    /\ listeners' = {l \in listeners : l.id # calls[c].restart}
    /\ failed' = failed \cup ({calls[c].restart} \ {0})
    /\ UNCHANGED <<libvirt, inbox, asked, row, dialog, page, clicks, outside, started, moves>>

(* showVmError; a restart stops listening.                                 *)
CallFails(c) ==
    /\ calls[c] # Free
    /\ calls[c].answer = "error"
    /\ calls' = [calls EXCEPT ![c] = Free]
    /\ listeners' = {l \in listeners : l.id # calls[c].restart}
    /\ operation' = "none"
    /\ failed' = failed \cup ({calls[c].restart} \ {0})
    /\ UNCHANGED <<libvirt, inbox, asked, state, dialog, page, clicks, outside, started, moves>>

(* The next thing libvirt has sent is handled, and it is in S.             *)
Handle(S) ==
    /\ inbox # <<>>
    /\ Head(inbox) \in S
    /\ inbox' = Tail(inbox)

(* The machine has started: it is read again (domainGet).                  *)
HandleStarted ==
    /\ Handle({"STARTED"})
    /\ asked' = asked + 1
    /\ UNCHANGED <<libvirt, row, dialog, calls, listeners, page, clicks, outside, history>>

(* Every restart that waits for the machine to stop calls vmStart, for the *)
(* machine as it was when its dialog was opened; they have slot[l].        *)
RestartAll(slot) ==
    /\ \A l, k \in listeners : slot[l] = slot[k] => l = k
    /\ calls' = [c \in Calls |->
                    IF \E l \in listeners : slot[l] = c
                    THEN NewCall("Create", (CHOOSE l \in listeners : slot[l] = c).from, 0)
                    ELSE calls[c]]
    /\ started' = [i \in Clicks |->
                      IF \E l \in listeners : l.id = i THEN started[i] + 1 ELSE started[i]]
    /\ IF listeners = {} THEN UNCHANGED <<operation, moves>>
       ELSE startOperationProgress((CHOOSE l \in listeners :
                                        \A k \in listeners : k.id <= l.id).from)

FreeCalls == {c \in Calls : calls[c] = Free}

(* Faulty: a restart goes on listening after it has started the machine.   *)
HandleStoppedForever ==
    /\ Handle({"STOPPED"})
    /\ \E slot \in [listeners -> FreeCalls] : RestartAll(slot)
    /\ asked' = asked + 1
    /\ UNCHANGED <<libvirt, state, dialog, listeners, page, clicks, outside, failed>>

(* The machine has stopped: emitVmStateEvent, and then domainGet.          *)
HandleStopped ==
    /\ Handle({"STOPPED"})
    /\ \E slot \in [listeners -> FreeCalls] : RestartAll(slot)
    /\ listeners' = {}
    /\ asked' = asked + 1
    /\ UNCHANGED <<libvirt, state, dialog, page, clicks, outside, failed>>

HandleSuspendedOrResumed ==
    /\ Handle({"SUSPENDED", "RESUMED"})
    /\ state' = CASE state = "unlisted"        -> state
                  [] Head(inbox) = "SUSPENDED"   -> "paused"
                  [] Head(inbox) = "RESUMED"     -> "running"
    /\ UNCHANGED <<libvirt, asked, operation, dialog, calls, listeners, page, clicks, outside,
                   history>>

(* A read returns: the operation is over when the state has changed.       *)
HandleRead ==
    /\ Handle(States \cup {"gone"})
    /\ state' = IF Head(inbox) = "gone" THEN "unlisted" ELSE Head(inbox)
    /\ operation' = IF Head(inbox) = operation THEN operation ELSE "none"
    /\ UNCHANGED <<libvirt, asked, dialog, calls, listeners, page, clicks, outside, history>>

-----------------------------------------------------------------------------
(* libvirt and the guest *)

Become(s, signal) ==
    /\ machine' = s
    /\ inbox' = Append(inbox, signal)
    /\ moves' = IF moves = 2 THEN 2 ELSE moves + 1

Stop    == /\ machine \in {"running", "paused"}
           /\ Become(IF persistent THEN "shutoff" ELSE "gone", "STOPPED")
           /\ stopping' = "none"
Start   == machine = "shutoff" /\ Become("running", "STARTED") /\ UNCHANGED stopping
Suspend == machine = "running" /\ Become("paused", "SUSPENDED") /\ UNCHANGED stopping
Resume  == machine = "paused" /\ Become("running", "RESUMED") /\ UNCHANGED stopping

(* What a method does to the machine when libvirt accepts it.              *)
Accept(call) ==
    \/ call.method = "Create" /\ Start
    \/ call.method = "Destroy" /\ Stop
    \/ call.method = "Suspend" /\ Suspend
    \/ call.method = "Resume" /\ Resume
    \/ /\ call.method \in {"Shutdown", "Other"}
       /\ machine \in {"running", "paused"}
       /\ stopping' = IF call.method = "Shutdown" THEN call.from ELSE stopping
       /\ UNCHANGED <<machine, inbox, moves>>

(* libvirt serves a call, or refuses to.                                   *)
Serve(c) ==
    /\ calls[c] # Free
    /\ calls[c].answer = "none"
    /\ \E answer \in {"ok", "error"} :
           /\ calls' = [calls EXCEPT ![c] =
                  [method |-> calls[c].method, from |-> calls[c].from,
                   restart |-> calls[c].restart, answer |-> answer]]
           /\ \/ answer = "ok" /\ Accept(calls[c])
              \/ answer = "error" /\ UNCHANGED <<libvirt, inbox, moves>>
    /\ UNCHANGED <<asked, row, dialog, listeners, page, clicks, outside, started, failed>>

(* The reply to a call that was served takes longer than 30 seconds.       *)
TimeOut(c) ==
    /\ MayTimeOut
    /\ calls[c] # Free
    /\ calls[c].answer = "ok"
    /\ calls' = [calls EXCEPT ![c] =
           [method |-> calls[c].method, from |-> calls[c].from,
            restart |-> calls[c].restart, answer |-> "error"]]
    /\ UNCHANGED <<libvirt, inbox, asked, row, dialog, listeners, page, clicks, outside, history>>

(* A guest that was asked to shut down does so, in its own time.           *)
GuestStops ==
    /\ stopping # "none"
    /\ machine = "running"
    /\ Stop
    /\ UNCHANGED <<asked, row, dialog, calls, listeners, page, clicks, outside, started, failed>>

AnswerRead ==
    /\ asked > 0
    /\ asked' = asked - 1
    /\ inbox' = Append(inbox, machine)
    /\ UNCHANGED <<libvirt, row, dialog, calls, listeners, page, clicks, outside, history>>

(* Somebody else starts, stops, pauses or resumes the machine.             *)
Outside ==
    /\ outside < MaxOutside
    /\ outside' = outside + 1
    /\ Start \/ Stop \/ Suspend \/ Resume
    /\ UNCHANGED <<asked, row, dialog, calls, listeners, page, clicks, started, failed>>

-----------------------------------------------------------------------------
User == \/ OpenDialog \/ Cancel \/ Visit
        \/ \E c \in Calls : \/ vmStart(c) \/ vmPauseOrResume(c) \/ vmShutdown(c)
                            \/ vmConfirmed(c) \/ onRestart(c)

Page == \/ HandleStarted \/ HandleStopped \/ HandleSuspendedOrResumed \/ HandleRead
        \/ \E c \in Calls : CallReturns(c) \/ CallFails(c)

Libvirt == \/ GuestStops \/ AnswerRead \/ Outside
           \/ \E c \in Calls : Serve(c) \/ TimeOut(c)

Next == (User \/ Page \/ Libvirt) /\ UNCHANGED persistent

Spec == Init /\ [][Next]_vars

-----------------------------------------------------------------------------
(* Properties *)

Settled == inbox = <<>> /\ asked = 0

PendingCall(method) == \E c \in Calls : calls[c] # Free /\ calls[c].method = method

(* A start or a shutdown has been asked for and is not over.               *)
OperationUnderWay ==
    \/ stopping # "none"
    \/ PendingCall("Create") \/ PendingCall("Shutdown") \/ PendingCall("Destroy")

(* No restart waits for a stop that has happened already: the listener is  *)
(* there before the machine can stop, and goes when the call fails.        *)
NoRestartIsLost ==
    /\ machine \in {"shutoff", "gone"}
    /\ \A i \in 1..Len(inbox) : inbox[i] # "STOPPED"
    => \A l \in listeners : \E c \in Calls : calls[c] # Free /\ calls[c].restart = l.id

(* A restart starts the machine once, however often it stops after that,   *)
(* and however many restarts were asked for.                               *)
RestartsOnce == \A i \in Clicks : started[i] <= 1

(* A restart whose shutdown has failed never starts the machine later.     *)
FailedRestartIsOver ==
    [][\A i \in failed : started'[i] = started[i]]_vars

(* A spinner outlives its operation only if the machine has left the state *)
(* and come back to it before it was read, or has been restarted.          *)
SpinnerEndsWithOperation ==
    Settled /\ isOperationInProgress /\ ~OperationUnderWay
        => moves = 2 \/ \E i \in Clicks : started[i] > 0
=============================================================================
