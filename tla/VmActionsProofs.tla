-------------------------- MODULE VmActionsProofs ---------------------------
(***************************************************************************)
(* Theorems about VmActions, for any number of clicks, calls and outside   *)
(* changes.                                                                *)
(***************************************************************************)
EXTENDS VmActions, WellFoundedInduction, TLAPS

(* A set of numbers has a least element, and a bounded one a greatest.     *)
LEMMA LeastExists ==
    ASSUME NEW S, S \subseteq Nat, S # {}
    PROVE  \E x \in S : \A y \in S : x <= y
<1>1. PICK x \in S : \A y \in S : <<y, x>> \notin OpToRel(<, Nat)
  BY NatLessThanWellFounded, WFMin, Zenon
<1>2. \A y \in S : ~(y < x)
  BY <1>1, Zenon DEF OpToRel
<1>3. QED
  BY <1>2

LEMMA GreatestExists ==
    ASSUME NEW n \in Nat, NEW S, S \subseteq 0..n, S # {}
    PROVE  \E x \in S : \A y \in S : y <= x
<1> DEFINE T == {k \in Nat : k <= n /\ n - k \in S}
<1>1. T \subseteq Nat /\ T # {}
  <2>1. PICK x \in S : TRUE
    OBVIOUS
  <2>2. n - x \in T
    BY <2>1
  <2>3. QED
    BY <2>2
<1>2. PICK k \in T : \A j \in T : k <= j
  BY <1>1, LeastExists
<1>3. ASSUME NEW y \in S PROVE y <= n - k
  <2>1. y \in Nat /\ n - y \in T
    OBVIOUS
  <2>2. k <= n - y
    BY <1>2, <2>1
  <2>3. QED
    BY <2>1, <2>2
<1>4. QED
  BY <1>2, <1>3

-----------------------------------------------------------------------------
LEMMA Bounds == MaxClicks \in Nat /\ MaxOutside \in Nat
BY VmActionsAssumption

LEMMA Members == 0 \in 0..MaxClicks /\ 0 \in 0..MaxOutside
                 /\ {"Create", "Shutdown", "Destroy", "Suspend", "Resume", "Other"} \subseteq Methods
BY Bounds DEF Methods

LEMMA Zero == 0 \in 0..2
OBVIOUS

LEMMA FreeIsNoCall == Free \notin Call
BY VmActionsAssumption

LEMMA NewCallType ==
    ASSUME NEW method \in Methods, NEW from \in States, NEW restart \in 0..MaxClicks
    PROVE  NewCall(method, from, restart) \in Call
BY DEF NewCall, Call

(* The restart that was asked for last is among those that wait.           *)
LEMMA LastListener ==
    ASSUME listeners \subseteq [id : Clicks, from : States], listeners # {}
    PROVE  (CHOOSE l \in listeners : \A k \in listeners : k.id <= l.id).from \in States
<1> DEFINE ids == {l.id : l \in listeners}
<1>1. ids \subseteq 0..MaxClicks /\ ids # {}
  BY Bounds DEF Clicks
<1>2. \E i \in ids : \A j \in ids : j <= i
  BY <1>1, Bounds, GreatestExists
<1>3. \E l \in listeners : \A k \in listeners : k.id <= l.id
  BY <1>2
<1>4. QED
  BY <1>3

LEMMA RestartAllType ==
    ASSUME TypeOK, NEW slot, RestartAll(slot)
    PROVE  /\ calls' \in [Calls -> Call \cup {Free}]
           /\ started' \in [Clicks -> Nat]
           /\ operation' \in States \cup {"none"}
           /\ moves' \in 0..2
<1>1. calls' \in [Calls -> Call \cup {Free}]
  <2> SUFFICES ASSUME NEW c \in Calls, NEW l \in listeners, slot[l] = c
               PROVE  NewCall("Create", (CHOOSE k \in listeners : slot[k] = c).from, 0) \in Call
    BY DEF RestartAll, TypeOK
  <2>1. (CHOOSE k \in listeners : slot[k] = c) \in listeners
    OBVIOUS
  <2>2. (CHOOSE k \in listeners : slot[k] = c).from \in States
    BY <2>1 DEF TypeOK
  <2>3. QED
    BY <2>2, NewCallType, Bounds DEF Methods
<1>2. started' \in [Clicks -> Nat]
  <2>1. /\ started \in [Clicks -> Nat]
        /\ started' = [i \in Clicks |->
                          IF \E l \in listeners : l.id = i THEN started[i] + 1 ELSE started[i]]
    BY DEF RestartAll, TypeOK
  <2>2. QED
    BY <2>1
<1>3. operation' \in States \cup {"none"}
  <2>1. CASE listeners = {}
    BY <2>1 DEF RestartAll, TypeOK
  <2>2. CASE listeners # {}
    <3>1. (CHOOSE l \in listeners : \A k \in listeners : k.id <= l.id).from \in States
      BY <2>2, LastListener DEF TypeOK
    <3>2. QED
      BY <2>2, <3>1 DEF RestartAll, TypeOK, startOperationProgress
  <2>3. QED
    BY <2>1, <2>2
<1>4. moves' \in 0..2
  <2>1. moves \in 0..2 /\ (moves' = 0 \/ moves' = moves)
    BY DEF RestartAll, TypeOK, startOperationProgress
  <2>2. QED
    BY ONLY <2>1
<1>5. QED
  BY <1>1, <1>2, <1>3, <1>4

LEMMA SendType ==
    ASSUME TypeOK, NEW c \in Calls, NEW method \in Methods, NEW from \in States,
           NEW restart \in 0..MaxClicks, Send(c, method, from, restart)
    PROVE  calls' \in [Calls -> Call \cup {Free}]
BY NewCallType DEF Send, TypeOK

LEMMA ClickType ==
    ASSUME TypeOK, Click
    PROVE  clicks' \in 0..MaxClicks /\ clicks' \in Clicks /\ clicks' = clicks + 1
<1>1. clicks \in 0..MaxClicks /\ clicks < MaxClicks /\ clicks' = clicks + 1
  BY DEF TypeOK, Click
<1>2. QED
  BY ONLY <1>1, Bounds DEF Clicks

LEMMA BecomeType ==
    ASSUME TypeOK, NEW s \in States \cup {"gone"}, NEW signal \in Signals, Become(s, signal)
    PROVE  /\ machine' \in States \cup {"gone"}
           /\ inbox' \in Seq(Signals \cup States \cup {"gone"})
           /\ moves' \in 0..2
<1>1. machine' \in States \cup {"gone"}
  BY DEF Become
<1>2. inbox' \in Seq(Signals \cup States \cup {"gone"})
  <2>1. inbox \in Seq(Signals \cup States \cup {"gone"}) /\ inbox' = Append(inbox, signal)
    BY DEF Become, TypeOK
  <2>2. QED
    BY <2>1
<1>3. moves' \in 0..2
  <2>1. moves \in 0..2 /\ moves' = IF moves = 2 THEN 2 ELSE moves + 1
    BY DEF Become, TypeOK
  <2>2. QED
    BY ONLY <2>1
<1>4. QED
  BY <1>1, <1>2, <1>3

LEMMA MachineType ==
    ASSUME TypeOK, Start \/ Stop \/ Suspend \/ Resume
    PROVE  /\ machine' \in States \cup {"gone"}
           /\ stopping' \in States \cup {"none"}
           /\ inbox' \in Seq(Signals \cup States \cup {"gone"})
           /\ moves' \in 0..2
<1>1. PICK s \in States \cup {"gone"}, signal \in Signals : Become(s, signal)
  BY DEF Start, Stop, Suspend, Resume, States, Signals
<1>2. stopping' \in States \cup {"none"}
  BY DEF Start, Stop, Suspend, Resume, TypeOK
<1>3. QED
  BY <1>1, <1>2, BecomeType

LEMMA AnswerType ==
    ASSUME TypeOK, NEW c \in Calls, calls[c] # Free, NEW answer \in {"ok", "error"},
           calls' = [calls EXCEPT ![c] =
               [method |-> calls[c].method, from |-> calls[c].from,
                restart |-> calls[c].restart, answer |-> answer]]
    PROVE  calls' \in [Calls -> Call \cup {Free}]
<1>1. calls \in [Calls -> Call \cup {Free}] /\ calls[c] \in Call
  BY DEF TypeOK
<1>2. /\ calls[c].method \in Methods
      /\ calls[c].from \in States
      /\ calls[c].restart \in 0..MaxClicks
  BY <1>1 DEF Call
<1>3. [method |-> calls[c].method, from |-> calls[c].from,
       restart |-> calls[c].restart, answer |-> answer] \in Call
  BY <1>2 DEF Call
<1>4. QED
  BY <1>1, <1>3

LEMMA HandleType ==
    ASSUME TypeOK, NEW S, Handle(S)
    PROVE  /\ inbox' \in Seq(Signals \cup States \cup {"gone"})
           /\ Head(inbox) \in Signals \cup States \cup {"gone"}
           /\ Head(inbox) \in S
<1>1. /\ inbox \in Seq(Signals \cup States \cup {"gone"})
      /\ inbox # <<>> /\ inbox' = Tail(inbox) /\ Head(inbox) \in S
  BY DEF TypeOK, Handle
<1>2. QED
  BY ONLY <1>1

(* Every variable has its type; in particular the spinner and the machine  *)
(* to restart are states that the machine can be in.                       *)
THEOREM TypeCorrect == Spec => []TypeOK
<1>1. Init => TypeOK
  <2> SUFFICES ASSUME Init PROVE TypeOK
    OBVIOUS
  <2>1. clicks \in 0..MaxClicks /\ outside \in 0..MaxOutside /\ asked \in Nat /\ moves \in 0..2
    <3>1. clicks = 0 /\ outside = 0 /\ asked = 0 /\ moves = 0
      BY DEF Init
    <3>2. QED
      BY ONLY <3>1, Bounds
  <2>2. started \in [Clicks -> Nat]
    <3>1. started = [i \in Clicks |-> 0]
      BY DEF Init
    <3>2. QED
      BY ONLY <3>1
  <2>3. calls \in [Calls -> Call \cup {Free}]
    BY DEF Init
  <2>4. machine \in States /\ state \in States
    <3>1. machine \in (IF persistent THEN States ELSE States \ {"shutoff"}) /\ state = machine
      BY DEF Init
    <3>2. QED
      BY <3>1
  <2>5. inbox \in Seq(Signals \cup States \cup {"gone"})
    <3>1. inbox = <<>>
      BY DEF Init
    <3>2. QED
      BY ONLY <3>1
  <2>6. QED
    BY <2>1, <2>2, <2>3, <2>4, <2>5 DEF Init, TypeOK
<1>2. TypeOK /\ [Next]_vars => TypeOK'
  <2> SUFFICES ASSUME TypeOK, [Next]_vars PROVE TypeOK'
    OBVIOUS
  <2>0. persistent' \in BOOLEAN
    BY DEF Next, vars, TypeOK
  <2>1. ASSUME NEW c \in Calls, vmStart(c) PROVE TypeOK'
    <3>1. state \in States /\ operation' \in States \cup {"none"}
      BY <2>1 DEF vmStart, startOperationProgress, TypeOK, States
    <3>2. calls' \in [Calls -> Call \cup {Free}]
      BY <2>1, <3>1, SendType, Members, Zenon DEF vmStart
    <3>3. clicks' \in 0..MaxClicks
      BY <2>1, ClickType DEF vmStart
    <3>4. moves' \in 0..2
      BY <2>1, Zero DEF vmStart, startOperationProgress
    <3>5. QED
      BY <2>0, <2>1, <3>1, <3>2, <3>3, <3>4 DEF vmStart, libvirt, TypeOK
  <2>2. CASE Visit
    BY <2>0, <2>2 DEF Visit, libvirt, row, history, TypeOK
  <2>3. ASSUME NEW c \in Calls, vmPauseOrResume(c) PROVE TypeOK'
    <3>1. calls' \in [Calls -> Call \cup {Free}]
      <4>1. state \in States
        BY <2>3 DEF vmPauseOrResume, States
      <4>2. Send(c, "Suspend", state, 0) \/ Send(c, "Resume", state, 0)
        BY <2>3 DEF vmPauseOrResume
      <4>3. QED
        BY <4>1, <4>2, SendType, Members, Zenon
    <3>2. clicks' \in 0..MaxClicks
      BY <2>3, ClickType DEF vmPauseOrResume
    <3>3. QED
      BY <2>0, <2>3, <3>1, <3>2 DEF vmPauseOrResume, libvirt, row, history, TypeOK
  <2>4. CASE OpenDialog \/ Cancel
    BY <2>0, <2>4 DEF OpenDialog, Cancel, libvirt, row, history, TypeOK, States
  <2>5. ASSUME NEW c \in Calls, vmShutdown(c) PROVE TypeOK'
    <3>1. dialog \in States /\ operation' \in States \cup {"none"} /\ dialog' = "none"
      BY <2>5 DEF vmShutdown, Confirm, startOperationProgress, TypeOK
    <3>2. calls' \in [Calls -> Call \cup {Free}]
      BY <2>5, <3>1, SendType, Bounds DEF vmShutdown, Methods
    <3>3. clicks' \in 0..MaxClicks
      BY <2>5, ClickType DEF vmShutdown, Confirm
    <3>4. moves' \in 0..2
      BY <2>5, Zero DEF vmShutdown, startOperationProgress
    <3>5. QED
      BY <2>0, <2>5, <3>1, <3>2, <3>3, <3>4 DEF vmShutdown, libvirt, TypeOK
  <2>6. ASSUME NEW c \in Calls, vmConfirmed(c) PROVE TypeOK'
    <3>1. dialog \in States /\ dialog' = "none"
      BY <2>6 DEF vmConfirmed, Confirm, TypeOK
    <3>2. calls' \in [Calls -> Call \cup {Free}]
      BY <2>6, <3>1, SendType, Bounds DEF vmConfirmed, Methods
    <3>3. clicks' \in 0..MaxClicks
      BY <2>6, ClickType DEF vmConfirmed, Confirm
    <3>4. QED
      BY <2>0, <2>6, <3>1, <3>2, <3>3 DEF vmConfirmed, libvirt, row, history, TypeOK
  <2>7. ASSUME NEW c \in Calls, onRestart(c) PROVE TypeOK'
    <3>1. dialog \in States /\ operation' \in States \cup {"none"} /\ dialog' = "none"
      BY <2>7 DEF onRestart, Confirm, startOperationProgress, TypeOK
    <3>2. clicks' \in 0..MaxClicks /\ clicks' \in Clicks
      BY <2>7, ClickType DEF onRestart, Confirm
    <3>3. calls' \in [Calls -> Call \cup {Free}]
      BY <2>7, <3>1, <3>2, SendType, Bounds DEF onRestart, Methods
    <3>4. listeners' \subseteq [id : Clicks, from : States]
      <4>1. listeners' = listeners \cup {[id |-> clicks', from |-> dialog]}
        BY <2>7 DEF onRestart
      <4>2. listeners \subseteq [id : Clicks, from : States]
        BY DEF TypeOK
      <4>3. QED
        BY ONLY <3>1, <3>2, <4>1, <4>2
    <3>5. moves' \in 0..2
      BY <2>7, Zero DEF onRestart, startOperationProgress
    <3>6. QED
      BY <2>0, <2>7, <3>1, <3>2, <3>3, <3>4, <3>5 DEF onRestart, libvirt, TypeOK
  <2>8. ASSUME NEW c \in Calls, CallReturns(c) PROVE TypeOK'
    BY <2>0, <2>8 DEF CallReturns, libvirt, row, history, TypeOK
  <2>9. ASSUME NEW c \in Calls, CallFails(c) PROVE TypeOK'
    <3>1. failed' \subseteq Clicks
      <4>1. calls[c].restart \in 0..MaxClicks
        BY <2>9 DEF CallFails, TypeOK, Call
      <4>2. failed \subseteq Clicks /\ failed' = failed \cup ({calls[c].restart} \ {0})
        BY <2>9 DEF CallFails, TypeOK
      <4>3. QED
        <5>1. calls[c].restart \in Clicks \/ calls[c].restart = 0
          BY ONLY <4>1, Bounds DEF Clicks
        <5>2. QED
          BY ONLY <4>2, <5>1
    <3>2. QED
      BY <2>0, <2>9, <3>1 DEF CallFails, libvirt, TypeOK
  <2>10. CASE HandleStarted
    <3>1. asked' \in Nat
      <4>1. asked \in Nat /\ asked' = asked + 1
        BY <2>10 DEF HandleStarted, TypeOK
      <4>2. QED
        BY ONLY <4>1
    <3>2. QED
      BY <2>0, <2>10, <3>1, HandleType DEF HandleStarted, libvirt, row, history, TypeOK
  <2>11. CASE HandleStopped
    <3>1. asked' \in Nat
      <4>1. asked \in Nat /\ asked' = asked + 1
        BY <2>11 DEF HandleStopped, TypeOK
      <4>2. QED
        BY ONLY <4>1
    <3>2. /\ calls' \in [Calls -> Call \cup {Free}]
          /\ started' \in [Clicks -> Nat]
          /\ operation' \in States \cup {"none"}
          /\ moves' \in 0..2
      BY <2>11, RestartAllType DEF HandleStopped
    <3>3. QED
      BY <2>0, <2>11, <3>1, <3>2, HandleType DEF HandleStopped, libvirt, TypeOK
  <2>12. CASE HandleSuspendedOrResumed
    <3>1. Head(inbox) \in {"SUSPENDED", "RESUMED"}
      BY <2>12, HandleType DEF HandleSuspendedOrResumed
    <3>2. state' \in States \cup {"unlisted"}
      BY <2>12, <3>1 DEF HandleSuspendedOrResumed, TypeOK, States
    <3>3. QED
      BY <2>0, <2>12, <3>2, HandleType DEF HandleSuspendedOrResumed, libvirt, history, TypeOK
  <2>13. CASE HandleRead
    <3>1. Head(inbox) \in States \cup {"gone"} /\ inbox' \in Seq(Signals \cup States \cup {"gone"})
      BY <2>13, HandleType DEF HandleRead
    <3>2. state' \in States \cup {"unlisted"} /\ operation' \in States \cup {"none"}
      BY <2>13, <3>1 DEF HandleRead, TypeOK
    <3>3. QED
      BY <2>0, <2>13, <3>1, <3>2 DEF HandleRead, libvirt, history, TypeOK
  <2>14. ASSUME NEW c \in Calls, Serve(c) PROVE TypeOK'
    <3>1. calls' \in [Calls -> Call \cup {Free}]
      BY <2>14, AnswerType DEF Serve
    <3>2. /\ machine' \in States \cup {"gone"}
          /\ stopping' \in States \cup {"none"}
          /\ inbox' \in Seq(Signals \cup States \cup {"gone"})
          /\ moves' \in 0..2
      <4>1. CASE UNCHANGED <<libvirt, inbox, moves>>
        BY <4>1 DEF libvirt, TypeOK
      <4>2. CASE Accept(calls[c])
        <5>1. CASE Start \/ Stop \/ Suspend \/ Resume
          BY <5>1, MachineType
        <5>2. CASE /\ stopping' = IF calls[c].method = "Shutdown" THEN calls[c].from ELSE stopping
                   /\ UNCHANGED <<machine, inbox, moves>>
          <6>1. calls[c].from \in States
            BY <2>14 DEF Serve, TypeOK, Call
          <6>2. QED
            BY <5>2, <6>1 DEF TypeOK
        <5>3. QED
          BY <4>2, <5>1, <5>2 DEF Accept
      <4>3. QED
        BY <2>14, <4>1, <4>2 DEF Serve
    <3>3. QED
      BY <2>0, <2>14, <3>1, <3>2 DEF Serve, row, TypeOK
  <2>15. ASSUME NEW c \in Calls, TimeOut(c) PROVE TypeOK'
    <3>1. calls' \in [Calls -> Call \cup {Free}]
      BY <2>15, AnswerType DEF TimeOut
    <3>2. QED
      BY <2>0, <2>15, <3>1 DEF TimeOut, libvirt, row, history, TypeOK
  <2>16. CASE GuestStops
    BY <2>0, <2>16, MachineType DEF GuestStops, row, TypeOK
  <2>17. CASE AnswerRead
    <3>1. asked' \in Nat
      <4>1. asked \in Nat /\ asked > 0 /\ asked' = asked - 1
        BY <2>17 DEF AnswerRead, TypeOK
      <4>2. QED
        BY ONLY <4>1
    <3>2. inbox' \in Seq(Signals \cup States \cup {"gone"})
      <4>1. /\ inbox \in Seq(Signals \cup States \cup {"gone"})
            /\ inbox' = Append(inbox, machine) /\ machine \in States \cup {"gone"}
        BY <2>17 DEF AnswerRead, TypeOK
      <4>2. QED
        BY ONLY <4>1
    <3>3. QED
      BY <2>0, <2>17, <3>1, <3>2 DEF AnswerRead, libvirt, row, history, TypeOK
  <2>18. CASE Outside
    <3>1. outside' \in 0..MaxOutside
      <4>1. outside \in 0..MaxOutside /\ outside < MaxOutside /\ outside' = outside + 1
        BY <2>18 DEF Outside, TypeOK
      <4>2. QED
        BY ONLY <4>1, Bounds
    <3>2. QED
      BY <2>0, <2>18, <3>1, MachineType DEF Outside, row, TypeOK
  <2>19. CASE UNCHANGED vars
    BY <2>19 DEF vars, libvirt, row, history, TypeOK
  <2>20. QED
    BY <2>1, <2>2, <2>3, <2>4, <2>5, <2>6, <2>7, <2>8, <2>9, <2>10, <2>11, <2>12, <2>13, <2>14,
       <2>15, <2>16, <2>17, <2>18, <2>19 DEF Next, User, Page, Libvirt
<1>3. QED
  BY <1>1, <1>2, PTL DEF Spec

-----------------------------------------------------------------------------
(* A click that has not been made yet has started nothing and failed at    *)
(* nothing.  A restart that waits has not started the machine, and has not *)
(* failed; only a shutdown or a "force off" can belong to a restart.       *)
RestartIsFresh ==
    /\ \A i \in Clicks : started[i] <= 1
    /\ \A i \in Clicks : i > clicks => started[i] = 0
    /\ \A i \in failed : i <= clicks
    /\ \A l \in listeners : l.id <= clicks /\ started[l.id] = 0 /\ l.id \notin failed
    /\ \A c \in Calls : calls[c] # Free => calls[c].restart <= clicks

OnlyStopsRestart ==
    \A c \in Calls : calls[c] # Free /\ calls[c].restart # 0
                         => calls[c].method \in {"Shutdown", "Destroy"}

(* While the machine is off and no news of a stop is on its way, a restart *)
(* that waits has a call that libvirt has not accepted, and will not.      *)
StopIsNews == \E i \in 1..Len(inbox) : inbox[i] = "STOPPED"

RestartIsAsked ==
    machine \notin {"running", "paused"} /\ ~StopIsNews
        => \A l \in listeners : \E c \in Calls :
               calls[c] # Free /\ calls[c].restart = l.id /\ calls[c].answer # "ok"

RestartInv == RestartIsFresh /\ OnlyStopsRestart /\ RestartIsAsked

(* What each step does to the clicks, the calls and the restarts.          *)
Quiet == UNCHANGED <<listeners, started, failed, calls, clicks>>

Asks(c, restart) ==
    /\ calls[c] = Free
    /\ \E method \in Methods, from \in States :
           /\ restart # 0 => method \in {"Shutdown", "Destroy"}
           /\ calls' = [calls EXCEPT ![c] = NewCall(method, from, restart)]

ClicksOn(c) ==
    /\ clicks' = clicks + 1
    /\ Asks(c, 0)
    /\ UNCHANGED <<listeners, started, failed, machine, inbox>>

Restarts(c) ==
    /\ clicks' = clicks + 1
    /\ clicks' \in Clicks
    /\ Asks(c, clicks')
    /\ \E from \in States : listeners' = listeners \cup {[id |-> clicks', from |-> from]}
    /\ UNCHANGED <<started, failed, machine, inbox>>

Gets(c, answer) ==
    /\ calls[c] # Free
    /\ calls' = [calls EXCEPT ![c] =
           [method |-> calls[c].method, from |-> calls[c].from,
            restart |-> calls[c].restart, answer |-> answer]]
    /\ UNCHANGED <<listeners, started, failed, clicks>>

LEMMA UserEffects ==
    ASSUME TypeOK, User
    PROVE  OpenDialog \/ Cancel \/ Visit \/ \E c \in Calls : ClicksOn(c) \/ Restarts(c)
<1>1. ASSUME NEW c \in Calls, vmStart(c) PROVE ClicksOn(c)
  <2>1. state \in States
    BY <1>1 DEF vmStart, States
  <2>2. Asks(c, 0)
    BY <1>1, <2>1, Members DEF vmStart, Asks, Send
  <2>3. QED
    BY <1>1, <2>2 DEF vmStart, ClicksOn, Click, libvirt
<1>2. ASSUME NEW c \in Calls, vmPauseOrResume(c) PROVE ClicksOn(c)
  <2>1. state \in States
    BY <1>2 DEF vmPauseOrResume, States
  <2>2. Asks(c, 0)
    BY <1>2, <2>1, Members DEF vmPauseOrResume, Asks, Send
  <2>3. QED
    BY <1>2, <2>2 DEF vmPauseOrResume, ClicksOn, Click, libvirt, history
<1>3. ASSUME NEW c \in Calls, vmShutdown(c) PROVE ClicksOn(c)
  <2>1. dialog \in States
    BY <1>3 DEF vmShutdown, Confirm, TypeOK
  <2>2. Asks(c, 0)
    BY <1>3, <2>1, Members DEF vmShutdown, Asks, Send
  <2>3. QED
    BY <1>3, <2>2 DEF vmShutdown, Confirm, ClicksOn, Click, libvirt
<1>4. ASSUME NEW c \in Calls, vmConfirmed(c) PROVE ClicksOn(c)
  <2>1. dialog \in States
    BY <1>4 DEF vmConfirmed, Confirm, TypeOK
  <2>2. Asks(c, 0)
    BY <1>4, <2>1, Members DEF vmConfirmed, Asks, Send
  <2>3. QED
    BY <1>4, <2>2 DEF vmConfirmed, Confirm, ClicksOn, Click, libvirt, history
<1>5. ASSUME NEW c \in Calls, onRestart(c) PROVE Restarts(c)
  <2>1. dialog \in States
    BY <1>5 DEF onRestart, Confirm, TypeOK
  <2>2. Asks(c, clicks')
    BY <1>5, <2>1, Members DEF onRestart, Asks, Send
  <2>3. clicks' \in Clicks /\ clicks' = clicks + 1
    BY <1>5, ClickType DEF onRestart, Confirm
  <2>4. QED
    BY <1>5, <2>1, <2>2, <2>3 DEF onRestart, Restarts, libvirt
<1>6. QED
  BY <1>1, <1>2, <1>3, <1>4, <1>5 DEF User

LEMMA StepEffects ==
    ASSUME TypeOK, [Next]_vars
    PROVE  \/ Quiet
           \/ HandleStopped
           \/ \E c \in Calls :
                  \/ ClicksOn(c) \/ Restarts(c) \/ CallReturns(c) \/ CallFails(c)
                  \/ \E answer \in {"ok", "error"} : Gets(c, answer)
<1>1. ASSUME NEW c \in Calls, Serve(c) PROVE \E answer \in {"ok", "error"} : Gets(c, answer)
  BY <1>1 DEF Serve, Gets
<1>2. ASSUME NEW c \in Calls, TimeOut(c) PROVE Gets(c, "error")
  BY <1>2 DEF TimeOut, Gets, history
<1>3. CASE \/ Visit \/ OpenDialog \/ Cancel
           \/ HandleStarted \/ HandleSuspendedOrResumed \/ HandleRead
           \/ GuestStops \/ AnswerRead \/ Outside
  BY <1>3 DEF Visit, OpenDialog, Cancel, HandleStarted, HandleSuspendedOrResumed, HandleRead,
              GuestStops, AnswerRead, Outside, history, Quiet
<1>4. CASE UNCHANGED vars
  BY <1>4 DEF vars, history, Quiet
<1>5. QED
  BY <1>1, <1>2, <1>3, <1>4, UserEffects DEF Next, Page, Libvirt

LEMMA OnlyStopsGoOn ==
    ASSUME TypeOK, OnlyStopsRestart, [Next]_vars
    PROVE  OnlyStopsRestart'
<1> USE DEF OnlyStopsRestart
<1>1. CASE Quiet
  BY <1>1 DEF Quiet
<1>2. CASE HandleStopped
  BY <1>2 DEF HandleStopped, RestartAll, NewCall
<1>3. ASSUME NEW c \in Calls, NEW r, Asks(c, r) PROVE OnlyStopsRestart'
  <2>1. PICK method \in Methods, from \in States :
            /\ r # 0 => method \in {"Shutdown", "Destroy"}
            /\ calls' = [calls EXCEPT ![c] = NewCall(method, from, r)]
    BY <1>3 DEF Asks
  <2>2. QED
    BY <2>1 DEF NewCall, TypeOK
<1>4. ASSUME NEW c \in Calls, CallReturns(c) \/ CallFails(c) PROVE OnlyStopsRestart'
  BY <1>4 DEF CallReturns, CallFails, TypeOK
<1>5. ASSUME NEW c \in Calls, NEW answer, Gets(c, answer) PROVE OnlyStopsRestart'
  BY <1>5 DEF Gets, TypeOK
<1>6. QED
  BY <1>1, <1>2, <1>3, <1>4, <1>5, StepEffects DEF ClicksOn, Restarts

LEMMA FreshStaysFresh ==
    ASSUME TypeOK, RestartIsFresh, [Next]_vars
    PROVE  RestartIsFresh'
<1>0. /\ clicks \in Nat /\ MaxClicks \in Nat
      /\ failed \subseteq Nat
      /\ started \in [Clicks -> Nat]
      /\ listeners \subseteq [id : Clicks, from : States]
      /\ Clicks \subseteq Nat \ {0}
      /\ calls \in [Calls -> Call \cup {Free}]
      /\ \A c \in Calls : calls[c] # Free => calls[c].restart \in Nat
  <2>1. /\ clicks \in 0..MaxClicks
        /\ failed \subseteq Clicks
        /\ started \in [Clicks -> Nat]
        /\ listeners \subseteq [id : Clicks, from : States]
        /\ calls \in [Calls -> Call \cup {Free}]
    BY DEF TypeOK
  <2>2. Clicks \subseteq Nat \ {0} /\ 0..MaxClicks \subseteq Nat
    BY ONLY Bounds DEF Clicks
  <2>3. \A c \in Calls : calls[c] # Free => calls[c].restart \in Nat
    BY <2>1, <2>2 DEF Call
  <2>4. QED
    BY <2>1, <2>2, <2>3, Bounds
<1>1. CASE Quiet
  BY <1>1 DEF Quiet, RestartIsFresh
<1>2. CASE HandleStopped
  <2>1. /\ listeners' = {}
        /\ UNCHANGED <<failed, clicks>>
        /\ started' = [i \in Clicks |->
                          IF \E l \in listeners : l.id = i THEN started[i] + 1 ELSE started[i]]
    BY <1>2 DEF HandleStopped, RestartAll
  <2>2. \A i \in Clicks : started'[i] <= 1 /\ (i > clicks => started'[i] = 0)
    BY <1>0, <2>1 DEF RestartIsFresh
  <2>3. \A c \in Calls : calls'[c] # Free => calls'[c].restart <= clicks
    <3>1. ASSUME NEW c \in Calls PROVE calls'[c] = calls[c] \/ calls'[c].restart = 0
      BY <1>2 DEF HandleStopped, RestartAll, NewCall
    <3>2. QED
      BY <1>0, <3>1 DEF RestartIsFresh
  <2>4. QED
    BY <2>1, <2>2, <2>3 DEF RestartIsFresh
<1>3. ASSUME NEW c \in Calls, NEW r \in Nat, Asks(c, r), clicks' = clicks + 1, r <= clicks'
      PROVE  \A d \in Calls : calls'[d] # Free => calls'[d].restart <= clicks'
  <2>1. calls'[c].restart = r /\ \A d \in Calls : d # c => calls'[d] = calls[d]
    BY <1>0, <1>3 DEF Asks, NewCall
  <2>2. QED
    BY <1>0, <1>3, <2>1 DEF RestartIsFresh
<1>4. ASSUME NEW c \in Calls, ClicksOn(c) PROVE RestartIsFresh'
  <2>1. \A d \in Calls : calls'[d] # Free => calls'[d].restart <= clicks'
    BY <1>0, <1>3, <1>4 DEF ClicksOn
  <2>2. clicks' = clicks + 1 /\ UNCHANGED <<listeners, started, failed>>
    BY <1>4 DEF ClicksOn
  <2>3. \A n \in Nat : n <= clicks => n <= clicks'
    BY <1>0, <2>2
  <2>4. \A i \in Clicks : i > clicks' => i > clicks
    BY <1>0, <2>2
  <2>5. QED
    BY <1>0, <2>1, <2>2, <2>3, <2>4 DEF RestartIsFresh
<1>5. ASSUME NEW c \in Calls, Restarts(c) PROVE RestartIsFresh'
  <2>1. PICK from \in States : listeners' = listeners \cup {[id |-> clicks', from |-> from]}
    BY <1>5 DEF Restarts
  <2>2. clicks' = clicks + 1 /\ clicks' \in Clicks /\ UNCHANGED <<started, failed>>
    BY <1>5 DEF Restarts
  <2>3. \A d \in Calls : calls'[d] # Free => calls'[d].restart <= clicks'
    BY <1>0, <1>3, <1>5, <2>2 DEF Restarts
  <2>4. \A l \in listeners' : l.id <= clicks' /\ started[l.id] = 0 /\ l.id \notin failed
    <3>1. ASSUME NEW l \in listeners PROVE l.id <= clicks' /\ started[l.id] = 0 /\ l.id \notin failed
      <4>1. l.id \in Nat /\ l.id <= clicks /\ started[l.id] = 0 /\ l.id \notin failed
        BY <1>0 DEF RestartIsFresh
      <4>2. l.id <= clicks'
        BY ONLY <1>0, <2>2, <4>1
      <4>3. QED
        BY <4>1, <4>2
    <3>2. clicks' <= clicks' /\ started[clicks'] = 0 /\ clicks' \notin failed
      <4>1. clicks' > clicks /\ clicks' \in Nat
        BY <1>0, <2>2
      <4>2. QED
        BY <1>0, <2>2, <4>1 DEF RestartIsFresh
    <3>3. QED
      BY <2>1, <3>1, <3>2
  <2>5. QED
    BY <1>0, <2>2, <2>3, <2>4 DEF RestartIsFresh
<1>6. ASSUME NEW c \in Calls, CallReturns(c) PROVE RestartIsFresh'
  BY <1>0, <1>6 DEF CallReturns, history, RestartIsFresh
<1>7. ASSUME NEW c \in Calls, CallFails(c) PROVE RestartIsFresh'
  <2>1. /\ listeners' = {l \in listeners : l.id # calls[c].restart}
        /\ failed' = failed \cup ({calls[c].restart} \ {0})
        /\ calls' = [calls EXCEPT ![c] = Free]
        /\ UNCHANGED <<started, clicks>>
        /\ calls[c].restart <= clicks
    BY <1>7 DEF CallFails, RestartIsFresh
  <2>2. QED
    BY <1>0, <2>1 DEF RestartIsFresh
<1>8. ASSUME NEW c \in Calls, NEW answer, Gets(c, answer) PROVE RestartIsFresh'
  <2>1. \A d \in Calls : calls'[d] # Free => calls[d] # Free /\ calls'[d].restart = calls[d].restart
    BY <1>0, <1>8 DEF Gets
  <2>2. UNCHANGED <<listeners, started, failed, clicks>>
    BY <1>8 DEF Gets
  <2>3. QED
    BY <2>1, <2>2 DEF RestartIsFresh
<1>9. QED
  BY <1>1, <1>2, <1>4, <1>5, <1>6, <1>7, <1>8, StepEffects

(* News of a stop stays until it is handled.                               *)
LEMMA NewsIsKept ==
    ASSUME TypeOK, NEW x, inbox' = Append(inbox, x)
    PROVE  (StopIsNews => StopIsNews') /\ (x = "STOPPED" => StopIsNews')
<1>1. /\ inbox \in Seq(Signals \cup States \cup {"gone"})
      /\ Len(inbox') = Len(inbox) + 1
      /\ \A i \in 1..Len(inbox) : inbox'[i] = inbox[i]
      /\ inbox'[Len(inbox) + 1] = x
  <2>1. inbox \in Seq(Signals \cup States \cup {"gone"}) /\ inbox' = Append(inbox, x)
    BY DEF TypeOK
  <2>2. QED
    BY ONLY <2>1
<1>2. Len(inbox) + 1 \in 1..Len(inbox') /\ 1..Len(inbox) \subseteq 1..Len(inbox')
  BY <1>1
<1>3. QED
  BY <1>1, <1>2 DEF StopIsNews

LEMMA NewsIsNotLost ==
    ASSUME TypeOK, NEW S, Handle(S), "STOPPED" \notin S
    PROVE  StopIsNews => StopIsNews'
<1> SUFFICES ASSUME NEW i \in 1..Len(inbox), inbox[i] = "STOPPED"
             PROVE  StopIsNews'
  BY DEF StopIsNews
<1>1. /\ inbox \in Seq(Signals \cup States \cup {"gone"})
      /\ inbox # <<>> /\ inbox' = Tail(inbox) /\ inbox[1] \in S
  <2>1. /\ inbox \in Seq(Signals \cup States \cup {"gone"})
        /\ inbox # <<>> /\ inbox' = Tail(inbox) /\ Head(inbox) \in S
    BY DEF TypeOK, Handle
  <2>2. QED
    BY ONLY <2>1
<1>2. i # 1
  BY <1>1
<1>3. i - 1 \in 1..Len(inbox') /\ inbox'[i - 1] = inbox[i]
  BY ONLY <1>1, <1>2, i \in 1..Len(inbox)
<1>4. QED
  BY <1>3 DEF StopIsNews

(* A machine that has just stopped is news.                                *)
LEMMA StopIsAnnounced ==
    ASSUME TypeOK, Start \/ Stop \/ Suspend \/ Resume
    PROVE  machine' \in {"running", "paused"} \/ StopIsNews'
<1>1. CASE Stop
  BY <1>1, NewsIsKept DEF Stop, Become
<1>2. CASE Start \/ Suspend \/ Resume
  BY <1>2 DEF Start, Suspend, Resume, Become
<1>3. QED
  BY <1>1, <1>2

(* The calls that restarts wait for are left alone.                        *)
StillAsked ==
    \A l \in listeners' : \E c \in Calls :
        calls'[c] # Free /\ calls'[c].restart = l.id /\ calls'[c].answer # "ok"

NotStopped == machine \notin {"running", "paused"} /\ ~StopIsNews

LEMMA AskedStaysAsked ==
    ASSUME TypeOK, OnlyStopsRestart, RestartIsAsked, [Next]_vars
    PROVE  RestartIsAsked'
<1> SUFFICES ASSUME NotStopped' PROVE StillAsked
  BY DEF RestartIsAsked, NotStopped, StillAsked
<1>0. /\ calls \in [Calls -> Call \cup {Free}]
      /\ listeners \subseteq [id : Clicks, from : States]
      /\ Clicks \subseteq Nat \ {0}
  <2>1. Clicks \subseteq Nat \ {0}
    BY ONLY DEF Clicks
  <2>2. QED
    BY <2>1 DEF TypeOK
<1>1. ASSUME NEW c \in Calls, ClicksOn(c) PROVE StillAsked
  <2>1. NotStopped
    BY <1>1 DEF ClicksOn, NotStopped, StopIsNews
  <2>2. \A d \in Calls : calls[d] # Free => calls'[d] = calls[d]
    BY <1>0, <1>1 DEF ClicksOn, Asks
  <2>3. QED
    BY <1>1, <2>1, <2>2 DEF ClicksOn, RestartIsAsked, NotStopped, StillAsked
<1>2. ASSUME NEW c \in Calls, Restarts(c) PROVE StillAsked
  <2>1. NotStopped
    BY <1>2 DEF Restarts, NotStopped, StopIsNews
  <2>2. \A d \in Calls : calls[d] # Free => calls'[d] = calls[d]
    BY <1>0, <1>2 DEF Restarts, Asks
  <2>3. \A l \in listeners : \E d \in Calls :
            calls'[d] # Free /\ calls'[d].restart = l.id /\ calls'[d].answer # "ok"
    BY <2>1, <2>2 DEF RestartIsAsked, NotStopped
  <2>4. calls'[c] # Free /\ calls'[c].restart = clicks' /\ calls'[c].answer # "ok"
    <3>1. PICK method \in Methods, from \in States :
              calls' = [calls EXCEPT ![c] = NewCall(method, from, clicks')]
      BY <1>2 DEF Restarts, Asks
    <3>2. clicks' \in 0..MaxClicks
      BY <1>2, Bounds DEF Restarts, Clicks
    <3>3. QED
      BY <1>0, <3>1, <3>2, NewCallType, FreeIsNoCall DEF NewCall
  <2>5. \A l \in listeners' : l \in listeners \/ l.id = clicks'
    BY <1>2 DEF Restarts
  <2>6. QED
    BY <2>3, <2>4, <2>5 DEF StillAsked
<1>3. ASSUME NEW c \in Calls, CallReturns(c) PROVE StillAsked
  <2>1. NotStopped /\ listeners' = listeners
    BY <1>3 DEF CallReturns, libvirt, NotStopped, StopIsNews
  <2>2. \A d \in Calls : calls[d].answer # "ok" => calls'[d] = calls[d]
    BY <1>0, <1>3 DEF CallReturns
  <2>3. QED
    BY <2>1, <2>2 DEF RestartIsAsked, NotStopped, StillAsked
<1>4. ASSUME NEW c \in Calls, CallFails(c) PROVE StillAsked
  <2>1. NotStopped /\ listeners' = {l \in listeners : l.id # calls[c].restart}
    BY <1>4 DEF CallFails, libvirt, NotStopped, StopIsNews
  <2>2. \A d \in Calls : calls[d].restart # calls[c].restart => calls'[d] = calls[d]
    BY <1>0, <1>4 DEF CallFails
  <2>3. QED
    BY <2>1, <2>2 DEF RestartIsAsked, NotStopped, StillAsked
<1>5. CASE HandleStopped
  BY <1>5 DEF HandleStopped, StillAsked
<1>6. CASE HandleStarted \/ HandleSuspendedOrResumed \/ HandleRead
  <2>1. "STOPPED" \notin States
    BY DEF States
  <2>2. StopIsNews => StopIsNews'
    BY <1>6, <2>1, NewsIsNotLost DEF HandleStarted, HandleSuspendedOrResumed, HandleRead
  <2>3. NotStopped /\ UNCHANGED <<listeners, calls>>
    BY <1>6, <2>2 DEF HandleStarted, HandleSuspendedOrResumed, HandleRead, libvirt, NotStopped
  <2>4. QED
    BY <2>3 DEF RestartIsAsked, NotStopped, StillAsked
<1>7. ASSUME NEW c \in Calls, Serve(c) PROVE StillAsked
  <2>1. CASE Accept(calls[c])
    <3>1. machine' \in {"running", "paused"} \/ StopIsNews'
      <4>1. CASE Start \/ Stop \/ Suspend \/ Resume
        BY <4>1, StopIsAnnounced
      <4>2. CASE machine \in {"running", "paused"} /\ machine' = machine
        BY <4>2
      <4>3. QED
        BY <2>1, <4>1, <4>2 DEF Accept
    <3>2. QED
      BY <3>1 DEF NotStopped
  <2>2. CASE ~Accept(calls[c])
    <3>1. /\ UNCHANGED <<libvirt, inbox, listeners>>
          /\ calls' = [calls EXCEPT ![c] =
                 [method |-> calls[c].method, from |-> calls[c].from,
                  restart |-> calls[c].restart, answer |-> "error"]]
      BY <1>7, <2>2 DEF Serve
    <3>2. NotStopped
      BY <3>1 DEF libvirt, NotStopped, StopIsNews
    <3>3. calls' \in [Calls -> Call \cup {Free}]
      BY <1>7, AnswerType DEF Serve
    <3>4. \A d \in Calls : calls[d] # Free /\ calls[d].answer # "ok"
              => calls'[d] # Free /\ calls'[d].restart = calls[d].restart /\ calls'[d].answer # "ok"
      <4>1. calls'[c] # Free
        BY <1>7, <3>1, FreeIsNoCall, <1>0 DEF Serve, Call
      <4>2. QED
        BY <1>0, <3>1, <4>1
    <3>5. QED
      BY <3>1, <3>2, <3>4 DEF RestartIsAsked, NotStopped, StillAsked
  <2>3. QED
    BY <2>1, <2>2
<1>8. ASSUME NEW c \in Calls, TimeOut(c) PROVE StillAsked
  <2>1. NotStopped /\ listeners' = listeners
    BY <1>8 DEF TimeOut, libvirt, NotStopped, StopIsNews
  <2>2. \A d \in Calls : calls[d].answer # "ok" => calls'[d] = calls[d]
    BY <1>0, <1>8 DEF TimeOut
  <2>3. QED
    BY <2>1, <2>2 DEF RestartIsAsked, NotStopped, StillAsked
<1>9. CASE GuestStops
  BY <1>9, StopIsAnnounced DEF GuestStops, NotStopped
<1>10. CASE Outside
  BY <1>10, StopIsAnnounced DEF Outside, NotStopped
<1>11. CASE AnswerRead
  <2>1. StopIsNews => StopIsNews'
    BY <1>11, NewsIsKept DEF AnswerRead
  <2>2. NotStopped /\ UNCHANGED <<listeners, calls>>
    BY <1>11, <2>1 DEF AnswerRead, libvirt, NotStopped
  <2>3. QED
    BY <2>2 DEF RestartIsAsked, NotStopped, StillAsked
<1>12. CASE Visit \/ OpenDialog \/ Cancel \/ UNCHANGED vars
  BY <1>12 DEF Visit, OpenDialog, Cancel, vars, libvirt, RestartIsAsked, NotStopped, StillAsked,
               StopIsNews
<1>13. QED
  BY <1>1, <1>2, <1>3, <1>4, <1>5, <1>6, <1>7, <1>8, <1>9, <1>10, <1>11, <1>12, UserEffects
  DEF Next, Page, Libvirt

(* The inductive invariant of restarts: clicks are told apart by their     *)
(* names, and a restart that waits has not been answered by the machine.   *)
THEOREM RestartInvariant == Spec => []RestartInv
<1>1. Init => RestartInv
  <2> SUFFICES ASSUME Init PROVE RestartInv
    OBVIOUS
  <2>1. /\ clicks = 0 /\ listeners = {} /\ failed = {}
        /\ started = [i \in Clicks |-> 0]
        /\ \A c \in Calls : calls[c] = Free
    BY DEF Init
  <2>2. RestartIsFresh
    BY ONLY <2>1 DEF RestartIsFresh
  <2>3. OnlyStopsRestart /\ RestartIsAsked
    BY <2>1 DEF OnlyStopsRestart, RestartIsAsked
  <2>4. QED
    BY <2>2, <2>3 DEF RestartInv
<1>2. TypeOK /\ RestartInv /\ [Next]_vars => RestartInv'
  BY FreshStaysFresh, OnlyStopsGoOn, AskedStaysAsked DEF RestartInv
<1>3. QED
  BY <1>1, <1>2, TypeCorrect, PTL DEF Spec

(* However the clicks, the signals and the replies follow each other, a    *)
(* restart that is waiting for the machine to stop has not missed it: the  *)
(* listener is there before the call, and goes with a call that fails.     *)
THEOREM NoRestartIsEverLost == Spec => []NoRestartIsLost
<1>1. RestartInv => NoRestartIsLost
  BY DEF RestartInv, RestartIsAsked, StopIsNews, NoRestartIsLost
<1>2. QED
  BY <1>1, RestartInvariant, PTL

(* A restart starts the machine at most once.                              *)
THEOREM RestartsStartOnce == Spec => []RestartsOnce
<1>1. RestartInv => RestartsOnce
  BY DEF RestartInv, RestartIsFresh, RestartsOnce
<1>2. QED
  BY <1>1, RestartInvariant, PTL

(* A restart whose shutdown was refused does not start the machine when    *)
(* that stops later, for another reason.                                   *)
THEOREM FailedRestartsAreOver == Spec => FailedRestartIsOver
<1>1. TypeOK /\ RestartInv /\ [Next]_vars => [\A i \in failed : started'[i] = started[i]]_vars
  <2> SUFFICES ASSUME TypeOK, RestartInv, [Next]_vars, NEW i \in failed
               PROVE  started'[i] = started[i]
    OBVIOUS
  <2>1. CASE HandleStopped
    <3>1. i \in Clicks /\ ~ \E l \in listeners : l.id = i
      BY DEF TypeOK, RestartInv, RestartIsFresh
    <3>2. QED
      BY <2>1, <3>1 DEF HandleStopped, RestartAll
  <2>2. CASE UNCHANGED started
    BY <2>2
  <2>3. QED
    BY <2>1, <2>2, StepEffects DEF Quiet, ClicksOn, Restarts, CallReturns, CallFails, Gets, history
<1>2. QED
  BY <1>1, TypeCorrect, RestartInvariant, PTL DEF Spec, FailedRestartIsOver

-----------------------------------------------------------------------------
(* The row follows the machine: a read is on its way, or what was heard    *)
(* last agrees with the machine as it is, or all has been heard and the    *)
(* row shows it.                                                           *)
IsCurrent(news) ==
    /\ news = "SUSPENDED" => machine = "paused"
    /\ news = "RESUMED" => machine = "running"
    /\ news \in States \cup {"gone"} => news = machine

RowIsCurrent == state = IF machine = "gone" THEN "unlisted" ELSE machine

RowFollows ==
    \/ asked > 0
    \/ inbox # <<>> /\ IsCurrent(inbox[Len(inbox)])
    \/ inbox = <<>> /\ RowIsCurrent

(* A machine that is gone stays away, and its row had no spinner.          *)
GoneIsGone ==
    /\ state = "unlisted" => machine = "gone" /\ operation = "none"
    /\ \A i \in 1..Len(inbox) : inbox[i] = "gone" => machine = "gone"

DialogIsOfRunning == dialog \in {"none", "running", "paused"}

(* While no restart has started the machine, a spinner has its reason: a   *)
(* call that libvirt has not served and that would end it, or has refused  *)
(* to serve; a guest that was asked to shut down; or the machine has left  *)
(* the state in which the operation began.                                 *)
NoneRestarted == \A i \in Clicks : started[i] = 0

Unserved(c) ==
    /\ calls[c] # Free
    /\ calls[c].answer = "none"
    /\ \/ calls[c].method = "Create" /\ operation \in {"shutoff", "paused"}
       \/ calls[c].method \in {"Shutdown", "Destroy"} /\ operation \in {"running", "paused"}

Refused(c) ==
    /\ calls[c] # Free
    /\ calls[c].answer = "error"
    /\ calls[c].method \in {"Create", "Shutdown", "Destroy"}

Pending == \E c \in Calls : Unserved(c) \/ Refused(c)

HasMoved ==
    \/ stopping # "none" /\ operation # "shutoff"
    \/ moves = 2
    \/ moves = 1 /\ machine # operation

OperationEnds == operation # "none" /\ NoneRestarted => Pending \/ HasMoved

SpinnerInv == RowFollows /\ GoneIsGone /\ DialogIsOfRunning /\ OperationEnds

(* Something is sent to the page, or the page handles the first of it.     *)
LEMMA SentIsLast ==
    ASSUME TypeOK, NEW x, inbox' = Append(inbox, x)
    PROVE  /\ inbox' # <<>> /\ inbox'[Len(inbox')] = x
           /\ \A i \in 1..Len(inbox') : inbox'[i] = x \/ (i \in 1..Len(inbox) /\ inbox'[i] = inbox[i])
<1>1. inbox \in Seq(Signals \cup States \cup {"gone"}) /\ inbox' = Append(inbox, x)
  BY DEF TypeOK
<1>2. /\ Len(inbox) \in Nat /\ Len(inbox') = Len(inbox) + 1
      /\ \A i \in 1..Len(inbox) : inbox'[i] = inbox[i]
      /\ inbox'[Len(inbox) + 1] = x
  BY ONLY <1>1
<1>3. inbox' # <<>>
  BY ONLY <1>2
<1>4. \A i \in 1..Len(inbox') : i = Len(inbox) + 1 \/ i \in 1..Len(inbox)
  BY ONLY <1>2
<1>5. inbox'[Len(inbox')] = x
  BY ONLY <1>2, Zenon
<1>6. ASSUME NEW i \in 1..Len(inbox')
      PROVE  inbox'[i] = x \/ (i \in 1..Len(inbox) /\ inbox'[i] = inbox[i])
  BY ONLY <1>2, <1>4, <1>6
<1>7. QED
  BY ONLY <1>3, <1>5, <1>6, Zenon

LEMMA HandledIsFirst ==
    ASSUME TypeOK, NEW S, Handle(S)
    PROVE  /\ inbox # <<>> /\ Head(inbox) = inbox[1] /\ 1 \in 1..Len(inbox)
           /\ inbox' # <<>> => inbox'[Len(inbox')] = inbox[Len(inbox)]
           /\ inbox' = <<>> => Head(inbox) = inbox[Len(inbox)]
           /\ \A i \in 1..Len(inbox') : i + 1 \in 1..Len(inbox) /\ inbox'[i] = inbox[i + 1]
<1>1. /\ inbox \in Seq(Signals \cup States \cup {"gone"})
      /\ inbox # <<>> /\ inbox' = Tail(inbox)
  BY DEF TypeOK, Handle
<1>2. /\ Len(inbox) \in Nat \ {0} /\ Len(inbox') = Len(inbox) - 1 /\ Head(inbox) = inbox[1]
      /\ \A i \in 1..Len(inbox') : inbox'[i] = inbox[i + 1]
  BY ONLY <1>1
<1>3. inbox' = <<>> => Len(inbox) = 1
  <2>1. inbox' = <<>> => Len(inbox') = 0
    BY ONLY Len(<<>>) = 0
  <2>2. QED
    BY ONLY <1>2, <2>1
<1>4. inbox' # <<>> => inbox'[Len(inbox')] = inbox[Len(inbox)]
  <2>1. inbox' # <<>> => Len(inbox') > 0
    BY ONLY <1>1
  <2>2. QED
    BY ONLY <1>2, <2>1
<1>5. 1 \in 1..Len(inbox) /\ \A i \in 1..Len(inbox') : i + 1 \in 1..Len(inbox)
  BY ONLY <1>2
<1>6. QED
  BY ONLY <1>1, <1>2, <1>3, <1>4, <1>5

LEMMA Distinct ==
    /\ "gone" \notin States /\ "none" \notin States /\ "unlisted" \notin States
    /\ Signals \cap States = {} /\ "gone" \notin Signals
BY DEF States, Signals

(* What happens to the machine is sent, and agrees with it.                *)
LEMMA MovesAreSent ==
    ASSUME TypeOK, Start \/ Stop \/ Suspend \/ Resume
    PROVE  \E signal \in Signals :
               /\ inbox' = Append(inbox, signal)
               /\ IsCurrent(signal)'
               /\ machine # "gone"
BY Distinct DEF Start, Stop, Suspend, Resume, Become, IsCurrent, Signals, States

LEMMA RowKeepsFollowing ==
    ASSUME TypeOK, RowFollows, GoneIsGone, [Next]_vars
    PROVE  RowFollows'
<1>1. CASE UNCHANGED <<machine, inbox, asked, state>>
  BY <1>1 DEF RowFollows, RowIsCurrent, IsCurrent
<1>2. CASE (Start \/ Stop \/ Suspend \/ Resume) /\ UNCHANGED <<asked, state>>
  <2>1. PICK signal \in Signals : inbox' = Append(inbox, signal) /\ IsCurrent(signal)'
    BY <1>2, MovesAreSent
  <2>2. QED
    BY <2>1, SentIsLast DEF RowFollows, IsCurrent
<1>3. CASE AnswerRead
  <2>1. inbox' = Append(inbox, machine) /\ machine' = machine
    BY <1>3 DEF AnswerRead, libvirt
  <2>2. IsCurrent(machine)'
    BY <2>1, Distinct DEF TypeOK, IsCurrent, States
  <2>3. QED
    BY <2>1, <2>2, SentIsLast DEF RowFollows, IsCurrent
<1>4. CASE HandleStarted \/ HandleStopped
  <2>1. asked \in Nat /\ asked' = asked + 1
    BY <1>4 DEF HandleStarted, HandleStopped, TypeOK
  <2>2. asked' > 0
    BY ONLY <2>1
  <2>3. QED
    BY <2>2 DEF RowFollows
<1>5. ASSUME NEW S, Handle(S), UNCHANGED <<machine, asked>>, IsCurrent(Head(inbox)) => RowIsCurrent'
      PROVE  RowFollows'
  <2>1. inbox # <<>>
    BY <1>5, HandledIsFirst
  <2>2. CASE asked > 0
    BY <1>5, <2>2 DEF RowFollows
  <2>3. CASE IsCurrent(inbox[Len(inbox)])
    <3>1. CASE inbox' = <<>>
      BY <1>5, <2>3, <3>1, HandledIsFirst DEF RowFollows
    <3>2. CASE inbox' # <<>>
      BY <1>5, <2>3, <3>2, HandledIsFirst DEF RowFollows, IsCurrent
    <3>3. QED
      BY <3>1, <3>2
  <2>4. QED
    BY <2>1, <2>2, <2>3 DEF RowFollows
<1>6. CASE HandleSuspendedOrResumed
  <2>1. /\ Handle({"SUSPENDED", "RESUMED"})
        /\ UNCHANGED <<machine, asked>>
        /\ state # "unlisted" /\ Head(inbox) = "SUSPENDED" => state' = "paused"
        /\ state # "unlisted" /\ Head(inbox) = "RESUMED" => state' = "running"
    BY <1>6 DEF HandleSuspendedOrResumed, libvirt
  <2>2. Head(inbox) \in {"SUSPENDED", "RESUMED"}
    BY <2>1, HandleType
  <2>3. IsCurrent(Head(inbox)) => RowIsCurrent'
    BY <2>1, <2>2 DEF IsCurrent, RowIsCurrent, GoneIsGone
  <2>4. QED
    BY <1>5, <2>1, <2>3
<1>7. CASE HandleRead
  <2>1. /\ Handle(States \cup {"gone"})
        /\ UNCHANGED <<machine, asked>>
        /\ state' = IF Head(inbox) = "gone" THEN "unlisted" ELSE Head(inbox)
    BY <1>7 DEF HandleRead, libvirt
  <2>2. Head(inbox) \in States \cup {"gone"}
    BY <2>1, HandleType
  <2>3. IsCurrent(Head(inbox)) => RowIsCurrent'
    BY <2>1, <2>2 DEF IsCurrent, RowIsCurrent
  <2>4. QED
    BY <1>5, <2>1, <2>3
<1>8. ASSUME NEW c \in Calls, Serve(c) PROVE RowFollows'
  BY <1>1, <1>2, <1>8 DEF Serve, Accept, row, libvirt
<1>9. ASSUME NEW c \in Calls, CallReturns(c) \/ CallFails(c) \/ TimeOut(c) PROVE RowFollows'
  BY <1>1, <1>9 DEF CallReturns, CallFails, TimeOut, row, libvirt
<1>10. CASE User \/ UNCHANGED vars
  BY <1>1, <1>10 DEF User, vmStart, vmPauseOrResume, vmShutdown, vmConfirmed, onRestart, OpenDialog,
                     Cancel, Visit, row, libvirt, vars
<1>11. CASE GuestStops \/ Outside
  BY <1>2, <1>11 DEF GuestStops, Outside, row
<1>12. QED
  BY <1>3, <1>4, <1>6, <1>7, <1>8, <1>9, <1>10, <1>11 DEF Next, Page, Libvirt

(* A stop that no restart waits for changes neither the spinner nor the    *)
(* calls; a restart that waits starts the machine.                         *)
LEMMA StopsLeaveTheRow ==
    ASSUME TypeOK, HandleStopped
    PROVE  /\ UNCHANGED <<machine, stopping, state, dialog>>
           /\ state = "unlisted" => operation' = operation
           /\ listeners = {} => UNCHANGED <<operation, moves>> /\ \A c \in Calls : calls'[c] = calls[c]
           /\ listeners = {} => \A i \in Clicks : started'[i] = started[i]
           /\ listeners # {} => \E i \in Clicks : started'[i] > 0
<1>1. PICK slot \in [listeners -> FreeCalls] : RestartAll(slot)
  BY DEF HandleStopped
<1>2. UNCHANGED <<machine, stopping, state, dialog>>
  BY DEF HandleStopped, libvirt
<1>3. state = "unlisted" => operation' = operation
  BY <1>1 DEF RestartAll, startOperationProgress
<1>4. ASSUME listeners = {}
      PROVE  /\ UNCHANGED <<operation, moves>>
             /\ \A c \in Calls : calls'[c] = calls[c]
             /\ \A i \in Clicks : started'[i] = started[i]
  BY <1>1, <1>4 DEF RestartAll
<1>5. ASSUME listeners # {} PROVE \E i \in Clicks : started'[i] > 0
  <2>1. PICK l \in listeners : l.id \in Clicks
    BY <1>5 DEF TypeOK
  <2>2. started \in [Clicks -> Nat] /\ started'[l.id] = started[l.id] + 1
    BY <1>1, <2>1 DEF RestartAll, TypeOK
  <2>3. started[l.id] \in Nat
    BY <2>1, <2>2
  <2>4. started'[l.id] > 0
    BY ONLY <2>2, <2>3
  <2>5. QED
    BY <2>1, <2>4
<1>6. QED
  BY <1>2, <1>3, <1>4, <1>5

LEMMA DialogStaysOfRunning ==
    ASSUME TypeOK, DialogIsOfRunning, [Next]_vars
    PROVE  DialogIsOfRunning'
<1>1. CASE OpenDialog
  BY <1>1 DEF OpenDialog, DialogIsOfRunning
<1>2. CASE dialog' \in {dialog, "none"}
  BY <1>2 DEF DialogIsOfRunning
<1>3. QED
  BY <1>1, <1>2 DEF Next, User, Page, Libvirt, vmStart, vmPauseOrResume, vmShutdown, vmConfirmed,
                    onRestart, Confirm, Cancel, Visit, CallReturns, CallFails, HandleStarted,
                    HandleStopped, HandleSuspendedOrResumed, HandleRead, Serve, TimeOut, GuestStops,
                    AnswerRead, Outside, vars

LEMMA GoneStaysGone ==
    ASSUME TypeOK, GoneIsGone, DialogIsOfRunning, [Next]_vars
    PROVE  GoneIsGone'
<1>1. ASSUME machine = "gone" => machine' = "gone",
             state' = "unlisted" => state = "unlisted",
             state = "unlisted" => operation' \in {operation, "none"},
             \A i \in 1..Len(inbox') : inbox'[i] = "gone" => machine' = "gone"
      PROVE  GoneIsGone'
  BY <1>1 DEF GoneIsGone
<1>2. ASSUME UNCHANGED inbox, machine = "gone" => machine' = "gone"
      PROVE  \A i \in 1..Len(inbox') : inbox'[i] = "gone" => machine' = "gone"
  BY <1>2 DEF GoneIsGone
<1>3. CASE (Start \/ Stop \/ Suspend \/ Resume) /\ UNCHANGED row
  <2>1. PICK signal \in Signals : inbox' = Append(inbox, signal) /\ machine # "gone"
    BY <1>3, MovesAreSent
  <2>2. \A i \in 1..Len(inbox') : inbox'[i] = "gone" => machine' = "gone"
    BY <2>1, SentIsLast, Distinct DEF GoneIsGone
  <2>3. QED
    BY <1>1, <1>3, <2>1, <2>2 DEF row
<1>4. CASE UNCHANGED <<machine, inbox, state>> /\ (state = "unlisted" => operation' \in {operation, "none"})
  BY <1>1, <1>2, <1>4
<1>5. CASE AnswerRead
  <2>1. inbox' = Append(inbox, machine) /\ UNCHANGED <<machine, state, operation>>
    BY <1>5 DEF AnswerRead, libvirt, row
  <2>2. QED
    BY <1>1, <2>1, SentIsLast DEF GoneIsGone
<1>6. ASSUME NEW S, Handle(S), UNCHANGED machine
      PROVE  /\ Head(inbox) = "gone" => machine = "gone"
             /\ \A i \in 1..Len(inbox') : inbox'[i] = "gone" => machine' = "gone"
  BY <1>6, HandledIsFirst DEF GoneIsGone
<1>7. CASE HandleStarted \/ HandleStopped
  <2>1. /\ Handle({"STARTED"}) \/ Handle({"STOPPED"})
        /\ UNCHANGED <<machine, state>>
        /\ state = "unlisted" => operation' = operation
    BY <1>7, StopsLeaveTheRow DEF HandleStarted, HandleStopped, libvirt, row
  <2>2. QED
    BY <1>1, <1>6, <2>1
<1>8. CASE HandleSuspendedOrResumed
  <2>1. Handle({"SUSPENDED", "RESUMED"}) /\ UNCHANGED <<machine, operation>>
    BY <1>8 DEF HandleSuspendedOrResumed, libvirt
  <2>2. Head(inbox) \in {"SUSPENDED", "RESUMED"}
    BY <2>1, HandleType
  <2>3. state' = "unlisted" => state = "unlisted"
    BY <1>8, <2>2 DEF HandleSuspendedOrResumed
  <2>4. QED
    BY <1>1, <1>6, <2>1, <2>3
<1>9. CASE HandleRead
  <2>1. /\ Handle(States \cup {"gone"}) /\ UNCHANGED machine
        /\ state' = IF Head(inbox) = "gone" THEN "unlisted" ELSE Head(inbox)
        /\ operation' = IF Head(inbox) = operation THEN operation ELSE "none"
    BY <1>9 DEF HandleRead, libvirt
  <2>2. Head(inbox) \in States \cup {"gone"}
    BY <2>1, HandleType
  <2>3. state' = "unlisted" => machine' = "gone" /\ operation' = "none"
    BY <1>6, <2>1, <2>2, Distinct DEF TypeOK
  <2>4. QED
    BY <1>6, <2>1, <2>3 DEF GoneIsGone
<1>10. ASSUME NEW c \in Calls, Serve(c) PROVE GoneIsGone'
  BY <1>3, <1>4, <1>10 DEF Serve, Accept, row, libvirt
<1>11. ASSUME NEW c \in Calls, vmStart(c) \/ vmShutdown(c) \/ onRestart(c) PROVE GoneIsGone'
  BY <1>4, <1>11 DEF vmStart, vmShutdown, onRestart, startOperationProgress, libvirt
<1>12. ASSUME NEW c \in Calls, vmPauseOrResume(c) \/ vmConfirmed(c) \/ CallReturns(c) \/ CallFails(c)
                               \/ TimeOut(c)
       PROVE  GoneIsGone'
  BY <1>4, <1>12 DEF vmPauseOrResume, vmConfirmed, CallReturns, CallFails, TimeOut, row, libvirt
<1>13. CASE OpenDialog \/ Cancel \/ Visit \/ UNCHANGED vars
  BY <1>4, <1>13 DEF OpenDialog, Cancel, Visit, vars, row, libvirt
<1>14. CASE GuestStops \/ Outside
  BY <1>3, <1>14 DEF GuestStops, Outside
<1>15. QED
  BY <1>5, <1>7, <1>8, <1>9, <1>10, <1>11, <1>12, <1>13, <1>14 DEF Next, User, Page, Libvirt

(* A move counts, and is away from the state of an operation that it ends. *)
LEMMA MovesCount ==
    ASSUME TypeOK, operation # "none", UNCHANGED operation,
           Start \/ Stop \/ Suspend \/ Resume
    PROVE  /\ HasMoved => HasMoved'
           /\ Start /\ operation \in {"shutoff", "paused"} => HasMoved'
           /\ Stop /\ operation \in {"running", "paused"} => HasMoved'
<1>1. moves' = IF moves = 2 THEN 2 ELSE moves + 1
  BY DEF Start, Stop, Suspend, Resume, Become
<1>2. (moves = 0 /\ moves' = 1) \/ moves' = 2
  <2>1. moves \in 0..2
    BY DEF TypeOK
  <2>2. QED
    BY ONLY <1>1, <2>1
<1>3. moves = 1 \/ moves = 2 => moves' = 2
  BY ONLY <1>1
<1>4. CASE Stop
  <2>1. machine' \in {"shutoff", "gone"}
    BY <1>4 DEF Stop, Become
  <2>2. operation # "shutoff" => HasMoved'
    BY <1>2, <2>1, Distinct DEF HasMoved, TypeOK, States
  <2>3. QED
    BY <1>3, <1>4, <2>2 DEF HasMoved, Start, Stop
<1>5. CASE Start
  <2>1. machine = "shutoff" /\ machine' = "running" /\ stopping' = stopping
    BY <1>5 DEF Start, Become
  <2>2. QED
    BY <1>2, <1>3, <2>1 DEF HasMoved, Stop
<1>6. CASE Suspend \/ Resume
  <2>1. machine \in {"running", "paused"} /\ machine' \in {"running", "paused"} /\ stopping' = stopping
    BY <1>6 DEF Suspend, Resume, Become
  <2>2. QED
    BY <1>2, <1>3, <1>6, <2>1 DEF HasMoved, Start, Stop, Suspend, Resume, Become
<1>7. QED
  BY <1>4, <1>5, <1>6

LEMMA PendingIsKept ==
    ASSUME UNCHANGED operation,
           \A c \in Calls : Unserved(c) \/ Refused(c) => calls'[c] = calls[c]
    PROVE  Pending => Pending'
BY DEF Pending, Unserved, Refused

(* A call that would end the operation that begins with it.                *)
LEMMA AskedIsUnserved ==
    ASSUME TypeOK, NEW c \in Calls, NEW method \in Methods, NEW from \in States,
           NEW restart \in 0..MaxClicks, Send(c, method, from, restart),
           \/ method = "Create" /\ operation' \in {"shutoff", "paused"}
           \/ method \in {"Shutdown", "Destroy"} /\ operation' \in {"running", "paused"}
    PROVE  Pending'
<1>1. calls'[c] = NewCall(method, from, restart) /\ NewCall(method, from, restart) \in Call
  BY NewCallType DEF Send, TypeOK
<1>2. calls'[c] # Free
  BY <1>1, FreeIsNoCall
<1>3. Unserved(c)'
  BY <1>1, <1>2 DEF Unserved, NewCall
<1>4. QED
  BY <1>3 DEF Pending

LEMMA ServedOrRefused ==
    ASSUME TypeOK, operation # "none", OperationEnds, NoneRestarted, NEW c \in Calls, Serve(c)
    PROVE  Pending' \/ HasMoved'
<1>1. /\ UNCHANGED <<operation, state>>
      /\ calls[c] \in Call /\ calls[c].answer = "none"
      /\ calls' \in [Calls -> Call \cup {Free}]
      /\ \A d \in Calls : d # c => calls'[d] = calls[d]
  BY AnswerType DEF Serve, row, TypeOK
<1>2. CASE Accept(calls[c]) /\ calls'[c] # Free
  <2>1. \A d \in Calls : d # c /\ (Unserved(d) \/ Refused(d)) => Pending'
    BY <1>1 DEF Pending, Unserved, Refused
  <2>2. Unserved(c) \/ (\E d \in Calls : d # c /\ (Unserved(d) \/ Refused(d))) \/ HasMoved
    BY <1>1 DEF OperationEnds, Pending, Refused
  <2>3. SUFFICES ASSUME Unserved(c) \/ HasMoved PROVE HasMoved'
    BY <2>1, <2>2
  <2>4. CASE \/ calls[c].method = "Create" /\ Start
             \/ calls[c].method = "Destroy" /\ Stop
             \/ calls[c].method = "Suspend" /\ Suspend
             \/ calls[c].method = "Resume" /\ Resume
    BY <1>1, <2>3, <2>4, MovesCount DEF Unserved
  <2>5. CASE calls[c].method = "Shutdown" /\ stopping' = calls[c].from /\ UNCHANGED <<machine, moves>>
    <3>1. stopping' # "none"
      BY <1>1, <2>5, Distinct DEF Call
    <3>2. operation # "shutoff" \/ (HasMoved /\ stopping = "none") \/ moves = 2 \/ (moves = 1 /\ machine # operation)
      BY <2>3, <2>5 DEF Unserved, HasMoved
    <3>3. QED
      BY <1>1, <2>3, <2>5, <3>1, <3>2 DEF HasMoved
  <2>6. CASE calls[c].method = "Other" /\ UNCHANGED <<machine, moves, stopping>>
    BY <1>1, <2>3, <2>6 DEF HasMoved, Unserved
  <2>7. QED
    BY <1>2, <2>4, <2>5, <2>6 DEF Accept
<1>3. CASE /\ calls'[c] # Free /\ calls'[c].answer = "error"
           /\ calls'[c].method = calls[c].method
           /\ UNCHANGED <<machine, stopping, moves>>
  <2>1. Unserved(c) => Refused(c)'
    BY <1>3 DEF Unserved, Refused
  <2>2. Pending => Pending'
    BY <1>1, <2>1 DEF Pending, Unserved, Refused
  <2>3. HasMoved => HasMoved'
    BY <1>1, <1>3 DEF HasMoved
  <2>4. QED
    BY <2>2, <2>3 DEF OperationEnds
<1>4. QED
  <2>1. PICK answer \in {"ok", "error"} :
            /\ calls'[c] = [method |-> calls[c].method, from |-> calls[c].from,
                            restart |-> calls[c].restart, answer |-> answer]
            /\ \/ answer = "ok" /\ Accept(calls[c])
               \/ answer = "error" /\ UNCHANGED <<libvirt, inbox, moves>>
    BY DEF Serve, TypeOK
  <2>2. calls'[c] # Free
    BY <1>1, <2>1, FreeIsNoCall DEF Call
  <2>3. QED
    BY <1>2, <1>3, <2>1, <2>2 DEF libvirt

LEMMA SpinnerKeepsReason ==
    ASSUME TypeOK, OperationEnds, GoneIsGone, DialogIsOfRunning, [Next]_vars
    PROVE  OperationEnds'
<1> SUFFICES ASSUME operation' # "none", NoneRestarted' PROVE Pending' \/ HasMoved'
  BY DEF OperationEnds
<1>1. ASSUME UNCHANGED <<operation, stopping, machine, moves, started>>,
             \A c \in Calls : Unserved(c) \/ Refused(c) => calls'[c] = calls[c]
      PROVE  Pending' \/ HasMoved'
  BY <1>1, PendingIsKept DEF OperationEnds, NoneRestarted, HasMoved
<1>2. ASSUME NEW c \in Calls, vmStart(c) PROVE Pending'
  <2>1. state \in {"shutoff", "paused"} /\ Send(c, "Create", state, 0) /\ operation' = state
    BY <1>2 DEF vmStart, startOperationProgress
  <2>2. state \in States
    BY <2>1 DEF States
  <2>3. QED
    BY <2>1, <2>2, AskedIsUnserved, Members
<1>3. ASSUME NEW c \in Calls, vmShutdown(c) \/ onRestart(c) PROVE Pending'
  <2>1. dialog \in {"running", "paused"} /\ operation' = dialog
    BY <1>3 DEF vmShutdown, onRestart, Confirm, startOperationProgress, DialogIsOfRunning, GoneIsGone
  <2>2. dialog \in States
    BY <2>1 DEF States
  <2>3. PICK method \in {"Shutdown", "Destroy"}, restart \in 0..MaxClicks : Send(c, method, dialog, restart)
    <3>1. CASE vmShutdown(c)
      BY <3>1, Members DEF vmShutdown
    <3>2. CASE onRestart(c)
      <4>1. clicks' \in 0..MaxClicks
        BY <3>2, ClickType DEF onRestart, Confirm
      <4>2. QED
        BY <3>2, <4>1 DEF onRestart
    <3>3. QED
      BY <1>3, <3>1, <3>2
  <2>4. QED
    BY <2>1, <2>2, <2>3, AskedIsUnserved, Members
<1>4. ASSUME NEW c \in Calls, vmPauseOrResume(c) \/ vmConfirmed(c) PROVE Pending' \/ HasMoved'
  <2>1. \A d \in Calls : calls[d] # Free => calls'[d] = calls[d]
    BY <1>4 DEF vmPauseOrResume, vmConfirmed, Send, TypeOK
  <2>2. QED
    BY <1>1, <1>4, <2>1 DEF vmPauseOrResume, vmConfirmed, libvirt, row, history, Unserved, Refused
<1>5. CASE OpenDialog \/ Cancel \/ Visit \/ HandleStarted \/ HandleSuspendedOrResumed \/ AnswerRead
           \/ UNCHANGED vars
  BY <1>1, <1>5 DEF OpenDialog, Cancel, Visit, HandleStarted, HandleSuspendedOrResumed, AnswerRead,
                    vars, libvirt, row, history
<1>6. ASSUME NEW c \in Calls, CallReturns(c) \/ TimeOut(c) PROVE Pending' \/ HasMoved'
  <2>1. calls[c].answer = "ok" /\ \A d \in Calls : d # c => calls'[d] = calls[d]
    BY <1>6 DEF CallReturns, TimeOut, TypeOK
  <2>2. QED
    BY <1>1, <1>6, <2>1 DEF CallReturns, TimeOut, libvirt, row, history, Unserved, Refused
<1>7. ASSUME NEW c \in Calls, CallFails(c) PROVE FALSE
  BY <1>7 DEF CallFails
<1>8. CASE HandleRead
  <2>1. operation' = operation
    BY <1>8 DEF HandleRead
  <2>2. QED
    BY <1>1, <1>8, <2>1 DEF HandleRead, libvirt, history
<1>9. CASE HandleStopped
  <2>1. listeners = {}
    BY <1>9, StopsLeaveTheRow DEF NoneRestarted
  <2>2. NoneRestarted
    BY <1>9, <2>1, StopsLeaveTheRow DEF NoneRestarted
  <2>3. /\ UNCHANGED <<operation, stopping, machine, moves>>
        /\ \A c \in Calls : calls'[c] = calls[c]
    BY <1>9, <2>1, StopsLeaveTheRow
  <2>4. QED
    BY <2>2, <2>3, PendingIsKept DEF OperationEnds, HasMoved
<1>10. ASSUME NEW c \in Calls, Serve(c) PROVE Pending' \/ HasMoved'
  BY <1>10, ServedOrRefused DEF Serve, row, NoneRestarted
<1>11. CASE GuestStops \/ Outside
  <2>1. /\ Start \/ Stop \/ Suspend \/ Resume
        /\ UNCHANGED <<operation, calls, started>>
    BY <1>11 DEF GuestStops, Outside, row
  <2>2. QED
    BY <2>1, MovesCount, PendingIsKept DEF OperationEnds, NoneRestarted
<1>12. QED
  BY <1>2, <1>3, <1>4, <1>5, <1>6, <1>7, <1>8, <1>9, <1>10, <1>11 DEF Next, User, Page, Libvirt

(* The inductive invariant of spinners: the row, the dialog and whatever   *)
(* is under way agree on the state in which an operation began.            *)
THEOREM SpinnerInvariant == Spec => []SpinnerInv
<1>1. Init => SpinnerInv
  <2> SUFFICES ASSUME Init PROVE SpinnerInv
    OBVIOUS
  <2>1. machine \in States /\ state = machine /\ operation = "none" /\ dialog = "none"
    BY DEF Init
  <2>2. inbox = <<>> /\ 1..Len(inbox) = {}
    <3>1. inbox = <<>>
      BY DEF Init
    <3>2. QED
      BY ONLY <3>1
  <2>3. QED
    BY <2>1, <2>2, Distinct DEF SpinnerInv, RowFollows, RowIsCurrent, GoneIsGone, DialogIsOfRunning,
                                OperationEnds
<1>2. TypeOK /\ SpinnerInv /\ [Next]_vars => SpinnerInv'
  BY RowKeepsFollowing, GoneStaysGone, DialogStaysOfRunning, SpinnerKeepsReason DEF SpinnerInv
<1>3. QED
  BY <1>1, <1>2, TypeCorrect, PTL DEF Spec

(* When everything has been heard, nothing is under way and a button still *)
(* shows a spinner, the machine has been restarted, or has come back to    *)
(* the state in which the operation began before the page read it again.   *)
THEOREM SpinnersEnd == Spec => []SpinnerEndsWithOperation
<1>1. TypeOK /\ SpinnerInv => SpinnerEndsWithOperation
  <2> SUFFICES ASSUME TypeOK, SpinnerInv PROVE SpinnerEndsWithOperation
    OBVIOUS
  <2> SUFFICES ASSUME Settled, isOperationInProgress, ~OperationUnderWay, NoneRestarted
               PROVE  moves = 2
    <3>1. started \in [Clicks -> Nat]
      BY DEF TypeOK
    <3>2. NoneRestarted \/ \E i \in Clicks : started[i] > 0
      BY ONLY <3>1 DEF NoneRestarted
    <3>3. QED
      BY <3>2 DEF SpinnerEndsWithOperation
  <2>1. operation = state /\ operation # "none"
    BY Distinct DEF isOperationInProgress, TypeOK
  <2>2. RowIsCurrent
    <3>1. inbox = <<>> /\ asked = 0
      BY DEF Settled
    <3>2. ~(asked > 0)
      BY ONLY <3>1
    <3>3. QED
      BY <3>1, <3>2 DEF SpinnerInv, RowFollows
  <2>3. machine = operation
    BY <2>1, <2>2 DEF RowIsCurrent, SpinnerInv, GoneIsGone
  <2>4. ~Pending /\ stopping = "none"
    BY DEF OperationUnderWay, PendingCall, Pending, Unserved, Refused
  <2>5. QED
    BY <2>1, <2>3, <2>4 DEF SpinnerInv, OperationEnds, HasMoved
<1>2. QED
  BY <1>1, TypeCorrect, SpinnerInvariant, PTL
=============================================================================
