--------------------------- MODULE ConsoleStates ----------------------------
(***************************************************************************)
(* The state of the consoles of virtual machines, which outlives the pages *)
(* that show them: ConsoleCardStates, ConsoleCardState and SerialStates    *)
(* (src/components/vm/consoles/consoles.tsx), SerialState (serial.tsx) and *)
(* VncState (vnc.tsx).                                                     *)
(*                                                                         *)
(* A serial console that is connected and shown has a terminal with a      *)
(* channel to "virsh console".  The channel stays open when the user goes  *)
(* to another page; it is closed when the user disconnects, when the       *)
(* machine gets other consoles, and when its card is not kept any more.    *)
(* React renders the page of a machine some time after something changes.  *)
(* Of the VNC console, only its state is kept here, and no size mode: when *)
(* its connection breaks, the page reads a file to tell why, and says so   *)
(* when it has read it.                                                    *)
(***************************************************************************)
EXTENDS Integers, Sequences, SequencesExt

CONSTANTS
    Keys,                  \* connection and name of the machines
    WithVnc,               \* those that have a VNC console
    NoKey,                 \* no page of a machine is shown
    Aliases,               \* of serial consoles
    MaxPtys,               \* bound on the serial consoles of a machine
    MaxConsoleCardStates,  \* VMS_CONFIG
    MaxRenders,            \* bound on the renderings
    MaxMachineChanges      \* bound on the changes of machines

Tabs  == {"graphical", "serial0", "serial1"}
Types == Tabs \cup {"null"}

SerialTab(i) == <<"serial0", "serial1">>[i]

PtyLists == BoundedSeq(Aliases, MaxPtys)

\* Terminals are numbered by the rendering that opens them; 0 is none.
Serial == [alias : Aliases, connected : BOOLEAN, terminal : 0..MaxRenders]
VncStates == {"connected", "disconnected", "failed"}

\* A VNC connection is lost when it has broken and the page is finding out why.
Card == [type : Types, vnc : VncStates, lost : BOOLEAN,
         serials : BoundedSeq(Serial, MaxPtys)]

ASSUME ConsoleStatesAssumption ==
    /\ NoKey \notin Keys
    /\ WithVnc \subseteq Keys
    /\ MaxPtys \in 0..2
    /\ MaxConsoleCardStates \in Nat
    /\ MaxRenders \in Nat
    /\ MaxMachineChanges \in Nat

VARIABLES
    shown,        \* the machine whose page is shown
    states,       \* the cards: a function on the keys that have one
    accessTimes,  \* when each was last used
    time,         \* the number of renderings so far
    channels,     \* the numbers of the open terminals
    ptys,         \* libvirt: the serial consoles of each machine
    running,      \* libvirt: whether each machine runs
    machineChanges    \* number of their changes

machineVars == <<ptys, running, machineChanges>>
consolesVars == <<shown, states, accessTimes, time, channels, machineVars>>

ConsolesTypeOK ==
    /\ shown \in Keys \cup {NoKey}
    /\ time \in 0..MaxRenders
    /\ DOMAIN states \subseteq Keys
    /\ states \in [DOMAIN states -> Card]
    /\ accessTimes \in [DOMAIN states -> 0..(time - 1)]
    /\ channels \subseteq 1..MaxRenders
    /\ ptys \in [Keys -> PtyLists]
    /\ running \in [Keys -> BOOLEAN]
    /\ machineChanges \in 0..MaxMachineChanges

ConsolesInit ==
    /\ shown = NoKey
    /\ states = <<>>
    /\ accessTimes = <<>>
    /\ time = 0
    /\ channels = {}
    /\ ptys \in [Keys -> {p \in PtyLists : Len(p) = Min({1, MaxPtys})}]
    /\ running \in [Keys -> BOOLEAN]
    /\ machineChanges = 0

-----------------------------------------------------------------------------
(* The cards *)

NewCard == [type |-> "null", vnc |-> "connected", lost |-> FALSE, serials |-> <<>>]

WithType(card, type) ==
    [type |-> type, vnc |-> card.vnc, lost |-> card.lost, serials |-> card.serials]

WithVncState(card, vnc, lost) ==
    [type |-> card.type, vnc |-> vnc, lost |-> lost, serials |-> card.serials]

WithSerials(card, serials) ==
    [type |-> card.type, vnc |-> card.vnc, lost |-> card.lost, serials |-> serials]

Terminals(serials) == {serials[i].terminal : i \in 1..Len(serials)} \ {0}

TerminalsOf(S) == UNION {Terminals(states[k].serials) : k \in S}

(* #makeRoom: the least recently used cards, so many that there is room    *)
(* for one more, that of k.                                                *)
ToRemove(k) ==
    IF k \in DOMAIN states THEN {}
    ELSE LET excess == Cardinality(DOMAIN states) - Max({0, MaxConsoleCardStates - 1})
         IN  {j \in DOMAIN states :
                 Cardinality({i \in DOMAIN states : accessTimes[i] < accessTimes[j]}) < excess}

(* The tab of a card: the first console there is, if none was chosen.      *)
ShownTab(k, card) ==
    IF card.type # "null" THEN card.type
    ELSE IF k \in WithVnc \/ card.serials = <<>> THEN "graphical" ELSE "serial0"

(* SerialStates.ensure: the serial states of k, new ones for new consoles. *)
SameConsoles(card, k) == [i \in 1..Len(card.serials) |-> card.serials[i].alias] = ptys[k]

Ensured(card, k) ==
    IF SameConsoles(card, k) THEN card
    ELSE WithSerials(card, [i \in 1..Len(ptys[k]) |->
                               [alias |-> ptys[k][i], connected |-> TRUE, terminal |-> 0]])

(* getTerminalState opens a terminal for the serial console that is shown. *)
NeedsTerminal(card, k, i) ==
    /\ running[k]
    /\ ShownTab(k, card) = SerialTab(i)
    /\ card.serials[i].connected
    /\ card.serials[i].terminal = 0

WithTerminal(card, k) ==
    WithSerials(card, [i \in 1..Len(card.serials) |->
                          IF NeedsTerminal(card, k, i)
                          THEN [alias |-> card.serials[i].alias, connected |-> TRUE,
                                terminal |-> time + 1]
                          ELSE card.serials[i]])

Without(S) == [j \in DOMAIN states \ S |-> states[j]]
With(f, k, x) == [j \in DOMAIN f \cup {k} |-> IF j = k THEN x ELSE f[j]]

CardOf(k) == IF k \in DOMAIN states THEN states[k] ELSE NewCard

(* Faulty: a card that is pushed out keeps its terminals open.             *)
ClosedByEnsure(k) == IF SameConsoles(CardOf(k), k) THEN {} ELSE Terminals(CardOf(k).serials)

(* The terminals that a rendering of k closes, and the one it opens.       *)
Closed(k) ==
    TerminalsOf(ToRemove(k))
    \cup IF SameConsoles(CardOf(k), k) THEN {} ELSE Terminals(CardOf(k).serials)

Opened(k, card) ==
    IF \E i \in 1..Len(card.serials) : NeedsTerminal(card, k, i) THEN {time + 1} ELSE {}

(* Faulty: the access time of a card is when it was made.                  *)
AppVMKeepingTimes(k) ==
    /\ time < MaxRenders
    /\ time' = time + 1
    /\ shown' = k
    /\ LET card == Ensured(CardOf(k), k) IN
       /\ states' = With(Without(ToRemove(k)), k, WithTerminal(card, k))
       /\ accessTimes' = [j \in DOMAIN states' |->
                             IF j \in DOMAIN states THEN accessTimes[j] ELSE time]
       /\ channels' = (channels \ Closed(k)) \cup Opened(k, card)
    /\ UNCHANGED machineVars

(* AppVM renders the page of k: ConsoleCardStates.get, and ConsoleCard.    *)
AppVM(k) ==
    /\ time < MaxRenders
    /\ time' = time + 1
    /\ shown' = k
    /\ LET card == Ensured(CardOf(k), k) IN
       /\ states' = With(Without(ToRemove(k)), k, WithTerminal(card, k))
       /\ accessTimes' = [j \in DOMAIN states' |-> IF j = k THEN time ELSE accessTimes[j]]
       /\ channels' = (channels \ Closed(k)) \cup Opened(k, card)
    /\ UNCHANGED machineVars

(* The user goes to a page without a machine.                              *)
Leave ==
    /\ shown # NoKey
    /\ shown' = NoKey
    /\ UNCHANGED <<states, accessTimes, time, channels, machineVars>>

-----------------------------------------------------------------------------
(* The consoles of the page that is shown *)

SetCard(k, card) ==
    /\ states' = [states EXCEPT ![k] = card]
    /\ UNCHANGED <<shown, accessTimes, time, machineVars>>

SetType(t) ==
    /\ shown # NoKey
    /\ t = "serial1" => Len(states[shown].serials) > 1
    /\ SetCard(shown, WithType(states[shown], t))
    /\ UNCHANGED channels

VncIsShown ==
    /\ shown \in WithVnc
    /\ ShownTab(shown, states[shown]) = "graphical"
    /\ running[shown]

(* The Connect button, or Retry.                                           *)
VncSetConnected ==
    /\ VncIsShown
    /\ states[shown].vnc # "connected"
    /\ SetCard(shown, WithVncState(states[shown], "connected", states[shown].lost))
    /\ UNCHANGED channels

(* The Disconnect button; Detach; the server closes the connection.        *)
VncSetNotConnected ==
    /\ VncIsShown
    /\ SetCard(shown, WithVncState(states[shown], "disconnected", states[shown].lost))
    /\ UNCHANGED channels

(* VncActive.onSecurityFailure: the server refuses the connection.         *)
VncIsRefused ==
    /\ VncIsShown
    /\ states[shown].vnc = "connected"
    /\ SetCard(shown, WithVncState(states[shown], "failed", states[shown].lost))
    /\ UNCHANGED channels

(* VncActive.onDisconnected, for a connection that has broken; the machine *)
(* may just have stopped.                                                  *)
VncBreaks ==
    /\ VncIsShown
    /\ states[shown].vnc = "connected"
    /\ ~states[shown].lost
    /\ SetCard(shown, WithVncState(states[shown], "connected", TRUE))
    /\ UNCHANGED channels

(* It has read qemu.conf.                                                  *)
VncSetDisconnected(k) ==
    /\ k \in DOMAIN states
    /\ states[k].lost
    /\ SetCard(k, WithVncState(states[k], "failed", FALSE))
    /\ UNCHANGED channels

(* Faulty: the terminal is forgotten only when it is to be opened again.   *)
SerialSetConnectedLate(i) ==
    /\ shown # NoKey
    /\ i \in 1..Len(states[shown].serials)
    /\ ShownTab(shown, states[shown]) = SerialTab(i)
    /\ running[shown]
    /\ LET serial == states[shown].serials[i] IN
       /\ SetCard(shown, WithSerials(states[shown],
              [states[shown].serials EXCEPT ![i] =
                  [alias |-> serial.alias, connected |-> ~serial.connected,
                   terminal |-> IF serial.connected THEN serial.terminal ELSE 0]]))
       /\ channels' = IF serial.connected THEN channels ELSE channels \ {serial.terminal}

(* SerialState.setConnected for the serial console i that is shown.        *)
SerialSetConnected(i) ==
    /\ shown # NoKey
    /\ i \in 1..Len(states[shown].serials)
    /\ ShownTab(shown, states[shown]) = SerialTab(i)
    /\ running[shown]
    /\ LET serial == states[shown].serials[i] IN
       /\ SetCard(shown, WithSerials(states[shown],
              [states[shown].serials EXCEPT ![i] =
                  [alias |-> serial.alias, connected |-> ~serial.connected, terminal |-> 0]]))
       /\ channels' = channels \ {serial.terminal}

-----------------------------------------------------------------------------
(* Machines *)

CountMachineChange == machineChanges < MaxMachineChanges /\ machineChanges' = machineChanges + 1

ChangeConsoles(k) ==
    /\ CountMachineChange
    /\ \E p \in PtyLists \ {ptys[k]} : ptys' = [ptys EXCEPT ![k] = p]
    /\ UNCHANGED <<shown, states, accessTimes, time, channels, running>>

Stop(k) ==
    /\ CountMachineChange
    /\ running[k]
    /\ running' = [running EXCEPT ![k] = FALSE]
    /\ UNCHANGED <<shown, states, accessTimes, time, channels, ptys>>

(* The page of a machine connects the VNC console when the machine starts. *)
Start(k) ==
    /\ CountMachineChange
    /\ ~running[k]
    /\ running' = [running EXCEPT ![k] = TRUE]
    /\ states' = IF shown = k
                 THEN [states EXCEPT ![k] = WithVncState(states[k], "connected", states[k].lost)]
                 ELSE states
    /\ UNCHANGED <<shown, accessTimes, time, channels, ptys>>

(* "virsh console" ends, at the latest when its machine has stopped.       *)
TerminalEnds ==
    /\ \E c \in channels : channels' = channels \ {c}
    /\ UNCHANGED <<shown, states, accessTimes, time, machineVars>>

-----------------------------------------------------------------------------
ConsolesNext ==
    \/ \E k \in Keys : AppVM(k) \/ ChangeConsoles(k) \/ Stop(k) \/ Start(k)
    \/ \E t \in Tabs : SetType(t)
    \/ VncSetConnected \/ VncSetNotConnected \/ VncIsRefused \/ VncBreaks
    \/ \E k \in Keys : VncSetDisconnected(k)
    \/ \E i \in 1..MaxPtys : SerialSetConnected(i)
    \/ Leave \/ TerminalEnds

ConsolesSpec == ConsolesInit /\ [][ConsolesNext]_consolesVars

-----------------------------------------------------------------------------
(* Properties *)

(* Every open terminal belongs to a serial console of a card that is kept: *)
(* one that no page can ever show or close again would stay open for good  *)
(* (ConsoleCardState.close, SerialStates.ensure).                          *)
NoTerminalLeaks == channels \subseteq TerminalsOf(DOMAIN states)

(* A console that the user has disconnected has no terminal.               *)
DisconnectedIsClosed ==
    \A k \in DOMAIN states : \A i \in 1..Len(states[k].serials) :
        ~states[k].serials[i].connected => states[k].serials[i].terminal = 0

(* ConsoleCardStates keeps the machines used most recently, and what the   *)
(* user chose for them: it implements RecentConsoles.                      *)
Earlier == {p \in (DOMAIN states) \X (DOMAIN states) : accessTimes[p[1]] < accessTimes[p[2]]}

RC == INSTANCE RecentConsoles WITH
          NoTab   <- "null",
          Kept    <- Max({1, MaxConsoleCardStates}),
          recent  <- DOMAIN states,
          earlier <- Earlier,
          choice  <- [k \in Keys |-> CardOf(k).type]

KeepsTheMostRecent == RC!RCSpec
=============================================================================
