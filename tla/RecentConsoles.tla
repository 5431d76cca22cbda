--------------------------- MODULE RecentConsoles ---------------------------
(***************************************************************************)
(* What the page remembers about the consoles of virtual machines: the tab *)
(* the user chose, for the machines whose pages were shown most recently.  *)
(* ConsoleCardStates in src/components/vm/consoles/consoles.tsx promises   *)
(* this; module ConsoleStates is how it does it.                           *)
(***************************************************************************)
EXTENDS Naturals, FiniteSets

CONSTANTS
    Keys,    \* the machines
    Tabs,    \* what the user can choose
    NoTab,   \* nothing was chosen
    Kept     \* how many machines are remembered, at least one

VARIABLES
    recent,   \* the machines that are remembered
    earlier,  \* which of two of them was shown earlier, as pairs
    choice    \* the tab of each machine

rcVars == <<recent, earlier, choice>>

RCInit == recent = {} /\ earlier = {} /\ choice = [k \in Keys |-> NoTab]

Oldest == {j \in recent : \A i \in recent : <<i, j>> \notin earlier}
Newest == {j \in recent : \A i \in recent : <<j, i>> \notin earlier}

(* The page of k is shown; it may push out the least recent machine.       *)
Show(k) ==
    /\ recent' = {k} \cup IF k \in recent \/ Cardinality(recent) < Kept
                          THEN recent ELSE recent \ Oldest
    /\ earlier' = {p \in recent' \X recent' : p[1] # k /\ (p[2] = k \/ p \in earlier)}
    /\ choice' = [j \in Keys |-> IF j \in recent' THEN choice[j] ELSE NoTab]

(* A tab is chosen on the page that was shown last.                        *)
ChooseTab(t) ==
    /\ \E j \in Newest : choice' = [choice EXCEPT ![j] = t]
    /\ UNCHANGED <<recent, earlier>>

RCNext == (\E k \in Keys : Show(k)) \/ (\E t \in Tabs : ChooseTab(t))

RCSpec == RCInit /\ [][RCNext]_rcVars
=============================================================================
