SPECIFICATION ConsolesSpec
CONSTANTS
  Keys = {k1, k2, k3}
  WithVnc = {k1}
  NoKey = NoKey
  Aliases = {a1}
  MaxPtys = 1
  MaxConsoleCardStates = 2
  MaxRenders = 5
  MaxMachineChanges = 1
INVARIANTS NoTerminalLeaks DisconnectedIsClosed
PROPERTIES KeepsTheMostRecent
SYMMETRY Symmetry
\* The bounds on renderings and changes may be used up.
CHECK_DEADLOCK FALSE
