SPECIFICATION FairAppSpec
CONSTANTS
  VmNames = {v1, v2}
  Connections = {system, session}
  System = system
  MaxVisits = 4
INVARIANTS DetailsAreLoaded
PROPERTIES WaitingEnds
\* The user may stay on the page.
CHECK_DEADLOCK FALSE
