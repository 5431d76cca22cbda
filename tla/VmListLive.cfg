SPECIFICATION MCSpec
CONSTANTS
  Domains = {d1}
  Reads = {r1, r2, r3}
  NoRead = NoRead
  NotListed = NotListed
  InOrder = TRUE
  MayTimeOut = TRUE
  MaxChanges = 2
INVARIANTS SettledRowsAreCurrent RowsFollowTheNews PatientListIsComplete
PROPERTIES EverythingSettles PatientRowsConverge
\* Domains need not change again once the page has caught up.
CHECK_DEADLOCK FALSE
