SPECIFICATION FairSpec
CONSTANTS
  Vms = {v1, v2}
  Runs = {r1, r2}
  Idle = Idle
  NotListed = NotListed
  MaxCpu = 1
  MaxChanges = 3
INVARIANTS PollingGoesOn NoIdleTimer
  
\* The user may leave the page, and nothing is polled any more.
CHECK_DEADLOCK FALSE
