SPECIFICATION FairSpec
CONSTANTS
  Objects = {o1}
  Reads = {r1, r2, r3, r4}
  NoRead = NoRead
  MaxChanges = 2
INVARIANTS ListsAreRight StateIsCurrentUnlessOverlapped
PROPERTIES EverythingSettles
\* Objects need not change again once the page has caught up.
CHECK_DEADLOCK FALSE
