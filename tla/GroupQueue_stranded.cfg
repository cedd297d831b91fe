\* Violation run: a failed work allocation strands a pending message.
CONSTANTS
  w1 = w1
  w2 = w2
  NIL = NIL
  Writers <- MCWriters
  MaxMsgs = 2
  MaxStorage = 2
  MaxRevokes = 0
  MaxDelaySets = 2
  Delays = {0, 1}
  HZ = 250
  WorkAllocMayFail = TRUE
  CanUnload = FALSE
SPECIFICATION FairSpec
PROPERTY PendingEventuallyPublished
