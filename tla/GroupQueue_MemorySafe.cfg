\* Violation run: MemorySafe under revoke racing the delay workqueue.
CONSTANTS
  w1 = w1
  w2 = w2
  NIL = NIL
  Writers <- MCWriters
  MaxMsgs = 2
  MaxStorage = 2
  MaxRevokes = 1
  MaxDelaySets = 1
  Delays = {0, 1}
  HZ = 250
  WorkAllocMayFail = FALSE
  CanUnload = FALSE
SPECIFICATION Spec
INVARIANT MemorySafe
