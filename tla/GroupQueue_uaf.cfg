\* Violation run: a log line after the last up() reads a message a reader has freed.
CONSTANTS
  w1 = w1
  w2 = w2
  NIL = NIL
  Writers <- MCWriters
  MaxMsgs = 2
  MaxStorage = 2
  MaxRevokes = 0
  MaxDelaySets = 1
  Delays = {0, 1}
  HZ = 250
  WorkAllocMayFail = FALSE
  CanUnload = FALSE
SPECIFICATION Spec
INVARIANT NoMessageUseAfterFree
