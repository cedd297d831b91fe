\* Without revoke, with every work allocation succeeding: the group implements MessageStore, liveness included.
CONSTANTS
  w1 = w1
  w2 = w2
  NIL = NIL
  Writers <- MCWriters
  MaxMsgs = 3
  MaxStorage = 2
  MaxRevokes = 0
  MaxDelaySets = 3
  Delays = {0, 1}
  HZ = 250
  WorkAllocMayFail = FALSE
  CanUnload = FALSE
SPECIFICATION FairSpec
PROPERTY StoreRefinementFair
