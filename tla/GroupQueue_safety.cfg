\* Safety of the message engine with every actor and failure enabled, unload included.
CONSTANTS
  w1 = w1
  w2 = w2
  NIL = NIL
  Writers <- MCWriters
  MaxMsgs = 3
  MaxStorage = 2
  MaxRevokes = 1
  MaxDelaySets = 1
  Delays = {0, 1}
  HZ = 250
  WorkAllocMayFail = TRUE
  CanUnload = TRUE
SPECIFICATION Spec
SYMMETRY MCSymmetry
INVARIANT TypeOK
INVARIANT Conservation
INVARIANT RevokeCompleted
INVARIANT TeardownFreesAll
