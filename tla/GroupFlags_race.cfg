\* Violation run: a barrier ioctl and a revoke update dev->flags at once.
\* A sleeper with no awaker left waits for ever (the barrier has no
\* timeout), so a stopped state is not an error.
CONSTANTS
  s1 = s1
  a1 = a1
  Sleepers <- MCSleepers
  Awakers <- MCAwakers
  MaxSleeps = 1
  MaxAwakes = 1
  MaxRevokes = 1
SPECIFICATION Spec
INVARIANT NoLostBitUpdate
CHECK_DEADLOCK FALSE
