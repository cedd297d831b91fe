\* Violation run: the clear_barrier store passes the waitqueue_active load.
CONSTANTS
  s1 = s1
  s2 = s2
  s3 = s3
  a1 = a1
  a2 = a2
  Sleepers <- MCSleepers
  Awakers <- MCAwakers
  MaxSleeps = 2
  MaxAwakes = 1
  StoreBuffering = TRUE
SPECIFICATION Spec
INVARIANT NoStrandedSleeper
\* A sleeper may block for ever when nobody calls awake (no timeout exists).
CHECK_DEADLOCK FALSE
