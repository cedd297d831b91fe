\* Sequentially consistent memory: the wait_event protocol strands nobody.
CONSTANTS
  s1 = s1
  s2 = s2
  s3 = s3
  a1 = a1
  a2 = a2
  Sleepers <- MCSleepers
  Awakers <- MCAwakers
  MaxSleeps = 4
  MaxAwakes = 3
  StoreBuffering = FALSE
SPECIFICATION SCSpec
SYMMETRY MCSymmetry

INVARIANT NoStrandedSleeper
\* A sleeper may block for ever when nobody calls awake (no timeout exists).
CHECK_DEADLOCK FALSE
