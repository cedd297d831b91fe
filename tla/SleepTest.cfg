\* mp_sleep.c with three children under a store buffer: the test ends whenever its sleep orders the awake after all three children's sleeps.
CONSTANTS
  c1 = c1
  c2 = c2
  c3 = c3
  p = p
  Children <- MCChildren
  Parent = p
  StoreBuffering = TRUE
SPECIFICATION FairSpec
PROPERTY TestTerminates
\* A child that is late for the one awake sleeps for ever and the parent waits for it: the test really hangs.
CHECK_DEADLOCK FALSE
