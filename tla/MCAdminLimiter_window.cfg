\* Two callers of one bucket, over two windows and more.
SPECIFICATION LimiterSpec

CONSTANTS
  Callers = {c1, c2}
  limit = 2
  windowMs = 4
  Second = 3
  MaxDelay = 2
  MaxTime = 10

SYMMETRY Symmetry
CONSTRAINT Bounded

INVARIANTS
  LimiterTypeOK
  WindowBound

PROPERTY
  RetryAfterIsEnough

CHECK_DEADLOCK FALSE
