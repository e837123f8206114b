CONSTANTS
  r1 = r1
  r2 = r2
  r3 = r3
  w1 = w1
  w2 = w2
  Readers = {r1, r2}
  Writers = {w1, w2}
  Limits <- TwoReadersOneWriter
  ShutsDown = FALSE
  StopAfterShutdown = TRUE
SPECIFICATION Spec
INVARIANT OnlyTheLastThreadFrees
CHECK_DEADLOCK FALSE
