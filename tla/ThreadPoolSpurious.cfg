CONSTANTS
  Workers = {w1}
  Callers = {c1, c2}
  BlockingCallers = {c1, c2}
  MaxCalls = 1
  NoWorker = NoWorker
  NoCaller = NoCaller
SPECIFICATION SpuriousSpec
INVARIANT FiredThreadLeftThePool
CHECK_DEADLOCK FALSE
