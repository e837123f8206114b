CONSTANTS
  Workers = {w1, w2}
  Callers = {c1, c2, c3}
  BlockingCallers = {c1}
  MaxCalls = 2
  NoWorker = NoWorker
  NoCaller = NoCaller
  Size = 3
  WaitSize = 2
  MaxPushes = 5
  PushAnytime = FALSE
  FaStages = 3
  FaCars = 3
  NMappers = 4
SPECIFICATION WorkSpec
INVARIANTS NobodyLost AslLineKept ObjectsKeepTheirOrder
PROPERTIES JobsRunOnce AnswersAreTrue PoolServesEverybody WorkIsFinished
CHECK_DEADLOCK FALSE
