CONSTANTS
  Threads = {t1, t2, t3}
  NoThread = NoThread
  Wrap = 8
  MaxDepth = 2
  LRVehicles = {l1, l2}
  RLVehicles = {m1, m2}
  BrMaxLimit = 2
  BiReaders = {r1, r2}
  BiWriters = {w1, w2}
  BiMaxLimit = 2
  FmReaders = {f1, f2}
  FmWriters = {g1, g2}
  BarThreads = {b1, b2, b3, b4}
  Thresholds = {2, 3, 4}
  MaxRounds = 2
  Limit = 20
  LastNumber = 7
  Slaves = {s1, s2}
  Pausers = {u1, u2}
  V1Threads = {v1, v2, v3}
  V1Locks = TRUE
  Producers = {p1, p2}
  Consumers = {c1, c2}
  QSize = 5
SPECIFICATION Spec
INVARIANTS
  RecNoLostWakeup RecDestroyable RWNoLostWakeup NobodyIsForgotten BrAssertions
  BarChainUnbroken EpOneTurn SleepersAreAccountedFor
PROPERTIES
  RecImplementsAccess RWImplementsAccess BrImplementsAccess BiImplementsAccess
  BarImplementsMeeting LocksMakeProgress MeetingsEnd
CHECK_DEADLOCK FALSE
