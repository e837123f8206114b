CONSTANTS
  Readers = {r1, r2}
  Writers = {w1, w2}
  Limits <- MonitorLimits
  ShutsDown = TRUE
  StopAfterShutdown = TRUE
  N = 5
  RollNos = {roll1, roll2}
  MaxStudents = 3
  Citizens = {z1, z2, z3, z4}
  Ages = {14, 35}
  MaxCapacity = 2
  EastCars = {e1, e2}
  WestCars = {o1, o2}
  Dests = {"a"}
  Masks = {"m", "n"}
  RouteData = {"x", "y"}
  SubscribedDests <- SubscribedTwice
  FirstMask = "m"
  MaxNodes = 2
  NfDests = {"a"}
  NfData = {"x", "y"}
  NfWanted <- WantedByBoth
  MaxEntries = 2
  PublisherDeletes = TRUE
  CancelThreads = {k1, k2}
  LlLists = {"a", "b"}
  LlData = {2, 3, 4}
  MaxLlNodes = 3
  GlNodes = {n1, n2, n3, n4}
  PriorityBase = base1
  PlainBase = base2
  Urgent = {n1, n2}
  NoGl = NoGl
SPECIFICATION ProgramsSpec
INVARIANTS
  NoStrandedWaiter
  PhSleeperIsOwedASignal CrudCountsItsUsers CrudUsedIsAlive SleepersAreRemembered
  CancelLeavesNothing LlSound GlLinksAgree
PROPERTIES
  StrictAlternation ImplementsAccess MonitorServes
  SubscribersKeepUp EndsAreReached ListsKeepTheirPromise
CHECK_DEADLOCK FALSE
