CONSTANTS
  Size = 3
  WaitSize = 2
  MaxPushes = 5
  PushAnytime = TRUE
SPECIFICATION AslSpec
INVARIANT AslSlotOfT0Empty
CHECK_DEADLOCK FALSE
