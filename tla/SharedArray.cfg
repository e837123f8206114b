CONSTANT SaFlag = TRUE
SPECIFICATION SaSpec
INVARIANT SumIsFifteen
CHECK_DEADLOCK FALSE
