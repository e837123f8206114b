CONSTANT N = 5
SPECIFICATION PhFairSpec
PROPERTY PhReleasesTheLeft
CHECK_DEADLOCK FALSE
