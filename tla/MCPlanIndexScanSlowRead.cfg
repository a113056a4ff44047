CONSTANTS
    N = 3
    V = 3
    Vals <- MCVals
    BVals <- MCBVals
    Scans <- MCScans
    Permits = 2
    OuterPermits = 1
    MaxSegments = 3
    SlowFirstRead = TRUE
SPECIFICATION Spec
INVARIANT IndexExactlyOnceInOrder
CHECK_DEADLOCK FALSE
