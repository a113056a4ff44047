CONSTANTS
    N = 3
    V = 3
    Vals <- MCVals
    BVals <- MCBVals
    Scans <- MCScans
    Permits = 2
    OuterPermits = 1
    MaxSegments = 3
    SlowFirstRead = FALSE
SPECIFICATION Spec
INVARIANT TypeOK
INVARIANT PermitsTrackEntries
INVARIANT PushDownPreservesResult
PROPERTY StreamRefinement
CHECK_DEADLOCK FALSE
