CONSTANTS
    N = 3
    Cells = 2
    ScanLo = 0
    ScanHi <- MCScanHi
    Plans <- MCPlans
    Pass <- MCPass
    SortKey <- MCSortKey
    Permits = 2
    OuterPermits = 1
    MaxMetaChanges = 1
    SlowFirstRead = FALSE
SPECIFICATION Spec
INVARIANT TypeOK
INVARIANT SplitBoundContract
INVARIANT PermitsTrackDocuments
PROPERTY StreamRefinement
CHECK_DEADLOCK FALSE
