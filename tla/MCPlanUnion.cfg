CONSTANTS
    N = 4
    Cells = 2
    Present <- MCPresent
    Queries <- MCQueries
    Permits = 1
    OuterPermits = 1
    MaxSegments = 3
    SlowFirstRead = FALSE
    SlowPointRead = FALSE
SPECIFICATION Spec
INVARIANT TypeOK
INVARIANT UnionExactlyOnce
INVARIANT UnionCompleteOnEnd
INVARIANT PermitsTrackDocuments
PROPERTY QueryTerminates
CHECK_DEADLOCK FALSE
