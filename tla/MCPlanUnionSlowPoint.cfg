CONSTANTS
    N = 4
    Cells = 2
    Present <- MCPresent
    Queries <- MCPresentPoint
    Permits = 1
    OuterPermits = 1
    MaxSegments = 3
    SlowFirstRead = FALSE
    SlowPointRead = TRUE
SPECIFICATION Spec
INVARIANT UnionCompleteOnEnd
CHECK_DEADLOCK FALSE
