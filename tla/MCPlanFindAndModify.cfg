CONSTANTS
    N = 3
    Pass <- MCPass
    Requests <- MCRequests
    Permits = 2
    OuterPermits = 1
    MaxSegments = 3
    MaxMetaChanges = 1
    CommitFails = TRUE
    SlowFirstRead = FALSE
SPECIFICATION Spec
INVARIANT TypeOK
INVARIANT FindsFirstMatch
INVARIANT ReplyMatchesCommit
PROPERTY QueryTerminates
CHECK_DEADLOCK FALSE
