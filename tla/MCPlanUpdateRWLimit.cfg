CONSTANTS
    N = 3
    Ranges <- MCRangeOneTwo
    Ops = {"Update"}
    MaxMetaChanges = 0
    Limit = 2
    Upsert = FALSE
    Permits = 3
    OuterPermits = 1
    BufferMax = 2
    MaxSegments = 2
    MaxRetries = 0
    MaxReadErrors = 0
    SlowFirstRead = FALSE
SPECIFICATION Spec
INVARIANT UpdateCompleteOnEnd
CHECK_DEADLOCK FALSE
