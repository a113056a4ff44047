CONSTANTS
    N = 3
    Ranges <- MCRangeOneTwo
    Ops = {"Update"}
    MaxMetaChanges = 0
    Limit = 9
    Upsert = FALSE
    Permits = 5
    OuterPermits = 1
    BufferMax = 2
    MaxSegments = 2
    MaxRetries = 0
    MaxReadErrors = 1
    SlowFirstRead = FALSE
SPECIFICATION Spec
INVARIANT UpdatesAppliedOnce
CHECK_DEADLOCK FALSE
