CONSTANTS
    N = 3
    Ranges <- MCRanges
    Ops = {"Update", "BuildIndex"}
    MaxMetaChanges = 1
    Limit = 9
    Upsert = TRUE
    Permits = 5
    OuterPermits = 1
    BufferMax = 2
    MaxSegments = 2
    MaxRetries = 1
    MaxReadErrors = 1
    SlowFirstRead = FALSE
SPECIFICATION Spec
INVARIANT TypeOK
INVARIANT UpdatesExactlyOnceWithoutReadError
INVARIANT OutputOnlyCommitted
PROPERTY StaleBuildNeverCommits
INVARIANT PermitsCoverDocuments
PROPERTY QueryTerminates
CHECK_DEADLOCK FALSE
