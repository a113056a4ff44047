CONSTANTS
    N = 3
    Ranges <- MCRanges
    Ops <- MCOps
    Catalogs = {"none", "sameKey", "sameName", "otherBuild"}
    Limit = 2
    Upsert = TRUE
    Permits = 2
    OuterPermits = 1
    MaxRetries = 2
    CommitUnknown = TRUE
SPECIFICATION Spec
INVARIANT TypeOK
INVARIANT AllOrNothing
INVARIANT OutputOnlyCommitted
INVARIANT CompleteOnEnd
INVARIANT PermitsTrackDocuments
PROPERTY QueryTerminates
CHECK_DEADLOCK FALSE
