SPECIFICATION MCSpec
CONSTANTS
    Requests <- ManyRequests
    Notes <- TwoNotes
    OldLogs <- SomeOldLogs
    LongLine <- IsLong
    SplitLine <- IsSplit
    MaxRecords = 3
    MaxPlans = 3
    Roots <- SomeRoots
    Times <- SomeTimes
    ObjectLists <- AllObjectLists
    BlobLists <- AllBlobLists
    OutboxLists <- AllOutboxLists
    Versions <- OneVersion
INVARIANTS
    EffectIdsUnique
    AdmittedAsPlanned
    LogHolds
    PlannersAgree
CHECK_DEADLOCK FALSE
