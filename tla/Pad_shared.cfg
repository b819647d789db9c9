SPECIFICATION Spec
CONSTANTS
    p1 = p1
    p2 = p2
    edge = edge
    blob = blob
    None = None
    Procs <- TwoProcs
    Refs <- EdgeAndBlob
    Edges <- OneEdge
    Bundles <- AloneOrTogether
    Scopes <- OwnOrQuarantined
    LongLine <- IsLong
    SplitLine <- IsSplit
    Locking = TRUE
    MaxRecords = 2
SYMMETRY Interchangeable
INVARIANTS
    TypeOK
    LogTrue
    Resolvable
    IndexSound
PROPERTIES
    AppendOnly
