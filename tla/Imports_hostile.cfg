SPECIFICATION Spec
CONSTANTS
    i1 = i1
    None = None
    Junk = Junk
    Importers <- OneImporter
    Refs <- TenRefs
    Object <- Objects
    Size <- Sizes
    MaxPayload = 2
    MaxTotal = 7
    Manifests <- ManyManifests
    Policies <- ManyPolicies
    Provenances <- BothProvenances
    LocalCommits <- OwnObject
    MaxWrites = 1
    MaxRecords = 1
INVARIANTS
    TypeOK
    SnapshotPublished
    ImportsPinned
    TruthEarned
CHECK_DEADLOCK FALSE
