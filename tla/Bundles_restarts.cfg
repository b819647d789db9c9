SPECIFICATION Spec
CONSTANTS
    p1 = p1
    None = None
    Partial = Partial
    Publishers <- OnePublisher
    Refs <- TwoRefs
    Manifests <- TwoBundles
    MaxExports = 2
    MaxTrouble = 1
INVARIANTS
    ExportsWhole
    PromisesHold
CHECK_DEADLOCK FALSE
