SPECIFICATION FairSpec
CONSTANTS
    d1 = d1
    d2 = d2
    Deliverers <- TwoDeliverers
    Effects <- FourEffects
    Handled <- ThreeEffects
    Poison <- First
    MaxTrouble = 2
INVARIANTS
    AcksSound
    RedeliveryNeedsTrouble
PROPERTIES
    AcksPermanent
    EventuallyAcked
