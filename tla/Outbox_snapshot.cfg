SPECIFICATION Spec
CONSTANTS
    d1 = d1
    d2 = d2
    Deliverers <- TwoDeliverers
    Effects <- TwoEffects
    Handled <- TwoEffects
    Poison <- Nothing
    MaxTrouble = 0
INVARIANTS
    SnapshotComplete
