SPECIFICATION Spec
CONSTANTS
    g1 = g1
    g2 = g2
    r1 = r1
    Nobody = Nobody
    Hubs <- TwoHubs
    References <- OneReference
    MaxEpoch = 2
SYMMETRY HubSymmetry
INVARIANTS
    EpochsAreExclusive
PROPERTIES
    FencingSpec
CHECK_DEADLOCK FALSE
