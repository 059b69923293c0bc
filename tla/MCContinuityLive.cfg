SPECIFICATION AttendedSpec
CONSTANTS
    g1 = g1
    g2 = g2
    r1 = r1
    Nobody = Nobody
    Hubs <- OneHub
    References <- OneReference
    MaxEpoch = 3
PROPERTIES
    LeaseIsRegained
    DeadLettersAreShown
CHECK_DEADLOCK FALSE
