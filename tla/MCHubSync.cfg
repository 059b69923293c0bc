SPECIFICATION Spec
CONSTANTS
    o1 = o1
    o2 = o2
    b1 = b1
    Orders <- TwoOrders
    Bills <- OneBill
    BillOf <- AboutO1
    Targets <- Course
    Mishaps <- AnythingGoesWrong
    BatchLimit = 2
    MaxAttempts = 2
    MaxVersion = 6
CONSTRAINT Menu
INVARIANTS
    SentIsMirrored
    AcknowledgedIsImported
    FailuresAreVisible
    PublishedWithoutGap
PROPERTIES
    FeedSpec
CHECK_DEADLOCK FALSE
