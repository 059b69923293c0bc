SPECIFICATION AttendedSpec
CONSTANTS
    o1 = o1
    o2 = o2
    b1 = b1
    Orders <- OneOrder
    Bills <- NoBill
    BillOf <- AboutO1
    Targets <- Accept
    Mishaps <- TheHandlersAndTheLinkFail
    BatchLimit = 2
    MaxAttempts = 2
    MaxVersion = 2
PROPERTIES
    EverythingIsMirrored
    CommandsAreAnswered
CHECK_DEADLOCK FALSE
