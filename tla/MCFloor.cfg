SPECIFICATION Spec
CONSTANTS
    h1 = h1
    h2 = h2
    t1 = t1
    Handlers <- MCHandlers
    Tables <- MCTables
    Requests <- MCRequests
    MaxSession = 2
    MaxOrder = 2
    MaxInvoice = 2
    MaxToken = 2
SYMMETRY HandlerSymmetry
CONSTRAINT Menu
INVARIANTS
    TableShowsItsSession
    NothingArrivesAfterTheBillIsAsked
    BillCoversItsSession
    GuestOrdersAreStoredOnce
    ChargedWithinQuote
PROPERTIES
    FloorIsSerial
CHECK_DEADLOCK FALSE
