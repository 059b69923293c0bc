SPECIFICATION Spec
CONSTANTS
    h1 = h1
    h2 = h2
    c1 = c1
    c2 = c2
    NoCustomer = NoCustomer
    Handlers <- MCHandlers
    Customers <- MCCustomers
    Requests <- MCRequests
    CreditLimit = 3
    OpeningStock = 2
    MaxInvoice = 2
    LastDay = 2
    MaxPosts = 2
SYMMETRY HandlerSymmetry
CONSTRAINT Menu
INVARIANTS
    InvoicesReconcile
    LedgerReconciles
    CreditLimitHolds
    KeyedRequestsPostOnce
    NoOverselling
    StockReconciles
PROPERTIES
    CommitsAreSerial
    DayBookSpec
CHECK_DEADLOCK FALSE
