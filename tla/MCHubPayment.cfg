SPECIFICATION RetailSpec
CONSTANTS
    w1 = w1
    w2 = w2
    i1 = i1
    i2 = i2
    i3 = i3
    p1 = p1
    p2 = p2
    c1 = c1
    v1 = v1
    Workers <- MCWorkers
    Requests <- PaymentMenu
    Invoices <- MCInvoices
    Line <- MCLine
    Products <- MCProducts
    Opening <- MCOpening
    Customers <- MCCustomers
    CreditLimit <- MCCreditLimit
    VoidKeys <- MCVoidKeys
SYMMETRY WorkerSymmetry
INVARIANTS
    PaymentsAreKept
CHECK_DEADLOCK FALSE
