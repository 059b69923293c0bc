SPECIFICATION Spec
CONSTANTS
    w1 = w1
    w2 = w2
    s1 = s1
    o1 = o1
    o2 = o2
    o3 = o3
    k1 = k1
    k2 = k2
    v1 = v1
    Workers <- MCWorkers
    Requests <- MCRequests
    Sessions <- MCSessions
    Orders <- MCOrders
    Price <- MCPrice
    Keys <- MCKeys
    VoidKeys <- MCVoidKeys
    MaxInvoice = 2
SYMMETRY WorkerSymmetry
CONSTRAINT OneStory
INVARIANTS
    BillsCoverTheirOrders
    CafeInvoicesReconcile
PROPERTIES
    OrdersAreNotOverwritten
    
CHECK_DEADLOCK FALSE
