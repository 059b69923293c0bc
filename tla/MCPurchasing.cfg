SPECIFICATION Spec
CONSTANTS
    h1 = h1
    h2 = h2
    x1 = x1
    x2 = x2
    Handlers <- MCHandlers
    Requests <- MCRequests
    Products <- MCProducts
    Stocked <- NoRows
    OpeningStock = 0
    MaxOrder = 2
    MaxPosts = 1
SYMMETRY HandlerSymmetry
CONSTRAINT Menu
INVARIANTS
    OnOrderReconciles
    GoodsReconcile
PROPERTIES
    OrderedAsSubmitted
CHECK_DEADLOCK FALSE
