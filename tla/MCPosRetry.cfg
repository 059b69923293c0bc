SPECIFICATION Spec
CONSTANTS
    h1 = h1
    h2 = h2
    owner = owner
    clerk = clerk
    Handlers <- OneHandler
    Users <- TwoUsers
    Owner = owner
    Changes <- NoChanges
    MaxStep = 0
    MaxSecret = 1
    MaxSessions = 1
    MaxVersion = 1
    Pages <- RetailCounter
    Seller = clerk
    Surprises <- NetworkOnly
    MaxSales = 1
    MaxTries = 2
    MaxEdits = 0
INVARIANTS
    RetriesPayOnce
CHECK_DEADLOCK FALSE
