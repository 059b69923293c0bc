SPECIFICATION Spec
CONSTANTS
    h1 = h1
    h2 = h2
    owner = owner
    clerk = clerk
    Handlers <- TwoHandlers
    Users <- TwoUsers
    Owner = owner
    Changes <- EveryChange
    MaxStep = 1
    MaxSecret = 2
    MaxSessions = 3
    MaxVersion = 2
    Pages <- CounterAndGuest
    Seller = clerk
    Surprises <- EverySurprise
    MaxSales = 2
    MaxTries = 3
    MaxEdits = 1
SYMMETRY HandlerSymmetry
CONSTRAINT Menu
INVARIANTS
    SessionsCarryTheFactor
    CodesOpenOneSession
    UnconfirmedIsStored
    SalesArePostedOnce
PROPERTIES
    EndedForGood
CHECK_DEADLOCK FALSE
