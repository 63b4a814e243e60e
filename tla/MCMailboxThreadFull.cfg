SPECIFICATION FairSpec
CONSTANTS
    Clients = {c1, c2}
    NumSlots = 1
    None = None
PROPERTY EveryCallReturns
CHECK_DEADLOCK FALSE
