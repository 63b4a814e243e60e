SPECIFICATION FairSpec
CONSTANTS
    Clients = {c1, c2, c3}
    NumSlots = 2
    None = None
INVARIANTS RequestInOnePlace SlotsAccounted
PROPERTY PlacedCallReturns
CHECK_DEADLOCK FALSE
