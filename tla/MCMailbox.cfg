\* Tasks whose calls are never answered wait for ever.
CHECK_DEADLOCK FALSE
SPECIFICATION FairSpec
CONSTANTS
    c1 = c1
    c2 = c2
    Clients = {c1, c2}
    NumSlots = 2
    NumConns = 2
    Ops <- MCOps
    None = None
CONSTRAINT NotStray
INVARIANTS ReplyIsOwn EmptySlotIsUnused NoRequestLost ConnectionsAccounted
PROPERTY EveryCallReturns
