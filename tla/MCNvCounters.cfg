CHECK_DEADLOCK FALSE
SPECIFICATION Spec
CONSTANTS
    Items = {1, 2, 3}
    NumSectors = 2
    SectorOf <- InOrder
    MaxValue = 3
    MaxSwap = 4
    MaxCrashes = 3
    MaxErrors = 2
INVARIANTS AreasAgree
PROPERTY ImplementsStore
