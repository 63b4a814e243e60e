SPECIFICATION Spec
CONSTANTS
    Uids = {u1, u2, u3}
    Vals = {x}
    CreateFlags = {TRUE, FALSE}
    NumAssets = 2
    Rollback = TRUE
    CreateLayout = TRUE
    SwapMod = 4
    MaxNvc = 4
    MaxCrashes = 2
    MaxErrors = 2
    Faults = {"get", "set", "remove", "increment"}
    Torn = Torn
    None = None
INVARIANTS TableIsWhole ReplacementHasRoom OneEntryPerObject
PROPERTIES OldTableStaysRejected ImplementsStore
SYMMETRY PsSymmetry
