SPECIFICATION Spec
CONSTANTS
    NumComps = 3
    NumBlocks = 3
    Needs <- NeedsCycle
    MaxErrors = 2
    MaxReboots = 2
INVARIANTS TypeOK RevertImageIntact CleanPossible DependenciesStaged InstallExcluded
PROPERTY ImplementsStates
CHECK_DEADLOCK FALSE
