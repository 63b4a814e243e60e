CONSTANTS
    Fids = {f, g}
    Vals = {v, w}
    NumBlocks = 4
    BlockSize = 3
    MetaSize = 2
    MaxFiles = 3
    MaxFileSize = 2
    MaxRequest = 2
    CreateFlags = {FALSE}
    BufSize = 1
    SwapMod = 5
    EraseVal = 4
    Nor = FALSE
    MaxErrors = 0
    None = None
    Free = Free
    Erased = Erased
SYMMETRY FsSymmetry
SPECIFICATION Spec
CHECK_DEADLOCK FALSE
INVARIANTS SpaceAccounted ScratchIsNotLive
PROPERTIES ImplementsFileStore
