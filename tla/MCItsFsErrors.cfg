CONSTANTS
    Fids = {f, g, h}
    Vals = {v}
    NumBlocks = 2
    BlockSize = 4
    MetaSize = 2
    MaxFiles = 3
    MaxFileSize = 1
    MaxRequest = 2
    CreateFlags = {FALSE}
    BufSize = 1
    SwapMod = 4
    EraseVal = 0
    Nor = TRUE
    MaxErrors = 1
    None = None
    Free = Free
    Erased = Erased
SYMMETRY FsSymmetry
SPECIFICATION Spec
CHECK_DEADLOCK FALSE
INVARIANTS OneEntryPerFile
PROPERTIES OtherFilesIntact
