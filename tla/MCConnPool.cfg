\* The assertions of the pool stop the system once its free list is corrupted.
CHECK_DEADLOCK FALSE
CONSTANTS
    NumChunks = 4
    NULL = NULL
SPECIFICATION PoolSpec
INVARIANTS FreeListExact
