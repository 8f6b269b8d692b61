SPECIFICATION Spec
CONSTANTS
    USER_CHANNELS = 1
    USER_WAYS = 1
    USER_BLOCKS_PER_DIE = 3
    USER_PAGES_PER_BLOCK = 2
    LogicalSlices = {a, b, c, d}
    FreeAtBoot <- AllBlocksFree
    NONE = NONE
SYMMETRY SliceSymmetry
INVARIANT NoBlockMissing
CHECK_DEADLOCK FALSE
