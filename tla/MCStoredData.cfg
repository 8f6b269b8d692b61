SPECIFICATION StoredSpec
CONSTANTS
    USER_CHANNELS = 2
    USER_WAYS = 1
    USER_BLOCKS_PER_DIE = 3
    USER_PAGES_PER_BLOCK = 2
    LogicalSlices = {a, b, c, d}
    Data = {x, y}
    FreeAtBoot <- OneBadBlock
    NONE = NONE
SYMMETRY Symmetry
INVARIANTS
    MapsAgree
    InvalidCountExact
    VictimListsExact
    VictimWhileRoom
    BlockAvailable
PROPERTY ImplementsSliceStore
CHECK_DEADLOCK FALSE
