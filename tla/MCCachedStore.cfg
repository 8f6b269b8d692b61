SPECIFICATION StoreSpecUnlessHalted
CONSTANTS
    Bufs = {b1, b2}
    Keys <- MCKeys
    NONE = NONE
    SLICES = 3
    NVME_BLOCKS_PER_SLICE = 2
    Lengths = {1, 4}
    Sources <- MCSources
    Data <- MCData
    UNWRITTEN = UNWRITTEN
    NoCommand = NoCommand
SYMMETRY Symmetry
INVARIANT
    CleanBuffersMatch
PROPERTIES
    ImplementsBlockStore
    ReadsDeliver
CHECK_DEADLOCK FALSE
