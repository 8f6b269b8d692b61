SPECIFICATION SpecUnlessRefilled
CONSTANTS
    Slots = {s1, s2, s3, s4, s5}
    Bufs = {b1, b2}
    Dies = {d1}
    Blocks = {k1, k2}
    PAGES = 2
    HostCodes = {"tx"}
    MaxSlices = 1
    NONE = NONE
SYMMETRY Symmetry
INVARIANTS
    TypeOK
    BufferExclusive
    BlockedReadsExact
    ProgramOrder
    BlockedEraseFound
PROPERTY InOrder
CHECK_DEADLOCK FALSE
