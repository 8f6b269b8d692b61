SPECIFICATION Spec
CONSTANTS
    USER_BLOCKS_PER_LUN = 2
    TOTAL_BLOCKS_PER_LUN = 4
    LUNS_PER_DIE = 2
    OVER_PROVISION = 1
    NoTable = NoTable
    MaxFactoryBad = 1
    MaxWorn = 2
INVARIANTS
    TypeOK
    MappedApart
    GrownBadKept
    CapacityBacked
