SPECIFICATION SpecWithoutFileNames
CONSTANTS
    ENTRIES = 3
    Lsas = {0, 3, 4}
    LSA_NONE = 8
    NONE = NONE
INVARIANT
    LinksExact
PROPERTY ImplementsLruCache
