SPECIFICATION NmcSpec
CONSTANTS
    USER_CHANNELS = 2
    USER_WAYS = 3
    PAGES = 2
    BLOCKS = 4
    DIRS = 1
    SkipList <- SkipOne
    fileA = fileA
    fileB = fileB
    Names = {fileA, fileB}
    Limits = {1}
    MaxPages = 4
    MaxStarts = 3
    Erased = Erased
    Torn = Torn
SYMMETRY Symmetry
INVARIANTS
    NmcTypeOK
    RecoverMatches
    FlushedFilesKept
    FilesKeepBlocks
CHECK_DEADLOCK FALSE
