SPECIFICATION FairSpec
CONSTANTS
    POSITIONS = 4
    LAPS = 4
    MaxBlocks = 3
    MaxRequests = 3
INVARIANT
    AutoDoneExact
PROPERTIES
    NoEarlyRelease
    QueueRelieved
