SPECIFICATION FairSpec
CONSTANTS
    USER_WAYS = 2
    RETRY_LIMIT = 1
    QUEUE_DEPTH = 2
    Codes = {"read", "write"}
    MaxQueued = 1
INVARIANTS
    TypeOK
    ListsTellState
    ReportIsCurrent
    TransfersOwnPage
PROPERTIES
    DoneWhenExecuted
    DiesServed
