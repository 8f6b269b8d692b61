SPECIFICATION Spec
CONSTANTS
    Queues = {1, 2}
    Tags = {t1, t2}
    HostOps = {"CreateSq", "CreateCq", "DeleteSq", "DeleteCq", "CacheOn", "CacheOff", "Answered", "AsyncEvent", "Move", "Flush"}
INVARIANTS
    TypeOK
    SessionEndsClean
    SlotsReturned
PROPERTY HostAnswered
