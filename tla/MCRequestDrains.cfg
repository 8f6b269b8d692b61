SPECIFICATION ScriptedSpec
CONSTANTS
    Slots = {1, 2, 3, 4, 5}
    Bufs = {b1}
    Dies = {d1}
    Blocks = {k1, k2}
    PAGES = 2
    HostCodes = {"rx", "tx"}
    MaxSlices = 2
    NONE = NONE
    Script <- WaitingScript
PROPERTIES
    InOrder
    Drains
CHECK_DEADLOCK FALSE
