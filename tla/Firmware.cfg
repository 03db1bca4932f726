SPECIFICATION Spec
CONSTANTS
    Address = 39
    Chars = {75}
    MaxCalls = 2
    MaxFaults = 2
    Depth = 2
INVARIANTS ReturnTells LcdInSync EverythingSaid FlagsTell
PROPERTIES FifosAreQueues
CHECK_DEADLOCK FALSE
