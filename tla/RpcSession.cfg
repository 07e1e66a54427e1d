SPECIFICATION Spec
CONSTANTS
    HeaderSize = 2
    Size <- MCSize
    Loads <- MCLoads
    WireCapacity = 2
    IovCapacity = 4
    None = None
INVARIANT Whole
PROPERTIES
    EverythingArrives
    ClosedEndsAll
