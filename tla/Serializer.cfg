SPECIFICATION SSpec
CONSTANTS
    BaseSize = 2
    Junk = Junk
    Null = Null
    GroupBits = 2
    IntBits = 5
    Scripts <- MCScripts
    RawData <- MCRawData
    MaxSize = 6
INVARIANTS
    CursorInStep
    ReadBack
PROPERTY ImplementsBuffer
CHECK_DEADLOCK FALSE
