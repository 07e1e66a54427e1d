SPECIFICATION FairSpec
CONSTANTS
    a = a
    b = b
    User = User
    Recv = Recv
    Sender = Sender
    Beat = Beat
    None = None
    Callers <- MCCallers
    Loads <- MCLoads
INVARIANT CallsAccounted
PROPERTIES
    ImplementsRpc
    RegisteredReturns
CHECK_DEADLOCK FALSE
