SPECIFICATION FairSpec
CONSTANTS
    r = r
    s = s
    w1 = w1
    w2 = w2
    None = None
    Fibers <- MCFibers
    Pollers <- MCPollers
    Calls <- MCCalls
    LimitSets <- MCLimitSets
    MaxOps = 1
INVARIANTS
    WaitersAccounted
    ReadyIsNoticed
PROPERTY HookedCallReturns
CHECK_DEADLOCK FALSE
