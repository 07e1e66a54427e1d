SPECIFICATION FairSpec
CONSTANTS
    w1 = w1
    w2 = w2
    f1 = f1
    y = y
    x = x
    c1 = c1
    c2 = c2
    None = None
    Threads <- MCThreads
    Fibers <- MCFibers
    UserFibers <- MCUserFibers
    Cbs <- MCCbs
    MaxSubmits = 2
    MaxHolds = 1
    MaxSpins = 1
INVARIANTS
    NoFiberForgotten
    ExitMeansDone
PROPERTIES
    EndedStaysEnded
    TaskIsRun
    StopReturns
CHECK_DEADLOCK FALSE
