SPECIFICATION FairSpec
CONSTANTS
    p = p
    c1 = c1
    y = y
    z = z
    NoFiber = NoFiber
    PushCv = PushCv
    PopCv = PopCv
    CondVars <- MCCondVars
    Fibers <- MCFibers
    Roles <- MCRoles
    Capacity = 1
    MaxTasks = 3
INVARIANT NobodySleepsInVain
PROPERTIES
    ImplementsChannel
    CloseReleases
CHECK_DEADLOCK FALSE
