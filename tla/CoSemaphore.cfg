SPECIFICATION FairSpec
CONSTANTS
    u1 = u1
    u2 = u2
    u3 = u3
    q = q
    NoFiber = NoFiber
    Cv = Cv
    CondVars <- MCCondVars
    Fibers <- MCFibers
    PosterSets <- MCPosterSets
    Num = 2
    MaxTasks = 3
INVARIANTS
    PermitsConserved
    PermitsHaveTakers
