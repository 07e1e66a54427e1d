SPECIFICATION FairSpec
CONSTANTS
    c1 = c1
    c2 = c2
    c3 = c3
    A = A
    B = B
    add = add
    sub = sub
    None = None
    Recv = Recv
    User = User
    Callers <- MCCallers
    Entries <- MCEntries
    Loads <- MCLoads
INVARIANTS
    OneOfEach
    CacheFollows

    
CHECK_DEADLOCK FALSE
