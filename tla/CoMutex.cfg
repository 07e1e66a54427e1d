SPECIFICATION FairSpec
CONSTANTS
    f1 = f1
    f2 = f2
    f3 = f3
    NoFiber = NoFiber
    Fibers <- MCThree
    Workers = 2
INVARIANTS
    TypeOK
    MutualExclusion
    OwnerIdHonest
    NoLostWakeup
    WaiterInOnePlace
PROPERTIES
    ImplementsLock
    WaiterIsSubmitted
