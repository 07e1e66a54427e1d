SPECIFICATION FairSpec
CONSTANTS
    p1 = p1
    p2 = p2
    c1 = c1
    A = A
    B = B
    add = add
    sub = sub
    None = None
    Providers <- MCProviders
    Consumers <- MCConsumers
    Offers <- MCOffers
    Asks <- MCAsks
    Places <- MCPlaces
INVARIANTS
    MapsInStep
    NobodyMissed
PROPERTIES
    ImplementsRegistry
    GoneAreRemoved
CHECK_DEADLOCK FALSE
