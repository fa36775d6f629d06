SPECIFICATION FairSpec
CONSTANTS
    h1 = h1
    h2 = h2
    h3 = h3
    server = server
    x1 = x1
    x2 = x2
    Routers <- TwoRouters
    Hosts <- ThreeHosts
    Outside <- BorderIsOne
    Available <- TwoAddresses
    Route <- Direct
    HomeRouter <- Homes
    Budget <- SmallBudget
INVARIANTS
    TypeOK
    AddressesConserved
    RepliesComeHome
    RightHost
PROPERTY AnswersArrive
CHECK_DEADLOCK FALSE
