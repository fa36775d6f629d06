SPECIFICATION FairSpec
CONSTANTS
    Routers <- ThreeRouters
    LinkPorts <- TwoPorts
    Infinity = 1000
    Link <- Line
    Costs <- LinkGetsDear
    MaxUnderWay = 1
INVARIANTS
    TypeOK
    NeverTooShort
PROPERTIES
    DistancesSettle
    RoutesArrive
