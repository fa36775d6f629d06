SPECIFICATION FairSpec
CONSTANTS
    a = a
    b = b
    c = c
    h1 = h1
    h2 = h2
    h3 = h3
    Switches <- ThreeSwitches
    Hosts <- ThreeHosts
    Ports <- ThreePorts
    Wire <- Line
    Toward <- AlongLine
    Home <- Plugged
    ETHER_MAC_AGING_THRESHOLD = 2
    MaxFrames = 2
    MaxMoves = 1
INVARIANTS
    TypeOK
    StationaryEntries
    ExactlyOnce
PROPERTY TablesSettle
