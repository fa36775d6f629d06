SPECIFICATION FairSpec
CONSTANTS
    c1 = c1
    c2 = c2
    srv = srv
    Clients <- TwoClients
    Server = srv
    Names <- TwoNames
    Blocks <- TwoBlocks
    BUFSIZE = 2
    InitialDisk <- SomeFiles
    MaxDescriptors = 3
    EarlierSessions <- NoneOrTwo
    MaxCommands = 2
    MaxUnread = 0
    Edited <- SharedFiles
    MaxTroubles = 1
INVARIANTS
    TypeOK
    InStep
    StopsHaveCauses
PROPERTIES
    ImplementsFileStore
    CommandsReturn
    OpensReturn
CHECK_DEADLOCK FALSE
