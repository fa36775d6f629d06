SPECIFICATION FairSpec
CONSTANTS
    Faults <- BothLoss
    sender_window_size = 2
    recver_window_size = 2
    FileChunks = 4
    LenModulus = 8
    MaxSeq = 5
PROPERTIES
    SendCompletes
    OverrunIsFinal
CHECK_DEADLOCK FALSE
