SPECIFICATION FairSpec
CONSTANTS
    Faults <- DataLoss
    sender_window_size = 3
    recver_window_size = 2
    FileChunks = 3
    LenModulus = 8
PROPERTY SendCompletes
CHECK_DEADLOCK FALSE
