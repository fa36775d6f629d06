SPECIFICATION FairLinkSpec
CONSTANTS
    Faults <- BothLoss
    sender_window_size = 2
    recver_window_size = 2
    FileChunks = 2
    LenModulus = 8

PROPERTY SendCompletes
CHECK_DEADLOCK FALSE
