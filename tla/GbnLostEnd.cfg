SPECIFICATION FairLinkSpec
CONSTANTS
    Faults <- DataLoss
    sender_window_size = 1
    recver_window_size = 1
    FileChunks = 1
    LenModulus = 8

PROPERTY ReceiveReturns
CHECK_DEADLOCK FALSE
