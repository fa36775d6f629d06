SPECIFICATION Spec
CONSTANTS
    Faults <- AllFaults
    sender_window_size = 2
    recver_window_size = 2
    FileChunks = 2
    LenModulus = 8
    MaxSeq = 4
INVARIANT SuccessMeansDelivered
CHECK_DEADLOCK FALSE
