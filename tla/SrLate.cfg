SPECIFICATION Spec
CONSTANTS
    Faults <- NoFaults
    sender_window_size = 2
    recver_window_size = 2
    FileChunks = 4
    LenModulus = 8
    MaxSeq = 5
INVARIANT LateDataTolerated
CHECK_DEADLOCK FALSE
