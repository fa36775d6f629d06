SPECIFICATION Spec
CONSTANTS
    Faults <- AllFaults
    sender_window_size = 3
    recver_window_size = 3
    FileChunks = 2
    LenModulus = 8
INVARIANTS
    TypeOK
    WrittenInOrder
    AckedIsWritten
    SuccessMeansDelivered
    EndIsLast
    TimeoutResendsWindow
    CacheInWindow
PROPERTY ImplementsTransfer
CHECK_DEADLOCK FALSE
