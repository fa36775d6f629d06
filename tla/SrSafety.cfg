SPECIFICATION Spec
CONSTANTS
    Faults <- AllButDupAck
    sender_window_size = 2
    recver_window_size = 2
    FileChunks = 3
    LenModulus = 8
    MaxSeq = 4
INVARIANTS
    TypeOK
    WrittenInOrder
    FlagsAreTrue
    SuccessMeansDelivered
PROPERTY ImplementsTransfer
CHECK_DEADLOCK FALSE
