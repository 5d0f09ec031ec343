CONSTANTS
    CYCLE = 16
    WORD = 64
    MAX_PAYLOAD_SIZE = 2
    InitialRTO = 1
    MaxWindow = 7
    LINGER = 1
    kReadBufferSize = 2
    SendCapacity = 1
    RecvCapacity = 2
    LocalIsn = 13
    RemoteIsn = 0
    KernelBuffer = 1
    OwnerBytes = 1
    RemoteBytes = 2
    MaxStrays = 1
SPECIFICATION Spec
INVARIANT SurvivesIfRead
\* the thread ends, and with it what the others do
CHECK_DEADLOCK FALSE
