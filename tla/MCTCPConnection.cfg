CONSTANTS
    CYCLE = 16
    WORD = 64
    MAX_PAYLOAD_SIZE = 1
    InitialRTO = 1
    MaxWindow = 7
    LINGER = 2
    Client = Client
    Server = Server
    SendCapacity = 2
    RecvCapacity = 2
    Isn <- MCIsn
    Length <- MCOneWay
    WriteLen = {1, 2}
    MaxInFlight = 2
    MaxFaults = 2
SPECIFICATION FairSpec
INVARIANT StreamsIntact
INVARIANT AckedIsReceived
INVARIANT NothingLostByLeaving
PROPERTY EventuallyDelivered
PROPERTY EventuallyBothLeave
\* both sides may have ended
CHECK_DEADLOCK FALSE
