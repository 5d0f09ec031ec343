CONSTANTS
    CYCLE = 16
    WORD = 64
    MAX_PAYLOAD_SIZE = 2
    InitialRTO = 1
    MaxWindow = 7
    LINGER = 2
    Client = Client
    Server = Server
    SendCapacity = 2
    RecvCapacity = 1
    Isn <- MCIsn
    Length <- MCShort
    WriteLen = {1, 2}
    MaxInFlight = 2
    MaxFaults = 2
SPECIFICATION FairSpec
CHECK_DEADLOCK FALSE
PROPERTY EventuallyInactive
