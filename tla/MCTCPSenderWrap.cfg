CONSTANTS
    CYCLE = 8
    WORD = 64
    MAX_PAYLOAD_SIZE = 2
    InitialRTO = 1
    SendCapacity = 3
    MaxAge = 2
    Isn = {0}
    Window = {3}
    WriteLen = {1, 3}
    MaxBytes = 10
    MaxElapsed = 4
    MaxRetrans = 2
SPECIFICATION Spec
INVARIANT OutstandingIffUnacked
