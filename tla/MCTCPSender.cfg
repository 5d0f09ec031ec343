CONSTANTS
    CYCLE = 16
    WORD = 64
    MAX_PAYLOAD_SIZE = 2
    InitialRTO = 1
    SendCapacity = 3
    MaxAge = 6
    Isn = {0, 13}
    Window = {0, 2, 3, 8}
    WriteLen = {1, 3}
    MaxBytes = 4
    MaxElapsed = 4
    MaxRetrans = 2
SPECIFICATION Spec
INVARIANT TimerIffOutstanding
INVARIANT SegmentsHoldStream
INVARIANT OutstandingIffUnacked
INVARIANT ExponentialBackoff
PROPERTY DataWithinWindow
PROPERTY RetransmitsEarliest
