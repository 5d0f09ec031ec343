CONSTANTS
    CYCLE = 16
    WORD = 64
    MaxWindow = 4
    Capacity = 5
    Length = 18
    Isn = {0, 11}
    MaxPayload = 6
    MaxAge = 8
    ReadLen = {1, 3}
SPECIFICATION Spec
INVARIANT TypeOK
INVARIANT ReaderGetsStream
INVARIANT AcksOnlyArrived
INVARIANT ArrivedIsHeld
PROPERTY RightEdgeNeverShrinks
