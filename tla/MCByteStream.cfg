CONSTANTS
    Byte = {nul, x}
    NUL = nul
    Capacity = 3
    Chunk <- MCChunk
    ReadLen <- MCReadLen
    MaxBytes = 7
SPECIFICATION Spec
INVARIANT TypeOK
INVARIANT RingConsistent
PROPERTY ImplementsFifo
