CONSTANTS
    Capacity = 5
    Length = 8
    Substring <- MCSubstring
    ReadLen <- MCReadLen
SPECIFICATION FairSpec
INVARIANT TypeOK
INVARIANT BytesInPlace
PROPERTY ImplementsSpec
PROPERTY EventuallyFinished
