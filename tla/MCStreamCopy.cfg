CONSTANTS
    buffer_size = 2
    KernelBuffer = 1
    kReadBufferSize = 2
    MaxBytes = 3
SPECIFICATION FairSpec
INVARIANT NothingLost
INVARIANT EndIsTheEnd
INVARIANT EndsWell
PROPERTY EventuallyEnds
\* the copy may be over
CHECK_DEADLOCK FALSE
