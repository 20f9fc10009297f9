SPECIFICATION Spec
CONSTANTS
    Size = 4
    FifoDepth = 2
    MaxBytes = 9
INVARIANTS
    TypeOK
    ReadsInOrder
    LengthAccountsForLost
PROPERTY DrainsAllButLost
CHECK_DEADLOCK FALSE
