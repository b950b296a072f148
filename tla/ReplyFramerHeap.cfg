SPECIFICATION Spec
CONSTANTS
    rn16 = rn16
    epc = epc
    Packets <- MCPackets
    NoTag = NoTag
    QueueLimit = 2
    OutputSymbolLen <- MCShortSymbols
    BitOffset = 2
    OutputBitLen <- MCShortBits
    SymBufLimit = 3
    BitBufLimit = 2
    UninitStates <- MCAnyHeap
    UninitCounts = {0, 1, 3}
INVARIANTS
    BackEndAsserts
CHECK_DEADLOCK FALSE
