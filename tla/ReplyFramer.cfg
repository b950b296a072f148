SPECIFICATION FairSpec
CONSTANTS
    rn16 = rn16
    epc = epc
    Packets <- MCPackets
    NoTag = NoTag
    QueueLimit = 2
    OutputSymbolLen <- MCShortSymbols
    BitOffset = 2
    OutputBitLen <- MCShortBits
    SymBufLimit = 3
    BitBufLimit = 2
    UninitStates <- MCZeroedHeap
    UninitCounts = {0}
INVARIANTS
    TypeOK
    BackEndAsserts
    PacketsIntact
    QuietBetweenFrames
    FrameInv
PROPERTIES
    TaggedIsDecoded
    
CHECK_DEADLOCK FALSE
