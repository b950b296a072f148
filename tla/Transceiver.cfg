SPECIFICATION FairRoundSpec
CONSTANTS
    rn16 = rn16
    epc = epc
    noise = noise
    Packets <- MCPackets
    RN16s <- MCRN16s
    EPC = epc
    Noise = noise
    NoTag = NoTag
    QueueLimit = 100
    OutputSymbolLen <- MCSymbols
    BitOffset = 2
    OutputBitLen <- MCBits
    SymBufLimit = 2
    BitBufLimit = 1
    UninitStates = {"IDLE"}
    UninitCounts = {0}
    Correlators = {0, 1}
    MaxCommands = 1
    Prompts = {{"main"}, {"main", "framer"}}
INVARIANTS
    OnlyTheAckRaces
    CopiedIsSearchedBySame
    AckAnswersTheTag
    WindowsMatchCommands
PROPERTIES
    
    RoundEnds
    ImplementsReplyFramer
CHECK_DEADLOCK FALSE
