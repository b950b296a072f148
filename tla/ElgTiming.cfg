SPECIFICATION FairSpec
CONSTANTS
    OutputSymbolLen = 5
    OutputSampleLen <- MCOutputSampleLen
    Lead = 8
    MatchFilterOffset = 7
    Unit = 2
    Rates <- MCRates
    SamplesPerSymbol = 8
    NTaps = 8
    History = 4
    LeadAtOnce = TRUE
    OutputSpace = 2
    Bursts = 2
INVARIANTS
    EvenlySpaced
    
    ReadsInside

    
CHECK_DEADLOCK FALSE
