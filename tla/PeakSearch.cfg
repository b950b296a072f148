SPECIFICATION FairSearchSpec
CONSTANTS
    Inputs = {0, 1}
    BurstLen <- MCBurstLen
    Bursts = 2
    Starts = {0, 3}
    Lead = 2
    OutputLen = 2
    OutputSpace = 2
    Arrivals <- WholeBursts
    SampleOffset = 3
    PreambleThresh = 7
    Peaks <- MCPeaks
    Chunks = {5}
INVARIANTS
    
    FramesAreWhole
    FramesBeginAtPeak
PROPERTIES
    FramesComeOut
    ImplementsMux
CHECK_DEADLOCK FALSE
