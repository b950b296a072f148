SPECIFICATION Spec
CONSTANTS
    MaxChunk = 2
    Cases <- MCCases
INVARIANTS
    AlgorithmsAgree
    FileAgrees
    ProgramAgrees
    ModelsCheck
    DownlinkAgrees
CHECK_DEADLOCK FALSE
