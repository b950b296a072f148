SPECIFICATION Spec
CONSTANTS
    MaxChunk = 2
    Cases <- MCCases
INVARIANT
    TableProgramsAgree
CHECK_DEADLOCK FALSE
