SPECIFICATION Spec
CONSTANTS
    Terminal <- getTerminal
    NumberOf <- MCNumberOf
    Dictionary <- MCDictionary
    CommandLines <- MCCommandLines
    Lower <- MCLower
    Upper <- MCUpper
    Texts <- MCTexts
    Files <- MCFiles
INVARIANTS
    
    LastWordCounts
    OptionsConsistent
    AcceptedOptionsWork
    GeneratedCompiles
PROPERTY
    PrintsTheMeaning
CHECK_DEADLOCK FALSE
