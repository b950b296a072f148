SPECIFICATION FairSpec
CONSTANTS
    samples_per_delimiter = 1
    samples_per_tari = 2
    samples_per_pw = 1
    samples_per_trcal = 7
    samples_per_data1 = 4
    Carrier = 3
    QueryBits <- MCQueryBits
    RN16s <- MCRN16s
    Room = {1, 3, 5}
    MaxIdle = 5
INVARIANTS
    WireIsBursts
    TagUnderstands
PROPERTIES
    AllIsSent
CHECK_DEADLOCK FALSE
