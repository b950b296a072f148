SPECIFICATION FairSpec
CONSTANTS
    samples_per_delimiter = 8
    samples_per_tari = 16
    samples_per_pw = 8
    samples_per_trcal = 53
    samples_per_data1 = 32
    OnesInRN16 = {0, 1, 2, 3, 9, 16}
    Scenes <- MCScenes
    BootSamples = 5
    d_off_max = 15
    Chunks = {1, 64}
    Turnaround = 65
INVARIANTS
    WindowInTime
    WindowsAreWhole
PROPERTIES
    EveryCommandGetsAWindow
CHECK_DEADLOCK FALSE
