CONSTANTS
    NFiles = 5
    Blocks <- Mixed
    Slots <- Slots3
    CC = 2
    Probe <- ProbeAll
    Openers = {o1, o2}
    NWorkers = 1
    THREAD_COUNT = 2
    FDs <- FDs4
SPECIFICATION FairSpec
PROPERTY EndsUnlessShutOut
