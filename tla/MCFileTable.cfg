CONSTANTS
    NFiles = 3
    Blocks <- Mixed
    Slots <- Slots2
    CC = 2
    Probe <- ProbeAll
    Openers = {o1}
    NWorkers = 2
    THREAD_COUNT = 3
    FDs <- FDs2
SPECIFICATION FairSpec
INVARIANTS TypeOK CompletionExact DescriptorLive LastOutAlone ClaimedOnce
PROPERTY Termination
