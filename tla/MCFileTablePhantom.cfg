CONSTANTS
    NFiles = 4
    Blocks <- NoBlocks
    Slots <- Slots4
    CC = 2
    Probe <- ProbeAll
    Openers = {o1}
    NWorkers = 2
    THREAD_COUNT = 3
    FDs <- FDs4
SPECIFICATION Spec
INVARIANT NoPhantomClaim
