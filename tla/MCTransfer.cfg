CONSTANTS
    NFiles = 2
    Blocks <- TwoOne
    Conns = {c1, c2}
    ConnCap = 1
    Openers = 2
    TxSlots <- Tight
    RxSlots = 1
    FdLimit = 2
    Unwritable = {2}
    Unreachable = {1}
    Alterable <- FirstBlock
    StatMax = 1
SPECIFICATION FairSpec
INVARIANTS TypeOK CompleteIntact
PROPERTIES ClosedWhole TransferEnds
