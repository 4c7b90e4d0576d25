CONSTANTS
    FileWorkers = {w1, w2}
    DirWorkers = {e1}
    Entries <- TreeWithoutList
    Kind <- TreeKind
    Children <- TreeChildren
    Unreadable = {}
    Sources <- TreeSources
    FileList <- NoList
    FilesCap = 2
    MsgCap = 1
    FirstBatch = 0
    LaterBatch = 2
SPECIFICATION FairSpec
PROPERTY IterationEnds
