CONSTANTS
    FileWorkers = {w1, w2}
    DirWorkers = {e1}
    Entries <- Tree
    Kind <- TreeKind
    Children <- TreeChildren
    Unreadable = {"a"}
    Sources <- TreeSources
    FileList <- TwoListed
    FilesCap = 1
    MsgCap = 1
    FirstBatch = 0
    LaterBatch = 2
SPECIFICATION FairSpec
INVARIANTS TypeOK NothingLost TailMeansQuiet
PROPERTY EndsUnlessStuck
CHECK_DEADLOCK FALSE
