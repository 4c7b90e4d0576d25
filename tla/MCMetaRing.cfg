CONSTANTS
    N = 7
    Increments <- Incr3
    MaxMsgs = 6
SPECIFICATION FairSpec
INVARIANT TypeOK
PROPERTIES ImplementsChannel EveryMessageCompleted
