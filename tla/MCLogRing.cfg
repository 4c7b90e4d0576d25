CONSTANTS
    Writers = {w1, w2}
    N = 2
    Limit <- Bounds
    Server = TRUE
SPECIFICATION FairSpec
INVARIANTS TypeOK EmptyOnlyInFlight ReadsItsTicket
PROPERTIES OverrunIsReal EveryErrorRead
CHECK_DEADLOCK FALSE
