CONSTANTS
    KiB = 4
    Kilo = 3
    I32 = 128
    U64 = 65536
    MinBlock = 8
    Byte = 256
    PortNumbers <- Ports
    Situations <- Any
    MaxThreads = 1
    THREAD_COUNT = 4
    BindTries = 2
    DefaultPort = 4
    PortCount = 8
    Lines = 4
    MaxKeepalives = 1
SPECIFICATION FairSpec
INVARIANTS TypeOK SenderTruthful ReceiverTruthful Agreement
PROPERTIES DestinationAsWritten SessionEnds ReceiverFollows SenderFollows
CHECK_DEADLOCK FALSE
