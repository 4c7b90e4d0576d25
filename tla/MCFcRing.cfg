CONSTANTS
    Producers = {p1, p2, p3}
    fc_info_cnt = 2
    MaxPush = 5
SPECIFICATION FairSpec
INVARIANTS TypeOK Fifo
PROPERTIES NoOverwrite EveryPushForwarded
