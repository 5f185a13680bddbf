SPECIFICATION FairSpec
CONSTANTS
    Producer = producer
    Consumers = {c1, c2}
    Counts = {20, 23}
    TotalSize = 352
    MappedSize = 600
    SizeMod <- MCSizeMod
    BatchSize = 2
    MaxSignals = 1
CHECK_DEADLOCK FALSE
INVARIANT LostOnlyByKillOrLeftover
PROPERTY TerminatesUnlessLost
