SPECIFICATION Spec
CONSTANTS
    Producer = producer
    Consumers = {c1}
    Counts = {65, 69}
    TotalSize = 2048
    MappedSize = 4096
    SizeMod <- MCSizeMod
    BatchSize = 5
    ShmId = 1
    SemId = 2
    MaxSignals = 0
INVARIANT ProducerStopsWhenFull
