SPECIFICATION FairSpec
CONSTANTS
    Contents <- AnyText
    FileCount = 3
    Chunk = 3
    Read = 2
    Room = 4
CHECK_DEADLOCK FALSE
INVARIANTS AckedIsCopied EmptyAtAck
PROPERTIES EndsUnlessSpoiled
