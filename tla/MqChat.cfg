SPECIFICATION FairSpec
CONSTANTS
    Alice = alice
    Bob = bob
    None = none
    Cap = 3
    MaxLines = 4
CHECK_DEADLOCK FALSE
INVARIANTS NoMutualBlock Paired InOrder NamesRemoved
PROPERTIES SenderResumes ExitIsSeen
