CONSTANTS
    HeaderSize = 2
    Capacity = 5
    MaxChunk = 2
    NFrames = 3
    Start <- MCStart
    GarbageLens <- MCGarbage
    MaxSessions = 1
SPECIFICATION FairSpec
PROPERTY StopCompletes
CHECK_DEADLOCK FALSE
