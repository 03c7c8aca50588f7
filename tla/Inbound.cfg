CONSTANTS
    HeaderSize = 2
    Capacity = 5
    MaxChunk = 2
    NFrames = 3
    Start <- MCStart
    GarbageLens <- MCGarbage
    MaxSessions = 2
SPECIFICATION FairSpec
INVARIANTS FramesIntact NoOverrun NoMutualWait ClientNoStaleUnblock
PROPERTIES DeliveredEventually ImplementsStream
CHECK_DEADLOCK FALSE
