CONSTANTS
    Names = {n1, n2}
    Connectors = {"ai0", "ctr0", "ctr1"}
    Requests <- MCRequests
    VHi = 2
    CounterMod = 4
    U64 = 8
    MaxSamples = 5
    Buffers <- MCBuffers
    EdgesPerRead = {2}
    ChannelNumbers = {0, 2}
    MCADefault = 2
    BinsSize = 1
    MaxCalls = 5
    MaxData = 2
    None = None
SPECIFICATION Spec
INVARIANTS TypeOK LoopsMatchTasks DeliveredOnce CountsAddUp PeaksCounted
PROPERTIES DataEmitted StopGetsThrough
CHECK_DEADLOCK FALSE
