CONSTANTS
    SyncCallers <- MCTwoSync
    AsyncCallers = {}
    MaxCalls <- MCOneCallEach
    MaxSessions = 1
SPECIFICATION FairSpec
PROPERTY SyncReturns
CHECK_DEADLOCK FALSE
