CONSTANTS
    SyncCallers <- MCSync
    AsyncCallers <- MCAsync
    MaxCalls <- MCCalls
    MaxSessions = 2
SPECIFICATION FairSpec
INVARIANTS ReplyMatches ExecutedInOrder NoOrphanResponse
PROPERTIES SyncReturns AsyncResolved ImplementsCalls
CHECK_DEADLOCK FALSE
