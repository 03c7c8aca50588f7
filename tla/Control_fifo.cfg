CONSTANTS
    Queriers <- MCQuerier
    Senders <- MCSender
    MaxCmds = 2
    Spurious = TRUE
SPECIFICATION FairSpec
INVARIANTS TypeOK AllFifo NoStrandedCommand
PROPERTY CommandWritten
CHECK_DEADLOCK FALSE
