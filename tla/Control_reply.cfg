CONSTANTS
    Queriers <- MCTwoQueriers
    Senders = {}
    MaxCmds = 1
    Spurious = FALSE
SPECIFICATION Spec
INVARIANT ReplyIsOwn
CHECK_DEADLOCK FALSE
