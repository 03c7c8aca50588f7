CONSTANTS
    Events = {e1}
    MaxSessions = 2
    MaxAsks = 2
    MaxEmits = 1
    None = None
SPECIFICATION Spec
INVARIANTS TypeOK VerdictHonoured CallbackFound
 
CHECK_DEADLOCK FALSE
