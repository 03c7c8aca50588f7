CONSTANTS
    Targets = {t1}
    Movers = {m1, m2}
    Goals <- MCGoals
    Steps <- MCSteps
    Gains <- MCGains
    GainUnit = 8
    Lim = 2
    Tol = 1
    Dirs <- MCDirs
    Offsets = {0, 2}
    Garbage = {0, 3}
    FirstDt = 4
    ITermMax = 8
    MaxCalls = 3
    MaxStarts = 1
    MaxMisreads = 1
    None = None
SPECIFICATION Spec
INVARIANTS TypeOK MotionSound
PROPERTY MotionEnds
CHECK_DEADLOCK FALSE
