CONSTANTS
    remote = remote
    encoder = encoder
    Threads = {remote, encoder}
    Remote = remote
    Keys = {k1}
    Numbers <- MCNumbers
    Users = {u1, u2}
    None = None
    MaxFaults = 1
SYMMETRY MCSymmetry
SPECIFICATION Spec
INVARIANTS TypeOK CoherentUnlessDisturbed AuditReplays
PROPERTY ImplementsStore
