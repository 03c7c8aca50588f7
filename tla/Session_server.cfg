CONSTANT NClients <- TwoClients
SPECIFICATION FairSpec
INVARIANTS OneSession JoinedOnce SessionConsistent
PROPERTIES SessionCleared TakenWhenFree
CHECK_DEADLOCK FALSE
