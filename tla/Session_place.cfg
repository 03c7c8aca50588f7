CONSTANT NClients <- TwoClients
SPECIFICATION FairSpec
PROPERTY PlaceFreed
CHECK_DEADLOCK FALSE
