\* One client, three packets, a network that loses nothing and no packet given up.
SPECIFICATION FairSpec
CONSTANTS
    Clients = {c1}
    Names = {4, 7, 8}
    Priority <- TwoPriorities
    MaxPriority = 2
    FecNames = {}
    RttSpreads = {1, 2}
    MaxQueue = 3
    Word = 16
    MaxPublish = 1
    Unreliable = FALSE
    Late = FALSE
PROPERTIES
    PublishedArrives
    ListDrains
CHECK_DEADLOCK FALSE
