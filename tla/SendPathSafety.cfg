\* One client, two packets, any network; packets are given up and acknowledged
\* late.
SPECIFICATION Spec
CONSTANTS
    Clients = {c1}
    Names = {4, 7}
    Priority <- TwoPriorities
    MaxPriority = 2
    FecNames = {4}
    RttSpreads = {0, 2}
    MaxQueue = 1
    Word = 16
    MaxPublish = 1
    Unreliable = TRUE
    Late = TRUE
INVARIANTS
    TypeOK
    NothingForgotten
    SentAtMostTwice
    AckedWasReceived
CHECK_DEADLOCK FALSE
