\* Two clients share the relay's one previous acknowledgement.
SPECIFICATION Spec
CONSTANTS
    Clients = {c1, c2}
    Names = {4, 8}
    Priority <- OnePriority
    MaxPriority = 1
    FecNames = {}
    RttSpreads = {2}
    MaxQueue = 2
    Word = 16
    MaxPublish = 1
    Unreliable = FALSE
    Late = FALSE
INVARIANT
    AckedWasReceived
CHECK_DEADLOCK FALSE
