\* A lossy network, the code's retry limit, a relay restart, and threads that run.
SPECIFICATION FairSpec
CONSTANTS
    Clients = {c1}
    MaxRetry = 5
    MaxCookie = 2
    MaxRestarts = 1
    Lossy = TRUE
    Duplicating = FALSE
    Prompt = FALSE
PROPERTIES
    PendingResolves
    HandshakeCompletes
CHECK_DEADLOCK FALSE
