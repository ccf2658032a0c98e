\* One client on a network that delivers any datagram never, once or many times
\* in any order, and a relay that restarts.
SPECIFICATION Spec
CONSTANTS
    Clients = {c1}
    MaxRetry = 0
    MaxCookie = 2
    MaxRestarts = 1
    Lossy = FALSE
    Duplicating = TRUE
    Prompt = FALSE
INVARIANTS
    TypeOK
    RoutabilityProved
    ConnectedWasAccepted
    ChallengedOrConnected
PROPERTIES
    ChallengeStands
    ImplementsPromise
\* Clients close and the network falls silent.
CHECK_DEADLOCK FALSE
