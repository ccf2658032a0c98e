\* Two messages, the MTU changing, datagrams lost, repeated and reordered.
SPECIFICATION FairSpec
CONSTANTS
    m1 = m1
    m2 = m2
    Messages = {m1, m2}
    Size <- Sizes
    Mtus = {1280, 600}
    DefaultMtu = 1280
    Overhead = 20
INVARIANTS
    TypeOK
    DeliveredIntact
    NothingLeftOver
PROPERTIES
    ImplementsChannel
    PublishedIsDelivered
CHECK_DEADLOCK FALSE
