\* Both clients subscribe to the same name.
SPECIFICATION Spec
CONSTANTS
    a = a
    b = b
    Clients = {a, b}
    Subscriptions <- SharedName
    Publications <- OnePublication
    RttSpread = 2
    MaxSeq <- Four
    RelaySeqNums = {0}
PROPERTY
    ImplementsPubSub
CHECK_DEADLOCK FALSE
