\* Two clients with their own names; datagrams arrive in any order, more than once
\* or never.
SPECIFICATION Spec
CONSTANTS
    a = a
    b = b
    Clients = {a, b}
    Subscriptions <- OwnNames
    Publications <- TwoPublications
    RttSpread = 2
    MaxSeq <- TwoAndTwo
    RelaySeqNums = {0}
INVARIANT
    TypeOK
PROPERTY
    ImplementsPubSub
CHECK_DEADLOCK FALSE
