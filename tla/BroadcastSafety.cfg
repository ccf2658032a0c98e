\* Two clients, two names; relaySeqNum wraps.
SPECIFICATION Spec
CONSTANTS
    Clients = {c1, c2}
    Names = {n1, n2}
    Seqs = {1, 2}
    Packets <- SomePackets
    RelaySeqNums = {0, 6}
    Word = 8
    MaxPub = 3
INVARIANTS
    TypeOK
    GapIsLoss
