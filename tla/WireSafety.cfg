\* Two messages in a packet.
SPECIFICATION Spec
CONSTANTS
    Messages <- AllLengths
    MaxMessages = 2
INVARIANT
    Framed
PROPERTY
    ReadBack
CHECK_DEADLOCK FALSE
