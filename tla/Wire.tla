-------------------------------- MODULE Wire --------------------------------
(***************************************************************************)
(* The messages of the wire format (encode.cc).  A packet is a stack of    *)
(* bytes: a message is written on top of what is there, its tag last, and  *)
(* read off again, its tag first.  Every message has an operator<< and an  *)
(* operator>> of its own, here the tables Writes and Reads.                *)
(*                                                                         *)
(* A value of a fixed width is its bytes, the least significant first.     *)
(* Packets are those that were written here: nothing is truncated.         *)
(***************************************************************************)
EXTENDS VarInt, SequencesExt

CONSTANTS
    Messages(_),  \* the messages of a type that are written
    MaxMessages   \* bound: messages in a packet

\* packetTagTrunc of the tags that begin a message
Tag ==
    [sync |-> 1, syncAck |-> 2, resetRetry |-> 4, resetRedirect |-> 5, subscribe |-> 6,
     clientData |-> 7, nack |-> 8, rate |-> 9, ack |-> 10, relayData |-> 11,
     shortName |-> 12, dataBlock |-> 13, encDataBlock |-> 14, header |-> 15]

\* Header::tag
HeaderTags == {<<t>> : t \in 80 .. 87}

\* The bytes of the fields that have a fixed width
Width ==
    [pathToken |-> 4, fragmentID |-> 1, mediaTime |-> 4, sourceID |-> 1, senderID |-> 4,
     resourceID |-> 8, clientSeqNum |-> 4, relaySendTimeUs |-> 4, relaySeqNum |-> 4,
     ecnVec |-> 4, ackVec |-> 4, recvTimeUs |-> 4, supportedFeaturesVec |-> 8,
     clientTimeMs |-> 8, senderId |-> 4, cookie |-> 4, useFeaturesVec |-> 8,
     serverTimeMs |-> 8, port |-> 2, authTagLen |-> 1]

VarFields == {"bitrateKbps", "cipherDataLen", "metaDataLen", "dataLen", "lifetime"}

\* operator<<: fields and tags in the order in which they are written
WriteShortName ==
    <<"fragmentID", "mediaTime", "sourceID", "senderID", "resourceID", "shortName">>
Writes ==
    [Header |-> <<"headerTag", "pathToken", "header">>,
     ClientData |-> <<"clientSeqNum", "clientData">>,
     RelayData |-> <<"relaySendTimeUs", "relaySeqNum", "relayData">>,
     NetAck |-> <<"ecnVec", "ackVec", "clientSeqNum", "recvTimeUs", "ack">>,
     NetNack |-> <<"relaySeqNum", "nack">>,
     Subscribe |-> WriteShortName \o <<"subscribe">>,
     NetSyncReq |-> <<"supportedFeaturesVec", "clientTimeMs", "senderId", "origin",
                      "cookie", "sync">>,
     NetSyncAck |-> <<"useFeaturesVec", "serverTimeMs", "syncAck">>,
     NetResetRetry |-> <<"cookie", "resetRetry">>,
     NetResetRedirect |-> <<"port", "origin", "cookie", "resetRedirect">>,
     NetRateReq |-> <<"bitrateKbps", "rate">>,
     EncryptedDataBlock |-> <<"cipherDataLen", "metaDataLen", "authTagLen",
                              "encDataBlock">>,
     DataBlock |-> <<"dataLen", "metaDataLen", "dataBlock">>,
     NamedDataChunk |-> <<"lifetime">> \o WriteShortName]

Types == DOMAIN Writes

\* operator>>: in the order in which they are read
ReadShortName ==
    <<"shortName", "resourceID", "senderID", "sourceID", "mediaTime", "fragmentID">>
\* Faulty ReadRelayData: the fields in the order in which they were written.
ReadRelayDataForward == <<"relayData", "relaySendTimeUs", "relaySeqNum">>
ReadRelayData == <<"relayData", "relaySeqNum", "relaySendTimeUs">>
\* Faulty ReadEncryptedDataBlock: without the length of the authentication tag.
ReadEncryptedDataBlockUntagged == <<"encDataBlock", "metaDataLen", "cipherDataLen">>
ReadEncryptedDataBlock == <<"encDataBlock", "authTagLen", "metaDataLen", "cipherDataLen">>
Reads ==
    [Header |-> <<"header", "pathToken", "headerTag">>,
     ClientData |-> <<"clientData", "clientSeqNum">>,
     RelayData |-> ReadRelayData,
     NetAck |-> <<"ack", "recvTimeUs", "clientSeqNum", "ackVec", "ecnVec">>,
     NetNack |-> <<"nack", "relaySeqNum">>,
     Subscribe |-> <<"subscribe">> \o ReadShortName,
     NetSyncReq |-> <<"sync", "cookie", "origin", "senderId", "clientTimeMs",
                      "supportedFeaturesVec">>,
     NetSyncAck |-> <<"syncAck", "serverTimeMs", "useFeaturesVec">>,
     NetResetRetry |-> <<"resetRetry", "cookie">>,
     NetResetRedirect |-> <<"resetRedirect", "cookie", "origin", "port">>,
     NetRateReq |-> <<"rate", "bitrateKbps">>,
     EncryptedDataBlock |-> ReadEncryptedDataBlock,
     DataBlock |-> <<"dataBlock", "metaDataLen", "dataLen">>,
     NamedDataChunk |-> ReadShortName \o <<"lifetime">>]

-----------------------------------------------------------------------------
(* Writing and reading one message *)

\* The fields of a message, and what is a value of one
Fields(type) == ToSet(Writes[type]) \ DOMAIN Tag
IsValue(v, field) ==
    IF field = "headerTag" THEN v \in HeaderTags
    ELSE IF field = "origin" THEN v \in Seq(Byte) /\ Len(v) \in 1 .. 255
    ELSE IF field \in VarFields THEN v \in Value
    ELSE v \in [1 .. Width[field] -> Byte]

ASSUME WireAssumption ==
    /\ MaxMessages \in Nat
    /\ \A type \in Types : \A message \in Messages(type) :
          /\ message = [f \in Fields(type) |-> message[f]]
          /\ \A f \in Fields(type) : IsValue(message[f], f)

\* A string is followed by its length, in one byte.
Written(message, item) ==
    IF item \in DOMAIN Tag THEN <<Tag[item]>>
    ELSE IF item = "origin" THEN Append(message[item], Len(message[item]))
    ELSE IF item \in VarFields THEN Encode(message[item])
    ELSE message[item]

WrittenAll(type, message) ==
    FlattenSeq([i \in DOMAIN Writes[type] |-> Written(message, Writes[type][i])])

\* The bytes on top of p that hold an item, but for a string its length.
Extent(p, item) ==
    IF item \in DOMAIN Tag \cup {"headerTag"} THEN 1
    ELSE IF item = "origin" THEN Top(p)
    ELSE IF item \in VarFields THEN Length(p)
    ELSE Width[item]

\* p without its topmost n bytes, and those
Below(p, n) == SubSeq(p, 1, Len(p) - n)
Popped(p, n) == SubSeq(p, Len(p) - n + 1, Len(p))

\* One >> of an item: r is what is left of the packet and what was read so far.
ReadItem(r, item) ==
    LET p == IF item = "origin" THEN Below(r.packet, 1) ELSE r.packet
        n == Extent(r.packet, item)
        value == IF item \in VarFields THEN Decode(p) ELSE Popped(p, n)
    IN [packet |-> Below(p, n),
        message |-> IF item \in DOMAIN Tag THEN r.message
                    ELSE [f \in DOMAIN r.message \cup {item} |->
                             IF f = item THEN value ELSE r.message[f]]]

\* The items one after the other
ReadAll(type, p) ==
    LET read[i \in 0 .. Len(Reads[type])] ==
            IF i = 0 THEN [packet |-> p, message |-> <<>>]
            ELSE ReadItem(read[i - 1], Reads[type][i])
    IN read[Len(Reads[type])]

\* nextTag: which tag the topmost byte is
NextTag(p) ==
    IF p = <<>> THEN "none"
    ELSE IF \E t \in DOMAIN Tag : Tag[t] = Top(p)
         THEN CHOOSE t \in DOMAIN Tag : Tag[t] = Top(p)
         ELSE "badTag"

-----------------------------------------------------------------------------
(* A packet that is written and read *)

VARIABLES
    packet,   \* Packet::buffer
    got,      \* what was read last
    messages  \* history: the messages in the packet

vars == <<packet, got, messages>>

Message(type, message) == [type |-> type, message |-> message]
Nothing == Message("none", <<>>)

Init == packet = <<>> /\ got = Nothing /\ messages = <<>>

Write(type) ==
    /\ Len(messages) < MaxMessages
    /\ \E message \in Messages(type) :
          /\ packet' = packet \o WrittenAll(type, message)
          /\ messages' = Append(messages, Message(type, message))
    /\ got' = Nothing

\* A reader looks at nextTag and reads the message that begins with it.
Read(type) ==
    /\ NextTag(packet) = Head(Reads[type])
    /\ LET r == ReadAll(type, packet)
       IN packet' = r.packet /\ got' = Message(type, r.message)
    /\ messages' = Front(messages)

\* operator>> of a message that does not begin with the next tag pops nothing.
ReadOther(type) ==
    /\ NextTag(packet) # Head(Reads[type])
    /\ got' = Nothing
    /\ UNCHANGED <<packet, messages>>

Next == \E type \in Types : Write(type) \/ Read(type) \/ ReadOther(type)

Spec == Init /\ [][Next]_vars

-----------------------------------------------------------------------------
(* Properties *)

\* A length that is read where v was written: VarInt loses three of them, and says
\* nothing here of what needs more than four bytes.
LengthRead(v, read) == (Exact(v) => read = v) /\ (v \in Thresholds => read = Zero)

\* Every message is read back as what was written, with the same fields, whatever lies
\* below it (operator<< and operator>> of every message agree); only a length of 2^7,
\* 2^14 or 2^29 becomes 0 ("val <= ((uint64_t)1 << 7)", encode.cc:848).
ReadBack ==
    [][Len(messages') < Len(messages) =>
          LET written == Last(messages)
              read == got'.message
          IN /\ got'.type = written.type
             /\ DOMAIN read = Fields(written.type)
             /\ \A f \in Fields(written.type) :
                   IF f \in VarFields THEN LengthRead(written.message[f], read[f])
                   ELSE read[f] = written.message[f]]_vars

\* A message that is read leaves exactly the packet it was written on.
Framed ==
    packet = FlattenSeq([i \in DOMAIN messages |->
                            WrittenAll(messages[i].type, messages[i].message)])

=============================================================================
