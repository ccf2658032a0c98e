------------------------------ MODULE Fragment ------------------------------
(***************************************************************************)
(* A message on its way from QuicRClient::publish to QuicRClient::recv:    *)
(* EncryptPipe and FragmentPipe of the publisher, a datagram network, and  *)
(* FragmentPipe and EncryptPipe of a subscriber.                           *)
(*                                                                         *)
(* The payload is its length; a fragment carries the bytes of the          *)
(* ciphertext after `from` up to `to`.  Every length crosses the wire as   *)
(* a uintVar_t, so that the receiver works with Received[length].  The     *)
(* build is the release build of the Makefile, the Dockerfile and the      *)
(* workflow: assertions are not evaluated.                                 *)
(***************************************************************************)
EXTENDS VarInt, FiniteSets

CONSTANTS
    Messages,
    Size,        \* the payload bytes of each message
    Mtus,        \* what the application passes to setPacketsUp
    DefaultMtu,  \* what QuicRClient::QuicRClient passes to updateMTU
    Overhead     \* bytes that encryption adds to a payload

maxLength == 63 * 1200 + 255  \* no ciphertext is longer

ASSUME FragmentAssumption ==
    /\ Size \in [Messages -> Nat]
    /\ \A m \in Messages : Size[m] > 0 /\ Size[m] + Overhead <= maxLength
    /\ \A v \in Mtus \cup {DefaultMtu} : v \in Nat /\ v >= 56 /\ v < 65536
    /\ Overhead \in 1 .. 255

Corrupt == -1  \* the size of what does not decrypt

VARIABLES
    mtu,
    published,  \* the messages that were published
    net,        \* the datagrams in flight
    fragList,   \* the subscriber's FragmentPipe::fragList
    delivered,  \* what the subscriber's application was given
    repeated    \* history: the messages of which the network repeated a datagram

vars == <<mtu, published, net, fragList, delivered, repeated>>

Init ==
    /\ mtu = DefaultMtu
    /\ published = {}
    /\ net = {} /\ fragList = {}
    /\ delivered = {} /\ repeated = {}

-----------------------------------------------------------------------------
(* The publisher *)

extraHeaderSizeBytes == 25
minPacketPayload == 56

\* The length that is read where n was written.
Received == [n \in 0 .. maxLength |-> Number(Decode(Encode(Bytes(n))))]

\* What is left of n in a uint16_t
Short(n) == n % 65536

\* EncryptPipe::send encrypts as many bytes as the dataLen it reads back into a
\* uint16_t.
CipherSize(m) == Short(Received[Size[m]]) + Overhead

\* Packet::fullSize in FragmentPipe::send: header, payload, encDataBlock with its
\* length, namedDataChunk and clientData.
FullSize(n) == 6 + n + (3 + Len(Encode(Bytes(n)))) + 20 + 5

\* The bytes of a fragment that is not the last, where the MTU is v
DataSize(v) ==
    IF v - extraHeaderSizeBytes < minPacketPayload
    THEN minPacketPayload ELSE v - extraHeaderSizeBytes

NumFrags(n, v) == (n + DataSize(v) - 1) \div DataSize(v)

\* Packet::setFragID of the fragment counter, both uint8_t.
FragID(frag, last) == (2 * (frag % 256) + (IF last THEN 1 ELSE 0)) % 256

Fragment(m, id, from, to) == [msg |-> m, id |-> id, from |-> from, to |-> to]

\* Faulty Datagrams: the last fragment is as long as the others.
DatagramsEqual(m, v) ==
    LET n == CipherSize(m)
        k == NumFrags(n, v)
    IN IF FullSize(n) + extraHeaderSizeBytes <= v
       THEN {Fragment(m, 0, 0, n)}
       ELSE {Fragment(m, FragID(i, i = k), (i - 1) * DataSize(v), i * DataSize(v)) :
                 i \in 1 .. k}

\* Faulty Datagrams: the last fragment is not marked when it is full.
DatagramsUnmarked(m, v) ==
    LET n == CipherSize(m)
        k == NumFrags(n, v)
    IN IF FullSize(n) + extraHeaderSizeBytes <= v
       THEN {Fragment(m, 0, 0, n)}
       ELSE {Fragment(m, FragID(i, i * DataSize(v) > n), (i - 1) * DataSize(v),
                      IF i = k THEN n ELSE i * DataSize(v)) : i \in 1 .. k}

\* FragmentPipe::send, where the MTU is v
Datagrams(m, v) ==
    LET n == CipherSize(m)
        k == NumFrags(n, v)
    IN IF FullSize(n) + extraHeaderSizeBytes <= v
       THEN {Fragment(m, 0, 0, n)}
       ELSE {Fragment(m, FragID(i, i = k), (i - 1) * DataSize(v),
                      IF i = k THEN n ELSE i * DataSize(v)) : i \in 1 .. k}

\* Names are unique: a message is published once.
Publish(m) ==
    /\ m \notin published
    /\ published' = published \cup {m}
    /\ net' = net \cup Datagrams(m, mtu)
    /\ UNCHANGED <<mtu, fragList, delivered, repeated>>

\* QuicRClient::setPacketsUp
SetPacketsUp(v) ==
    /\ mtu' = v
    /\ UNCHANGED <<published, net, fragList, delivered, repeated>>

-----------------------------------------------------------------------------
(* The subscriber *)

\* Faulty Ids: fragments of any message will do.
IdsOfAny(list, m) == {f.id : f \in list}

Ids(list, m) == {f.id : f \in {g \in list : g.msg = m}}

\* A fragment whose name is in fragList is not emplaced.
Added(d) == IF d.id \in Ids(fragList, d.msg) THEN fragList ELSE fragList \cup {d}

\* The number under which processRxPacket looks for the i-th fragment, a uint8_t: as one
\* with a successor, and as the last
Middle(i) == (2 * i) % 256
Final(i)  == (2 * i + 1) % 256

\* The scan of processRxPacket stops at the first fragment that is not in list
\* as one with a successor: at the 128th at the latest, whose number is that of a
\* packet that is not a fragment.
NumFrag(list, m) ==
    CHOOSE i \in 1 .. 128 :
        /\ Middle(i) \notin Ids(list, m)
        /\ \A j \in 1 .. i - 1 : Middle(j) \in Ids(list, m)

\* Faulty HaveAll: the last fragment will do.
HaveAllLast(list, m) == \E i \in 1 .. 128 : Final(i) \in Ids(list, m)

HaveAll(list, m) == Final(NumFrag(list, m)) \in Ids(list, m)

\* The fragments that are taken out of list and put together, in this order.
Pieces(list, m) ==
    LET k == NumFrag(list, m)
    IN {f \in list : f.msg = m /\ f.id \in {Middle(i) : i \in 1 .. k - 1} \cup {Final(k)}}

\* g is put before f: the last fragment, whose number is odd, is put after all others.
Before(g, f) == g.id % 2 = 0 /\ (f.id % 2 = 1 \/ g.id < f.id)

\* Each piece continues the one before it, to the end of the ciphertext, and no
\* length changed on the wire.
Whole(pieces) ==
    /\ \E f \in pieces : f.to = CipherSize(f.msg) /\ Short(Received[f.to]) = f.to
    /\ \A f \in pieces :
          /\ f.from = 0 \/ \E g \in pieces : g.to = f.from /\ Before(g, f)
          /\ Received[f.to - f.from] = f.to - f.from

\* EncryptPipe::recv reads the length of the ciphertext into a uint16_t, and writes
\* that of the plaintext.
PlainSize(m, pieces) == IF Whole(pieces) THEN Short(Received[Size[m]]) ELSE Corrupt

\* QuicRClient::recv gives the application as many bytes as it reads there.
Opened(m, pieces) ==
    [msg |-> m,
     size |-> IF Whole(pieces) THEN Received[PlainSize(m, pieces)] ELSE Corrupt]

Taken(d)    == net' = net \ {d} /\ UNCHANGED repeated
Repeated(d) == net' = net /\ repeated' = repeated \cup {d.msg}

\* The network when d is received: it may deliver d again.
Receipt(d) == Taken(d) \/ Repeated(d)

\* FragmentPipe::processRxPacket, not a fragment
RecvWhole(d) ==
    /\ d.id = 0
    /\ Receipt(d)
    /\ delivered' = delivered \cup {Opened(d.msg, {d})}
    /\ UNCHANGED <<mtu, published, fragList>>

\* processRxPacket, a fragment that leaves a gap
RecvFragment(d) ==
    /\ d.id # 0
    /\ ~HaveAll(Added(d), d.msg)
    /\ Receipt(d)
    /\ fragList' = Added(d)
    /\ UNCHANGED <<mtu, published, delivered>>

\* Faulty RecvLast: the fragments stay in the list.
RecvLastKeeps(d) ==
    /\ d.id # 0
    /\ HaveAll(Added(d), d.msg)
    /\ Receipt(d)
    /\ fragList' = Added(d)
    /\ delivered' = delivered \cup {Opened(d.msg, Pieces(Added(d), d.msg))}
    /\ UNCHANGED <<mtu, published>>

\* processRxPacket, the fragment that completes its message
RecvLast(d) ==
    /\ d.id # 0
    /\ HaveAll(Added(d), d.msg)
    /\ Receipt(d)
    /\ fragList' = Added(d) \ Pieces(Added(d), d.msg)
    /\ delivered' = delivered \cup {Opened(d.msg, Pieces(Added(d), d.msg))}
    /\ UNCHANGED <<mtu, published>>

Recv(d) == RecvWhole(d) \/ RecvFragment(d) \/ RecvLast(d)

Next ==
    \/ \E m \in Messages : Publish(m)
    \/ \E v \in Mtus : SetPacketsUp(v)
    \/ \E d \in net : Recv(d)

Spec == Init /\ [][Next]_vars

\* The subscriber calls recv as long as there are datagrams, and none is repeated
\* for ever.
FairSpec == Spec /\ WF_vars(\E d \in net : Recv(d) /\ Taken(d))

-----------------------------------------------------------------------------
(* Properties *)

\* The lengths that the wire changes
Lost == {128, 16384}

\* No length of a message is one of those or too long for a uint16_t, and a message has
\* no more fragments than the eight bits of a fragment's number tell apart.
Regular ==
    \A m \in Messages, v \in Mtus \cup {DefaultMtu} :
        LET n == Size[m] + Overhead
            rest == n - (NumFrags(n, v) - 1) * DataSize(v)
        IN /\ {Size[m], n, DataSize(v), rest} \cap Lost = {}
           /\ Short(n) = n /\ n <= 128 * DataSize(v)

\* Every variable has its type.
TypeOK ==
    /\ mtu \in Mtus \cup {DefaultMtu}
    /\ published \subseteq Messages /\ repeated \subseteq published
    /\ \A d \in net \cup fragList :
          /\ d.msg \in published /\ d.id \in 0 .. 255
          /\ d.from \in Nat /\ d.to \in d.from + 1 .. CipherSize(d.msg)
    /\ \A e \in delivered : e.msg \in published /\ e.size \in {Corrupt} \cup Nat

\* What the application receives is a whole message that was published, from
\* fragments in any order, lost, repeated, or cut for different MTUs
\* (FragmentPipe::send against processRxPacket).
DeliveredIntact == \A e \in delivered : e.size = Size[e.msg]

\* A fragment is kept only for a message that is incomplete: once the datagrams of
\* a message have arrived, and none twice, nothing of it is left in fragList ("TODO -
\* clear out old fragments" is needed for lost and repeated ones only).
NothingLeftOver ==
    \A f \in fragList : f.msg \in repeated \/ \E d \in net : d.msg = f.msg

\* Every message is delivered where all its datagrams arrive, in whatever order and
\* however often.
PublishedIsDelivered ==
    \A m \in Messages :
        m \in published ~> \E e \in delivered : e.msg = m /\ e.size = Size[m]

\* What was received; anything but a whole message is none of the messages.
Channel == INSTANCE MessageChannel WITH
    received <- {IF e.size = Size[e.msg] THEN e.msg ELSE <<>> : e \in delivered}

\* Fragments and their reassembly implement a channel of whole messages.
ImplementsChannel == Channel!Spec

=============================================================================
