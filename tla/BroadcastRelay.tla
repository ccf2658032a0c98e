--------------------------- MODULE BroadcastRelay ---------------------------
(***************************************************************************)
(* The relay of cmd/qbroadcast: every publication goes to every client     *)
(* that has subscribed, whatever the names.                                *)
(*                                                                         *)
(* Its clients and the network are its inputs: any subscription and any    *)
(* publication arrives at any time and any number of times.  A publication *)
(* is the number of bytes of its ciphertext and what the last two of them  *)
(* are as a uint16_t.                                                      *)
(***************************************************************************)
EXTENDS Integers, FiniteSets

CONSTANTS
    Clients,
    Names,         \* names of subscriptions
    Seqs,          \* numbers of the clients' packets
    Packets,       \* publications: the size and the last two bytes of each
    RelaySeqNums,  \* the values of getRandom
    Word,          \* values of a uint32_t
    MaxPub         \* bound: publications that are processed

ASSUME BroadcastAssumption ==
    /\ Seqs \subseteq Nat \ {0}
    /\ Packets \subseteq [size : Nat, tail : 0 .. 65535]
    /\ \A p \in Packets : p.size >= 2
    /\ Word \in Nat \ {0} /\ RelaySeqNums \subseteq 0 .. Word - 1 /\ MaxPub \in Nat

VARIABLES
    connectionMap,  \* BroadcastRelay::connectionMap, a function on names
    prevAckSeqNum,
    toClients,      \* what was sent to the clients
    count           \* history: how many publications were forwarded

vars == <<connectionMap, prevAckSeqNum, toClients, count>>

Ack(c, s, p) == [type |-> "ack", to |-> c, seq |-> s, prev |-> p]
\* The count-th publication, packet p, to the connection of name n
Data(n, con, p, size) ==
    [type |-> "data", to |-> con.address, name |-> n, count |-> count,
     relaySeqNum |-> con.relaySeqNum, packet |-> p, size |-> size]

Init ==
    /\ connectionMap = <<>>
    /\ prevAckSeqNum = 0
    /\ toClients = {} /\ count = 0

\* BroadcastRelay::processSub: a name that has a connection keeps it.  The
\* acknowledgement is built and not sent.
ProcessSub(c, n) ==
    /\ connectionMap' \in
           {IF n \in DOMAIN connectionMap THEN connectionMap
            ELSE [k \in DOMAIN connectionMap \cup {n} |->
                     IF k = n THEN [address |-> c, relaySeqNum |-> random]
                     ELSE connectionMap[k]] : random \in RelaySeqNums}
    /\ UNCHANGED <<prevAckSeqNum, toClients, count>>

\* Faulty Counted: a copy is counted, as in the relay of cmd/relay.
CountedCopy(con) == con

\* Faulty Counted: the number does not wrap.
CountedWide(con) == [con EXCEPT !.relaySeqNum = @ + 1]

\* con->relaySeqNum++
Counted(con) == [con EXCEPT !.relaySeqNum = (@ + 1) % Word]

\* BroadcastRelay::processPub: two bytes of the ciphertext are read as its length
\* and not put back.
ProcessPub(c, s, p) ==
    /\ count < MaxPub
    /\ p.tail <= p.size - 2
    /\ toClients' = toClients \cup {Ack(c, s, prevAckSeqNum)}
           \cup {Data(n, connectionMap[n], p, p.size - 2) : n \in DOMAIN connectionMap}
    /\ connectionMap' = [n \in DOMAIN connectionMap |-> Counted(connectionMap[n])]
    /\ prevAckSeqNum' = s
    /\ count' = count + 1

\* "relay recv bad data size"
DropPub(p) ==
    /\ p.tail > p.size - 2
    /\ UNCHANGED vars

Next ==
    \/ \E c \in Clients, n \in Names : ProcessSub(c, n)
    \/ \E c \in Clients, s \in Seqs, p \in Packets : ProcessPub(c, s, p)
    \/ \E p \in Packets : DropPub(p)

Spec == Init /\ [][Next]_vars

-----------------------------------------------------------------------------
(* Properties *)

\* Every variable has its type.
TypeOK ==
    /\ \A n \in DOMAIN connectionMap :
          n \in Names /\ connectionMap[n] \in [address : Clients, relaySeqNum : 0 .. Word - 1]
    /\ prevAckSeqNum \in Seqs \cup {0}
    /\ \A m \in toClients : m.to \in Clients
    /\ count \in 0 .. MaxPub

Copies == {m \in toClients : m.type = "data"}

\* A connection sees a gap in relaySeqNum exactly where a copy was lost: the numbers
\* of its copies are as far apart as the publications, also where they wrap, and
\* whoever else subscribes. A client of one subscription, whose RateCtrl::recvPacket takes
\* a gap for a loss, is right; one of two gets two series of numbers.
GapIsLoss ==
    \A d, e \in Copies : d.name = e.name =>
        (d.relaySeqNum - e.relaySeqNum) % Word = (d.count - e.count) % Word

=============================================================================
