------------------------------ MODULE SendPath ------------------------------
(***************************************************************************)
(* Reliable sending: FecPipe, RetransmitPipe, PriorityPipe and PacerPipe   *)
(* of every client, the upstream history of its RateCtrl, the datagram     *)
(* network and the relay's acknowledgements (Relay::processPub).           *)
(*                                                                         *)
(* In a client the application thread publishes, the pacer's send thread   *)
(* takes packets off the priority queues and numbers them, and the pacer's *)
(* receive thread turns acknowledgements into RetransmitPipe::ack, which   *)
(* queues packets again.  rtxList and the queues have a lock each; what    *)
(* happens between two locks interleaves.                                  *)
(*                                                                         *)
(* A packet is known by its name, and a name by its mediaTime: the other   *)
(* fields are equal.  mediaTime is a uint32_t, here modulo Word.  Every    *)
(* packet is reliable.                                                     *)
(***************************************************************************)
EXTENDS Integers, Sequences, FiniteSets

CONSTANTS
    Clients,
    Names,        \* mediaTimes of the packets the application publishes
    Priority,     \* the priority of each
    MaxPriority,  \* maxPriority
    FecNames,     \* packets with FEC: the subscriptions
    RttSpreads,   \* what bigRtt - minRtt may be
    MaxQueue,     \* the 1000 of PriorityPipe::send
    Word,         \* values of a uint32_t
    MaxPublish,   \* bound: how often a client publishes one name
    Unreliable,   \* datagrams are lost and duplicated
    Late          \* an acknowledgement may come after the packet was given up

Priorities == 0 .. MaxPriority

ASSUME SendPathAssumption ==
    /\ Word \in Nat \ {0} /\ RttSpreads \subseteq Nat /\ Names \subseteq 0 .. Word - 1
    /\ MaxPriority \in Nat \ {0} /\ Priority \in [Names -> 1 .. MaxPriority]
    /\ FecNames \subseteq Names /\ MaxQueue \in Nat \ {0} /\ MaxPublish \in Nat
    /\ Unreliable \in BOOLEAN /\ Late \in BOOLEAN

Idle == -1  \* the application thread is in no send

\* A client's packet, and the relay's answer: its number and the one before it.
Data(c, s, n) == [type |-> "data", client |-> c, seq |-> s, name |-> n]
Ack(c, s, p)  == [type |-> "ack", client |-> c, seq |-> s, prev |-> p]

VARIABLES
    pipe,           \* what each client keeps
    prevAckSeqNum,  \* Relay::prevAckSeqNum
    net,            \* the datagrams in flight
    published,      \* history: how often each client published each name
    delivered       \* history: the data packets that reached the relay

vars == <<pipe, prevAckSeqNum, net, published, delivered>>

Statuses == {"sent", "received", "ack", "lost"}

Pipe ==
    [sending : Names \cup {Idle},      \* cached, not yet queued
     rtxList : SUBSET Names,
     maxActTime : 0 .. Word - 1,
     queue : [Priorities -> Seq(Names)],
     sendList : Seq(Names),             \* of FecPipe
     dropped : [Names -> Nat],          \* history: how often pushed out of a queue
     history : Seq([name : Names, status : Statuses]),  \* by sequence number
     acks : Seq([seq : Nat, haveAck : BOOLEAN])]  \* of the packet in runNetRecv

Init ==
    /\ pipe = [c \in Clients |->
                  [sending |-> Idle, rtxList |-> {}, maxActTime |-> 0,
                   queue |-> [p \in Priorities |-> <<>>], sendList |-> <<>>,
                   dropped |-> [n \in Names |-> 0],
                   history |-> <<>>, acks |-> <<>>]]
    /\ prevAckSeqNum = 0
    /\ net = {}
    /\ published = [c \in Clients |-> [n \in Names |-> 0]]
    /\ delivered = {}

-----------------------------------------------------------------------------
(* Operators on one client's pipe *)

Later(a, b) == IF a < b THEN b ELSE a

\* uint32_t subtraction
Minus(a, b) == (a - b) % Word

\* How often n is in a sequence, and the names of an upstream history
Count(seq, n) == Cardinality({i \in DOMAIN seq : seq[i] = n})
Sent(history) == [i \in DOMAIN history |-> history[i].name]

\* The names of S in the order of rtxList
InOrder(S) ==
    CHOOSE s \in [1 .. Cardinality(S) -> S] : \A i, j \in DOMAIN s : i < j => s[i] < s[j]

\* A queue of PriorityPipe has room for MaxQueue packets, one more pushes out the
\* oldest.
Oldest(q) == SubSeq(q, 1, Len(q) - MaxQueue)
Newest(q) == SubSeq(q, Later(1, Len(q) - MaxQueue + 1), Len(q))

\* PriorityPipe::send of all names of S
Enqueue(r, S) ==
    LET queue == [p \in Priorities |->
                     r.queue[p] \o InOrder({n \in S : Priority[n] = p})]
    IN [r EXCEPT !.queue = [p \in Priorities |-> Newest(queue[p])],
                 !.dropped = [n \in Names |-> @[n] + Count(Oldest(queue[Priority[n]]), n)]]

\* FecPipe::send: two copies of a packet with FEC are saved.  The first k of those
\* saved before are due: with priority 0, and no longer reliable, they pass
\* RetransmitPipe.  When none is left the loop still reads the empty list's front,
\* which is undefined: the loop ends, or the program (no further step of it).
Fec(r, n, k) ==
    LET saved == r.sendList \o (IF n \in FecNames THEN <<n, n>> ELSE <<>>)
    IN [r EXCEPT !.sendList = SubSeq(saved, k + 1, Len(saved)),
                 !.queue[0] = Newest(@ \o SubSeq(saved, 1, k))]

\* Older than newest by more than the spread.  updateRTT assigns the two estimates
\* without the lock, so that every packet may be judged by another spread.
Overdue(rtxList, newest, spread) == {k \in rtxList : k < Minus(newest, spread[k])}

\* Faulty RetransmitAck: an overdue packet is dropped, not sent.
RetransmitAckDrops(r, n, spread) ==
    LET newest == Later(r.maxActTime, n)
    IN [r EXCEPT !.maxActTime = newest,
                 !.rtxList = (@ \ {n}) \ Overdue(@ \ {n}, newest, spread)]

\* Faulty RetransmitAck: the acknowledged name is not erased.
RetransmitAckNoErase(r, n, spread) ==
    LET newest == Later(r.maxActTime, n)
        overdue == Overdue(r.rtxList \ {n}, newest, spread)
    IN Enqueue([r EXCEPT !.maxActTime = newest, !.rtxList = @ \ overdue], overdue)

\* RetransmitPipe::ack: forget the name, and send again, once, every packet that
\* is overdue.
RetransmitAck(r, n, spread) ==
    LET newest == Later(r.maxActTime, n)
        overdue == Overdue(r.rtxList \ {n}, newest, spread)
    IN Enqueue([r EXCEPT !.maxActTime = newest, !.rtxList = (@ \ {n}) \ overdue], overdue)

\* Faulty RecvAck: it takes the record after the acknowledged one.
RecvAckNext(r, seq, haveAck, spread) ==
    LET next == seq + 1
        fresh == r.history[next].status = "sent"
        told == IF fresh THEN RetransmitAck(r, r.history[next].name, spread) ELSE r
    IN IF next \in DOMAIN r.history
       THEN [told EXCEPT !.history[next].status = IF haveAck THEN "ack" ELSE @]
       ELSE r

\* RateCtrl::recvAck: only a packet whose status is sent is reported upstream.
RecvAck(r, seq, haveAck, spread) ==
    LET fresh == r.history[seq].status = "sent"
        told == IF fresh THEN RetransmitAck(r, r.history[seq].name, spread) ELSE r
        status == IF haveAck THEN "ack"
                  ELSE IF fresh THEN "received" ELSE r.history[seq].status
    IN IF seq \in DOMAIN r.history
       THEN [told EXCEPT !.history[seq].status = status]
       ELSE r

-----------------------------------------------------------------------------
(* A client *)

Client(c, r) == pipe' = [pipe EXCEPT ![c] = r]

\* The network after m is received.  On an unreliable one m stays and any datagram
\* is received any number of times, or never.
Taken(m) == IF Unreliable THEN net ELSE net \ {m}

\* FecPipe::send, and RetransmitPipe::send under its lock.
PublishCaches(c, n) ==
    /\ pipe[c].sending = Idle
    /\ n \notin pipe[c].rtxList
    /\ published[c][n] < MaxPublish
    /\ \E k \in 0 .. Len(pipe[c].sendList) :
          Client(c, [Fec(pipe[c], n, k) EXCEPT !.sending = n, !.rtxList = @ \cup {n}])
    /\ published' = [published EXCEPT ![c][n] = @ + 1]
    /\ UNCHANGED <<prevAckSeqNum, net, delivered>>

\* A name that is still cached is refused: only FecPipe has seen it.
PublishRefused(c, n) ==
    /\ pipe[c].sending = Idle
    /\ n \in pipe[c].rtxList
    /\ Len(pipe[c].sendList) < 2 * MaxPublish
    /\ \E k \in 0 .. Len(pipe[c].sendList) : Client(c, Fec(pipe[c], n, k))
    /\ UNCHANGED <<prevAckSeqNum, net, published, delivered>>

\* and PriorityPipe::send after it
PublishQueues(c) ==
    /\ pipe[c].sending # Idle
    /\ Client(c, Enqueue([pipe[c] EXCEPT !.sending = Idle], {pipe[c].sending}))
    /\ UNCHANGED <<prevAckSeqNum, net, published, delivered>>

\* Faulty Served: the loop stops one queue early.
ServedAboveOne(c) == {p \in 2 .. MaxPriority : pipe[c].queue[p] # <<>>}

\* The priorities toDownstream looks at: not 0.
Served(c) == {p \in 1 .. MaxPriority : pipe[c].queue[p] # <<>>}

\* Faulty PacerSends: the packet is not popped from its queue.
PacerSendsKeeps(c) ==
    /\ Served(c) # {}
    /\ LET p == CHOOSE p \in Served(c) : \A q \in Served(c) : q <= p
           n == Head(pipe[c].queue[p])
           h == Append(pipe[c].history, [name |-> n, status |-> "sent"])
       IN /\ Client(c, [pipe[c] EXCEPT !.history = h])
          /\ net' = net \cup {Data(c, Len(h), n)}
    /\ UNCHANGED <<prevAckSeqNum, published, delivered>>

\* Faulty PacerSends: the packet leaves with the number before its own.
PacerSendsBefore(c) ==
    /\ Served(c) # {}
    /\ LET p == CHOOSE p \in Served(c) : \A q \in Served(c) : q <= p
           n == Head(pipe[c].queue[p])
           h == Append(pipe[c].history, [name |-> n, status |-> "sent"])
       IN /\ Client(c, [pipe[c] EXCEPT !.queue[p] = Tail(@), !.history = h])
          /\ net' = net \cup {Data(c, Len(h) - 1, n)}
    /\ UNCHANGED <<prevAckSeqNum, published, delivered>>

\* PacerPipe::runNetSend: PriorityPipe::toDownstream takes the largest number
\* first; the packet gets the next number, goes into the history and leaves.
PacerSends(c) ==
    /\ Served(c) # {}
    /\ LET p == CHOOSE p \in Served(c) : \A q \in Served(c) : q <= p
           n == Head(pipe[c].queue[p])
           h == Append(pipe[c].history, [name |-> n, status |-> "sent"])
       IN /\ Client(c, [pipe[c] EXCEPT !.queue[p] = Tail(@), !.history = h])
          /\ net' = net \cup {Data(c, Len(h), n)}
    /\ UNCHANGED <<prevAckSeqNum, published, delivered>>

\* PacerPipe::runNetRecv takes a packet with acknowledgements: the newest first,
\* the redundant one after it.
RecvPacket(c, m) ==
    /\ m.type = "ack" /\ m.client = c
    /\ pipe[c].acks = <<>>
    /\ Client(c, [pipe[c] EXCEPT !.acks =
          <<[seq |-> m.seq, haveAck |-> TRUE]>>
          \o (IF m.prev > 0 THEN <<[seq |-> m.prev, haveAck |-> FALSE]>> ELSE <<>>)])
    /\ net' = Taken(m)
    /\ UNCHANGED <<prevAckSeqNum, published, delivered>>

HandleAck(c) ==
    /\ pipe[c].acks # <<>>
    /\ \E spread \in [Names -> RttSpreads] :
          LET a == Head(pipe[c].acks)
          IN Client(c, [RecvAck(pipe[c], a.seq, a.haveAck, spread) EXCEPT !.acks = Tail(@)])
    /\ UNCHANGED <<prevAckSeqNum, net, published, delivered>>

\* RateCtrl::calcPhaseLossRateUp gives up a packet that is not acknowledged.
GiveUp(c) ==
    /\ Late
    /\ \E s \in DOMAIN pipe[c].history :
          /\ pipe[c].history[s].status = "sent"
          /\ Client(c, [pipe[c] EXCEPT !.history[s].status = "lost"])
    /\ UNCHANGED <<prevAckSeqNum, net, published, delivered>>

-----------------------------------------------------------------------------
(* The relay *)

\* Relay::processPub: the acknowledgement also names the packet it acknowledged
\* before this one, from whichever client that was.
RelayPub(m) ==
    /\ m.type = "data"
    /\ net' = Taken(m) \cup {Ack(m.client, m.seq, prevAckSeqNum)}
    /\ prevAckSeqNum' = m.seq
    /\ delivered' = delivered \cup {m}
    /\ UNCHANGED <<pipe, published>>

Next ==
    \/ \E c \in Clients :
          \/ \E n \in Names : PublishCaches(c, n) \/ PublishRefused(c, n)
          \/ PublishQueues(c) \/ PacerSends(c) \/ HandleAck(c) \/ GiveUp(c)
          \/ \E m \in net : RecvPacket(c, m)
    \/ \E m \in net : RelayPub(m)

Spec == Init /\ [][Next]_vars

\* Every thread runs, and what is on the wire is taken.
FairSpec ==
    /\ Spec
    /\ \A c \in Clients :
          /\ WF_vars(PublishQueues(c)) /\ WF_vars(PacerSends(c))
          /\ WF_vars(HandleAck(c))
          /\ \A s \in 1 .. 2 * MaxPublish * Cardinality(Names) :
                /\ SF_vars(\E m \in net : m.seq = s /\ RecvPacket(c, m))
                /\ WF_vars(\E m \in net : m.client = c /\ m.seq = s /\ RelayPub(m))

-----------------------------------------------------------------------------
(* Properties *)

\* Every variable has its type.
TypeOK ==
    /\ pipe \in [Clients -> Pipe]
    /\ prevAckSeqNum \in Nat
    /\ published \in [Clients -> [Names -> 0 .. MaxPublish]]
    /\ \A m \in net \cup delivered :
          /\ m.client \in Clients /\ m.seq \in 1 .. Len(pipe[m.client].history)
          /\ m.type = "data" => pipe[m.client].history[m.seq].name = m.name
          /\ m.type = "ack" => m.prev \in Nat

\* How often a name is on its way or was transmitted.
Copies(c, n) ==
    (IF pipe[c].sending = n THEN 1 ELSE 0)
    + Count(pipe[c].queue[Priority[n]], n) + Count(Sent(pipe[c].history), n)

Acknowledged(c, n) ==
    \E s \in DOMAIN pipe[c].history :
        /\ pipe[c].history[s].name = n
        /\ pipe[c].history[s].status \in {"ack", "received"}

\* RetransmitPipe forgets a packet only when it was acknowledged or when it is
\* sent a second time: none is lost between rtxList and the queues, whatever
\* thread runs between them, and a first copy that was pushed out of a full queue
\* (priorityPipe.cc:29) is sent again.
NothingForgotten ==
    \A c \in Clients, n \in Names :
        published[c][n] > 0 /\ n \notin pipe[c].rtxList =>
            Acknowledged(c, n) \/ Copies(c, n) + pipe[c].dropped[n] >= 2

\* A publication puts at most two packets on the wire (RetransmitPipe::ack erases
\* what it sends again), however acknowledgements are lost, repeated or late, and
\* whatever FecPipe adds.
SentAtMostTwice ==
    \A c \in Clients, n \in Names : Copies(c, n) <= 2 * published[c][n]

\* What the pacer takes for acknowledged has reached the relay
\* (RateCtrl::recvAck against Relay::processPub).
AckedWasReceived ==
    \A c \in Clients : \A s \in DOMAIN pipe[c].history :
        pipe[c].history[s].status \in {"ack", "received"} =>
            Data(c, s, pipe[c].history[s].name) \in delivered

\* Where nothing is lost, every packet that is published reaches the relay.
PublishedArrives ==
    \A c \in Clients, n \in Names :
        published[c][n] > 0 ~> \E m \in delivered : m.client = c /\ m.name = n

\* Where nothing is lost or late, the retransmission list drains.
ListDrains ==
    \A c \in Clients, n \in Names :
        n \in pipe[c].rtxList ~> n \notin pipe[c].rtxList

=============================================================================
