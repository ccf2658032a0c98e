-------------------------------- MODULE Relay --------------------------------
(***************************************************************************)
(* The relay of cmd/relay with its forwarding table (MultimapFib), and the *)
(* clients that subscribe and publish through it.                          *)
(*                                                                         *)
(* A client is what SubscribePipe, RetransmitPipe and RateCtrl keep for a  *)
(* subscription: its packet is reliable and has the default name, under    *)
(* which rtxList caches it until an acknowledgement.  Publications are not *)
(* reliable here (SendPath has those that are).  The copies FecPipe makes  *)
(* of a subscription are in SendPath: their queue, priority 0, is not      *)
(* served.                                                                 *)
(*                                                                         *)
(* A datagram is not consumed: it arrives any number of times, or never,   *)
(* and in any order.                                                       *)
(***************************************************************************)
EXTENDS Integers, Sequences, FiniteSets

CONSTANTS
    Clients,
    Subscriptions,  \* the names each client may subscribe to
    Publications,   \* the names each client may publish
    RttSpread,      \* bigRtt - minRtt
    MaxSeq,         \* bound: packets each client sends
    RelaySeqNums    \* the values of getRandom

\* ShortName without its fragmentID
ShortName == [resourceID : Nat, senderID : Nat, sourceID : 0 .. 255, mediaTime : Nat]

ASSUME RelayAssumption ==
    /\ \A c \in Clients :
          /\ Subscriptions[c] \subseteq ShortName
          /\ Publications[c] \subseteq ShortName
          /\ \A n \in Publications[c] : n.resourceID > 0
    /\ RttSpread \in Nat /\ MaxSeq \in [Clients -> Nat]
    /\ RelaySeqNums \subseteq Nat

\* The constructors ShortName(resourceID, ...): what is not given is 0.
Name(r, s, q) == [resourceID |-> r, senderID |-> s, sourceID |-> q, mediaTime |-> 0]
Default == Name(0, 0, 0)

Sub(c, s, n) == [type |-> "subscribe", from |-> c, seq |-> s, name |-> n]
Pub(c, s, n) == [type |-> "publish", from |-> c, seq |-> s, name |-> n]
Ack(c, s, p) == [type |-> "ack", to |-> c, seq |-> s, prev |-> p]
Data(e, n)   == [type |-> "data", to |-> e.face, sub |-> e.name, name |-> n,
                 relaySeqNum |-> e.relaySeqNum]

VARIABLES
    pipe,           \* what each client keeps
    fibStore,       \* MultimapFib::fibStore
    prevAckSeqNum,  \* Relay::prevAckSeqNum
    toRelay, toClients  \* the datagrams in flight

relay == <<fibStore, prevAckSeqNum>>
vars == <<pipe, relay, toRelay, toClients>>

Pipe ==
    [subscribeList : SUBSET ShortName,
     rtxList : SUBSET ShortName,   \* the subscription cached as Default
     queue : SUBSET ShortName,     \* subscriptions in PriorityPipe
     maxActTime : Nat,
     history : Seq([name : ShortName, sent : BOOLEAN])]  \* by sequence number

Init ==
    /\ pipe = [c \in Clients |->
                  [subscribeList |-> {}, rtxList |-> {}, queue |-> {},
                   maxActTime |-> 0, history |-> <<>>]]
    /\ fibStore = {} /\ prevAckSeqNum = 0
    /\ toRelay = {} /\ toClients = {}

-----------------------------------------------------------------------------
(* A client *)

\* SubscribePipe::subscribe, RetransmitPipe::send: nothing is cached.
SubscribeQueues(c, n) ==
    /\ pipe[c].rtxList = {}
    /\ pipe' = [pipe EXCEPT ![c].subscribeList = @ \cup {n},
                            ![c].rtxList = {n}, ![c].queue = @ \cup {n}]
    /\ UNCHANGED <<relay, toRelay, toClients>>

\* A subscription is cached: RetransmitPipe refuses this one, whose name is the
\* same, and SubscribePipe::subscribe returns true all the same.
SubscribeRefused(c, n) ==
    /\ pipe[c].rtxList # {}
    /\ pipe' = [pipe EXCEPT ![c].subscribeList = @ \cup {n}]
    /\ UNCHANGED <<relay, toRelay, toClients>>

\* Faulty NextSeqNum: the number of the packet before.
SeqNum(c) == Len(pipe[c].history)

\* PacerPipe::nextSeqNum, from 1 on
NextSeqNum(c) == Len(pipe[c].history) + 1

\* PacerPipe::runNetSend sends the packet that RetransmitPipe knows by name.
Send(c, r, name, packet) ==
    /\ Len(r.history) < MaxSeq[c]
    /\ pipe' = [pipe EXCEPT ![c] =
           [r EXCEPT !.history = Append(@, [name |-> name, sent |-> TRUE])]]
    /\ toRelay' = toRelay \cup {packet}
    /\ UNCHANGED <<relay, toClients>>

SendSubscribe(c) ==
    \E n \in pipe[c].queue :
        Send(c, [pipe[c] EXCEPT !.queue = @ \ {n}], Default, Sub(c, NextSeqNum(c), n))

\* QuicRClient::publish
Publish(c, n) == Send(c, pipe[c], n, Pub(c, NextSeqNum(c), n))

Later(a, b) == IF a < b THEN b ELSE a

\* RateCtrl::recvAck of seq and RetransmitPipe::ack: the name that was acknowledged
\* is forgotten.  A subscription that is cached, of mediaTime 0, is sent again once
\* maxActTime - RttSpread, a uint32_t, is more than 0.
RecvAck(r, seq) ==
    LET name == r.history[seq].name
        newest == Later(r.maxActTime, name.mediaTime)
        kept == IF name = Default THEN {} ELSE r.rtxList
        resent == IF newest = RttSpread THEN {} ELSE kept
    IN IF seq \in DOMAIN r.history /\ r.history[seq].sent
       THEN [r EXCEPT !.maxActTime = newest, !.history[seq].sent = FALSE,
                      !.rtxList = kept \ resent, !.queue = @ \cup resent]
       ELSE r

\* PacerPipe::runNetRecv: the acknowledgement, and the redundant one after it.
RecvAcks(c, m) ==
    /\ m.type = "ack" /\ m.to = c
    /\ pipe' = [pipe EXCEPT ![c] = RecvAck(RecvAck(@, m.seq), m.prev)]
    /\ UNCHANGED <<relay, toRelay, toClients>>

-----------------------------------------------------------------------------
(* The forwarding table *)

\* MultimapFib::addSubscription: what the name had is erased.
addSubscription(name, info) == {e \in fibStore : e.name # name} \cup {info}

\* Faulty lookupSubscription: the subscriptions to a source are not looked up.
lookupNoSource(name) ==
    {e \in fibStore :
        \/ e.name = Name(name.resourceID, 0, 0)
        \/ name.senderID # 0 /\ e.name = Name(name.resourceID, name.senderID, 0)}

\* MultimapFib::lookupSubscription
lookupSubscription(name) ==
    {e \in fibStore :
        \/ e.name = Name(name.resourceID, 0, 0)
        \/ /\ name.senderID # 0
           /\ e.name = Name(name.resourceID, name.senderID, 0)
        \/ /\ name.sourceID # 0
           /\ e.name = Name(name.resourceID, name.senderID, name.sourceID)}

-----------------------------------------------------------------------------
(* The relay *)

\* Relay::processSub: the acknowledgement is built and not sent.
ProcessSub(m) ==
    /\ m.type = "subscribe"
    /\ \E random \in RelaySeqNums :
          fibStore' = addSubscription(m.name,
              [name |-> m.name, face |-> m.from, relaySeqNum |-> random])
    /\ UNCHANGED <<pipe, prevAckSeqNum, toRelay, toClients>>

\* Relay::processPub: the subscribers are copies of the table's, and the number of
\* theirs that is incremented is lost.
ProcessPub(m) ==
    /\ m.type = "publish"
    /\ toClients' = toClients
           \cup {Ack(m.from, m.seq, prevAckSeqNum)}
           \cup {Data(e, m.name) : e \in lookupSubscription(m.name)}
    /\ prevAckSeqNum' = m.seq
    /\ UNCHANGED <<pipe, fibStore, toRelay>>

Next ==
    \/ \E c \in Clients :
          \/ \E n \in Subscriptions[c] : SubscribeQueues(c, n) \/ SubscribeRefused(c, n)
          \/ SendSubscribe(c)
          \/ \E n \in Publications[c] : Publish(c, n)
          \/ \E m \in toClients : RecvAcks(c, m)
    \/ \E m \in toRelay : ProcessSub(m) \/ ProcessPub(m)

Spec == Init /\ [][Next]_vars

-----------------------------------------------------------------------------
(* Properties *)

\* Every variable has its type, and a client numbers its packets from 1 on.
TypeOK ==
    /\ pipe \in [Clients -> Pipe]
    /\ fibStore \subseteq [name : ShortName, face : Clients, relaySeqNum : RelaySeqNums]
    /\ prevAckSeqNum \in Nat
    /\ \A m \in toRelay :
          /\ m.type \in {"subscribe", "publish"} /\ m.name \in ShortName
          /\ m.from \in Clients /\ m.seq \in DOMAIN pipe[m.from].history
    /\ \A m \in toClients :
          /\ m.to \in Clients
          /\ IF m.type = "ack"
             THEN m.seq \in DOMAIN pipe[m.to].history /\ m.prev \in Nat
             ELSE m.name \in ShortName /\ m.relaySeqNum \in RelaySeqNums

\* The publications that a subscription to n asks for: those with its fields, as
\* far as it has them (qsub.cc:22: "senderId, sourceId, mediaTime optional").
Covers(n, name) ==
    /\ n.resourceID = name.resourceID
    /\ n.senderID \in {0, name.senderID}
    /\ n.sourceID \in {0, name.sourceID}

subscriptions == {<<e.face, e.name>> : e \in fibStore}
acked == {<<m.to, m.seq>> : m \in {a \in toClients : a.type = "ack"}}
forwarded ==
    {<<<<m.to, m.sub>>, m.name>> : m \in {d \in toClients : d.type = "data"}}

Promise == INSTANCE PubSub WITH
    Seqs <- UNION {1 .. MaxSeq[c] : c \in Clients},
    Names <- UNION {Subscriptions[c] \cup Publications[c] : c \in Clients}

\* The relay keeps every subscription it has taken and forwards to all that cover
\* a name, "find the matching subscribers" (relay.cc:162); and it acknowledges
\* what it forwards, in the same step.
ImplementsPubSub == Promise!Spec

=============================================================================
