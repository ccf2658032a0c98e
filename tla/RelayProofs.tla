---------------------------- MODULE RelayProofs ----------------------------
(***************************************************************************)
(* Proofs about the relay of cmd/relay: for any clients that subscribe to  *)
(* names of their own, of the forms its table looks up, it keeps what      *)
(* PubSub promises, on any network.                                        *)
(***************************************************************************)
EXTENDS Relay, SequenceTheorems, TLAPS

\* What a client sends is one of its names.
Origin ==
    /\ \A c \in Clients :
          /\ pipe[c].rtxList \cup pipe[c].queue \subseteq Subscriptions[c]
          /\ Len(pipe[c].history) <= MaxSeq[c]
    /\ \A m \in toRelay :
          m.name \in (IF m.type = "subscribe" THEN Subscriptions[m.from]
                      ELSE Publications[m.from])
    /\ \A e \in fibStore : e.name \in Subscriptions[e.face]

IInv == TypeOK /\ Origin

-----------------------------------------------------------------------------
(* Types *)

Record == [name : ShortName, sent : BOOLEAN]

LEMMA NamesTyped ==
  /\ Default \in ShortName
  /\ \A c \in Clients : /\ Subscriptions[c] \subseteq ShortName
                        /\ Publications[c] \subseteq ShortName
BY RelayAssumption DEF Default, Name, ShortName

\* The four fields that an acknowledgement changes
Update(r, time, h, cached, queue) ==
    [r EXCEPT !.maxActTime = time, !.history = h, !.rtxList = cached, !.queue = queue]

LEMMA Updated ==
  ASSUME NEW r \in Pipe, NEW time \in Nat, NEW h \in Seq(Record),
         NEW cached \in SUBSET ShortName, NEW queue \in SUBSET ShortName
  PROVE  LET q == Update(r, time, h, cached, queue)
         IN /\ q \in Pipe
            /\ q.history = h /\ q.rtxList = cached /\ q.queue = queue
BY DEF Update, Pipe, Record

\* An acknowledgement neither adds records nor takes any away.
LEMMA RecvAckTyped ==
  ASSUME NEW r \in Pipe, NEW seq
  PROVE  LET q == RecvAck(r, seq)
         IN /\ q \in Pipe
            /\ Len(q.history) = Len(r.history)
            /\ q.rtxList \subseteq r.rtxList
            /\ q.queue \subseteq r.rtxList \cup r.queue
<1> DEFINE name == r.history[seq].name
           newest == Later(r.maxActTime, name.mediaTime)
           kept == IF name = Default THEN {} ELSE r.rtxList
           resent == IF newest = RttSpread THEN {} ELSE kept
           h == [r.history EXCEPT ![seq].sent = FALSE]
           q == Update(r, newest, h, kept \ resent, r.queue \cup resent)
<1>1. CASE seq \in DOMAIN r.history /\ r.history[seq].sent
  <2>1. r.history \in Seq(Record) /\ seq \in 1 .. Len(r.history)
    BY <1>1 DEF Pipe, Record
  <2>2. r.history[seq] \in Record
    BY <2>1
  <2>3. newest \in Nat
    BY <2>2 DEF Later, Pipe, Record, ShortName
  <2>4. h \in Seq(Record) /\ Len(h) = Len(r.history)
    <3> DEFINE v == [r.history[seq] EXCEPT !.sent = FALSE]
    <3>1. v \in Record
      BY <2>2 DEF Record
    <3>2. h = [r.history EXCEPT ![seq] = v]
      OBVIOUS
    <3> HIDE DEF h, v
    <3>3. [r.history EXCEPT ![seq] = v] \in Seq(Record)
          /\ Len([r.history EXCEPT ![seq] = v]) = Len(r.history)
      BY <2>1, <3>1, ExceptSeq
    <3> QED
      BY <3>2, <3>3
  <2>5. kept \subseteq r.rtxList /\ resent \subseteq r.rtxList
    OBVIOUS
  <2> HIDE DEF newest, kept, resent, h
  <2>6. q \in Pipe /\ q.history = h /\ q.rtxList = kept \ resent
        /\ q.queue = r.queue \cup resent
    <3>1. /\ kept \ resent \in SUBSET ShortName
          /\ r.queue \cup resent \in SUBSET ShortName
      BY <2>5 DEF Pipe
    <3> HIDE DEF name
    <3> QED
      BY <2>3, <2>4, <3>1, Updated
  <2>7. RecvAck(r, seq) = q
    BY <1>1 DEF RecvAck, Update, newest, kept, resent, h, name
  <2> QED
    BY <2>4, <2>5, <2>6, <2>7
<1>2. CASE ~(seq \in DOMAIN r.history /\ r.history[seq].sent)
  BY <1>2 DEF RecvAck
<1> QED
  BY <1>1, <1>2

\* A step of one client that keeps its records or adds one
LEMMA ClientMoves ==
  ASSUME IInv, NEW c \in Clients, NEW r \in Pipe,
         pipe' = [pipe EXCEPT ![c] = r],
         r.rtxList \cup r.queue \subseteq Subscriptions[c],
         Len(pipe[c].history) <= Len(r.history), Len(r.history) <= MaxSeq[c]
  PROVE  /\ pipe' \in [Clients -> Pipe]
         /\ \A d \in Clients :
               /\ pipe'[d].rtxList \cup pipe'[d].queue \subseteq Subscriptions[d]
               /\ Len(pipe'[d].history) <= MaxSeq[d]
               /\ DOMAIN pipe[d].history \subseteq DOMAIN pipe'[d].history
               /\ d # c => pipe'[d] = pipe[d]
         /\ pipe'[c] = r
<1>1. pipe \in [Clients -> Pipe] /\ pipe[c] \in Pipe
  BY DEF IInv, TypeOK
<1>2. pipe'[c] = r /\ \A d \in Clients : d # c => pipe'[d] = pipe[d]
  BY <1>1
<1>3. DOMAIN pipe[c].history \subseteq DOMAIN r.history
  <2>1. pipe[c].history \in Seq(Record) /\ r.history \in Seq(Record)
    BY <1>1 DEF Pipe, Record
  <2> QED
    BY <2>1
<1> QED
  BY <1>1, <1>2, <1>3 DEF IInv, Origin

\* and sends no new datagram
LEMMA ClientKeeps ==
  ASSUME IInv, NEW c \in Clients, NEW r \in Pipe,
         pipe' = [pipe EXCEPT ![c] = r],
         r.rtxList \cup r.queue \subseteq Subscriptions[c],
         Len(r.history) = Len(pipe[c].history),
         UNCHANGED <<relay, toRelay, toClients>>
  PROVE  IInv'
<1>1. Len(pipe[c].history) <= MaxSeq[c] /\ Len(pipe[c].history) \in Nat
  BY DEF IInv, Origin, TypeOK, Pipe
<1>2. /\ pipe' \in [Clients -> Pipe]
      /\ \A d \in Clients :
            /\ pipe'[d].rtxList \cup pipe'[d].queue \subseteq Subscriptions[d]
            /\ Len(pipe'[d].history) <= MaxSeq[d]
            /\ DOMAIN pipe[d].history \subseteq DOMAIN pipe'[d].history
  <2>1. Len(pipe[c].history) <= Len(r.history) /\ Len(r.history) <= MaxSeq[c]
    BY <1>1
  <2> QED
    BY <2>1, ClientMoves
<1>3. TypeOK'
  BY <1>2 DEF IInv, TypeOK, relay
<1>4. Origin'
  BY <1>2 DEF IInv, Origin, relay
<1> QED
  BY <1>3, <1>4 DEF IInv

\* or sends one.
LEMMA ClientSends ==
  ASSUME IInv, NEW c \in Clients, NEW r \in Pipe, NEW name \in ShortName, NEW m,
         r.rtxList \cup r.queue \subseteq Subscriptions[c],
         r.history = pipe[c].history, Send(c, r, name, m),
         m.type \in {"subscribe", "publish"}, m.from = c, m.seq = NextSeqNum(c),
         m.name \in (IF m.type = "subscribe" THEN Subscriptions[c] ELSE Publications[c])
  PROVE  IInv'
<1> DEFINE h == Append(r.history, [name |-> name, sent |-> TRUE])
           q == [r EXCEPT !.history = h]
<1>1. r.history \in Seq(Record) /\ Len(r.history) \in Nat /\ MaxSeq[c] \in Nat
  BY RelayAssumption DEF Pipe, Record
<1>2. [name |-> name, sent |-> TRUE] \in Record
  BY DEF Record
<1>3. h \in Seq(Record) /\ Len(h) = Len(r.history) + 1
  BY <1>1, <1>2
<1>4. /\ Len(r.history) < MaxSeq[c] /\ pipe' = [pipe EXCEPT ![c] = q]
      /\ toRelay' = toRelay \cup {m} /\ UNCHANGED relay /\ toClients' = toClients
  BY DEF Send
<1> HIDE DEF h
<1>5. q \in Pipe /\ q.rtxList = r.rtxList /\ q.queue = r.queue /\ q.history = h
  BY <1>3 DEF Pipe, Record
<1> HIDE DEF q
<1>6. /\ pipe' \in [Clients -> Pipe]
      /\ \A d \in Clients :
            /\ pipe'[d].rtxList \cup pipe'[d].queue \subseteq Subscriptions[d]
            /\ Len(pipe'[d].history) <= MaxSeq[d]
            /\ DOMAIN pipe[d].history \subseteq DOMAIN pipe'[d].history
      /\ pipe'[c] = q
  <2>1. Len(pipe[c].history) <= Len(q.history) /\ Len(q.history) <= MaxSeq[c]
    BY <1>1, <1>3, <1>4, <1>5
  <2>2. q.rtxList \cup q.queue \subseteq Subscriptions[c]
    BY <1>5
  <2> QED
    BY <1>4, <1>5, <2>1, <2>2, ClientMoves
<1>7. m.seq \in DOMAIN pipe'[c].history
  BY <1>1, <1>3, <1>5, <1>6 DEF NextSeqNum
<1>8. m.name \in ShortName
  BY NamesTyped
<1>9. TypeOK'
  BY <1>4, <1>6, <1>7, <1>8 DEF IInv, TypeOK, relay
<1>10. Origin'
  BY <1>4, <1>6 DEF IInv, Origin, relay
<1> QED
  BY <1>9, <1>10 DEF IInv

LEMMA InvInit ==
  ASSUME Init
  PROVE  IInv
<1>1. [subscribeList |-> {}, rtxList |-> {}, queue |-> {}, maxActTime |-> 0,
       history |-> <<>>] \in Pipe
  BY DEF Pipe
<1>2. TypeOK
  BY <1>1 DEF Init, TypeOK
<1>3. Origin
  BY RelayAssumption DEF Init, Origin
<1> QED
  BY <1>2, <1>3 DEF IInv

LEMMA InvStep ==
  ASSUME IInv, [Next]_vars
  PROVE  IInv'
<1>0. \A c \in Clients : /\ pipe[c] \in Pipe
                         /\ pipe[c].rtxList \cup pipe[c].queue \subseteq Subscriptions[c]
                         /\ Subscriptions[c] \subseteq ShortName
                         /\ Publications[c] \subseteq ShortName
  BY NamesTyped DEF IInv, TypeOK, Origin
<1>1. ASSUME NEW c \in Clients, NEW n \in Subscriptions[c], SubscribeQueues(c, n)
      PROVE  IInv'
  <2> DEFINE r == [pipe[c] EXCEPT !.subscribeList = @ \cup {n}, !.rtxList = {n},
                                  !.queue = @ \cup {n}]
  <2>1. pipe' = [pipe EXCEPT ![c] = r] /\ UNCHANGED <<relay, toRelay, toClients>>
    BY <1>1 DEF SubscribeQueues
  <2>2. /\ r \in Pipe /\ r.rtxList \cup r.queue \subseteq Subscriptions[c]
        /\ r.history = pipe[c].history
    BY <1>0 DEF Pipe
  <2> HIDE DEF r
  <2> QED
    BY <2>1, <2>2, ClientKeeps
<1>2. ASSUME NEW c \in Clients, NEW n \in Subscriptions[c], SubscribeRefused(c, n)
      PROVE  IInv'
  <2> DEFINE r == [pipe[c] EXCEPT !.subscribeList = @ \cup {n}]
  <2>1. pipe' = [pipe EXCEPT ![c] = r] /\ UNCHANGED <<relay, toRelay, toClients>>
    BY <1>2 DEF SubscribeRefused
  <2>2. /\ r \in Pipe /\ r.rtxList \cup r.queue \subseteq Subscriptions[c]
        /\ r.history = pipe[c].history
    BY <1>0 DEF Pipe
  <2> HIDE DEF r
  <2> QED
    BY <2>1, <2>2, ClientKeeps
<1>3. ASSUME NEW c \in Clients, SendSubscribe(c)
      PROVE  IInv'
  <2>1. PICK n \in pipe[c].queue :
           Send(c, [pipe[c] EXCEPT !.queue = @ \ {n}], Default, Sub(c, NextSeqNum(c), n))
    BY <1>3 DEF SendSubscribe
  <2> DEFINE r == [pipe[c] EXCEPT !.queue = @ \ {n}]
             m == Sub(c, NextSeqNum(c), n)
  <2>2. /\ r \in Pipe /\ r.rtxList \cup r.queue \subseteq Subscriptions[c]
        /\ r.history = pipe[c].history
    BY <1>0 DEF Pipe
  <2>3. /\ m.type = "subscribe" /\ m.from = c /\ m.seq = NextSeqNum(c)
        /\ m.name \in Subscriptions[c] /\ Default \in ShortName
    BY <1>0, NamesTyped DEF Sub
  <2>4. Send(c, r, Default, m)
    BY <2>1
  <2> HIDE DEF r, m
  <2> QED
    BY <2>2, <2>3, <2>4, ClientSends
<1>4. ASSUME NEW c \in Clients, NEW n \in Publications[c], Publish(c, n)
      PROVE  IInv'
  <2> DEFINE m == Pub(c, NextSeqNum(c), n)
  <2>1. /\ m.type = "publish" /\ m.from = c /\ m.seq = NextSeqNum(c)
        /\ m.name \in Publications[c] /\ n \in ShortName
    BY <1>0 DEF Pub
  <2>2. Send(c, pipe[c], n, m)
    BY <1>4 DEF Publish
  <2> HIDE DEF m
  <2> QED
    BY <1>0, <2>1, <2>2, ClientSends
<1>5. ASSUME NEW c \in Clients, NEW m \in toClients, RecvAcks(c, m)
      PROVE  IInv'
  <2> DEFINE q == RecvAck(pipe[c], m.seq)
             r == RecvAck(q, m.prev)
  <2>1. pipe' = [pipe EXCEPT ![c] = r] /\ UNCHANGED <<relay, toRelay, toClients>>
    BY <1>5 DEF RecvAcks
  <2>2. /\ q \in Pipe /\ q.rtxList \cup q.queue \subseteq Subscriptions[c]
        /\ Len(q.history) = Len(pipe[c].history)
    BY <1>0, RecvAckTyped
  <2> HIDE DEF q
  <2>3. /\ r \in Pipe /\ r.rtxList \cup r.queue \subseteq Subscriptions[c]
        /\ Len(r.history) = Len(pipe[c].history)
    BY <2>2, RecvAckTyped
  <2> HIDE DEF r
  <2> QED
    BY <2>1, <2>3, ClientKeeps
<1>6. ASSUME NEW m \in toRelay, ProcessSub(m)
      PROVE  IInv'
  <2>1. PICK random \in RelaySeqNums :
           fibStore' = addSubscription(m.name,
              [name |-> m.name, face |-> m.from, relaySeqNum |-> random])
    BY <1>6 DEF ProcessSub
  <2>2. UNCHANGED <<pipe, prevAckSeqNum, toRelay, toClients>>
    BY <1>6 DEF ProcessSub
  <2>3. m.name \in ShortName /\ m.from \in Clients /\ m.name \in Subscriptions[m.from]
    BY <1>6 DEF ProcessSub, IInv, TypeOK, Origin
  <2>4. fibStore' \subseteq
            fibStore \cup {[name |-> m.name, face |-> m.from, relaySeqNum |-> random]}
    BY <2>1 DEF addSubscription
  <2>5. TypeOK'
    BY <2>2, <2>3, <2>4 DEF IInv, TypeOK
  <2>6. Origin'
    BY <2>2, <2>3, <2>4 DEF IInv, Origin
  <2> QED
    BY <2>5, <2>6 DEF IInv
<1>7. ASSUME NEW m \in toRelay, ProcessPub(m)
      PROVE  IInv'
  <2>1. /\ UNCHANGED <<pipe, fibStore, toRelay>> /\ prevAckSeqNum' = m.seq
        /\ \A d \in toClients' :
              \/ d \in toClients
              \/ d = Ack(m.from, m.seq, prevAckSeqNum)
              \/ \E e \in fibStore : d = Data(e, m.name)
    BY <1>7 DEF ProcessPub, lookupSubscription
  <2>2. /\ m.name \in ShortName /\ m.from \in Clients
        /\ m.seq \in DOMAIN pipe[m.from].history /\ m.seq \in Nat
    BY <1>0 DEF IInv, TypeOK, Pipe
  <2>3. TypeOK'
    BY <2>1, <2>2 DEF IInv, TypeOK, Ack, Data
  <2>4. Origin'
    BY <2>1 DEF IInv, Origin
  <2> QED
    BY <2>3, <2>4 DEF IInv
<1>8. CASE UNCHANGED vars
  BY <1>8 DEF vars, relay, IInv, TypeOK, Origin
<1> QED
  BY <1>1, <1>2, <1>3, <1>4, <1>5, <1>6, <1>7, <1>8 DEF Next

LEMMA Invariant == Spec => []IInv
BY InvInit, InvStep, PTL DEF Spec

\* Every variable has its type, and what is acknowledged was sent: a client's numbers
\* are those of its history.
THEOREM TypeCorrect == Spec => []TypeOK
BY Invariant, PTL DEF IInv

-----------------------------------------------------------------------------
(* Refinement *)

\* No two clients subscribe to one name (RelaySharedName shows why), and a name that
\* has a source has a sender: the table looks nothing else up (multimap_fib.cc:59).
OwnNames ==
    /\ \A c, d \in Clients : c # d => Subscriptions[c] \cap Subscriptions[d] = {}
    /\ \A c \in Clients : \A n \in Subscriptions[c] :
          n.mediaTime = 0 /\ (n.senderID = 0 => n.sourceID = 0)

\* The three forms that are looked up are those that cover the name.
LEMMA LooksUpWhatCovers ==
  ASSUME OwnNames, IInv, NEW e \in fibStore, NEW name \in ShortName
  PROVE  e \in lookupSubscription(name) <=> Covers(e.name, name)
<1>1. /\ e.name \in ShortName /\ e.name.mediaTime = 0
      /\ e.name.senderID = 0 => e.name.sourceID = 0
  BY DEF OwnNames, IInv, TypeOK, Origin
<1>2. \A r, s, q : e.name = Name(r, s, q) <=>
         e.name.resourceID = r /\ e.name.senderID = s /\ e.name.sourceID = q
  BY <1>1 DEF ShortName, Name
<1> QED
  BY <1>1, <1>2 DEF lookupSubscription, Covers

\* For any network the relay forwards a publication to exactly the subscriptions that
\* cover its name, of which it forgets none, and acknowledges it.
THEOREM Refinement ==
  ASSUME OwnNames
  PROVE  Spec => ImplementsPubSub
<1> USE DEF Promise!vars
<1>1. Init => Promise!Init
  BY DEF Init, Promise!Init, subscriptions, acked, forwarded
<1>2. ASSUME IInv, [Next]_vars
      PROVE  [Promise!Next]_Promise!vars
  <2>1. CASE UNCHANGED <<fibStore, toClients>>
    BY <2>1 DEF subscriptions, acked, forwarded
  <2>2. ASSUME NEW m \in toRelay, ProcessSub(m)
        PROVE  Promise!Next
    <3>1. /\ m.from \in Clients /\ m.name \in Subscriptions[m.from]
          /\ UNCHANGED <<acked, forwarded>>
      BY <1>2, <2>2 DEF ProcessSub, IInv, TypeOK, Origin, acked, forwarded
    <3>2. \A e \in fibStore : e.name = m.name => e.face = m.from
      BY <1>2, <3>1 DEF OwnNames, IInv, TypeOK, Origin
    <3>3. PICK random : fibStore' = {e \in fibStore : e.name # m.name}
             \cup {[name |-> m.name, face |-> m.from, relaySeqNum |-> random]}
      BY <2>2 DEF ProcessSub, addSubscription
    <3>4. subscriptions' = subscriptions \cup {<<m.from, m.name>>}
      <4> DEFINE info == [name |-> m.name, face |-> m.from, relaySeqNum |-> random]
      <4>1. info.face = m.from /\ info.name = m.name
        OBVIOUS
      <4> HIDE DEF info
      <4>2. \A e : e \in fibStore' <=> (e \in fibStore /\ e.name # m.name) \/ e = info
        BY <3>3 DEF info
      <4>3. \A e \in fibStore :
               e \in fibStore' \/ <<e.face, e.name>> = <<info.face, info.name>>
        BY <3>2, <4>1, <4>2
      <4> QED
        BY <4>1, <4>2, <4>3 DEF subscriptions
    <3> QED
      BY <3>1, <3>4 DEF Promise!Next, Promise!Subscribe
  <2>3. ASSUME NEW m \in toRelay, ProcessPub(m)
        PROVE  Promise!Next
    <3>1. /\ m.from \in Clients /\ m.name \in Publications[m.from]
          /\ m.name \in ShortName
          /\ m.seq \in 1 .. MaxSeq[m.from] /\ subscriptions' = subscriptions
      <4>1. /\ m.from \in Clients /\ m.name \in Publications[m.from]
            /\ m.name \in ShortName /\ subscriptions' = subscriptions
        BY <1>2, <2>3 DEF ProcessPub, IInv, TypeOK, Origin, subscriptions
      <4>2. /\ pipe[m.from].history \in Seq(Record)
            /\ m.seq \in DOMAIN pipe[m.from].history
            /\ Len(pipe[m.from].history) <= MaxSeq[m.from] /\ MaxSeq[m.from] \in Nat
        BY <1>2, <4>1, RelayAssumption DEF IInv, TypeOK, Origin, Pipe, Record
      <4> QED
        BY <4>1, <4>2
    <3> DEFINE copies == {Data(e, m.name) : e \in lookupSubscription(m.name)}
    <3>2. toClients' = toClients \cup {Ack(m.from, m.seq, prevAckSeqNum)} \cup copies
      BY <2>3 DEF ProcessPub
    <3>3. /\ \A d \in copies : d.type = "data"
          /\ Ack(m.from, m.seq, prevAckSeqNum).type = "ack"
      BY DEF Ack, Data
    <3>4. acked' = acked \cup {<<m.from, m.seq>>}
      <4> DEFINE a == Ack(m.from, m.seq, prevAckSeqNum)
      <4>1. a.type = "ack" /\ <<a.to, a.seq>> = <<m.from, m.seq>>
        BY DEF Ack
      <4> HIDE DEF a
      <4>2. \A d : d \in toClients' /\ d.type = "ack" <=>
                     (d \in toClients /\ d.type = "ack") \/ d = a
        BY <3>2, <3>3, <4>1 DEF a
      <4> HIDE DEF copies
      <4> QED
        BY <4>1, <4>2 DEF acked
    <3> DEFINE new == {<<s, m.name>> : s \in {t \in subscriptions : Covers(t[2], m.name)}}
    <3>5. \A e : e \in lookupSubscription(m.name) <=>
                    e \in fibStore /\ Covers(e.name, m.name)
      BY <1>2, <3>1, LooksUpWhatCovers DEF lookupSubscription
    <3>6. ASSUME NEW d \in copies
          PROVE  <<<<d.to, d.sub>>, d.name>> \in new
      <4>1. PICK e \in fibStore : d = Data(e, m.name) /\ Covers(e.name, m.name)
        BY <3>5
      <4> DEFINE t == <<e.face, e.name>>
      <4>2. t \in subscriptions /\ t[2] = e.name
        BY DEF subscriptions
      <4>3. <<<<d.to, d.sub>>, d.name>> = <<t, m.name>>
        BY <4>1 DEF Data
      <4> HIDE DEF t
      <4> QED
        BY <4>1, <4>2, <4>3
    <3>7. ASSUME NEW x \in new
          PROVE  \E d \in copies : x = <<<<d.to, d.sub>>, d.name>>
      <4>1. PICK t \in subscriptions : x = <<t, m.name>> /\ Covers(t[2], m.name)
        OBVIOUS
      <4>2. PICK e \in fibStore : t = <<e.face, e.name>>
        BY DEF subscriptions
      <4>3. Data(e, m.name) \in copies
        BY <3>5, <4>1, <4>2
      <4> QED
        BY <4>1, <4>2, <4>3 DEF Data
    <3> HIDE DEF copies, new
    <3>8. forwarded' = forwarded \cup new
      BY <3>2, <3>3, <3>6, <3>7 DEF forwarded
    <3> QED
      BY <3>1, <3>4, <3>8 DEF new, Promise!Next, Promise!Publish
  <2>4. ASSUME NEW c \in Clients, NEW n, NEW r, NEW m, Send(c, r, n, m)
        PROVE  UNCHANGED <<fibStore, toClients>>
    BY <2>4 DEF Send, relay
  <2> QED
    BY <1>2, <2>1, <2>2, <2>3, <2>4
    DEF Next, vars, relay, SubscribeQueues, SubscribeRefused, SendSubscribe, Publish, RecvAcks
<1> QED
  BY <1>1, <1>2, Invariant, PTL DEF Spec, ImplementsPubSub, Promise!Spec
=============================================================================
