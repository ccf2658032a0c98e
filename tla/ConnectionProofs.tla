-------------------------- MODULE ConnectionProofs --------------------------
(***************************************************************************)
(* Proofs about the connection handshake, for any number of clients and    *)
(* any bounds: its type, and that no loss, duplication, reordering,        *)
(* restart or interleaving of a client's threads makes up a connection.    *)
(*                                                                         *)
(* The relay compares the cookie of a sync with the one it stored, so the  *)
(* inductive invariant follows a cookie on its whole way: what is on the   *)
(* wire in a sync, and what the client would put there, has been received  *)
(* by that client (CookiesWereSeen).  In the other direction every trace   *)
(* of an acknowledgement leads to an accepted client (AcksWereEarned).     *)
(* That a challenge stays private is a second invariant (Private): a       *)
(* cookie leaves a trace only at the client it was drawn for.              *)
(***************************************************************************)
EXTENDS Connection, TLAPS

CookiesWereSeen ==
    /\ \A c \in Clients : client[c].cookie \in seen[c] \cup {NoCookie}
    /\ \A m \in net : m.type = "sync" => m.cookie \in seen[m.peer] \cup {NoCookie}
    /\ \A m \in net : m.type = "resetRetry" => m.cookie \in Cookies
    /\ \A c \in Clients :
          client[c].recv = "got" /\ client[c].rx.type = "resetRetry"
             => client[c].rx.cookie \in Cookies

AcksWereEarned ==
    /\ \A c \in Clients : connectionMap[c] # NoCookie => c \in accepted
    /\ \A m \in net : m.type = "syncAck" => m.peer \in accepted
    /\ \A c \in Clients :
          client[c].recv = "got" /\ client[c].rx.type = "syncAck" => c \in accepted

\* The inductive invariant.
IInv ==
    /\ TypeOK
    /\ CookiesWereSeen
    /\ AcksWereEarned
    /\ RoutabilityProved
    /\ ConnectedWasAccepted
    /\ ChallengedOrConnected

-----------------------------------------------------------------------------
(* Messages *)

USE DEF vars, relayVars

\* A message of any kind is one of Messages.
LEMMA MessageTyped ==
  ASSUME NEW t \in ToRelay \cup ToClient, NEW c \in Clients,
         NEW k \in 0 .. MaxCookie
  PROVE  Message(t, c, k) \in Messages
BY DEF Message, Messages

\* What a client sends is typed.
LEMMA SentTyped ==
  ASSUME NEW c \in Clients, NEW k \in 0 .. MaxCookie
  PROVE  {Sync(c, k), ClientRst(c), SpunRst(c)} \subseteq Messages
BY MessageTyped, ConnectionAssumption
   DEF Sync, ClientRst, SpunRst, ToRelay, NoCookie

\* An exchange only adds its answers to the network.
LEMMA ExchangeAdds ==
  ASSUME NEW m, NEW answers, Exchange(m, answers)
  PROVE  net' \subseteq net \cup answers
BY DEF Exchange

-----------------------------------------------------------------------------
(* Steps of a client *)

\* The next state of one client: it has its type, and the others keep theirs.
LEMMA ClientTyped ==
  ASSUME TypeOK, NEW c \in Clients, NEW r \in ClientState, Client(c, r)
  PROVE  /\ client' \in [Clients -> ClientState]
         /\ client'[c] = r
         /\ \A d \in Clients \ {c} : client'[d] = client[d]
BY DEF Client, TypeOK

\* A step of a client keeps the invariant if it takes no packet and no cookie,
\* does not become Connected and sends at most the cookie it has.
LEMMA QuietStep ==
  ASSUME IInv, NEW c \in Clients, NEW r \in ClientState, Client(c, r),
         r.recv = "got" => client[c].recv = "got" /\ r.rx = client[c].rx,
         r.cookie = client[c].cookie,
         r.state = "Connected" => client[c].state = "Connected",
         net' \subseteq net \cup {Sync(c, client[c].cookie), ClientRst(c), SpunRst(c)},
         failed' \subseteq failed \cup {c}, UNCHANGED <<relayVars, seen>>
  PROVE  IInv'
<1>1. /\ client' \in [Clients -> ClientState]
      /\ client'[c] = r
      /\ \A d \in Clients \ {c} : client'[d] = client[d]
  BY ClientTyped DEF IInv
<1>2. client[c].cookie \in 0 .. MaxCookie
  BY DEF IInv, TypeOK, ClientState
<1>3. TypeOK'
  <2>1. net' \subseteq Messages
    BY <1>2, SentTyped DEF IInv, TypeOK
  <2> QED
    BY <1>1, <2>1 DEF IInv, TypeOK
<1>4. CookiesWereSeen'
  <2>1. \A m \in net' : m.type = "sync" => m.cookie \in seen'[m.peer] \cup {NoCookie}
    BY DEF IInv, CookiesWereSeen, Sync, ClientRst, SpunRst, Message
  <2>2. \A m \in net' : m.type = "resetRetry" => m.cookie \in Cookies
    BY DEF IInv, CookiesWereSeen, Sync, ClientRst, SpunRst, Message
  <2> QED
    BY <1>1, <2>1, <2>2 DEF IInv, CookiesWereSeen
<1>5. AcksWereEarned'
  <2>1. \A m \in net' : m.type = "syncAck" => m.peer \in accepted'
    BY DEF IInv, AcksWereEarned, Sync, ClientRst, SpunRst, Message
  <2> QED
    BY <1>1, <2>1 DEF IInv, AcksWereEarned
<1> QED
  BY <1>1, <1>3, <1>4, <1>5
  DEF IInv, RoutabilityProved, ConnectedWasAccepted, ChallengedOrConnected

\* Every step of a client's threads keeps the invariant.
LEMMA ClientStep ==
  ASSUME IInv, NEW c \in Clients,
         \/ Open(c) \/ Close(c) \/ Closing(c)
         \/ SyncPointExpires(c) \/ TimerThread(c) \/ RecvThread(c)
         \/ \E m \in net : RecvPacket(c, m)
  PROVE  IInv'
<1>0. client[c] \in ClientState
  BY DEF IInv, TypeOK
<1>1. CASE Open(c)
  <2> DEFINE r == [client[c] EXCEPT !.app = "open", !.socket = TRUE,
                              !.state = "Pending", !.timer = "update", !.recv = "wait"]
  <2>1. /\ r \in ClientState /\ r.cookie = client[c].cookie
        /\ r.recv = "got" => client[c].recv = "got" /\ r.rx = client[c].rx
        /\ r.state = "Connected" => client[c].state = "Connected"
    BY <1>0 DEF ClientState
  <2>2. Client(c, r)
    BY <1>1 DEF Open
  <2> HIDE DEF r
  <2> QED
    BY <1>1, <2>1, <2>2, QuietStep DEF Open
<1>2. CASE Close(c)
  <2> DEFINE r == [client[c] EXCEPT !.app = "resetting", !.state = "Start"]
  <2>1. /\ r \in ClientState /\ r.cookie = client[c].cookie
        /\ r.recv = "got" => client[c].recv = "got" /\ r.rx = client[c].rx
        /\ r.state = "Connected" => client[c].state = "Connected"
    BY <1>0 DEF ClientState
  <2>2. Client(c, r)
    BY <1>2 DEF Close
  <2> HIDE DEF r
  <2> QED
    BY <1>2, <2>1, <2>2, QuietStep DEF Close
<1>3. CASE CloseSendsRst(c)
  <2> DEFINE r == [client[c] EXCEPT !.app = "closing"]
  <2>1. /\ r \in ClientState /\ r.cookie = client[c].cookie
        /\ r.recv = "got" => client[c].recv = "got" /\ r.rx = client[c].rx
        /\ r.state = "Connected" => client[c].state = "Connected"
    BY <1>0 DEF ClientState
  <2>2. Client(c, r)
    BY <1>3 DEF CloseSendsRst
  <2> HIDE DEF r
  <2> QED
    BY <1>3, <2>1, <2>2, QuietStep DEF CloseSendsRst, Emit, SendRst
<1>4. CASE CloseClosesSocket(c)
  <2> DEFINE r == [client[c] EXCEPT !.app = "closed", !.socket = FALSE]
  <2>1. /\ r \in ClientState /\ r.cookie = client[c].cookie
        /\ r.recv = "got" => client[c].recv = "got" /\ r.rx = client[c].rx
        /\ r.state = "Connected" => client[c].state = "Connected"
    BY <1>0 DEF ClientState
  <2>2. Client(c, r)
    BY <1>4 DEF CloseClosesSocket
  <2> HIDE DEF r
  <2> QED
    BY <1>4, <2>1, <2>2, QuietStep DEF CloseClosesSocket
<1>5. CASE SyncPointExpires(c)
  <2> DEFINE r == [client[c] EXCEPT !.expired = TRUE]
  <2>1. /\ r \in ClientState /\ r.cookie = client[c].cookie
        /\ r.recv = "got" => client[c].recv = "got" /\ r.rx = client[c].rx
        /\ r.state = "Connected" => client[c].state = "Connected"
    BY <1>0 DEF ClientState
  <2>2. Client(c, r)
    BY <1>5 DEF SyncPointExpires
  <2> HIDE DEF r
  <2> QED
    BY <1>5, <2>1, <2>2, QuietStep DEF SyncPointExpires
<1>6. CASE UpdateCountsTick(c)
  <2> DEFINE r == [client[c] EXCEPT !.syncs_awaiting_response = @ + 1]
  <2>1. /\ r \in ClientState /\ r.cookie = client[c].cookie
        /\ r.recv = "got" => client[c].recv = "got" /\ r.rx = client[c].rx
        /\ r.state = "Connected" => client[c].state = "Connected"
    BY <1>0, <1>6, ConnectionAssumption DEF UpdateCountsTick, ClientState
  <2>2. Client(c, r)
    BY <1>6 DEF UpdateCountsTick
  <2> HIDE DEF r
  <2> QED
    BY <1>6, <2>1, <2>2, QuietStep DEF UpdateCountsTick
<1>7. CASE UpdateGivesUp(c)
  <2> DEFINE r == [client[c] EXCEPT !.timer = "stopping"]
  <2>1. /\ r \in ClientState /\ r.cookie = client[c].cookie
        /\ r.recv = "got" => client[c].recv = "got" /\ r.rx = client[c].rx
        /\ r.state = "Connected" => client[c].state = "Connected"
    BY <1>0 DEF ClientState
  <2>2. Client(c, r)
    BY <1>7 DEF UpdateGivesUp
  <2> HIDE DEF r
  <2> QED
    BY <1>7, <2>1, <2>2, QuietStep DEF UpdateGivesUp
<1>8. CASE UpdateSendsSync(c)
  <2> DEFINE r == [client[c] EXCEPT !.timer = "synced", !.expired = FALSE]
  <2>1. /\ r \in ClientState /\ r.cookie = client[c].cookie
        /\ r.recv = "got" => client[c].recv = "got" /\ r.rx = client[c].rx
        /\ r.state = "Connected" => client[c].state = "Connected"
    BY <1>0 DEF ClientState
  <2>2. Client(c, r)
    BY <1>8 DEF UpdateSendsSync
  <2> HIDE DEF r
  <2> QED
    BY <1>8, <2>1, <2>2, QuietStep DEF UpdateSendsSync, Emit
<1>9. CASE UpdateSetsPending(c)
  <2> DEFINE r == [client[c] EXCEPT !.timer = "update", !.state = "Pending"]
  <2>1. /\ r \in ClientState /\ r.cookie = client[c].cookie
        /\ r.recv = "got" => client[c].recv = "got" /\ r.rx = client[c].rx
        /\ r.state = "Connected" => client[c].state = "Connected"
    BY <1>0 DEF ClientState
  <2>2. Client(c, r)
    BY <1>9 DEF UpdateSetsPending
  <2> HIDE DEF r
  <2> QED
    BY <1>9, <2>1, <2>2, QuietStep DEF UpdateSetsPending
<1>10. CASE UpdateStops(c)
  <2> DEFINE r == [client[c] EXCEPT !.timer = "resetting", !.state = "Start"]
  <2>1. /\ r \in ClientState /\ r.cookie = client[c].cookie
        /\ r.recv = "got" => client[c].recv = "got" /\ r.rx = client[c].rx
        /\ r.state = "Connected" => client[c].state = "Connected"
    BY <1>0 DEF ClientState
  <2>2. Client(c, r)
    BY <1>10 DEF UpdateStops
  <2> HIDE DEF r
  <2> QED
    BY <1>10, <2>1, <2>2, QuietStep DEF UpdateStops
<1>11. CASE UpdateSendsRst(c)
  <2> DEFINE r == [client[c] EXCEPT !.timer = "closing"]
  <2>1. /\ r \in ClientState /\ r.cookie = client[c].cookie
        /\ r.recv = "got" => client[c].recv = "got" /\ r.rx = client[c].rx
        /\ r.state = "Connected" => client[c].state = "Connected"
    BY <1>0 DEF ClientState
  <2>2. Client(c, r)
    BY <1>11 DEF UpdateSendsRst
  <2> HIDE DEF r
  <2> QED
    BY <1>11, <2>1, <2>2, QuietStep DEF UpdateSendsRst, Emit, SendRst
<1>12. CASE UpdateClosesSocket(c)
  <2> DEFINE r == [client[c] EXCEPT !.timer = "update", !.socket = FALSE]
  <2>1. /\ r \in ClientState /\ r.cookie = client[c].cookie
        /\ r.recv = "got" => client[c].recv = "got" /\ r.rx = client[c].rx
        /\ r.state = "Connected" => client[c].state = "Connected"
    BY <1>0 DEF ClientState
  <2>2. Client(c, r)
    BY <1>12 DEF UpdateClosesSocket
  <2> HIDE DEF r
  <2> QED
    BY <1>12, <2>1, <2>2, QuietStep DEF UpdateClosesSocket
<1>13. CASE TimerExits(c)
  <2> DEFINE r == [client[c] EXCEPT !.timer = "done"]
  <2>1. /\ r \in ClientState /\ r.cookie = client[c].cookie
        /\ r.recv = "got" => client[c].recv = "got" /\ r.rx = client[c].rx
        /\ r.state = "Connected" => client[c].state = "Connected"
    BY <1>0 DEF ClientState
  <2>2. Client(c, r)
    BY <1>13 DEF TimerExits
  <2> HIDE DEF r
  <2> QED
    BY <1>13, <2>1, <2>2, QuietStep DEF TimerExits
<1>14. CASE RecvSetsPending(c)
  <2> DEFINE r == [client[c] EXCEPT !.recv = Looped(c), !.state = "Pending"]
  <2>1. /\ r \in ClientState /\ r.cookie = client[c].cookie
        /\ r.recv = "got" => client[c].recv = "got" /\ r.rx = client[c].rx
        /\ r.state = "Connected" => client[c].state = "Connected"
    BY <1>0 DEF ClientState, Looped
  <2>2. Client(c, r)
    BY <1>14 DEF RecvSetsPending
  <2> HIDE DEF r
  <2> QED
    BY <1>14, <2>1, <2>2, QuietStep DEF RecvSetsPending
<1>15. CASE RecvRelayRst(c)
  <2> DEFINE r == [client[c] EXCEPT !.recv = Looped(c), !.rx = NoPacket]
  <2>1. /\ r \in ClientState /\ r.cookie = client[c].cookie
        /\ r.recv = "got" => client[c].recv = "got" /\ r.rx = client[c].rx
        /\ r.state = "Connected" => client[c].state = "Connected"
    BY <1>0 DEF ClientState, Looped
  <2>2. Client(c, r)
    BY <1>15 DEF RecvRelayRst
  <2> HIDE DEF r
  <2> QED
    BY <1>15, <2>1, <2>2, QuietStep DEF RecvRelayRst
<1>16. CASE RecvExits(c)
  <2> DEFINE r == [client[c] EXCEPT !.recv = "done"]
  <2>1. /\ r \in ClientState /\ r.cookie = client[c].cookie
        /\ r.recv = "got" => client[c].recv = "got" /\ r.rx = client[c].rx
        /\ r.state = "Connected" => client[c].state = "Connected"
    BY <1>0 DEF ClientState
  <2>2. Client(c, r)
    BY <1>16 DEF RecvExits
  <2> HIDE DEF r
  <2> QED
    BY <1>16, <2>1, <2>2, QuietStep DEF RecvExits
<1>17. CASE RecvSyncAck(c)
  <2> DEFINE r == [client[c] EXCEPT !.recv = Looped(c), !.rx = NoPacket,
                              !.state = "Connected"]
  <2>1. r \in ClientState /\ r.recv # "got" /\ r.cookie = client[c].cookie
    BY <1>0 DEF ClientState, Looped
  <2>2. Client(c, r) /\ UNCHANGED <<relayVars, net, seen, failed>>
    BY <1>17 DEF RecvSyncAck
  <2>3. c \in accepted
    BY <1>17 DEF RecvSyncAck, IInv, AcksWereEarned
  <2> HIDE DEF r
  <2>4. /\ client' \in [Clients -> ClientState]
        /\ client'[c] = r
        /\ \A d \in Clients \ {c} : client'[d] = client[d]
    BY <2>1, <2>2, ClientTyped DEF IInv
  <2>5. TypeOK'
    BY <2>1, <2>2, <2>4 DEF IInv, TypeOK
  <2>6. CookiesWereSeen' /\ AcksWereEarned'
    BY <2>1, <2>2, <2>4 DEF IInv, CookiesWereSeen, AcksWereEarned
  <2>7. ConnectedWasAccepted'
    BY <2>2, <2>3, <2>4 DEF IInv, ConnectedWasAccepted
  <2> QED
    BY <2>2, <2>5, <2>6, <2>7 DEF IInv, RoutabilityProved, ChallengedOrConnected
<1>18. CASE RecvResetRetry(c)
  <2> DEFINE k == client[c].rx.cookie
             r == [client[c] EXCEPT !.recv = "synced", !.rx = NoPacket,
                              !.cookie = k, !.expired = FALSE]
  <2>1. k \in Cookies /\ k \in 0 .. MaxCookie
    BY <1>18 DEF RecvResetRetry, IInv, CookiesWereSeen, Cookies
  <2>2. /\ r \in ClientState /\ r.recv # "got" /\ r.cookie = k
        /\ r.state = client[c].state
    BY <1>0, <2>1 DEF ClientState
  <2>3. /\ Client(c, r) /\ net' \subseteq net \cup {Sync(c, k)}
        /\ UNCHANGED <<relayVars, failed>>
    BY <1>18 DEF RecvResetRetry, Emit
  <2>4. /\ seen' \in [Clients -> SUBSET Cookies]
        /\ k \in seen'[c] /\ \A d \in Clients : seen[d] \subseteq seen'[d]
    BY <1>18, <2>1 DEF RecvResetRetry, IInv, TypeOK
  <2> HIDE DEF r, k
  <2>5. /\ client' \in [Clients -> ClientState]
        /\ client'[c] = r
        /\ \A d \in Clients \ {c} : client'[d] = client[d]
    BY <2>2, <2>3, ClientTyped DEF IInv
  <2>6. \A m \in net : m \in Messages /\ m.peer \in Clients
    BY DEF IInv, TypeOK, Messages
  <2>7. TypeOK'
    <3>1. net' \subseteq Messages
      BY <2>1, <2>3, <2>6, SentTyped
    <3> QED
      BY <2>2, <2>3, <2>4, <2>5, <3>1 DEF IInv, TypeOK
  <2>8. CookiesWereSeen'
    <3>1. \A m \in net' : m.type = "sync" => m.cookie \in seen'[m.peer] \cup {NoCookie}
      BY <2>3, <2>4, <2>6 DEF IInv, CookiesWereSeen, Sync, Message
    <3>2. \A m \in net' : m.type = "resetRetry" => m.cookie \in Cookies
      BY <2>3 DEF IInv, CookiesWereSeen, Sync, Message
    <3>3. \A d \in Clients : client'[d].cookie \in seen'[d] \cup {NoCookie}
      BY <2>2, <2>4, <2>5 DEF IInv, CookiesWereSeen
    <3> QED
      BY <2>2, <2>5, <3>1, <3>2, <3>3 DEF IInv, CookiesWereSeen
  <2>9. AcksWereEarned'
    BY <2>2, <2>3, <2>5 DEF IInv, AcksWereEarned, Sync, Message
  <2>10. RoutabilityProved' /\ ChallengedOrConnected'
    BY <2>3, <2>4 DEF IInv, RoutabilityProved, ChallengedOrConnected
  <2>11. ConnectedWasAccepted'
    BY <2>2, <2>3, <2>5 DEF IInv, ConnectedWasAccepted
  <2> QED
    BY <2>7, <2>8, <2>9, <2>10, <2>11 DEF IInv
<1>19. ASSUME NEW m \in net, RecvPacket(c, m) PROVE IInv'
  <2> DEFINE r == [client[c] EXCEPT !.recv = "got", !.rx = m]
  <2>1. m \in Messages /\ m.type \in ToClient /\ m.peer = c
    BY <1>19 DEF RecvPacket, IInv, TypeOK
  <2>2. /\ r \in ClientState /\ r.rx = m /\ r.cookie = client[c].cookie
        /\ r.state = client[c].state
    BY <1>0, <2>1 DEF ClientState
  <2>3. Client(c, r) /\ net' \subseteq net /\ UNCHANGED <<relayVars, seen, failed>>
    BY <1>19 DEF RecvPacket, Exchange
  <2> HIDE DEF r
  <2>4. /\ client' \in [Clients -> ClientState]
        /\ client'[c] = r
        /\ \A d \in Clients \ {c} : client'[d] = client[d]
    BY <2>2, <2>3, ClientTyped DEF IInv
  <2>5. TypeOK'
    BY <2>1, <2>2, <2>3, <2>4 DEF IInv, TypeOK
  <2>6. CookiesWereSeen' /\ AcksWereEarned'
    BY <2>1, <2>2, <2>3, <2>4 DEF IInv, CookiesWereSeen, AcksWereEarned
  <2>7. RoutabilityProved' /\ ChallengedOrConnected' /\ ConnectedWasAccepted'
    BY <2>2, <2>3, <2>4
    DEF IInv, RoutabilityProved, ChallengedOrConnected, ConnectedWasAccepted
  <2> QED
    BY <2>5, <2>6, <2>7 DEF IInv
<1> QED
  BY <1>1, <1>2, <1>3, <1>4, <1>5, <1>6, <1>7, <1>8, <1>9, <1>10, <1>11,
     <1>12, <1>13, <1>14, <1>15, <1>16, <1>17, <1>18, <1>19
  DEF Closing, TimerThread, RecvThread

-----------------------------------------------------------------------------
(* Steps of the relay *)

\* A step of the relay keeps the types.
LEMMA RelayTypeStep ==
  ASSUME TypeOK, NEW m \in net, RelayRecv(m)
  PROVE  TypeOK'
<1>0. /\ m \in Messages /\ m.peer \in Clients /\ m.cookie \in 0 .. MaxCookie
      /\ NoCookie \in 0 .. MaxCookie
  BY ConnectionAssumption DEF TypeOK, Messages, NoCookie
<1>1. CASE SynKnown(m)
  <2>1. SyncAck(m.peer) \in Messages
    BY <1>0, MessageTyped DEF SyncAck, ToClient
  <2> QED
    BY <1>1, <2>1, ExchangeAdds DEF SynKnown, TypeOK
<1>2. CASE SynChallenge(m)
  <2>1. drawn + 1 \in 0 .. MaxCookie
    BY <1>2, ConnectionAssumption DEF SynChallenge, TypeOK
  <2>2. ResetRetry(m.peer, drawn + 1) \in Messages
    BY <1>0, <2>1, MessageTyped DEF ResetRetry, ToClient
  <2>3. net' \subseteq Messages
    BY <1>2, <2>2, ExchangeAdds DEF SynChallenge, TypeOK
  <2>4. cookies' \in [Clients -> 0 .. MaxCookie]
    BY <1>2, <2>1 DEF SynChallenge, TypeOK
  <2> QED
    BY <1>2, <2>1, <2>3, <2>4 DEF SynChallenge, TypeOK
<1>3. CASE SynBadCookie(m)
  <2>1. RelayRst(m.peer) \in Messages
    BY <1>0, MessageTyped DEF RelayRst, ToClient
  <2> QED
    BY <1>3, <2>1, ExchangeAdds DEF SynBadCookie, TypeOK
<1>4. CASE SynAccept(m)
  <2>1. SyncAck(m.peer) \in Messages
    BY <1>0, MessageTyped DEF SyncAck, ToClient
  <2>2. net' \subseteq Messages
    BY <1>4, <2>1, ExchangeAdds DEF SynAccept, TypeOK
  <2>3. /\ connectionMap' \in [Clients -> 0 .. MaxCookie]
        /\ cookies' \in [Clients -> 0 .. MaxCookie]
    BY <1>4, <1>0 DEF SynAccept, TypeOK
  <2> QED
    BY <1>4, <1>0, <2>2, <2>3 DEF SynAccept, TypeOK
<1>5. CASE Rst(m)
  BY <1>5, <1>0, ExchangeAdds DEF Rst, TypeOK
<1>6. CASE UnknownTag(m)
  BY <1>6, ExchangeAdds DEF UnknownTag, TypeOK
<1> QED
  BY <1>1, <1>2, <1>3, <1>4, <1>5, <1>6 DEF RelayRecv

\* A step of the relay keeps the rest of the invariant: it accepts a cookie that
\* is in a sync, and whoever sent that sync has seen it.
LEMMA RelayStep ==
  ASSUME IInv, NEW m \in net, RelayRecv(m)
  PROVE  IInv'
<1>0. /\ TypeOK' /\ UNCHANGED <<client, seen>> /\ m.peer \in Clients
      /\ \A n \in net : n.peer \in Clients
  BY RelayTypeStep DEF IInv, RelayRecv, SynKnown, SynChallenge, SynBadCookie,
     SynAccept, Rst, UnknownTag, TypeOK, Messages
<1>1. CASE SynKnown(m)
  <2>1. net' \subseteq net \cup {SyncAck(m.peer)} /\ UNCHANGED relayVars
    BY <1>1, ExchangeAdds DEF SynKnown
  <2>2. m.peer \in accepted
    BY <1>0, <1>1 DEF SynKnown, IInv, AcksWereEarned
  <2> QED
    BY <1>0, <2>1, <2>2
    DEF IInv, CookiesWereSeen, AcksWereEarned, RoutabilityProved,
        ConnectedWasAccepted, ChallengedOrConnected, SyncAck, Message
<1>2. CASE SynChallenge(m)
  <2>1. /\ net' \subseteq net \cup {ResetRetry(m.peer, drawn + 1)}
        /\ UNCHANGED <<connectionMap, accepted>>
    BY <1>2, ExchangeAdds DEF SynChallenge
  <2>2. drawn + 1 \in Cookies
    BY <1>2, ConnectionAssumption DEF SynChallenge, IInv, TypeOK, Cookies
  <2>3. ChallengedOrConnected'
    BY <1>0, <1>2 DEF SynChallenge, IInv, TypeOK, ChallengedOrConnected
  <2> QED
    BY <1>0, <2>1, <2>2, <2>3
    DEF IInv, CookiesWereSeen, AcksWereEarned, RoutabilityProved,
        ConnectedWasAccepted, ResetRetry, Message
<1>3. CASE SynBadCookie(m)
  <2>1. net' \subseteq net \cup {RelayRst(m.peer)} /\ UNCHANGED relayVars
    BY <1>3, ExchangeAdds DEF SynBadCookie
  <2> QED
    BY <1>0, <2>1
    DEF IInv, CookiesWereSeen, AcksWereEarned, RoutabilityProved,
        ConnectedWasAccepted, ChallengedOrConnected, RelayRst, Message
<1>4. CASE SynAccept(m)
  <2>1. /\ net' \subseteq net \cup {SyncAck(m.peer)}
        /\ accepted' = accepted \cup {m.peer}
    BY <1>4, ExchangeAdds DEF SynAccept
  <2>2. m.cookie \in seen[m.peer]
    BY <1>4 DEF SynAccept, IInv, CookiesWereSeen
  <2>3. /\ connectionMap'[m.peer] = m.cookie /\ cookies'[m.peer] = NoCookie
        /\ \A d \in Clients \ {m.peer} : /\ connectionMap'[d] = connectionMap[d]
                                         /\ cookies'[d] = cookies[d]
    BY <1>0, <1>4 DEF SynAccept, IInv, TypeOK
  <2>4. CookiesWereSeen'
    BY <1>0, <2>1 DEF IInv, CookiesWereSeen, SyncAck, Message
  <2>5. AcksWereEarned'
    BY <1>0, <2>1, <2>3 DEF IInv, AcksWereEarned, SyncAck, Message
  <2>6. RoutabilityProved' /\ ConnectedWasAccepted' /\ ChallengedOrConnected'
    BY <1>0, <2>1, <2>2, <2>3
    DEF IInv, RoutabilityProved, ConnectedWasAccepted, ChallengedOrConnected
  <2> QED
    BY <1>0, <2>4, <2>5, <2>6 DEF IInv
<1>5. CASE Rst(m)
  <2>1. /\ net' \subseteq net /\ UNCHANGED <<cookies, accepted>>
        /\ \A d \in Clients : connectionMap'[d] \in {NoCookie, connectionMap[d]}
    BY <1>0, <1>5, ExchangeAdds DEF Rst, IInv, TypeOK
  <2> QED
    BY <1>0, <2>1
    DEF IInv, CookiesWereSeen, AcksWereEarned, RoutabilityProved,
        ConnectedWasAccepted, ChallengedOrConnected
<1>6. CASE UnknownTag(m)
  <2>1. net' \subseteq net /\ UNCHANGED relayVars
    BY <1>6, ExchangeAdds DEF UnknownTag
  <2> QED
    BY <1>0, <2>1
    DEF IInv, CookiesWereSeen, AcksWereEarned, RoutabilityProved,
        ConnectedWasAccepted, ChallengedOrConnected
<1> QED
  BY <1>1, <1>2, <1>3, <1>4, <1>5, <1>6 DEF RelayRecv

-----------------------------------------------------------------------------
(* The invariant *)

\* IInv holds at the start.
LEMMA InitIInv == Init => IInv
<1> SUFFICES ASSUME Init PROVE IInv
  OBVIOUS
<1>1. \A c \in Clients : /\ client[c].recv = "off" /\ client[c].state = "Start"
                         /\ client[c].cookie = NoCookie
  BY DEF Init
<1>2. client \in [Clients -> ClientState]
  BY ConnectionAssumption DEF Init, ClientState, NoCookie
<1>3. TypeOK
  <2>1. \A c \in Clients : client[c].recv # "got"
    BY <1>1
  <2>2. 0 \in 0 .. MaxCookie /\ 0 \in 0 .. MaxRestarts
    BY ConnectionAssumption
  <2>3. /\ cookies \in [Clients -> 0 .. MaxCookie]
        /\ connectionMap \in [Clients -> 0 .. MaxCookie]
        /\ seen \in [Clients -> SUBSET Cookies]
    BY <2>2 DEF Init, NoCookie
  <2>4. drawn \in 0 .. MaxCookie /\ restarts \in 0 .. MaxRestarts
    BY <2>2 DEF Init
  <2>5. net \subseteq Messages /\ accepted \subseteq Clients /\ failed \subseteq Clients
    BY DEF Init
  <2> QED
    BY <1>2, <2>1, <2>3, <2>4, <2>5 DEF TypeOK
<1> QED
  BY <1>1, <1>3 DEF Init, IInv, CookiesWereSeen, AcksWereEarned,
     RoutabilityProved, ConnectedWasAccepted, ChallengedOrConnected

\* Every step keeps IInv.
LEMMA NextIInv == IInv /\ [Next]_vars => IInv'
<1> SUFFICES ASSUME IInv, [Next]_vars PROVE IInv'
  OBVIOUS
<1> USE DEF IInv, CookiesWereSeen, AcksWereEarned, RoutabilityProved,
            ConnectedWasAccepted, ChallengedOrConnected
<1>1. ASSUME NEW m \in net, Lose(m) PROVE IInv'
  <2>1. m.peer \in Clients
    BY DEF TypeOK, Messages
  <2>2. TypeOK'
    BY <1>1, <2>1 DEF Lose, TypeOK
  <2> QED
    BY <1>1, <2>2 DEF Lose
<1>2. CASE Restart
  <2>1. TypeOK'
    BY <1>2, ConnectionAssumption DEF Restart, TypeOK, NoCookie
  <2> QED
    BY <1>2, <2>1 DEF Restart
<1>3. CASE UNCHANGED vars
  BY <1>3 DEF TypeOK
<1> QED
  BY <1>1, <1>2, <1>3, ClientStep, RelayStep DEF Next

\* IInv holds in every reachable state.
THEOREM Invariant == Spec => []IInv
BY InitIInv, NextIInv, PTL DEF Spec

\* Every variable has its type in every reachable state.
THEOREM TypeCorrect == Spec => []TypeOK
BY Invariant, PTL DEF IInv

\* The relay connects an address only when a cookie it sent there came back.
THEOREM Routability == Spec => []RoutabilityProved
BY Invariant, PTL DEF IInv

\* A client is Connected only after the relay accepted it.
THEOREM ConnectedAfterAcceptance == Spec => []ConnectedWasAccepted
BY Invariant, PTL DEF IInv

\* An address is challenged or connected, never both.
THEOREM ChallengedXorConnected == Spec => []ChallengedOrConnected
BY Invariant, PTL DEF IInv

-----------------------------------------------------------------------------
(* Steps *)

\* What a step of the clients or of the network leaves alone at the relay.
LEMMA RelayUntouched ==
  ASSUME NEW c \in Clients,
         \/ Open(c) \/ Close(c) \/ Closing(c)
         \/ SyncPointExpires(c) \/ TimerThread(c) \/ RecvThread(c)
         \/ \E m \in net : RecvPacket(c, m)
  PROVE  UNCHANGED relayVars
BY DEF Open, Close, Closing, CloseSendsRst, CloseClosesSocket, SyncPointExpires,
   TimerThread, UpdateCountsTick, UpdateGivesUp, UpdateSendsSync,
   UpdateSetsPending, UpdateStops, UpdateSendsRst, UpdateClosesSocket,
   TimerExits, RecvThread, RecvSyncAck, RecvResetRetry, RecvSetsPending,
   RecvRelayRst, RecvExits, RecvPacket

\* The cookies a client has seen grow only when a challenge reaches it.
LEMMA SeenGrows ==
  ASSUME IInv, NEW c \in Clients,
         \/ Open(c) \/ Close(c) \/ Closing(c)
         \/ SyncPointExpires(c) \/ TimerThread(c) \/ RecvThread(c)
         \/ \E m \in net : RecvPacket(c, m)
  PROVE  \/ UNCHANGED seen
         \/ \E k : seen' = [seen EXCEPT ![c] = @ \cup {k}]
BY DEF Open, Close, Closing, CloseSendsRst, CloseClosesSocket, SyncPointExpires,
   TimerThread, UpdateCountsTick, UpdateGivesUp, UpdateSendsSync,
   UpdateSetsPending, UpdateStops, UpdateSendsRst, UpdateClosesSocket,
   TimerExits, RecvThread, RecvSyncAck, RecvResetRetry, RecvSetsPending,
   RecvRelayRst, RecvExits, RecvPacket

\* What the relay does with an address, in one step, seen from its maps.
LEMMA RelayMaps ==
  ASSUME IInv, NEW m \in net, RelayRecv(m)
  PROVE  /\ m.peer \in Clients /\ UNCHANGED <<restarts, seen>>
         /\ \A d \in Clients \ {m.peer} : /\ connectionMap'[d] = connectionMap[d]
                                          /\ cookies'[d] = cookies[d]
         /\ LET c == m.peer IN
            \/ connectionMap'[c] = connectionMap[c] /\ cookies'[c] = cookies[c]
            \/ /\ connectionMap[c] = NoCookie /\ connectionMap'[c] = NoCookie
               /\ cookies[c] = NoCookie /\ cookies'[c] # NoCookie
            \/ /\ connectionMap[c] = NoCookie /\ cookies[c] # NoCookie
               /\ connectionMap'[c] = cookies[c] /\ cookies'[c] = NoCookie
               /\ cookies[c] \in seen[c]
            \/ /\ connectionMap[c] # NoCookie /\ connectionMap'[c] = NoCookie
               /\ cookies[c] = NoCookie /\ cookies'[c] = NoCookie
<1>0. m.peer \in Clients
  BY DEF IInv, TypeOK, Messages
<1>1. CASE SynKnown(m) \/ SynBadCookie(m) \/ UnknownTag(m)
  BY <1>0, <1>1 DEF SynKnown, SynBadCookie, UnknownTag
<1>2. CASE SynChallenge(m)
  BY <1>0, <1>2 DEF SynChallenge, IInv, TypeOK, NoCookie
<1>3. CASE SynAccept(m)
  BY <1>0, <1>3 DEF SynAccept, IInv, TypeOK, CookiesWereSeen
<1>4. CASE Rst(m)
  BY <1>0, <1>4 DEF Rst, IInv, TypeOK, ChallengedOrConnected
<1> QED
  BY <1>1, <1>2, <1>3, <1>4 DEF RelayRecv

\* The relay takes no challenge back before it is answered.
THEOREM ChallengesStand == Spec => ChallengeStands
<1> DEFINE Stands(c) ==
      cookies[c] # NoCookie /\ cookies'[c] # cookies[c] =>
         \/ restarts' # restarts
         \/ cookies'[c] = NoCookie /\ connectionMap'[c] = cookies[c]
<1>1. ASSUME IInv, [Next]_vars, NEW d \in Clients PROVE Stands(d)
  <2>1. CASE UNCHANGED relayVars
    BY <2>1
  <2>2. ASSUME NEW m \in net, RelayRecv(m) PROVE Stands(d)
    BY <2>2, <1>1, RelayMaps
  <2>3. CASE Restart
    BY <2>3, <1>1 DEF Restart, IInv, TypeOK
  <2> QED
    BY <1>1, <2>1, <2>2, <2>3, RelayUntouched DEF Next, Lose
<1>2. IInv /\ [Next]_vars => [\A c \in Clients : Stands(c)]_vars
  BY <1>1
<1> QED
  BY <1>2, Invariant, PTL DEF Spec, ChallengeStands

-----------------------------------------------------------------------------
(* Privacy of a challenge *)

\* Client d has seen the cookie k, is about to, or would if a datagram arrived.
Trace(d, k) ==
    \/ k \in seen[d]
    \/ \E m \in net : m.type = "resetRetry" /\ m.peer = d /\ m.cookie = k
    \/ client[d].recv = "got" /\ client[d].rx.type = "resetRetry" /\ client[d].rx.cookie = k

\* A cookie leaves a trace at the client it was drawn for only.
Private ==
    /\ \A c \in Clients : cookies[c] \in 0 .. drawn
    /\ \A d \in Clients : \A k :
          Trace(d, k) => k \in 1 .. drawn /\ \A c \in Clients \ {d} : cookies[c] # k

\* A step of a client makes no trace of its own.
LEMMA TracesAreSent ==
  ASSUME IInv, NEW c \in Clients,
         \/ Open(c) \/ Close(c) \/ Closing(c)
         \/ SyncPointExpires(c) \/ TimerThread(c) \/ RecvThread(c)
         \/ \E m \in net : RecvPacket(c, m)
  PROVE  \A d \in Clients : \A k : Trace(d, k)' => Trace(d, k)
<1>0. /\ client \in [Clients -> ClientState] /\ seen \in [Clients -> SUBSET Cookies]
      /\ client[c] \in ClientState
  BY DEF IInv, TypeOK
<1>1. /\ \A d \in Clients \ {c} : client'[d] = client[d]
      /\ \/ \E m \in net : RecvPacket(c, m)
         \/ client'[c].recv = "got" => client[c].recv = "got" /\ client'[c].rx = client[c].rx
  <2>1. CASE Open(c)
    BY <1>0, <2>1 DEF Open, Client, ClientState
  <2>2. CASE Close(c)
    BY <1>0, <2>2 DEF Close, Client, ClientState
  <2>3. CASE CloseSendsRst(c)
    BY <1>0, <2>3 DEF CloseSendsRst, Client, ClientState
  <2>4. CASE CloseClosesSocket(c)
    BY <1>0, <2>4 DEF CloseClosesSocket, Client, ClientState
  <2>5. CASE SyncPointExpires(c)
    BY <1>0, <2>5 DEF SyncPointExpires, Client, ClientState
  <2>6. CASE UpdateCountsTick(c)
    BY <1>0, <2>6 DEF UpdateCountsTick, Client, ClientState
  <2>7. CASE UpdateGivesUp(c)
    BY <1>0, <2>7 DEF UpdateGivesUp, Client, ClientState
  <2>8. CASE UpdateSendsSync(c)
    BY <1>0, <2>8 DEF UpdateSendsSync, Client, ClientState
  <2>9. CASE UpdateSetsPending(c)
    BY <1>0, <2>9 DEF UpdateSetsPending, Client, ClientState
  <2>10. CASE UpdateStops(c)
    BY <1>0, <2>10 DEF UpdateStops, Client, ClientState
  <2>11. CASE UpdateSendsRst(c)
    BY <1>0, <2>11 DEF UpdateSendsRst, Client, ClientState
  <2>12. CASE UpdateClosesSocket(c)
    BY <1>0, <2>12 DEF UpdateClosesSocket, Client, ClientState
  <2>13. CASE TimerExits(c)
    BY <1>0, <2>13 DEF TimerExits, Client, ClientState
  <2>14. CASE RecvSyncAck(c)
    BY <1>0, <2>14 DEF RecvSyncAck, Client, ClientState, Looped
  <2>15. CASE RecvResetRetry(c)
    BY <1>0, <2>15 DEF RecvResetRetry, Client, ClientState, Looped
  <2>16. CASE RecvSetsPending(c)
    BY <1>0, <2>16 DEF RecvSetsPending, Client, ClientState, Looped
  <2>17. CASE RecvRelayRst(c)
    BY <1>0, <2>17 DEF RecvRelayRst, Client, ClientState, Looped
  <2>18. CASE RecvExits(c)
    BY <1>0, <2>18 DEF RecvExits, Client, ClientState, Looped
  <2>19. CASE \E m \in net : RecvPacket(c, m)
    BY <1>0, <2>19 DEF RecvPacket, Client
  <2> QED
    BY <2>1, <2>2, <2>3, <2>4, <2>5, <2>6, <2>7, <2>8, <2>9, <2>10, <2>11,
       <2>12, <2>13, <2>14, <2>15, <2>16, <2>17, <2>18, <2>19
    DEF Closing, TimerThread, RecvThread
<1>2. \A m \in net' \ net : m.type # "resetRetry"
  <2>1. CASE net' \subseteq net
    BY <2>1
  <2>2. \A k : Sync(c, k).type # "resetRetry"
    BY DEF Sync, Message
  <2>3. ClientRst(c).type # "resetRetry" /\ SpunRst(c).type # "resetRetry"
    BY DEF ClientRst, SpunRst, Message
  <2>4. CASE Open(c) \/ UpdateSendsSync(c) \/ RecvResetRetry(c)
    BY <2>2, <2>4 DEF Open, UpdateSendsSync, RecvResetRetry, Emit
  <2>5. CASE CloseSendsRst(c) \/ UpdateSendsRst(c)
    BY <2>3, <2>5 DEF CloseSendsRst, UpdateSendsRst, SendRst, Emit
  <2>6. CASE \E m \in net : RecvPacket(c, m)
    BY <2>1, <2>6 DEF RecvPacket, Exchange
  <2> QED
    BY <2>1, <2>4, <2>5, <2>6
    DEF Close, Closing, CloseClosesSocket, SyncPointExpires,
        TimerThread, UpdateCountsTick, UpdateGivesUp, UpdateSetsPending, UpdateStops,
        UpdateClosesSocket, TimerExits, RecvThread, RecvSyncAck, RecvSetsPending,
        RecvRelayRst, RecvExits
<1>3. \/ seen' = seen
      \/ RecvResetRetry(c)
  BY DEF Open, Close, Closing, CloseSendsRst, CloseClosesSocket, SyncPointExpires,
     TimerThread, UpdateCountsTick, UpdateGivesUp, UpdateSendsSync,
     UpdateSetsPending, UpdateStops, UpdateSendsRst, UpdateClosesSocket,
     TimerExits, RecvThread, RecvSyncAck, RecvSetsPending,
     RecvRelayRst, RecvExits, RecvPacket
<1> SUFFICES ASSUME NEW d \in Clients, NEW k, Trace(d, k)'
             PROVE  Trace(d, k)
  OBVIOUS
<1>4. CASE k \in seen'[d]
  BY <1>0, <1>3, <1>4 DEF Trace, RecvResetRetry
<1>5. CASE \E m \in net' : m.type = "resetRetry" /\ m.peer = d /\ m.cookie = k
  BY <1>2, <1>5 DEF Trace
<1>6. CASE client'[d].recv = "got" /\ client'[d].rx.type = "resetRetry" /\ client'[d].rx.cookie = k
  <2>1. ASSUME NEW m \in net, RecvPacket(c, m), d = c
        PROVE  Trace(d, k)
    <3>1. client'[c].rx = m /\ m.peer = c
      BY <1>0, <2>1 DEF RecvPacket, Client, ClientState
    <3> QED
      BY <1>6, <2>1, <3>1 DEF Trace
  <2> QED
    BY <1>1, <1>6, <2>1 DEF Trace
<1> QED
  BY <1>4, <1>5, <1>6 DEF Trace

LEMMA PrivateStays ==
  ASSUME Private, drawn' = drawn,
         \A c \in Clients : cookies'[c] \in {cookies[c], NoCookie},
         \A d \in Clients : \A k : Trace(d, k)' => Trace(d, k),
         drawn \in Nat
  PROVE  Private'
<1>1. \A c \in Clients : cookies'[c] \in 0 .. drawn'
  BY DEF Private, NoCookie
<1>2. ASSUME NEW d \in Clients, NEW k, Trace(d, k)'
      PROVE  k \in 1 .. drawn' /\ \A c \in Clients \ {d} : cookies'[c] # k
  BY <1>2 DEF Private, NoCookie
<1> QED
  BY <1>1, <1>2 DEF Private

\* The relay sends a cookie with the challenge that draws it, and to nobody else.
LEMMA RelayKeepsPrivate ==
  ASSUME IInv, Private, NEW m \in net, RelayRecv(m)
  PROVE  Private'
<1>0. /\ UNCHANGED <<client, seen>> /\ m.peer \in Clients
      /\ cookies \in [Clients -> 0 .. MaxCookie] /\ drawn \in Nat
  BY DEF RelayRecv, SynKnown, SynChallenge, SynBadCookie, SynAccept, Rst, UnknownTag,
     IInv, TypeOK, Messages
<1>1. CASE ~SynChallenge(m)
  <2>1. drawn' = drawn /\ \A c \in Clients : cookies'[c] \in {cookies[c], NoCookie}
    BY <1>0, <1>1 DEF RelayRecv, SynKnown, SynBadCookie, SynAccept, Rst, UnknownTag
  <2>2. \A n \in net' \ net : n.type # "resetRetry"
    BY <1>1 DEF RelayRecv, SynKnown, SynBadCookie, SynAccept, Rst, UnknownTag,
       Exchange, SyncAck, RelayRst, Message
  <2>3. \A d \in Clients : \A k : Trace(d, k)' => Trace(d, k)
    BY <1>0, <2>2 DEF Trace
  <2> QED
    BY <1>0, <2>1, <2>3, PrivateStays
<1>2. CASE SynChallenge(m)
  <2> DEFINE c == m.peer
             new == drawn + 1
  <2>1. /\ drawn' = new /\ cookies'[c] = new
        /\ \A d \in Clients \ {c} : cookies'[d] = cookies[d]
    BY <1>0, <1>2 DEF SynChallenge
  <2>2. \A n \in net' \ net : n.peer = c /\ n.cookie = new
    BY <1>2 DEF SynChallenge, Exchange, ResetRetry, Message
  <2>3. \A d \in Clients : \A k : Trace(d, k)' => Trace(d, k) \/ (d = c /\ k = new)
    BY <1>0, <2>2 DEF Trace
  <2>4. \A d \in Clients : cookies'[d] \in 0 .. drawn'
    BY <1>0, <2>1 DEF Private
  <2>5. ASSUME NEW d \in Clients, NEW k, Trace(d, k)'
        PROVE  k \in 1 .. drawn' /\ \A e \in Clients \ {d} : cookies'[e] # k
    <3>1. CASE Trace(d, k)
      <4>1. k \in 1 .. drawn /\ \A e \in Clients \ {d} : cookies[e] # k
        BY <3>1 DEF Private
      <4> QED
        BY <1>0, <2>1, <4>1
    <3>2. CASE d = c /\ k = new
      <4>1. \A e \in Clients \ {d} : cookies'[e] = cookies[e] /\ cookies[e] \in 0 .. drawn
        BY <2>1, <3>2 DEF Private
      <4> QED
        BY <1>0, <2>1, <3>2, <4>1
    <3> QED
      BY <2>3, <2>5, <3>1, <3>2
  <2> QED
    BY <2>4, <2>5 DEF Private
<1> QED
  BY <1>1, <1>2

\* Nobody can answer a challenge sent to another address, as long as the relay does
\* not start random() again.
THEOREM ChallengesArePrivate ==
  ASSUME MaxRestarts = 0
  PROVE  Spec => []ChallengeIsPrivate
<1>1. Init => Private
  <2> SUFFICES ASSUME Init PROVE Private
    OBVIOUS
  <2>1. \A d \in Clients : \A k : ~Trace(d, k)
    BY DEF Init, Trace
  <2> QED
    BY <2>1 DEF Init, Private, NoCookie
<1>2. IInv /\ Private /\ [Next]_vars => Private'
  <2> SUFFICES ASSUME IInv, Private, [Next]_vars PROVE Private'
    OBVIOUS
  <2>0. drawn \in Nat /\ restarts = 0
    BY DEF IInv, TypeOK
  <2>1. ASSUME NEW c \in Clients,
               \/ Open(c) \/ Close(c) \/ Closing(c)
               \/ SyncPointExpires(c) \/ TimerThread(c) \/ RecvThread(c)
               \/ \E m \in net : RecvPacket(c, m)
        PROVE  Private'
    BY <2>0, <2>1, TracesAreSent, RelayUntouched, PrivateStays
  <2>2. ASSUME NEW m \in net, Lose(m) PROVE Private'
    <3>1. \A d \in Clients : \A k : Trace(d, k)' => Trace(d, k)
      BY <2>2 DEF Lose, Trace
    <3> QED
      BY <2>0, <2>2, <3>1, PrivateStays DEF Lose
  <2>3. CASE Restart
    BY <2>0, <2>3 DEF Restart
  <2>4. CASE UNCHANGED vars
    BY <2>0, <2>4, PrivateStays DEF Trace
  <2> QED
    BY <2>1, <2>2, <2>3, <2>4, RelayKeepsPrivate DEF Next
<1>3. Private => ChallengeIsPrivate
  BY DEF Private, ChallengeIsPrivate, Trace
<1> QED
  BY <1>1, <1>2, <1>3, Invariant, PTL DEF Spec

-----------------------------------------------------------------------------
(* Refinement *)

\* The handshake implements the promise of ReturnRoutability.
THEOREM Refinement == Spec => ImplementsPromise
<1>1. Init => Promise!Init
  BY DEF Init, Promise!Init, phase, reached, NoCookie
<1>2. ASSUME IInv, [Next]_vars PROVE [Promise!Next]_Promise!vars
  <2> USE DEF Promise!vars
  <2>1. CASE UNCHANGED <<relayVars, seen>>
    BY <2>1 DEF phase, reached
  <2>2. ASSUME NEW c \in Clients, UNCHANGED relayVars,
               NEW k, seen' = [seen EXCEPT ![c] = @ \cup {k}]
        PROVE  Promise!Reach(c)
    <3>1. phase' = phase
      BY <2>2 DEF phase
    <3>2. reached' = reached \cup {c}
      BY <2>2, <1>2 DEF reached, IInv, TypeOK
    <3> QED
      BY <3>1, <3>2 DEF Promise!Reach
  <2>3. ASSUME NEW m \in net, RelayRecv(m) PROVE [Promise!Next]_Promise!vars
    <3> DEFINE c == m.peer
    <3>0. /\ c \in Clients /\ reached' = reached
          /\ phase \in [Clients -> {"unknown", "challenged", "connected"}]
      BY <2>3, <1>2, RelayMaps DEF reached, phase
    <3>1. phase' = [phase EXCEPT ![c] = phase'[c]]
      BY <2>3, <1>2, RelayMaps DEF phase
    <3>2. CASE phase'[c] = phase[c]
      BY <3>0, <3>1, <3>2
    <3>3. CASE phase[c] = "unknown" /\ phase'[c] = "challenged"
      BY <3>0, <3>1, <3>3 DEF Promise!Next, Promise!Challenge
    <3>4. CASE phase[c] = "challenged" /\ phase'[c] = "connected" /\ c \in reached
      BY <3>0, <3>1, <3>4 DEF Promise!Next, Promise!Accept
    <3>5. CASE phase[c] = "connected" /\ phase'[c] = "unknown"
      BY <3>0, <3>1, <3>5 DEF Promise!Next, Promise!Forget
    <3>6. \/ phase'[c] = phase[c]
          \/ phase[c] = "unknown" /\ phase'[c] = "challenged"
          \/ phase[c] = "challenged" /\ phase'[c] = "connected" /\ c \in reached
          \/ phase[c] = "connected" /\ phase'[c] = "unknown"
      BY <2>3, <1>2, RelayMaps DEF phase, reached
    <3> QED
      BY <3>2, <3>3, <3>4, <3>5, <3>6
  <2>4. CASE Restart
    <3>1. phase' = [c \in Clients |-> "unknown"] /\ reached' = reached
      BY <2>4 DEF Restart, phase, reached
    <3> QED
      BY <3>1 DEF Promise!Next, Promise!Restart
  <2> QED
    BY <1>2, <2>1, <2>2, <2>3, <2>4, RelayUntouched, SeenGrows
    DEF Next, Lose, Promise!Next
<1> QED
  BY <1>1, <1>2, Invariant, PTL DEF Spec, ImplementsPromise, Promise!Spec

=============================================================================
