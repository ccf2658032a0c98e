----------------------------- MODULE Connection -----------------------------
(***************************************************************************)
(* The connection handshake of QuicR: ClientConnectionPipe at every        *)
(* client, ServerConnectionPipe at the relay, and the datagram network     *)
(* between them (connectionPipe.cc, udpPipe.cc, crazyBitPipe.cc).          *)
(*                                                                         *)
(* A client is three threads over one unlocked `state': the application    *)
(* (open, close), the timer thread (runUpdates every millisecond) and the  *)
(* pacer's receive thread (recv).  sendSync and stop are several steps,    *)
(* so that the threads interleave inside them.  The relay is one thread    *)
(* and its handlers are atomic.                                            *)
(*                                                                         *)
(* A client is named by the address of its socket, which is the key of     *)
(* the relay's maps.  Cookies are the positions in the sequence random()   *)
(* draws from: nothing seeds it, so a restarted relay draws the same       *)
(* cookies again.  Path tokens, time stamps and sequence numbers that no   *)
(* code reads are left out.                                                *)
(***************************************************************************)
EXTENDS Integers

CONSTANTS
    Clients,      \* client addresses
    MaxRetry,     \* max_connection_retry_cnt
    MaxCookie,    \* bound: cookies drawn by one incarnation of the relay
    MaxRestarts,  \* bound: restarts of the relay
    Lossy,        \* the network may lose a datagram
    Duplicating,  \* the network may deliver a datagram again
    Prompt        \* answers arrive before the sync timeout expires

ASSUME ConnectionAssumption ==
    /\ MaxRetry \in Nat /\ MaxCookie \in Nat /\ MaxRestarts \in Nat
    /\ Lossy \in BOOLEAN /\ Duplicating \in BOOLEAN /\ Prompt \in BOOLEAN

NoCookie == 0
Cookies == 1 .. MaxCookie

Message(type, c, k) == [type |-> type, peer |-> c, cookie |-> k]
Sync(c, k)       == Message("sync", c, k)
SyncAck(c)       == Message("syncAck", c, NoCookie)
ResetRetry(c, k) == Message("resetRetry", c, k)
\* The one-byte reset: from the relay to a client, and from a client to the
\* relay, where the spin bit may have turned its only byte into another tag.
RelayRst(c)      == Message("relayRst", c, NoCookie)
ClientRst(c)     == Message("headerRst", c, NoCookie)
SpunRst(c)       == Message("headerRstCrazy", c, NoCookie)

ToRelay  == {"sync", "headerRst", "headerRstCrazy"}
ToClient == {"syncAck", "resetRetry", "relayRst"}
Messages == [type : ToRelay \cup ToClient, peer : Clients, cookie : 0 .. MaxCookie]
NoPacket == [type |-> "none"]

VARIABLES
    client,        \* what each client keeps: its threads and its ConnectionPipe
    cookies,       \* ServerConnectionPipe::cookies, NoCookie where there is no entry
    connectionMap, \* the cookie of each Connection, NoCookie where there is none
    drawn,         \* how many cookies random() has returned
    restarts,
    net,           \* the datagrams in flight
    seen,          \* history: the cookies that reached each client
    accepted,      \* history: the clients the relay has connected
    failed         \* history: the clients the network has failed

relayVars == <<cookies, connectionMap, drawn, restarts, accepted>>
vars == <<client, relayVars, net, seen, failed>>

ClientState ==
    [app   : {"init", "open", "resetting", "closing", "closed"},
     timer : {"off", "update", "synced", "stopping", "resetting", "closing", "done"},
     recv  : {"off", "wait", "got", "synced", "done"},
     rx    : Messages \cup {NoPacket},    \* what the receive thread is handling
     state : {"Start", "Pending", "Connected"},
     socket : BOOLEAN,                    \* UdpPipe::fd > 0
     expired : BOOLEAN,                   \* syn_timeout_msec since last_sync_point
     syncs_awaiting_response : 0 .. MaxRetry,
     cookie : 0 .. MaxCookie]

Init ==
    /\ client = [c \in Clients |->
          [app |-> "init", timer |-> "off", recv |-> "off", rx |-> NoPacket,
           state |-> "Start", socket |-> FALSE, expired |-> FALSE,
           syncs_awaiting_response |-> 0, cookie |-> NoCookie]]
    /\ cookies = [c \in Clients |-> NoCookie]
    /\ connectionMap = [c \in Clients |-> NoCookie]
    /\ drawn = 0
    /\ restarts = 0
    /\ net = {}
    /\ seen = [c \in Clients |-> {}]
    /\ accepted = {}
    /\ failed = {}

-----------------------------------------------------------------------------
(* The network *)

\* UdpPipe::send: nothing leaves a closed socket.
Emit(c, m) == net' = IF client[c].socket THEN net \cup {m} ELSE net

\* A datagram is taken off the network, unless the network keeps a copy, and
\* the answers are put on it.
Exchange(m, answers) ==
    \/ net' = (net \ {m}) \cup answers
    \/ Duplicating /\ net' = net \cup answers

\* Client c's next state is r.
Client(c, r) == client' = [client EXCEPT ![c] = r]

Lose(m) ==
    /\ Lossy
    /\ net' = net \ {m}
    /\ failed' = failed \cup {m.peer}
    /\ UNCHANGED <<client, relayVars, seen>>

-----------------------------------------------------------------------------
(* A client: the application thread *)

\* Faulty Open: the state of ServerConnectionPipe::start.
OpenConnected(c) ==
    /\ client[c].app = "init"
    /\ Client(c, [client[c] EXCEPT !.app = "open", !.socket = TRUE,
                      !.state = "Connected", !.timer = "update", !.recv = "wait"])
    /\ net' = net \cup {Sync(c, client[c].cookie)}
    /\ UNCHANGED <<relayVars, seen, failed>>

\* QuicRClient::open: the first sync goes out before any thread is started.
Open(c) ==
    /\ client[c].app = "init"
    /\ Client(c, [client[c] EXCEPT !.app = "open", !.socket = TRUE,
                      !.state = "Pending", !.timer = "update", !.recv = "wait"])
    /\ net' = net \cup {Sync(c, client[c].cookie)}
    /\ UNCHANGED <<relayVars, seen, failed>>

\* QuicRClient::close: shutDown, then the first line of ConnectionPipe::stop.
Close(c) ==
    /\ client[c].app = "open"
    /\ Client(c, [client[c] EXCEPT !.app = "resetting", !.state = "Start"])
    /\ UNCHANGED <<relayVars, net, seen, failed>>

shutDown(c) == client[c].app \notin {"init", "open"}

\* The reset of ConnectionPipe::stop, a single byte, on which
\* CrazyBitPipe::send sets the spin bit or not.
SendRst(c) == \E rst \in {ClientRst(c), SpunRst(c)} : Emit(c, rst)

CloseSendsRst(c) ==
    /\ client[c].app = "resetting"
    /\ SendRst(c)
    /\ Client(c, [client[c] EXCEPT !.app = "closing"])
    /\ UNCHANGED <<relayVars, seen, failed>>

CloseClosesSocket(c) ==
    /\ client[c].app = "closing"
    /\ Client(c, [client[c] EXCEPT !.app = "closed", !.socket = FALSE])
    /\ UNCHANGED <<relayVars, net, seen, failed>>

Closing(c) == CloseSendsRst(c) \/ CloseClosesSocket(c)

-----------------------------------------------------------------------------
(* A client: the timer thread, which runs runUpdates every millisecond *)

\* A handshake message is under way to or from c.
Awaits(c) == client[c].rx # NoPacket \/ \E m \in net : m.peer = c

SyncPointExpires(c) ==
    /\ client[c].app # "init" /\ ~client[c].expired
    /\ Prompt => ~Awaits(c)
    /\ Client(c, [client[c] EXCEPT !.expired = TRUE])
    /\ failed' = failed \cup {d \in {c} : Awaits(d)}
    /\ UNCHANGED <<relayVars, net, seen>>

\* Faulty UpdateCountsTick: the retries are not bounded.
UpdateCountsTickUnbounded(c) ==
    /\ client[c].timer = "update" /\ client[c].expired
    /\ client[c].state = "Pending"
    /\ Client(c, [client[c] EXCEPT !.syncs_awaiting_response = @ + 1])
    /\ UNCHANGED <<relayVars, net, seen, failed>>

\* No sync is sent again and no timeout restarted: the next tick counts again.
UpdateCountsTick(c) ==
    /\ client[c].timer = "update" /\ client[c].expired
    /\ client[c].state = "Pending"
    /\ client[c].syncs_awaiting_response < MaxRetry
    /\ Client(c, [client[c] EXCEPT !.syncs_awaiting_response = @ + 1])
    /\ UNCHANGED <<relayVars, net, seen, failed>>

\* Faulty UpdateGivesUp: it counts from zero again.
UpdateGivesUpResets(c) ==
    /\ client[c].timer = "update" /\ client[c].expired
    /\ client[c].state = "Pending"
    /\ client[c].syncs_awaiting_response >= MaxRetry
    /\ Client(c, [client[c] EXCEPT !.syncs_awaiting_response = 0])
    /\ UNCHANGED <<relayVars, net, seen, failed>>

\* stop() is decided here; its first assignment is a later step.
UpdateGivesUp(c) ==
    /\ client[c].timer = "update" /\ client[c].expired
    /\ client[c].state = "Pending"
    /\ client[c].syncs_awaiting_response >= MaxRetry
    /\ Client(c, [client[c] EXCEPT !.timer = "stopping"])
    /\ UNCHANGED <<relayVars, net, seen, failed>>

\* sendSync up to its send(); the state is assigned after it.
UpdateSendsSync(c) ==
    /\ client[c].timer = "update" /\ client[c].expired
    /\ client[c].state # "Pending"
    /\ Emit(c, Sync(c, client[c].cookie))
    /\ Client(c, [client[c] EXCEPT !.timer = "synced", !.expired = FALSE])
    /\ UNCHANGED <<relayVars, seen, failed>>

UpdateSetsPending(c) ==
    /\ client[c].timer = "synced"
    /\ Client(c, [client[c] EXCEPT !.timer = "update", !.state = "Pending"])
    /\ UNCHANGED <<relayVars, net, seen, failed>>

\* ConnectionPipe::stop on this thread, which then goes on.
UpdateStops(c) ==
    /\ client[c].timer = "stopping"
    /\ Client(c, [client[c] EXCEPT !.timer = "resetting", !.state = "Start"])
    /\ UNCHANGED <<relayVars, net, seen, failed>>

UpdateSendsRst(c) ==
    /\ client[c].timer = "resetting"
    /\ SendRst(c)
    /\ Client(c, [client[c] EXCEPT !.timer = "closing"])
    /\ UNCHANGED <<relayVars, seen, failed>>

UpdateClosesSocket(c) ==
    /\ client[c].timer = "closing"
    /\ Client(c, [client[c] EXCEPT !.timer = "update", !.socket = FALSE])
    /\ UNCHANGED <<relayVars, net, seen, failed>>

\* runTimerThread reads shutDown between two updates.
TimerExits(c) ==
    /\ client[c].timer = "update" /\ shutDown(c)
    /\ Client(c, [client[c] EXCEPT !.timer = "done"])
    /\ UNCHANGED <<relayVars, net, seen, failed>>

TimerThread(c) ==
    \/ UpdateCountsTick(c) \/ UpdateGivesUp(c)
    \/ UpdateSendsSync(c) \/ UpdateSetsPending(c)
    \/ UpdateStops(c) \/ UpdateSendsRst(c) \/ UpdateClosesSocket(c)
    \/ TimerExits(c)

-----------------------------------------------------------------------------
(* A client: the pacer's receive thread *)

\* PacerPipe::runNetRecv reads shutDown between two packets.
Looped(c) == IF shutDown(c) THEN "done" ELSE "wait"

RecvPacket(c, m) ==
    /\ client[c].recv = "wait" /\ client[c].socket
    /\ m.type \in ToClient /\ m.peer = c
    /\ Exchange(m, {})
    /\ Client(c, [client[c] EXCEPT !.recv = "got", !.rx = m])
    /\ UNCHANGED <<relayVars, seen, failed>>

\* Any state becomes Connected.
RecvSyncAck(c) ==
    /\ client[c].recv = "got" /\ client[c].rx.type = "syncAck"
    /\ Client(c, [client[c] EXCEPT !.recv = Looped(c), !.rx = NoPacket,
                                   !.state = "Connected"])
    /\ UNCHANGED <<relayVars, net, seen, failed>>

\* Faulty RecvResetRetry: the sync repeats the old cookie.
RecvResetRetryForgets(c) ==
    /\ client[c].recv = "got" /\ client[c].rx.type = "resetRetry"
    /\ Emit(c, Sync(c, client[c].cookie))
    /\ Client(c, [client[c] EXCEPT !.recv = "synced", !.rx = NoPacket,
                                   !.expired = FALSE])
    /\ seen' = [seen EXCEPT ![c] = @ \cup {client[c].rx.cookie}]
    /\ UNCHANGED <<relayVars, failed>>

\* Takes the cookie and starts sendSync.
RecvResetRetry(c) ==
    /\ client[c].recv = "got" /\ client[c].rx.type = "resetRetry"
    /\ Emit(c, Sync(c, client[c].rx.cookie))
    /\ Client(c, [client[c] EXCEPT !.recv = "synced", !.rx = NoPacket,
                      !.cookie = client[c].rx.cookie, !.expired = FALSE])
    /\ seen' = [seen EXCEPT ![c] = @ \cup {client[c].rx.cookie}]
    /\ UNCHANGED <<relayVars, failed>>

RecvSetsPending(c) ==
    /\ client[c].recv = "synced"
    /\ Client(c, [client[c] EXCEPT !.recv = Looped(c), !.state = "Pending"])
    /\ UNCHANGED <<relayVars, net, seen, failed>>

\* Passed up the pipe, where QuicRClient::recv drops it.
RecvRelayRst(c) ==
    /\ client[c].recv = "got" /\ client[c].rx.type = "relayRst"
    /\ Client(c, [client[c] EXCEPT !.recv = Looped(c), !.rx = NoPacket])
    /\ UNCHANGED <<relayVars, net, seen, failed>>

RecvExits(c) ==
    /\ client[c].recv = "wait" /\ shutDown(c)
    /\ Client(c, [client[c] EXCEPT !.recv = "done"])
    /\ UNCHANGED <<relayVars, net, seen, failed>>

RecvThread(c) ==
    \/ RecvSyncAck(c) \/ RecvResetRetry(c) \/ RecvSetsPending(c)
    \/ RecvRelayRst(c) \/ RecvExits(c)

-----------------------------------------------------------------------------
(* The relay *)

\* processSyn, existing connection
SynKnown(m) ==
    /\ m.type = "sync" /\ connectionMap[m.peer] # NoCookie
    /\ Exchange(m, {SyncAck(m.peer)})
    /\ UNCHANGED <<client, seen, relayVars, failed>>

\* Faulty SynChallenge: every address gets the same cookie.
SynChallengeConstant(m) ==
    /\ m.type = "sync" /\ connectionMap[m.peer] = NoCookie
    /\ cookies[m.peer] = NoCookie
    /\ drawn < MaxCookie
    /\ drawn' = drawn + 1
    /\ cookies' = [cookies EXCEPT ![m.peer] = 1]
    /\ Exchange(m, {ResetRetry(m.peer, 1)})
    /\ UNCHANGED <<client, seen, connectionMap, restarts, accepted, failed>>

\* Faulty SynChallenge: a sync without the cookie is challenged again.
SynChallengeAgain(m) ==
    /\ m.type = "sync" /\ connectionMap[m.peer] = NoCookie
    /\ cookies[m.peer] # m.cookie \/ m.cookie = NoCookie
    /\ drawn < MaxCookie
    /\ drawn' = drawn + 1
    /\ cookies' = [cookies EXCEPT ![m.peer] = drawn + 1]
    /\ Exchange(m, {ResetRetry(m.peer, drawn + 1)})
    /\ UNCHANGED <<client, seen, connectionMap, restarts, accepted, failed>>

\* processSyn, no cookie for this address yet: challenge it with one
SynChallenge(m) ==
    /\ m.type = "sync" /\ connectionMap[m.peer] = NoCookie
    /\ cookies[m.peer] = NoCookie
    /\ drawn < MaxCookie
    /\ drawn' = drawn + 1
    /\ cookies' = [cookies EXCEPT ![m.peer] = drawn + 1]
    /\ Exchange(m, {ResetRetry(m.peer, drawn + 1)})
    /\ UNCHANGED <<client, seen, connectionMap, restarts, accepted, failed>>

\* processSyn, the cookie is not the one of the challenge
SynBadCookie(m) ==
    /\ m.type = "sync" /\ connectionMap[m.peer] = NoCookie
    /\ cookies[m.peer] \notin {NoCookie, m.cookie}
    /\ Exchange(m, {RelayRst(m.peer)})
    /\ UNCHANGED <<client, seen, relayVars, failed>>

\* Faulty SynAccept: the cookies are not compared.
SynAcceptAny(m) ==
    /\ m.type = "sync" /\ connectionMap[m.peer] = NoCookie
    /\ cookies[m.peer] # NoCookie
    /\ connectionMap' = [connectionMap EXCEPT ![m.peer] = cookies[m.peer]]
    /\ cookies' = [cookies EXCEPT ![m.peer] = NoCookie]
    /\ accepted' = accepted \cup {m.peer}
    /\ Exchange(m, {SyncAck(m.peer)})
    /\ UNCHANGED <<client, seen, drawn, restarts, failed>>

\* Faulty SynAccept: the challenge is not erased.
SynAcceptKeepsCookie(m) ==
    /\ m.type = "sync" /\ connectionMap[m.peer] = NoCookie
    /\ cookies[m.peer] # NoCookie /\ m.cookie = cookies[m.peer]
    /\ connectionMap' = [connectionMap EXCEPT ![m.peer] = m.cookie]
    /\ accepted' = accepted \cup {m.peer}
    /\ Exchange(m, {SyncAck(m.peer)})
    /\ UNCHANGED <<client, seen, cookies, drawn, restarts, failed>>

\* processSyn, the challenge is answered
SynAccept(m) ==
    /\ m.type = "sync" /\ connectionMap[m.peer] = NoCookie
    /\ cookies[m.peer] # NoCookie /\ m.cookie = cookies[m.peer]
    /\ connectionMap' = [connectionMap EXCEPT ![m.peer] = m.cookie]
    /\ cookies' = [cookies EXCEPT ![m.peer] = NoCookie]
    /\ accepted' = accepted \cup {m.peer}
    /\ Exchange(m, {SyncAck(m.peer)})
    /\ UNCHANGED <<client, seen, drawn, restarts, failed>>

\* processRst, for a known connection or not
Rst(m) ==
    /\ m.type = "headerRst"
    /\ connectionMap' = [connectionMap EXCEPT ![m.peer] = NoCookie]
    /\ Exchange(m, {})
    /\ UNCHANGED <<client, seen, cookies, drawn, restarts, accepted, failed>>

\* Any other tag goes to the application, which drops a reset it cannot name.
UnknownTag(m) ==
    /\ m.type = "headerRstCrazy"
    /\ Exchange(m, {})
    /\ UNCHANGED <<client, seen, relayVars, failed>>

RelayRecv(m) ==
    \/ SynKnown(m) \/ SynChallenge(m) \/ SynBadCookie(m) \/ SynAccept(m)
    \/ Rst(m) \/ UnknownTag(m)

\* The relay process is started again: its maps and random()'s sequence too.
Restart ==
    /\ restarts < MaxRestarts
    /\ restarts' = restarts + 1
    /\ cookies' = [c \in Clients |-> NoCookie]
    /\ connectionMap' = [c \in Clients |-> NoCookie]
    /\ drawn' = 0
    /\ UNCHANGED <<client, seen, accepted, net, failed>>

-----------------------------------------------------------------------------

Next ==
    \/ \E c \in Clients :
          \/ Open(c) \/ Close(c) \/ Closing(c)
          \/ SyncPointExpires(c) \/ TimerThread(c) \/ RecvThread(c)
          \/ \E m \in net : RecvPacket(c, m)
    \/ \E m \in net : RelayRecv(m) \/ Lose(m)
    \/ Restart

\* The threads run and time passes.
ThreadFairness ==
    \A c \in Clients :
        /\ WF_vars(Closing(c))
        /\ WF_vars(SyncPointExpires(c))
        /\ WF_vars(TimerThread(c))
        /\ WF_vars(RecvThread(c))

\* What is not lost is taken, by the client's receive thread and by the relay.
DeliveryFairness ==
    \A c \in Clients :
        /\ WF_vars(\E m \in net : RecvPacket(c, m))
        /\ WF_vars(\E m \in net : m.peer = c /\ RelayRecv(m))

Spec == Init /\ [][Next]_vars
FairSpec == Spec /\ ThreadFairness /\ DeliveryFairness

-----------------------------------------------------------------------------
(* Properties *)

\* Every variable has its type, and a thread that is handling a packet has one.
TypeOK ==
    /\ client \in [Clients -> ClientState]
    /\ \A c \in Clients :
          client[c].recv = "got" =>
             /\ client[c].rx \in Messages
             /\ client[c].rx.type \in ToClient
             /\ client[c].rx.peer = c
    /\ cookies \in [Clients -> 0 .. MaxCookie]
    /\ connectionMap \in [Clients -> 0 .. MaxCookie]
    /\ drawn \in 0 .. MaxCookie
    /\ restarts \in 0 .. MaxRestarts
    /\ net \subseteq Messages
    /\ seen \in [Clients -> SUBSET Cookies]
    /\ accepted \subseteq Clients /\ failed \subseteq Clients

\* Return routability (processSyn): the relay holds a connection for an address
\* only if a cookie it sent to that address arrived there and came back, over
\* any loss, duplication and reordering and any restart of the relay.
RoutabilityProved ==
    \A c \in Clients :
        connectionMap[c] # NoCookie => connectionMap[c] \in seen[c]

\* A client is Connected only if the relay accepted it (ClientConnectionPipe::recv
\* against processSyn): no interleaving of the client's threads makes it up.
ConnectedWasAccepted ==
    \A c \in Clients : client[c].state = "Connected" => c \in accepted

\* An address is challenged or connected, never both (processSyn, processRst):
\* a stale cookie entry would send a bare reset to a client the relay knows.
ChallengedOrConnected ==
    \A c \in Clients : cookies[c] = NoCookie \/ connectionMap[c] = NoCookie

\* Nobody can answer a challenge sent to another address (processSyn): while the
\* relay does not restart, no other client has ever seen its cookie.
ChallengeIsPrivate ==
    \A c, d \in Clients :
        c # d /\ cookies[c] # NoCookie => cookies[c] \notin seen[d]

\* The relay never takes a challenge back or changes it before it is answered,
\* whatever syncs and resets arrive late or twice: a client that holds the
\* cookie of its challenge can still use it, unless the relay restarts.
ChallengeStands ==
    [][\A c \in Clients :
          cookies[c] # NoCookie /\ cookies'[c] # cookies[c] =>
             \/ restarts' # restarts
             \/ cookies'[c] = NoCookie /\ connectionMap'[c] = cookies[c]]_vars

\* A client never stays in ConnectionPending (runUpdates): it gets its syncAck or
\* it gives up and closes the socket, whatever the network loses.
PendingResolves ==
    \A c \in Clients :
        client[c].state = "Pending" ~> client[c].state = "Connected" \/ ~client[c].socket

\* An open client is accepted by the relay, across restarts of the relay, unless it
\* is closed or the network fails it: a datagram is lost, or is still on its way
\* when the sync timeout expires (ConnectionPipe::start to processSyn).
HandshakeCompletes ==
    \A c \in Clients :
        client[c].app = "open"
            ~> c \in accepted \cup failed \/ client[c].app # "open"

-----------------------------------------------------------------------------
(* The promise of the handshake *)

phase == [c \in Clients |->
            IF connectionMap[c] # NoCookie THEN "connected"
            ELSE IF cookies[c] # NoCookie THEN "challenged" ELSE "unknown"]
reached == {c \in Clients : seen[c] # {}}

Promise == INSTANCE ReturnRoutability WITH phase <- phase, reached <- reached

\* The handshake implements the abstract specification: every step of a client,
\* the network or the relay is one of its steps or changes nothing there.
ImplementsPromise == Promise!Spec

=============================================================================
