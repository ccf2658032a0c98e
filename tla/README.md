# A TLA+ model of QuicR

QuicR is a publish/subscribe transport for real-time media over UDP. A client
publishes named packets to a relay and subscribes to names; the relay forwards
every publication to the subscribers its name matches. This directory holds TLA+
modules of the client and the relay, TLC configurations that check them on small
instances, and TLAPS proofs of their most important properties.

All paths are relative to the root of the repository, file names without a path
are in `src/`.

Run `tlc -config X.cfg MC.tla` for the runs that PROJECT.json lists, and `tlapm M.tla`
for the proofs: ConnectionProofs, SendPathProofs, FragmentProofs, RateCtrlProofs, RelayProofs,
BroadcastRelayProofs, VarIntProofs and WireProofs.

## 1. The system

### Components

A client is a stack of pipes (quicRClient.cc:23-48). A packet goes down through
`send` and up through `recv`; three things break the chain: `PriorityPipe` keeps
packets in queues, the send thread of `PacerPipe` pulls them from there
(`toDownstream`), and its receive thread pushes what arrives into a queue that
`recv` of the application pulls from.

    application                   publish, subscribe, recv, close
      StatsPipe
      EncryptPipe                 seals a payload (SFrame)
      FragmentPipe                cuts and reassembles messages
      SubscribePipe               builds subscriptions, keeps the list of them
      FecPipe                     keeps copies to send again
      RetransmitPipe              caches reliable packets until acknowledged
      PriorityPipe                one queue for each priority
      PacerPipe + RateCtrl        numbers and paces packets, takes acknowledgements
      ClientConnectionPipe        the handshake
      CrazyBitPipe                a spin bit that measures the round trip
      FakeLossPipe, UdpPipe       the datagram network
      ServerConnectionPipe        the handshake, at the relay (quicRServer.cc)
    Relay + MultimapFib           forwards (cmd/relay); cmd/qbroadcast is another

| component | state | operations | what makes it correct |
|---|---|---|---|
| ClientConnectionPipe | `state`, `cookie`, `last_sync_point`, `syncs_awaiting_response` | start, stop, recv (syncAck, resetRetry), runUpdates, sendSync | Connected only if the relay accepted; no client waits for ever |
| ServerConnectionPipe | `cookies`, `connectionMap`, `pathTokens` | recv, processSyn, processRst, sendSyncAck | an address is connected only after it proved that it receives what is sent to it |
| RetransmitPipe | `rtxList`, `maxActTime`, `bigRtt`, `minRtt` | send, ack, updateRTT | nothing is forgotten unacknowledged, nothing is sent more than twice |
| PriorityPipe | `sendQarray` | send, toDownstream | every packet leaves, the important first |
| PacerPipe | `nextSeqNum`, phase and pacing counters | runNetSend, runNetRecv | each packet has its own number |
| RateCtrl | upstream and downstream history, phase count, filters, targets | sendPacket, recvAck, recvPacket, updatePhase, startNewCycle | an acknowledgement is credited to the packet it is for; phases follow the clock |
| FragmentPipe | `fragList`, `mtu` | send, processRxPacket | a message arrives whole or not at all; nothing is left over |
| EncryptPipe | the MLS context | send, recv | the whole payload is sealed |
| SubscribePipe | `subscribeList` | subscribe, recv | every subscription reaches the relay |
| FecPipe | `sendList` | send | copies leave when they are due |
| encode.cc | none (a packet is a stack of bytes) | `<<`, `>>` of each message, nextTag | what is written is read back, and nothing else |
| ShortName | five fields | constructors, fromString | every name the tools accept is parsed |
| MultimapFib | `fibStore` | addSubscription, lookupSubscription, removeSubscription (no caller) | the subscribers of a name are found |
| Relay | `prevAckSeqNum`, `prevRecvTimeUs` | processSub, processPub, processRateRequest | what it takes is acknowledged and goes to all subscribers |
| BroadcastRelay | `connectionMap`, `prevAckSeqNum` | the same, of cmd/qbroadcast | numbers without gaps; whole copies |

### What is hard

- *Concurrency.* A client has an application thread, a timer thread (runUpdates every
  millisecond) and the pacer's two threads. `state` of the connection, `rateCtrl`
  and `shutDown` have no lock; `rtxList`, each queue and `fragList` have one each,
  and what one call does under two of them interleaves.
- *The network* loses, repeats and reorders datagrams, in every module.
- *Restarts.* The relay keeps everything in memory; its cookies come from an unseeded
  `random()`, so that a restarted relay draws the same ones.
- *Timeouts.* The handshake's sync timeout races with late answers; an
  acknowledgement races with RateCtrl giving the packet up.
- *Fixed widths.* mediaTime, the numbers, the fragment counter, the length of a
  ciphertext and the integers of variable length all have boundaries that
  ordinary use can reach.

PROJECT.json lists these hazards one by one, at their lines, with the properties
that cover them.

## 2. The modules

Modules are written so that they can be proved about: parameters are CONSTANTS
with a named assumption, each handler or step of a thread is one action, and no
module that has theorems reaches a recursive operator.

| module | models | refines |
|---|---|---|
| Connection | connectionPipe.cc at clients and relay, the threads of quicRClient.cc and pacerPipe.cc that call it | ReturnRoutability |
| ReturnRoutability | what the handshake promises | |
| SendPath | fecPipe.cc, retransmitPipe.cc, priorityPipe.cc, pacerPipe.cc, recvAck of rateCtrl.cc, the acknowledgements of relay.cc | |
| RateCtrl | rateCtrl.cc, the calls of it in pacerPipe.cc, the round trips' way through statsPipe.cc | |
| VarInt | uintVar_t of encode.cc | |
| Wire (uses VarInt) | the fourteen messages of encode.cc | |
| Fragment (uses VarInt) | fragmentPipe.cc, the sizes in encryptPipe.cc, publish and recv of quicRClient.cc | MessageChannel |
| MessageChannel | what publishing promises | |
| Relay | relay.cc, multimap_fib.cc, the way of a subscription through the client | PubSub |
| PubSub | what a relay promises | |
| BroadcastRelay | cmd/qbroadcast.cc | |
| ConnectionProofs, SendPathProofs, FragmentProofs, RateCtrlProofs, RelayProofs, BroadcastRelayProofs, VarIntProofs, WireProofs | theorems about the module they are named after | |
| MC... | instances for TLC | |

### Connection

`client[c]` is a record of what a client's pipe keeps (`state`, `cookie`, ...) and
where each of its threads is (`app`, `timer`, `recv`). `sendSync` sends before it
assigns the state, and `stop` assigns the state, sends and closes the socket: each of
these is a step, named for the thread that takes it (UpdateSendsSync,
UpdateSetsPending, ...), so that the threads interleave as the code lets them. The relay
is single-threaded and its handlers are actions: SynKnown, SynChallenge,
SynBadCookie and SynAccept are the branches of processSyn in their order. `net` is
the set of datagrams in flight; Exchange takes one and may leave it there, to be
delivered again. The one-byte reset carries no header: CrazyBitPipe may set the
spin bit in its only byte, after which it is another tag (ClientRst, SpunRst).
`seen`, `accepted` and `failed` are history variables. Cookies are positions in the sequence
that random() draws; Restart empties the maps and starts that sequence again.

### SendPath

`pipe[c]` keeps RetransmitPipe's list, the queues, and the upstream history, whose
index is the packet's number. PublishCaches and PublishQueues are the two halves of
RetransmitPipe::send, of which only the first is under its lock. PacerSends is one turn
of runNetSend, RecvPacket and HandleAck are one packet of runNetRecv and the
acknowledgements in it, one at a time. GiveUp is what calcPhaseLossRateUp does to a
packet; it may happen at any time. mediaTime stands for the packet's name and is
counted modulo `Word`, because the code's subtraction wraps.

FecPipe stands before RetransmitPipe: the publications of a name in `FecNames` leave two
copies in `sendList`, and any number of the copies saved before are due when the
next packet comes. They have priority 0, which `Served` does not look at. A queue
has room for `MaxQueue` packets (1000 in the code); `dropped` counts what was pushed
out. updateRTT assigns the two round trips while `ack` subtracts one from the other,
so that HandleAck chooses a spread from `RttSpreads` for every packet it judges.

### RateCtrl

A thread's call of sendPacket, recvAck or recvPacket begins with updatePhase, which takes no
lock. Enter reads the clock, ReadStart the start of the cycle and ReadPhase the count, to
compare them; CalcPhaseAll judges the phase that is a round trip old, StartNewCycle sets
targets and round trips, ResetCycle starts the cycle, LoadCount reads the count again and
CountPhase writes the sum, and one of SendPacket, RecvAck and RecvPacket records the
packet; `thread[t]` has the program counter and the local variables, which are gone
when updatePhase returns (Returned). Between any two of these the other thread runs, and what
it counts between LoadCount and CountPhase is overwritten. What calcPhaseAll
computes is in Sample: one value for each filter or none, from the packets of the phase
(UpRange, DownRange, which are the two searches backwards through the histories).
Filters work with the gains and the truncating division of the code, in integers.

A rate is in packets per phase, since all packets have one size, and time in ticks, of
which `Milli` are a millisecond: the round trips pass through StatsPipe as 16 bits
of milliseconds and come back (StatsRtt). The relay's clock is `Skew` ahead.
`overlapped` is a history variable: some call of updatePhase began during another. So is
`rewound`: a count that was overwritten by an older sum was smaller than before. `judged`
and `arrived` are history variables as well. The constructor leaves upstreamBitrateTarget
uninitialised; the first target is the first estimate or what a value of `Garbage`
makes of it, also a negative one, whose halves and triples are again any value.

### VarInt, Wire and Fragment

VarInt has a uint64_t as its eight bytes: TLC's integers are too narrow, and masks and
shifts are remainders and positions. Wire has the operators of each message as tables,
the fields as written and as read, transcribed separately, since nothing in the
code makes one the reverse of the other. Fragment works on lengths: a fragment is the
interval of the ciphertext it carries, and every length passes through VarInt's Encode
and Decode, as it does on the wire. Assertions are off in the release builds
(Makefile:12), so the model goes on where one would stop; section 3 lists those that
do not hold.

### Relay and BroadcastRelay

Relay composes the forwarding table and process functions of relay.cc with what a client
keeps for a subscription. A client's subscription packet has the default name, so that
all of them share one place in `rtxList`; after an acknowledgement the overdue one is
queued again, with the same arithmetic as in SendPath. The subscriber entries that
processPub increments are copies, so the table's numbers stay. BroadcastRelay has any
subscription and publication as its input.

## 3. The runs

| run | question |
|---|---|
| ConnectionSafety | Is the handshake safe under loss, duplication, reordering, a restart and all interleavings of a client's threads, and does it implement ReturnRoutability? |
| ConnectionTwoClients | Does no client learn another's challenge? |
| ConnectionLiveness | Does a client in ConnectionPending always get an answer or give up? Is an open client accepted in the end, also when the relay restarts, unless the network fails it? |
| SendPathSafety | Under any network, late acknowledgements, a full queue, copies for error correction and round trips that change: is nothing forgotten, nothing sent more than twice, nothing acknowledged that did not arrive? |
| SendPathDelivery | On a network that loses nothing: does every packet arrive, and does the list drain? |
| RateCtrlSafety | Two threads judge phases without a lock: is no packet of a judged phase left open, nothing counted lost that arrived, no rate a target that was not reached? Without an overlap: does the count follow the clock, and is nothing given up before its round trip? |
| Fragmentation | Are messages reassembled whole, across loss, duplication, reordering and a change of MTU? Does every message arrive whose datagrams do, and is nothing left of those that arrived once? |
| WireSafety | Is every message read back as written, and what lies below it untouched? |
| RelaySafety | Does the relay implement PubSub on any network, where each subscription name has one subscriber? |
| BroadcastSafety | Do numbers have gaps only where publications were lost, across the wrap? |

Two runs show a disagreement between the code and what a comment or a test of the
repository says; PROJECT.json quotes each:

| run | what TLC shows |
|---|---|
| RelaySharedName | a second subscriber to a name displaces the first |
| SendPathTwoClients | the relay's redundant acknowledgement is credited to another client's packet |

Each property of a passing run has a mutant: an operator whose comment begins with
"Faulty" changes one definition the way a plausible mistake would, and TLC finds the
property violated with it.

### Other disagreements

The models do what the code does, also where a comment, a diagram or an assertion says
something else. No run is about these:

| model | the code | what is said of it |
|---|---|---|
| Connection: RecvSyncAck | a late syncAck takes a closed client from Start to Connected (connectionPipe.cc:79) | no such arrow in connectionPipe.hh:29-38 |
| Connection: RecvRelayRst | the relay's bare reset is ignored by clients (connectionPipe.cc:92) | "fail/Rst" in connectionPipe.hh:31-32 |
| Connection: UpdateSetsPending, RecvSetsPending | `state` is overwritten with ConnectionPending after the syncAck came (connectionPipe.cc:139) | "syncAck" leaves ConnectionPending, connectionPipe.hh:35 |
| SendPath: GiveUp, RecvAck | a packet that was given up is sent again after its acknowledgement (rateCtrl.cc:108) | "resend if no ack received", retransmitPipe.cc:21 |
| SendPath: Minus | at the start of a session everything cached is overdue (retransmitPipe.cc:74) | after "maxRTT - minRTT", retransmitPipe.cc:71 |
| SendPath: PacerSends | priority 2 is served before 1 (priorityPipe.cc:45) | "1 is highest", packet.hh:127 |
| SendPath: Fec, Served | copies for error correction get priority 0 and are never sent | "send them again in 10 ms", fecPipe.cc:28 |
| SendPath: Overdue | the spread may be torn: bigRtt of one update, minRtt of another (retransmitPipe.cc:89) | assert(bigRtt >= minRtt), retransmitPipe.cc:72 |
| RateCtrl: CountPhase | two overlapping calls count a phase twice (rateCtrl.cc:181), and a packet is judged a phase early | "no ACK in time", rateCtrl.hh:21 |
| RateCtrl: LoadCount, CountPhase | of two overlapping counts one is lost, the count goes back, and packets are sent in a phase that was judged: they stay open | "no ACK in time", rateCtrl.hh:21 |
| VarInt: Encode | 2^7, 2^14 and 2^29 are read back as 0 (encode.cc:848; ReadBack, ThresholdsAreLost) | what test/encode.cc writes, it expects back |
| SendPath: Newest | the oldest packet of a full queue is dropped (priorityPipe.cc:29) | "this is wrong, should kill oldest data", priorityPipe.cc:31 |
| Fragment: FragID | 4000 bytes at the smallest MTU need too many fragments | assert(frag < 64), fragmentPipe.cc:114 |
| Fragment: Received | a last fragment of 128 bytes announces length 0 | assert(dataSize > 0), fragmentPipe.cc:263 |
| Fragment: CipherSize | a payload of 65536 bytes is accepted and not encrypted (encryptPipe.cc:48) | assert(payloadSize < 63 * 1200), quicRClient.cc:87 |
| Relay: ProcessSub | a subscription is never acknowledged | "ack the packet", relay.cc:77 |
| Relay: SubscribeRefused | a second subscription is not sent while the first is cached | "send subscribe packet", subscribePipe.cc:23 |
| BroadcastRelay: ProcessPub | every copy is two bytes short (qbroadcast.cc:147) | "make copy and forward", qbroadcast.cc:184 |
| BroadcastRelay: ProcessSub | a second subscriber to a name is not stored (qbroadcast.cc:114) | "save the subscription", qbroadcast.cc:107 |

### Bounds

- Connection: two cookies are enough for a challenge, a restart and a second challenge
  with the same cookie; `MaxRetry` is the code's 5 where liveness depends on it, and
  0 or 1 where it only multiplies states. One client is enough for the properties of
  one address; ConnectionTwoClients has two. Its instance neither loses nor
  duplicates, as the product of six threads is large; the theorems of section 4 hold
  for any number of clients on any network.
- SendPath: two or three packets, on both sides of the resend distance, and every word
  wraps at 16. Two clients are needed for the shared acknowledgement. A queue of one
  packet is full as soon as two are sent; one of two packets has copies. The theorems
  of section 4 have no bound but `MaxPublish`, which may be any number.
- RateCtrl: cycles of three phases (5 in the code, rateCtrl.hh:118) of one tick, a session of five
  ticks: a cycle ends, a phase is judged, a pause leaves phases out, and a publication
  arrives after its phase was judged. A millisecond is one tick, which makes the
  conversion to 16 bits exact here; the theorems hold for any. `MaxGap` 2 and three relay
  numbers clear the downstream history. The state constraint (MCRateCtrl.tla)
  leaves out sessions in which acknowledgements and publications both arrive,
  as the two histories share only the phases, and stops at `OverlapUntil` once two
  calls overlapped. The application sets its estimates at the start (`SetUntil`).
- Fragment: sizes that give one, two or three fragments with either MTU, with a last
  fragment that is full, one of a single byte, and one in between.
- Wire: the largest lengths of one, two and four bytes that survive, the three that are
  lost and one of eight bytes, two messages on one packet, bytes that differ in all fields
  of a message, also bytes that look like tags.
- Relay: subscriptions to a resource, to a sender and to a source, and publications
  that match one or two of them; two packets of each client, so that a subscription, a
  publication and the acknowledgement that queues the subscription again occur. Subscription
  names are distinct in RelaySafety, because a shared name fails (RelaySharedName), and
  every source is given with its sender, because the look-up does not find others
  (multimap_fib.cc:59).
- BroadcastRelay: numbers modulo 8 that start at 0 and just below the wrap.

### Assumptions

- RateCtrl: a session is shorter than the 71 minutes after which 32 bits of
  microseconds wrap, and sends less than 5000 packets, after which a history
  is moved. An acknowledgement is of this session. Nothing in the code sets the congested
  status or an ECN bit; jitter is computed and never read.
- RateCtrl: sendPacket, recvAck and recvPacket each record in one step, and
  calcPhaseAll is one step. That a vector is resized in one thread while another has
  a reference into it is undefined behaviour without a list of outcomes.
- SendPath: RateCtrl::recvAck with the RetransmitPipe::ack it calls is one step: rtxList is
  locked, and only the receive thread writes these statuses. GiveUp, which does so
  too, is RateCtrl's and runs between any two of these steps.
- SendPath: a priority is at least 1, as Packet's default and all callers have it.

### Fairness

- Threads run: Closing, TimerThread, RecvThread, PublishQueues, PacerSends and
  HandleAck are steps of loops that sleep for a millisecond at most; weak fairness of
  each.
- Time passes (SyncPointExpires).
- What the network does not lose is taken, since the relay and the receive thread poll
  their sockets. In Fragment the network also stops repeating a datagram at some
  time. In SendPathDelivery receiving an acknowledgement is strongly fair: the receive thread
  takes one packet at a time and between two of them is always ready for the next, so
  a given acknowledgement can be taken again and again, not all the time.
- That datagrams arrive is not assumed in ConnectionLiveness: PendingResolves holds
  because the timer gives up, and HandshakeCompletes excepts the clients in `failed`, of
  which a datagram was lost or was still on its way when the sync timeout expired.

## 4. The proofs

ConnectionProofs proves of Connection, for any set of clients, any number of
cookies and restarts and any network (`ConnectionAssumption` is all that is assumed):

| theorem | statement |
|---|---|
| TypeCorrect | `Spec => []TypeOK` |
| Routability | `Spec => []RoutabilityProved` |
| ConnectedAfterAcceptance | `Spec => []ConnectedWasAccepted` |
| ChallengedXorConnected | `Spec => []ChallengedOrConnected` |
| ChallengesStand | `Spec => ChallengeStands` |
| Refinement | `Spec => ImplementsPromise` |
| ChallengesArePrivate | `Spec => []ChallengeIsPrivate`, if the relay does not restart |

None of the invariants is inductive alone. A connection's cookie is in `seen`
because the sync that brought it had a cookie in `seen`; so the inductive
invariant IInv adds CookiesWereSeen, for all cookies a client holds or has in
flight, and AcksWereEarned: a syncAck in flight, or in the hands of a receive thread, is
addressed to a client that was accepted. Most steps of the client's threads change neither
cookie nor network but for messages of the kinds it already sends: QuietStep settles
all of these at once. The steps that are left are the receipt of a packet, of a
syncAck and of a resetRetry, and the handlers of the relay, one lemma each.
Refinement follows from IInv: SynAccept is a Connect of ReturnRoutability because the
cookie it compares was seen. ChallengesArePrivate needs a second invariant: Private says
that a cookie leaves a trace (seen by a client, in flight to it, or in the hands of its
receive thread) only at the client it was drawn for. Only SynChallenge makes a new trace,
of a cookie never drawn before; after a restart random() draws the same numbers
again, so the theorem excludes restarts as the run ConnectionTwoClients does.

VarIntProofs proves of VarInt, for every packet and every value:

| theorem | statement |
|---|---|
| RoundTrip | an `Exact` value (below 2^29, not 2^7 and not 2^14) is read back as it was written |
| Framing | reading any value takes off exactly what writing it put on |
| ThresholdsAreLost | 2^7, 2^14 and 2^29 are read back as 0 |

They rest on LengthOfEncoded: the byte on top announces the length of the form that was
chosen. ThresholdsAreLost says why RoundTrip excludes what it excludes.

WireProofs proves of Wire, for any messages of the fourteen types, any number of them in a
packet and any order of writing and reading (`WireAssumption`: a field has a value
of its kind):

| theorem | statement |
|---|---|
| PacketsAreFramed | `Spec => []Framed` |
| MessagesReadBack | `Spec => ReadBack` |

ReadBack says of every field what is read where it was written: the same, except that the
lengths 2^7, 2^14 and 2^29 become 0 and that nothing is said of longer ones (LengthRead).
PacketsAreFramed has no exceptions: a length that is read back wrong
is still read off whole (Framing). Tables is what the transcription of encode.cc must
satisfy: the fields of a type are read in the reverse of the order they are written in, the
last item written is a tag, and no two types begin with the same one (Heads). ItemRead takes
one item off the packet it lies on. AllRead follows by induction over the items: after
the first i of n are read, what is left is the packet with the first n - i on it
(Pushed), and what was read are the fields of those i, each as AsRead says; it does not
depend on what lies below (DecodeAbove). TagOnTop then says that the next tag is that of
the last message, so the reader takes the right table. FieldsAsRead turns AsRead into
LengthRead, from RoundTrip and ThresholdsAreLost.

Two inductions are over data, and the library's theorems for them take an operator. The
lemma Induction is one about a set of natural numbers, from the library's theorem that a
set without a minimal element is empty (WFMin); with it FlattenAppend and AllRead are
proved, of FlattenSeq and of ReadAll, which is a recursive function.

FragmentProofs proves of Fragment, for any messages, MTUs and overhead
(`FragmentAssumption`), and a network that loses, repeats and reorders:

| theorem | statement |
|---|---|
| TypeCorrect | `Spec => []TypeOK` |
| MessagesAreWhole | `Spec => []DeliveredIntact`, if the lengths are Regular |
| FragmentsAreTaken | `Spec => []NothingLeftOver`, if the lengths are Regular |
| Refinement | `Spec => ImplementsChannel`, if the lengths are Regular |
| UncountedIsCorrupt | of more than 128 fragments, one is opened as an unfragmented packet, and is corrupt |

`Regular` says what section 3 shows to be needed: no payload, ciphertext or fragment has
a length that the wire changes, the ciphertext's fits a uint16_t, and there are at
most 128 fragments, which is as many as the scan finds: the last of 128 has the number 1. MCFragment assumes it of its instance, so that TLC evaluates it.
ReceivedLength carries RoundTrip and ThresholdsAreLost over to lengths; Cuts and CutsWithin
say what the division into fragments leaves. The network forgets what MTU a
message was cut for, so the invariant says there is one: Held, that all that is in
flight or kept of a message is of one cut, and, where nothing was repeated, in one
place each and gone together. Incomplete says that the scan finds a gap in all that is
kept. Gathered is the step that matters: when the scan ends at a last fragment, the pieces it
passed are all that were sent, because the scan stops at the least number that is
missing (LeastOf128, by doubling, in place of an induction). UncountedIsCorrupt says why
Regular bounds the number of fragments.

SendPathProofs proves of SendPath, for any clients, packets, priorities, queue bound,
spreads of the round trips, number of publications, and any network:

| theorem | statement |
|---|---|
| TypeCorrect | `Spec => []TypeOK` |
| PacketsAreKept | `Spec => []NothingForgotten` |
| AtMostTwice | `Spec => []SentAtMostTwice` |
| AckedReached | `Spec => []AckedWasReceived`, if there is one client |

The first three are one induction. Total counts the copies of a name that are about
to be queued, queued, transmitted or pushed out, and Accounted is the balance: the
total and the place in rtxList together are at most two for each publication; a cached
name has a copy; one that is not cached was acknowledged or has two. Every step is shown
to move copies, not to make them: Enqueue adds one of each name it is given, of
which a full queue moves some to `dropped` (EnqueueAdds, CountCut), RetransmitAck takes out of
rtxList what it queues (RetransmitAckMoves), the pacer moves one from a queue to the
history. The last needs Placed: a queue that is served holds packets of its priority
only; FecPipe's copies are in queue 0, which is not served (FecAddsNothing), and the
theorem would fail if it were. AckedReached adds RInv: all that is acknowledged on
the wire, in the hands of the receive thread or in prevAckSeqNum has been delivered.
For prevAckSeqNum, which has a number and no client, this needs the single client, and
SendPathTwoClients shows that it does.

RateCtrlProofs proves of RateCtrl, for any cycle length, phase length, estimates, gap and
clock difference, and all interleavings of the two threads:

| theorem | statement |
|---|---|
| TypeCorrect | `Spec => []TypeOK` |
| JudgedHasNoOpen | `Spec => []JudgedCompletely` |
| LostWasNotReceived | `Spec => []LostDidNotArrive` |
| SkewIsBracketed | `Spec => []SkewBracketed` |
| CountFollowsClock | `Spec => []CountWithinTime` |
| GivenUpLate | `Spec => GivenUpInTime` |
| RatesWereReached | `Spec => []RateWasReached` |

One inductive invariant has all but the last of them. Ordered (phases ascend along the
history and a judged phase is over) makes UpRange find all packets of a phase, whatever the
threads do until the count goes back. JudgedCompletely has the same condition: TLC finds it
violated without. Recorded says that what arrived is in the history, Timed that every
acknowledged packet has a flight of non-negative length. Two parts hold only while no
calls have overlapped: Alone says that what a thread has read of the clocks is still
so, and InTime bounds the phase of every packet by the time it was sent at. The
counting step needs the division of a time into phases (Division).
RatesWereReached is inductive with TypeOK and Deciding (a thread goes on to the targets
only when a cycle is over). The filter of the rate takes a sample whole or leaves it (RateAdded), a
sample counts packets of the judged phase only (JudgedRate), a target that follows is at
most the rate (TargetBelowRate), and what was delivered stays delivered (Grows): so a
bound that was reached stays in reach (ReachedGrows) while phases are judged again.

RelayProofs proves of Relay TypeCorrect and, where no two clients subscribe to one name
and every source is given with its sender (OwnNames), Refinement:
`Spec => ImplementsPubSub`, for any clients, names, publications and any network. RelaySharedName shows why OwnNames is needed. The invariant adds that every entry of the
table comes from a subscription; the look-up of the table finds exactly the entries
that cover a name (LooksUpWhatCovers). BroadcastRelayProofs proves TypeCorrect and GapsAreLosses
of BroadcastRelay, for every width of the number: the invariant Numbered relates every
copy in flight to the entry of its connection modulo `Word`.

Only model-checked: liveness under fairness, which is out of the prover's reach
(PendingResolves, HandshakeCompletes, PublishedIsDelivered, PublishedArrives,
ListDrains). Every invariant and every action property of the passing runs is a theorem.

## 5. What is not modelled

- Pacing: the delays between packets, and the rate command and its timers in
  runNetSend. They choose when a packet leaves, which PacerSends leaves open.
- RateCtrl: jitter, which nothing reads; the move of a history at 5000 packets; the logging
  of phases.
- Parsing and printing of qr:// names (shortName.cc), which serve the command-line
  tools; a name with a fourth part that ends in a slash is never finished there.
- Construction and destruction: the order in which pipes and threads end is undefined
  behaviour in the code (pacerPipe.cc:16, quicRClient.cc:50).
- Reading a truncated or foreign packet.
- Path tokens: the relay writes and reads them, and nothing depends on them. Two
  accesses beyond the end of the one-byte reset (packet.cc:187-214) are undefined
  behaviour without an effect on any state that is modelled.
- SFrame (vendored), sockets, command-line tools, other statistics and logging.
- Compositions that would show nothing new: SendPath above Connection (a packet that is sent
  before the handshake is over is lost, which SendPath's network may do), and
  SendPath with RateCtrl (GiveUp may happen at any time, RateCtrl says when).

## 6. Plan

Done, in this order: Connection with its proofs, SendPath, VarInt and Fragment, Relay
and BroadcastRelay, Wire, the proofs of VarInt; then RateCtrl with its proofs, the error
correction, queue bound and changing round trips of SendPath, and the proofs of Relay,
BroadcastRelay, SendPath, Fragment and Wire.

What would come next:

1. A fragment counter of few bits in Fragment, so that it overflows in a small instance.
2. The 5000 packets of an upstream history and the wrap of 32 bits of
   microseconds in RateCtrl.
