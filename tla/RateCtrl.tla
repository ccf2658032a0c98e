------------------------------ MODULE RateCtrl ------------------------------
(***************************************************************************)
(* RateCtrl of a client and the two threads of its PacerPipe that call it. *)
(*                                                                         *)
(* Time is cut into cycles of NumPhasePerCycle phases.  phaseCycleCount    *)
(* numbers the phases; every packet is recorded with the number of its     *)
(* phase, and when a phase is a round trip old, its packets are judged:    *)
(* those without an acknowledgement are lost.  What is judged feeds        *)
(* filters, and these set the target rates of the next cycle.              *)
(*                                                                         *)
(* Both threads begin with updatePhase, which takes no lock: between any   *)
(* two of its steps the other thread runs.                                 *)
(*                                                                         *)
(* Time is in ticks, a rate in packets per phase (all packets have one     *)
(* size).  A session is shorter than the 71 minutes after which 32 bits    *)
(* of microseconds wrap, and sends less than the 5000 packets a history    *)
(* has room for without moving.                                            *)
(***************************************************************************)
EXTENDS Integers, Sequences, FiniteSets

CONSTANTS
    PhaseTime,         \* phaseTimeUs
    NumPhasePerCycle,  \* numPhasePerCycle
    Milli,             \* ticks of a millisecond
    MaxGap,            \* the 5000 of recvPacket
    BigWindow,         \* numPacketsBackForBigRTT
    FirstMinRtt,       \* the estimates QuicRClient begins with
    FirstBigRtt,
    FirstRate,         \* the rate filterBitrateUp and Down begin with
    SetBigRtt,         \* the estimates the application may set instead
    SetRate,
    Garbage,           \* what an expression of a variable not initialised may be
    Skew,              \* how much the relay's clock is ahead
    SetUntil,          \* bound: when the application sets them at the latest
    MaxTime,           \* bound: ticks of a session
    MaxSent,           \* bound: packets the client sends
    MaxRelaySeq        \* bound: packets the relay sends

ASSUME RateCtrlAssumption ==
    /\ PhaseTime \in Nat \ {0} /\ NumPhasePerCycle \in Nat \ {0} /\ Milli \in Nat \ {0}
    /\ {MaxGap, BigWindow, FirstMinRtt, FirstBigRtt, FirstRate,
         SetBigRtt, SetRate} \subseteq Nat
    /\ Skew \in Int
    /\ Garbage \subseteq Int
    /\ {SetUntil, MaxTime, MaxSent, MaxRelaySeq} \subseteq Nat

Threads == {"send", "recv"}  \* runNetSend, runNetRecv

VARIABLES
    now,                  \* steady_clock
    phaseCycleCount,
    cycleStartTime,
    upstreamHistory,      \* by sequence number, which begins with 1
    downstreamHistory,    \* its entry i is of the relay's number offset + i - 1
    downHistorySeqOffset,
    filters,
    upstreamBitrateTarget,
    downstreamBitrateTarget,
    thread,               \* where each thread is, with its local variables
    judged,               \* history: the phases calcPhaseAll has judged
    arrived,              \* history: the relay's numbers that arrived since
                          \* downstreamHistory was cleared
    overlapped,           \* history: two calls of updatePhase have overlapped
    rewound               \* history: phaseCycleCount has gone back

clocks == <<phaseCycleCount, cycleStartTime>>
histories == <<upstreamHistory, downstreamHistory, downHistorySeqOffset>>
targets == <<upstreamBitrateTarget, downstreamBitrateTarget>>
vars == <<now, clocks, histories, filters, targets, thread,
          judged, arrived, overlapped, rewound>>

-----------------------------------------------------------------------------
(* Filters *)

Gains ==
    [minRTT         |-> [up |-> 102,  down |-> 1024],
     bigRTT         |-> [up |-> 1024, down |-> 10],
     lowerBoundSkew |-> [up |-> 1024, down |-> 1],
     upperBoundSkew |-> [up |-> 1,    down |-> 1024],
     lossUp         |-> [up |-> 102,  down |-> 102],
     lossDown       |-> [up |-> 102,  down |-> 102],
     bitrateUp      |-> [up |-> 1024, down |-> 0],
     bitrateDown    |-> [up |-> 1024, down |-> 0]]

FilterNames == DOMAIN Gains

Filter == [value : Int, initOnFirst : BOOLEAN]

\* The constructors of RateCtrl and, for the round trips, QuicRClient's first
\* call of updateRTT; the first startNewCycle has reset the last four.
FirstFilters ==
    [f \in FilterNames |->
        [value |-> CASE f = "minRTT" -> FirstMinRtt
                     [] f = "bigRTT" -> FirstBigRtt
                     [] f \in {"bitrateUp", "bitrateDown"} -> FirstRate
                     [] OTHER -> 0,
         initOnFirst |-> f \notin {"minRTT", "bigRTT"}]]

\* Filter::override
Estimate(v) == [value |-> v, initOnFirst |-> FALSE]

\* Division of C++, which truncates
Truncated(a, b) == IF a >= 0 THEN a \div b ELSE -((-a) \div b)

\* Filter::add
Added(f, v) ==
    LET old == filters[f].value
        gain == IF v > old THEN Gains[f].up ELSE Gains[f].down
    IN [value |-> IF filters[f].initOnFirst THEN v
                  ELSE Truncated(v * gain + old * (1024 - gain), 1024),
        initOnFirst |-> FALSE]

-----------------------------------------------------------------------------
(* Judging a phase *)

Smaller(a, b) == IF a < b THEN a ELSE b
Larger(a, b) == IF a < b THEN b ELSE a

\* How many phases calcPhaseAll looks back
PhasesBack == filters["bigRTT"].value \div PhaseTime + 1

\* The upstream packets up to the last that is not of a later phase.  The vector's
\* entry 0, of no packet, ends the search.
UpTo(phase) ==
    LET h == upstreamHistory
    IN {i \in DOMAIN h : \E k \in i .. Len(h) : h[k].sendPhaseCount <= phase}

\* Faulty UpRange: the last packet is left out.
UpRangeShort(phase) ==
    {i \in UpTo(phase) :
        /\ i + 1 \in UpTo(phase)
        /\ \A j \in UpTo(phase) : j >= i => upstreamHistory[j].sendPhaseCount = phase}

\* Faulty UpRange: packets of earlier phases are counted again.
UpRangeAll(phase) == UpTo(phase)

\* Those of the phase itself, from there back
UpRange(phase) ==
    {i \in UpTo(phase) : \A j \in UpTo(phase) :
        j >= i => upstreamHistory[j].sendPhaseCount = phase}

\* The same downstream.  An entry that has not arrived, or that was given up, belongs
\* to the phase of the packets around it.
DownTo(phase) ==
    LET h == downstreamHistory
    IN {i \in DOMAIN h : \E k \in i .. Len(h) :
           h[k].status = "received" /\ h[k].sendPhaseCount <= phase}
DownRange(phase) ==
    LET h == downstreamHistory
    IN {i \in DownTo(phase) : \A j \in DownTo(phase) :
           j >= i /\ h[j].status = "received" => h[j].sendPhaseCount = phase}

WithStatus(S, status) == {i \in S : upstreamHistory[i].status = status}
Received(S) == {i \in S : downstreamHistory[i].status = "received"}
Rtt(i) == upstreamHistory[i].localAckTime - upstreamHistory[i].localSendTime

\* Of how many in a million a part is missing, if there are any
LossPerMillion(part, whole) ==
    IF whole = {} THEN {}
    ELSE {(Cardinality(whole \ part) * 1000000) \div Cardinality(whole)}

\* Packets per phase, if there are any
Rate(S) == IF S = {} THEN {} ELSE {Cardinality(S)}

Least(S) == {x \in S : \A y \in S : x <= y}
Greatest(S) == {x \in S : \A y \in S : y <= x}

\* calcPhaseBigRTT: of the sorted round trips, the one at 98 per cent; from the
\* phase and the packets before it
BigRtt(phase) ==
    LET start == Cardinality(UpTo(phase)) - Cardinality(UpRange(phase)) + 1
        acked == WithStatus({i \in UpTo(phase) : i >= start - BigWindow}, "ack")
        rank == ((Cardinality(acked) - 1) * 98) \div 100
    IN IF Cardinality(acked) <= 1 THEN {}
       ELSE {r \in {Rtt(i) : i \in acked} :
                /\ Cardinality({i \in acked : Rtt(i) < r}) <= rank
                /\ Cardinality({i \in acked : Rtt(i) <= r}) > rank}

\* What the calcPhase functions add to each filter: {} or one value
Sample(f, phase) ==
    LET h == upstreamHistory
        up == UpRange(phase)
        down == DownRange(phase)
        acked == WithStatus(up, "ack")
        delivered == acked \cup WithStatus(up, "received")
    IN CASE f = "bigRTT"      -> BigRtt(phase)
         [] f = "minRTT"      -> Least({Rtt(i) : i \in acked})
         [] f = "lowerBoundSkew" ->
               Greatest({h[i].remoteReceiveTime - h[i].localAckTime : i \in acked})
         [] f = "upperBoundSkew" ->
               Least({h[i].remoteReceiveTime - h[i].localSendTime : i \in acked})
         [] f = "lossUp"      -> LossPerMillion(delivered, up)
         [] f = "lossDown"    -> LossPerMillion(Received(down), down)
         [] f = "bitrateUp"   -> Rate(delivered)
         [] f = "bitrateDown" -> Rate(Received(down))

\* calcPhaseLossRateUp and calcPhaseLossRateDown: what is missing is lost.
GivenUp(phase) ==
    [i \in DOMAIN upstreamHistory |->
        IF i \in UpRange(phase) /\ upstreamHistory[i].status = "sent"
        THEN [upstreamHistory[i] EXCEPT !.status = "lost"]
        ELSE upstreamHistory[i]]
GivenUpDown(phase) ==
    [i \in DOMAIN downstreamHistory |->
        IF i \in DownRange(phase) /\ downstreamHistory[i].status # "received"
        THEN [downstreamHistory[i] EXCEPT !.status = "lost"]
        ELSE downstreamHistory[i]]

-----------------------------------------------------------------------------
(* updatePhase, step by step *)

NoPacket == [type |-> "none"]
Idle == [pc |-> "idle", packet |-> NoPacket, at |-> 0,
         new |-> 0, old |-> 0, count |-> 0]

InUpdate(t) == thread[t].pc # "idle" /\ thread[t].pc # "record"

\* A thread has a packet, looks at the clock for it and calls sendPacket, recvAck
\* or recvPacket, which call updatePhase: it looks at the clock, too.
Enter(t, packet) ==
    /\ thread[t].pc = "idle"
    /\ thread' = [thread EXCEPT ![t] =
          [Idle EXCEPT !.pc = "clock", !.packet = packet, !.at = now]]
    /\ overlapped' = (overlapped \/ \E u \in Threads : InUpdate(u))
    /\ UNCHANGED <<now, clocks, histories, filters, targets, judged, arrived, rewound>>

\* updatePhase returns, and its variables are gone.
Returned(x) == [x EXCEPT !.pc = "record", !.new = 0, !.old = 0, !.count = 0]

\* A cycleStartTime that the other thread has set meanwhile is later than the
\* time at hand: the difference wraps and counts for any number of phases.
PhaseOf(at) ==
    IF at >= cycleStartTime THEN (at - cycleStartTime) \div PhaseTime
    ELSE NumPhasePerCycle

\* newPhase, from the start of the cycle
ReadStart(t) ==
    /\ thread[t].pc = "clock"
    /\ thread' = [thread EXCEPT ![t].new = PhaseOf(thread[t].at), ![t].pc = "phase"]
    /\ UNCHANGED <<now, clocks, histories, filters, targets,
                   judged, arrived, overlapped, rewound>>

\* and oldPhase, from the count
ReadPhase(t) ==
    /\ thread[t].pc = "phase"
    /\ LET new == thread[t].new
           old == phaseCycleCount % NumPhasePerCycle
       IN thread' = [thread EXCEPT ![t] =
             IF new >= NumPhasePerCycle \/ new > old
             THEN [@ EXCEPT !.old = old, !.pc = "judge"] ELSE Returned(@)]
    /\ UNCHANGED <<now, clocks, histories, filters, targets,
                   judged, arrived, overlapped, rewound>>

\* startNewPhase, which is calcPhaseAll
CalcPhaseAll(t) ==
    LET phase == phaseCycleCount - PhasesBack
    IN /\ thread[t].pc = "judge"
       /\ thread' = [thread EXCEPT ![t].pc =
              IF thread[t].new >= NumPhasePerCycle THEN "target" ELSE "count"]
       /\ IF PhasesBack >= phaseCycleCount
          THEN UNCHANGED <<histories, filters, judged>>
          ELSE /\ upstreamHistory' = GivenUp(phase)
               /\ downstreamHistory' = GivenUpDown(phase)
               /\ filters' = [f \in FilterNames |->
                      IF Sample(f, phase) = {} THEN filters[f]
                      ELSE Added(f, CHOOSE v \in Sample(f, phase) : TRUE)]
               /\ judged' = judged \cup {phase}
               /\ UNCHANGED downHistorySeqOffset
       /\ UNCHANGED <<now, clocks, targets, arrived, overlapped, rewound>>

\* cycleUpdateUpstreamTarget: with 60 per cent lost, half of what it was; else
\* what worked, and never more than half more than it was.  A negative target is a
\* rest of the one that was not initialised: its half, and its triple that does not
\* fit into 64 bits, are as good as anything.
NextTargetsUp ==
    LET rate == filters["bitrateUp"].value
        next == IF filters["lossUp"].value > 600 * 1000
                THEN upstreamBitrateTarget \div 2
                ELSE (upstreamBitrateTarget * 3) \div 2
    IN {Smaller(rate, v) : v \in IF upstreamBitrateTarget < 0 THEN Garbage ELSE {next}}

\* cycleUpdateDownstreamTarget
NextTargetDown ==
    LET rate == filters["bitrateDown"].value
    IN IF filters["lossDown"].value > 600 * 1000
       THEN Smaller(downstreamBitrateTarget \div 2, rate) ELSE rate

\* The round trips go from startNewCycle up to StatsPipe, which makes the large one
\* the larger, and by updateRTT down to overrideRTT: as uint16_t milliseconds.
InMillis(v) == (v \div Milli) % 65536
StatsRtt ==
    LET minRtt == InMillis(filters["minRTT"].value)
        bigRtt == InMillis(filters["bigRTT"].value)
    IN [min |-> minRtt,
        big |-> IF minRtt > bigRtt THEN ((minRtt * 3) \div 2) % 65536 ELSE bigRtt]

\* startNewCycle: the targets and the round trips
StartNewCycle(t) ==
    /\ thread[t].pc = "target"
    /\ thread' = [thread EXCEPT ![t].pc = "reset"]
    /\ upstreamBitrateTarget' \in NextTargetsUp
    /\ downstreamBitrateTarget' = NextTargetDown
    /\ filters' = [filters EXCEPT !["minRTT"] = Estimate(Milli * StatsRtt.min),
                                  !["bigRTT"] = Estimate(Milli * StatsRtt.big)]
    /\ UNCHANGED <<now, clocks, histories, judged, arrived, overlapped, rewound>>

\* Faulty ResetCycle: the cycle's start time is not set.
ResetCycleNoStart(t) ==
    /\ thread[t].pc = "reset"
    /\ thread' = [thread EXCEPT ![t].pc = "count"]
    /\ filters' = [f \in FilterNames |->
           IF f \in {"bitrateUp", "bitrateDown", "lossUp", "lossDown"}
           THEN [filters[f] EXCEPT !.initOnFirst = TRUE] ELSE filters[f]]
    /\ UNCHANGED <<now, clocks, histories, targets,
                   judged, arrived, overlapped, rewound>>

\* and the end of startNewCycle
ResetCycle(t) ==
    /\ thread[t].pc = "reset"
    /\ thread' = [thread EXCEPT ![t].pc = "count"]
    /\ cycleStartTime' = now
    /\ filters' = [f \in FilterNames |->
           IF f \in {"bitrateUp", "bitrateDown", "lossUp", "lossDown"}
           THEN [filters[f] EXCEPT !.initOnFirst = TRUE] ELSE filters[f]]
    /\ UNCHANGED <<now, phaseCycleCount, histories, targets,
                   judged, arrived, overlapped, rewound>>

\* phaseCycleCount++ and += read the count and write it.  Nothing keeps the other
\* thread from counting between the two: what it counted is overwritten.
LoadCount(t) ==
    /\ thread[t].pc = "count"
    /\ thread' = [thread EXCEPT ![t].count = phaseCycleCount, ![t].pc = "store"]
    /\ UNCHANGED <<now, clocks, histories, filters, targets,
                   judged, arrived, overlapped, rewound>>

\* Faulty CountPhase: the phases are subtracted the wrong way round.
CountPhaseBack(t) ==
    /\ thread[t].pc = "store"
    /\ thread' = [thread EXCEPT ![t] = Returned(@)]
    /\ phaseCycleCount' = thread[t].count
          + (IF thread[t].new >= NumPhasePerCycle THEN 1
             ELSE thread[t].old - thread[t].new)
    /\ rewound' = (rewound \/ phaseCycleCount' < phaseCycleCount)
    /\ UNCHANGED <<now, cycleStartTime, histories, filters, targets,
                   judged, arrived, overlapped>>

\* Faulty CountPhase: the new phase is added, not the difference.
CountPhaseNoOld(t) ==
    /\ thread[t].pc = "store"
    /\ thread' = [thread EXCEPT ![t] = Returned(@)]
    /\ phaseCycleCount' = thread[t].count
          + (IF thread[t].new >= NumPhasePerCycle THEN 1 ELSE thread[t].new)
    /\ rewound' = (rewound \/ phaseCycleCount' < phaseCycleCount)
    /\ UNCHANGED <<now, cycleStartTime, histories, filters, targets,
                   judged, arrived, overlapped>>

CountPhase(t) ==
    /\ thread[t].pc = "store"
    /\ thread' = [thread EXCEPT ![t] = Returned(@)]
    /\ phaseCycleCount' = thread[t].count
          + (IF thread[t].new >= NumPhasePerCycle THEN 1
             ELSE thread[t].new - thread[t].old)
    /\ rewound' = (rewound \/ phaseCycleCount' < phaseCycleCount)
    /\ UNCHANGED <<now, cycleStartTime, histories, filters, targets,
                   judged, arrived, overlapped>>

-----------------------------------------------------------------------------
(* What the two threads call updatePhase for *)

\* runNetSend has a packet, as many as the application gives it.
Sends ==
    /\ Len(upstreamHistory) < MaxSent
    /\ Enter("send", [type |-> "send"])

\* and sendPacket records it; after that it is on the wire.
SendPacket ==
    /\ thread["send"].pc = "record"
    /\ upstreamHistory' = Append(upstreamHistory,
          [sendPhaseCount |-> phaseCycleCount, status |-> "sent",
           localSendTime |-> thread["send"].at,
           remoteReceiveTime |-> 0, localAckTime |-> 0])
    /\ thread' = [thread EXCEPT !["send"] = Idle]
    /\ UNCHANGED <<now, clocks, downstreamHistory, downHistorySeqOffset, filters,
                   targets, judged, arrived, overlapped, rewound>>

\* runNetRecv has an acknowledgement: the relay took packet seq at some time since
\* it was sent.  A redundant one is not the answer to that packet, and its time,
\* here any, is never looked at.
RecvsAck ==
    \E seq \in DOMAIN upstreamHistory, haveAck \in BOOLEAN :
        \E at \in {now} \cup
                   (IF haveAck THEN {upstreamHistory[seq].localSendTime} ELSE {}) :
            Enter("recv", [type |-> "ack", seq |-> seq, haveAck |-> haveAck,
                           remoteAckTime |-> at + Skew])

\* Faulty RecvAck: the time of the acknowledgement is not recorded.
RecvAckNoTime ==
    LET p == thread["recv"].packet
        status == IF p.haveAck THEN "ack"
                  ELSE IF upstreamHistory[p.seq].status = "sent" THEN "received"
                  ELSE upstreamHistory[p.seq].status
    IN /\ thread["recv"].pc = "record" /\ p.type = "ack"
       /\ upstreamHistory' = [upstreamHistory EXCEPT ![p.seq].status = status,
                                   ![p.seq].remoteReceiveTime = p.remoteAckTime]
       /\ thread' = [thread EXCEPT !["recv"] = Idle]
       /\ UNCHANGED <<now, clocks, downstreamHistory, downHistorySeqOffset, filters,
                      targets, judged, arrived, overlapped, rewound>>

\* recvAck.  RetransmitPipe::ack, which it calls, is in SendPath.
RecvAck ==
    LET p == thread["recv"].packet
        rec == upstreamHistory[p.seq]
    IN /\ thread["recv"].pc = "record" /\ p.type = "ack"
       /\ upstreamHistory' =
             IF p.haveAck
             THEN [upstreamHistory EXCEPT ![p.seq].status = "ack",
                       ![p.seq].remoteReceiveTime = p.remoteAckTime,
                       ![p.seq].localAckTime = thread["recv"].at]
             ELSE IF rec.status = "sent"
             THEN [upstreamHistory EXCEPT ![p.seq].status = "received"]
             ELSE upstreamHistory
       /\ thread' = [thread EXCEPT !["recv"] = Idle]
       /\ UNCHANGED <<now, clocks, downstreamHistory, downHistorySeqOffset, filters,
                      targets, judged, arrived, overlapped, rewound>>

\* runNetRecv has a publication, in any order and repeated.  The relay sends to
\* a client that has subscribed.
RecvsData ==
    /\ upstreamHistory # <<>>
    /\ \E seq \in 1 .. MaxRelaySeq : Enter("recv", [type |-> "data", seq |-> seq])

\* Faulty RecvPacket: a packet that comes after its phase was judged is ignored.
RecvPacketInTime ==
    LET p == thread["recv"].packet
        far == p.seq - downHistorySeqOffset > MaxGap \/ downHistorySeqOffset - p.seq > MaxGap
        offset == IF far THEN p.seq ELSE downHistorySeqOffset
        history == IF far THEN <<>> ELSE downstreamHistory
        index == p.seq - offset + 1
        missing == [sendPhaseCount |-> 0, status |-> "none"]
    IN /\ thread["recv"].pc = "record" /\ p.type = "data"
       /\ downHistorySeqOffset' = offset
       /\ downstreamHistory' =
             IF index < 1 \/ (index \in DOMAIN history /\ history[index].status = "lost")
             THEN history
             ELSE [i \in 1 .. Larger(index, Len(history)) |->
                      IF i = index
                      THEN [sendPhaseCount |-> phaseCycleCount, status |-> "received"]
                      ELSE IF i \in DOMAIN history THEN history[i] ELSE missing]
       /\ arrived' = (IF far THEN {} ELSE arrived) \cup {p.seq}
       /\ thread' = [thread EXCEPT !["recv"] = Idle]
       /\ UNCHANGED <<now, clocks, upstreamHistory, filters, targets,
                      judged, overlapped, rewound>>

\* recvPacket: a number that is far from the offset clears the history, one below
\* the offset is not recorded.
RecvPacket ==
    LET p == thread["recv"].packet
        far == p.seq - downHistorySeqOffset > MaxGap \/ downHistorySeqOffset - p.seq > MaxGap
        offset == IF far THEN p.seq ELSE downHistorySeqOffset
        history == IF far THEN <<>> ELSE downstreamHistory
        index == p.seq - offset + 1
        missing == [sendPhaseCount |-> 0, status |-> "none"]
    IN /\ thread["recv"].pc = "record" /\ p.type = "data"
       /\ downHistorySeqOffset' = offset
       /\ downstreamHistory' =
             IF index < 1 THEN history
             ELSE [i \in 1 .. Larger(index, Len(history)) |->
                      IF i = index
                      THEN [sendPhaseCount |-> phaseCycleCount, status |-> "received"]
                      ELSE IF i \in DOMAIN history THEN history[i] ELSE missing]
       /\ arrived' = (IF far THEN {} ELSE arrived) \cup {p.seq}
       /\ thread' = [thread EXCEPT !["recv"] = Idle]
       /\ UNCHANGED <<now, clocks, upstreamHistory, filters, targets,
                      judged, overlapped, rewound>>

\* setRttEstimate and setBitrateUp of the application, which are overrideRTT and
\* overrideBitrateUp; the smaller round trip stays.
OverrideRTT ==
    /\ now <= SetUntil
    /\ filters' = [filters EXCEPT !["bigRTT"] = Estimate(SetBigRtt)]
    /\ UNCHANGED <<now, clocks, histories, targets, thread,
                   judged, arrived, overlapped, rewound>>

OverrideBitrateUp ==
    /\ now <= SetUntil
    /\ filters' = [filters EXCEPT !["bitrateUp"] = Estimate(SetRate)]
    /\ upstreamBitrateTarget' = SetRate
    /\ UNCHANGED <<now, clocks, histories, downstreamBitrateTarget, thread,
                   judged, arrived, overlapped, rewound>>

Tick ==
    /\ now < MaxTime
    /\ now' = now + 1
    /\ UNCHANGED <<clocks, histories, filters, targets, thread,
                   judged, arrived, overlapped, rewound>>

UpdatePhase(t) ==
    \/ ReadStart(t) \/ ReadPhase(t)
    \/ CalcPhaseAll(t) \/ StartNewCycle(t) \/ ResetCycle(t)
    \/ LoadCount(t) \/ CountPhase(t)

Next ==
    \/ \E t \in Threads : UpdatePhase(t)
    \/ Sends \/ SendPacket
    \/ RecvsAck \/ RecvAck
    \/ RecvsData \/ RecvPacket
    \/ OverrideRTT \/ OverrideBitrateUp
    \/ Tick

\* startNewCycle takes the first target from an upstreamBitrateTarget that is not
\* initialised, as the smaller of one and a half times that and the first estimate.
Init ==
    /\ now = 0
    /\ phaseCycleCount = 0
    /\ cycleStartTime = 0
    /\ upstreamHistory = <<>>
    /\ downstreamHistory = <<>>
    /\ downHistorySeqOffset = 0
    /\ filters = FirstFilters
    /\ upstreamBitrateTarget \in {Smaller(FirstRate, v) : v \in Garbage}
    /\ downstreamBitrateTarget = FirstRate
    /\ thread = [t \in Threads |-> Idle]
    /\ judged = {}
    /\ arrived = {}
    /\ overlapped = FALSE
    /\ rewound = FALSE

Spec == Init /\ [][Next]_vars

-----------------------------------------------------------------------------
(* Properties *)

UpRecord ==
    [sendPhaseCount : Nat, status : {"sent", "received", "ack", "lost"},
     localSendTime : 0 .. MaxTime, remoteReceiveTime : Int, localAckTime : 0 .. MaxTime]
DownRecord == [sendPhaseCount : Nat, status : {"none", "received", "lost"}]

Packet ==
    [type : {"none", "send"}] \cup [type : {"data"}, seq : 1 .. MaxRelaySeq]
    \cup [type : {"ack"}, seq : Nat, haveAck : BOOLEAN, remoteAckTime : Int]
ThreadState ==
    [pc : {"idle", "clock", "phase", "judge", "target", "reset",
           "count", "store", "record"},
     packet : Packet, at : 0 .. MaxTime, new : Nat, old : Nat, count : Nat]

\* Every variable has its type.
TypeOK ==
    /\ now \in 0 .. MaxTime
    /\ phaseCycleCount \in Nat /\ cycleStartTime \in 0 .. MaxTime
    /\ upstreamHistory \in Seq(UpRecord) /\ downstreamHistory \in Seq(DownRecord)
    /\ downHistorySeqOffset \in Nat
    /\ filters \in [FilterNames -> Filter]
    /\ upstreamBitrateTarget \in Int /\ downstreamBitrateTarget \in Int
    /\ thread \in [Threads -> ThreadState]
    /\ judged \subseteq Nat /\ arrived \subseteq 1 .. MaxRelaySeq
    /\ overlapped \in BOOLEAN /\ rewound \in BOOLEAN

\* The phase count never runs ahead of the clock, unless two calls of updatePhase
\* overlapped (rateCtrl.cc:169-189): a cycle that begins after a pause, in the
\* middle of the count, does not count phases that did not pass.
CountWithinTime == ~overlapped => phaseCycleCount * PhaseTime <= now

\* A packet is given up only when more than the large round trip has passed since
\* it was sent (rateCtrl.cc:365-388), although it was sent late in its phase and
\* phases are skipped in a pause; again unless two calls overlapped.
GivenUpInTime ==
    [][\A i \in DOMAIN upstreamHistory :
          /\ ~overlapped
          /\ upstreamHistory[i].status # "lost" /\ upstreamHistory'[i].status = "lost"
          => now - upstreamHistory[i].localSendTime > filters["bigRTT"].value]_vars

\* No packet of a phase that was judged is still open, also when both threads
\* judge at once (rateCtrl.cc:181-189, 374-388): a phase that is judged gets no
\* packets any more, and its packets are where calcPhaseAll looks for them.  It takes
\* a count that goes back to break this: one thread reads it for its sum, and the
\* other counts further before that sum is written.
JudgedCompletely ==
    ~rewound => \A i \in DOMAIN upstreamHistory :
        upstreamHistory[i].sendPhaseCount \in judged => upstreamHistory[i].status # "sent"

\* What is counted lost downstream has not arrived since the history was cleared
\* (rateCtrl.cc:264-320, 681-686), however publications are reordered, and though
\* one may arrive after it was given up.
LostDidNotArrive ==
    \A i \in DOMAIN downstreamHistory :
        downstreamHistory[i].status = "lost" => downHistorySeqOffset + i - 1 \notin arrived

\* The upstream rate, and so the target, is one at which packets were delivered:
\* no more than those of a single phase (rateCtrl.cc:714-754, 786-803).  The numbers
\* are the signed ones of cycleUpdateUpstreamTarget: bwUpTarget reads a negative
\* rest of the uninitialised target as beyond all rates.
RateWasReached ==
    LET delivered(p) == {i \in DOMAIN upstreamHistory :
                            /\ upstreamHistory[i].sendPhaseCount = p
                            /\ upstreamHistory[i].status \in {"received", "ack"}}
        reached == {FirstRate, SetRate} \cup {Cardinality(delivered(p)) : p \in judged}
    IN \E rate \in reached : /\ filters["bitrateUp"].value <= rate
                              /\ upstreamBitrateTarget <= rate

\* The difference of the two clocks lies between its estimated bounds, once there
\* are any (rateCtrl.cc:485-533).
SkewBracketed ==
    /\ ~filters["lowerBoundSkew"].initOnFirst => filters["lowerBoundSkew"].value <= Skew
    /\ ~filters["upperBoundSkew"].initOnFirst => filters["upperBoundSkew"].value >= Skew
=============================================================================
