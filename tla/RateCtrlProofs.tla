--------------------------- MODULE RateCtrlProofs ---------------------------
(***************************************************************************)
(* Proofs about RateCtrl and the two threads that call it, for phases and  *)
(* cycles of any length and sessions of any size.                          *)
(*                                                                         *)
(* What holds although updatePhase takes no lock: the types, the bounds of *)
(* the clocks' difference, and, unless an overwritten count goes back,     *)
(* that a judged phase has no open packet.                                 *)
(* What holds as long as two calls of it do not overlap: the phase count   *)
(* follows the clock, and no packet is given up early.                     *)
(***************************************************************************)
EXTENDS RateCtrl, FiniteSetTheorems, TLAPS

\* A thread goes beyond ReadPhase only to count, and targets only with a cycle.
Deciding ==
    \A t \in Threads :
        /\ thread[t].pc \in {"judge", "target", "reset", "count", "store"} =>
              thread[t].new >= NumPhasePerCycle \/ thread[t].new > thread[t].old
        /\ thread[t].pc \in {"target", "reset"} => thread[t].new >= NumPhasePerCycle
        /\ thread[t].pc # "idle" => thread[t].packet.type \in
              (IF t = "send" THEN {"send"} ELSE {"ack", "data"})

\* What is recorded lies between the sending and now, on the relay's clock too.
WithinFlight(sent, remote, ack) ==
    sent <= ack /\ sent + Skew <= remote /\ remote <= ack + Skew
Timed ==
    /\ \A t \in Threads : thread[t].at <= now
    /\ \A i \in DOMAIN upstreamHistory :
          LET h == upstreamHistory[i]
          IN /\ h.localSendTime <= now
             /\ h.status = "ack" =>
                   WithinFlight(h.localSendTime, h.remoteReceiveTime, h.localAckTime)
    /\ LET p == thread["recv"].packet
       IN p.type = "ack" =>
             /\ p.seq \in DOMAIN upstreamHistory
             /\ WithinFlight(upstreamHistory[p.seq].localSendTime,
                             p.remoteAckTime, thread["recv"].at)

\* A round trip is not negative.
RttIsTime == filters["bigRTT"].value >= 0

\* The history is ordered by phase, and what is judged is over.
Ordered ==
    /\ \A i, j \in DOMAIN upstreamHistory :
          i <= j => upstreamHistory[i].sendPhaseCount <= upstreamHistory[j].sendPhaseCount
    /\ \A i \in DOMAIN upstreamHistory :
          upstreamHistory[i].sendPhaseCount <= phaseCycleCount
    /\ \A p \in judged : p < phaseCycleCount

\* A publication that arrived is in the history, unless it is before its begin.
Recorded ==
    \A n \in arrived : n >= downHistorySeqOffset =>
        /\ n - downHistorySeqOffset + 1 \in DOMAIN downstreamHistory
        /\ downstreamHistory[n - downHistorySeqOffset + 1].status = "received"

\* A thread that has started a cycle and not counted its first phase yet
Begins(t) == thread[t].pc \in {"count", "store"} /\ thread[t].new >= NumPhasePerCycle

\* The number of the phase, counted as soon as its cycle has started, and the
\* time it starts at
Count == phaseCycleCount + (IF \E t \in Threads : Begins(t) THEN 1 ELSE 0)
PhaseStart == cycleStartTime + (Count % NumPhasePerCycle) * PhaseTime

\* What thread x has read is still so, with the start of the cycle and the count.
Consistent(x, start, count) ==
    /\ x.pc = "clock" => start <= x.at
    /\ x.pc \in {"phase", "judge", "count", "store"} /\ x.new < NumPhasePerCycle =>
          /\ start + PhaseTime * x.new <= x.at
          /\ x.at < start + PhaseTime * x.new + PhaseTime
    /\ x.pc \in {"judge", "count", "store"} /\ x.new < NumPhasePerCycle =>
          x.old = count % NumPhasePerCycle
    /\ x.pc \in {"phase", "judge", "target", "reset"} /\ x.new >= NumPhasePerCycle =>
          start + PhaseTime * NumPhasePerCycle <= x.at
    /\ x.pc \in {"count", "store"} /\ x.new >= NumPhasePerCycle => x.at <= start
    /\ x.pc = "store" => x.count = count

\* One thread is in updatePhase, and what it has read is still so.
Alone ==
    /\ \A t, u \in Threads : InUpdate(t) /\ InUpdate(u) => t = u
    /\ cycleStartTime <= now
    /\ \A t \in Threads : Consistent(thread[t], cycleStartTime, phaseCycleCount)

\* With the count at number, whose phase begins at start: a packet sent at the time
\* sent was sent before the end of the phase it has.
SentBefore(sent, phase, number, start) ==
    sent + (number - phase) * PhaseTime < start + PhaseTime

\* The count is behind the clock, and so are the packets' phases.
Behind ==
    /\ Count * PhaseTime <= PhaseStart
    /\ Count * PhaseTime <= cycleStartTime \/ PhaseStart <= now
InTime ==
    /\ Behind
    /\ \A i \in DOMAIN upstreamHistory :
          SentBefore(upstreamHistory[i].localSendTime, upstreamHistory[i].sendPhaseCount,
                     Count, PhaseStart)
    /\ thread["send"].pc = "record" =>
          SentBefore(thread["send"].at, phaseCycleCount, Count, PhaseStart)

\* The inductive invariant.
IInv ==
    /\ TypeOK
    /\ Deciding
    /\ Timed
    /\ RttIsTime
    /\ SkewBracketed
    /\ ~rewound => Ordered
    /\ JudgedCompletely
    /\ Recorded
    /\ LostDidNotArrive
    /\ ~overlapped => Alone /\ InTime

-----------------------------------------------------------------------------
(* Multiples and remainders, of which the provers know little *)

\* Quotient and remainder.
LEMMA Division ==
  ASSUME NEW a \in Int, NEW d \in Nat \ {0}
  PROVE  /\ a \div d \in Int /\ a % d \in 0 .. d - 1
         /\ a % d = a - d * (a \div d)
         /\ a >= 0 => a \div d >= 0
<1>1. a \div d \in Int /\ a % d \in 0 .. d - 1
  BY SMTT(30)
<1>2. a % d = a - d * (a \div d)
  BY SMTT(30)
<1>3. ASSUME a >= 0, a \div d <= -1
      PROVE  FALSE
  <2>1. d * (a \div d) <= -d
    BY <1>1, <1>3
  <2> QED
    BY <1>1, <1>2, <1>3, <2>1
<1> QED
  BY <1>1, <1>2, <1>3

\* Multiples are ordered as what they are multiples of.
LEMMA Multiplied ==
  ASSUME NEW a \in Int, NEW b \in Int, NEW d \in Nat, a <= b
  PROVE  a * d <= b * d /\ d * a <= d * b
<1>1. (b - a) \in Nat
  OBVIOUS
<1>2. (b - a) * d >= 0
  BY <1>1
<1> QED
  BY <1>2

\* The only multiple of d between -d and d
LEMMA SmallMultiple ==
  ASSUME NEW d \in Nat \ {0}, NEW q \in Int, d * q < d, -d < d * q
  PROVE  q = 0
<1>1. CASE q >= 1
  <2>1. d * q >= d
    BY <1>1
  <2> QED
    BY <2>1
<1>2. CASE q <= -1
  <2>1. d * q <= -d
    BY <1>2
  <2> QED
    BY <2>1
<1> QED
  BY <1>1, <1>2

\* There is one remainder.
LEMMA Remainder ==
  ASSUME NEW d \in Nat \ {0}, NEW q \in Int, NEW r \in 0 .. d - 1
  PROVE  (d * q + r) % d = r
<1> DEFINE a == d * q + r
           p == a \div d
           rest == a % d
<1>0. a \in Int /\ r \in Int /\ 0 <= r /\ r < d
  OBVIOUS
<1>8. a = d * q + r
  OBVIOUS
<1> HIDE DEF a
<1>1. p \in Int /\ rest \in 0 .. d - 1 /\ rest = a - d * p
  BY <1>0, Division
<1> HIDE DEF p, rest
<1>3. d * (q - p) = d * q - d * p /\ d * p \in Int /\ d * q \in Int
  BY <1>1
<1>4. d * (q - p) = rest - r
  BY <1>0, <1>1, <1>3, <1>8
<1>5. q - p \in Int /\ d * (q - p) < d /\ -d < d * (q - p)
  BY <1>0, <1>1, <1>4
<1>6. q - p = 0
  BY <1>5, SmallMultiple
<1>7. d * (q - p) = 0
  BY <1>6
<1>9. rest = r
  BY <1>0, <1>1, <1>4, <1>7
<1> QED
  BY <1>9 DEF rest, a

-----------------------------------------------------------------------------
(* Filters and samples *)

USE DEF vars, clocks, histories, targets

LEMMA GainsTyped ==
  ASSUME NEW f \in FilterNames
  PROVE  Gains[f].up \in Int /\ Gains[f].down \in Int
BY DEF FilterNames, Gains

LEMMA TruncatedTyped ==
  ASSUME NEW a \in Int
  PROVE  Truncated(a, 1024) \in Int
BY DEF Truncated

\* Division that truncates does not leave the bounds, which are whole.
LEMMA TruncatedWithin ==
  ASSUME NEW a \in Int, NEW k \in Int
  PROVE  /\ a <= 1024 * k => Truncated(a, 1024) <= k
         /\ a >= 1024 * k => Truncated(a, 1024) >= k
BY DEF Truncated

LEMMA AddedTyped ==
  ASSUME TypeOK, NEW f \in FilterNames, NEW v \in Int
  PROVE  Added(f, v) \in Filter
<1>1. filters[f] \in Filter
  BY DEF TypeOK
<1> DEFINE old == filters[f].value
           gain == IF v > old THEN Gains[f].up ELSE Gains[f].down
<1>2. old \in Int /\ gain \in Int
  BY <1>1, GainsTyped DEF Filter
<1>3. v * gain + old * (1024 - gain) \in Int
  BY <1>2
<1>4. Truncated(v * gain + old * (1024 - gain), 1024) \in Int
  BY <1>3, TruncatedTyped
<1> QED
  BY <1>4 DEF Added, Filter

\* The ranges are of packets in the histories, and finite.
LEMMA RangesFinite ==
  ASSUME TypeOK, NEW phase \in Int
  PROVE  /\ UpTo(phase) \subseteq 1 .. Len(upstreamHistory)
         /\ UpRange(phase) \subseteq UpTo(phase)
         /\ DownRange(phase) \subseteq 1 .. Len(downstreamHistory)
         /\ \A S : S \subseteq UpTo(phase) \/ S \subseteq DownRange(phase) =>
               IsFiniteSet(S) /\ Cardinality(S) \in Nat
<1>1. /\ UpTo(phase) \subseteq 1 .. Len(upstreamHistory)
      /\ UpRange(phase) \subseteq UpTo(phase)
      /\ DownRange(phase) \subseteq 1 .. Len(downstreamHistory)
  BY DEF TypeOK, UpTo, UpRange, DownTo, DownRange
<1>2. IsFiniteSet(1 .. Len(upstreamHistory)) /\ IsFiniteSet(1 .. Len(downstreamHistory))
  BY FS_Interval DEF TypeOK
<1>3. ASSUME NEW S, S \subseteq UpTo(phase) \/ S \subseteq DownRange(phase)
      PROVE  IsFiniteSet(S) /\ Cardinality(S) \in Nat
  <2>1. IsFiniteSet(S)
    BY <1>1, <1>2, <1>3, FS_Subset
  <2> QED
    BY <2>1, FS_CardinalityType
<1> QED
  BY <1>1, <1>3

LEMMA RttTyped ==
  ASSUME TypeOK, NEW i \in DOMAIN upstreamHistory
  PROVE  /\ upstreamHistory[i] \in UpRecord
         /\ Rtt(i) \in Int
<1>1. upstreamHistory[i] \in UpRecord
  BY DEF TypeOK
<1>2. 0 .. MaxTime \subseteq Int
  BY RateCtrlAssumption
<1> QED
  BY <1>1, <1>2 DEF UpRecord, Rtt

LEMMA LossTyped ==
  ASSUME NEW whole, IsFiniteSet(whole), NEW part
  PROVE  LossPerMillion(part, whole) \subseteq Int
<1>1. IsFiniteSet(whole \ part)
  BY FS_Subset
<1>2. Cardinality(whole) \in Nat /\ Cardinality(whole \ part) \in Nat
  BY <1>1, FS_CardinalityType
<1>3. whole # {} => Cardinality(whole) # 0
  BY FS_EmptySet
<1>4. whole # {} => (Cardinality(whole \ part) * 1000000) \div Cardinality(whole) \in Int
  BY <1>2, <1>3
<1> QED
  BY <1>4 DEF LossPerMillion

LEMMA SampleTyped ==
  ASSUME TypeOK, NEW f \in FilterNames, NEW phase \in Int
  PROVE  Sample(f, phase) \subseteq Int
<1> DEFINE up == UpRange(phase)
           down == DownRange(phase)
           acked == WithStatus(up, "ack")
           delivered == acked \cup WithStatus(up, "received")
<1>1. up \subseteq DOMAIN upstreamHistory /\ acked \subseteq up /\ delivered \subseteq up
  BY RangesFinite DEF WithStatus, TypeOK
<1>2. IsFiniteSet(up) /\ IsFiniteSet(down) /\ Cardinality(delivered) \in Int
      /\ Cardinality(Received(down)) \in Int
  BY <1>1, RangesFinite DEF Received
<1>3. \A i \in acked : /\ Rtt(i) \in Int
                       /\ upstreamHistory[i].remoteReceiveTime \in Int
                       /\ upstreamHistory[i].localAckTime \in Int
                       /\ upstreamHistory[i].localSendTime \in Int
  BY <1>1, RttTyped, RateCtrlAssumption DEF UpRecord
<1>4. BigRtt(phase) \subseteq Int
  BY RttTyped, RangesFinite DEF BigRtt, WithStatus, TypeOK
<1>5. LossPerMillion(delivered, up) \subseteq Int
      /\ LossPerMillion(Received(down), down) \subseteq Int
  BY <1>2, LossTyped
<1>6. Rate(delivered) \subseteq Int /\ Rate(Received(down)) \subseteq Int
  BY <1>2 DEF Rate
<1>7. Least({Rtt(i) : i \in acked}) \subseteq Int
  BY <1>3 DEF Least
<1>8. Greatest({upstreamHistory[i].remoteReceiveTime - upstreamHistory[i].localAckTime :
                   i \in acked}) \subseteq Int
  BY <1>3 DEF Greatest
<1>9. Least({upstreamHistory[i].remoteReceiveTime - upstreamHistory[i].localSendTime :
                   i \in acked}) \subseteq Int
  BY <1>3 DEF Least
<1> HIDE DEF up, down, acked, delivered
<1>10. f \in {"minRTT", "bigRTT", "lowerBoundSkew", "upperBoundSkew", "lossUp",
              "lossDown", "bitrateUp", "bitrateDown"}
  BY DEF FilterNames, Gains
<1>11. Sample(f, phase) =
          CASE f = "bigRTT"      -> BigRtt(phase)
            [] f = "minRTT"      -> Least({Rtt(i) : i \in acked})
            [] f = "lowerBoundSkew" -> Greatest({upstreamHistory[i].remoteReceiveTime
                                          - upstreamHistory[i].localAckTime : i \in acked})
            [] f = "upperBoundSkew" -> Least({upstreamHistory[i].remoteReceiveTime
                                          - upstreamHistory[i].localSendTime : i \in acked})
            [] f = "lossUp"      -> LossPerMillion(delivered, up)
            [] f = "lossDown"    -> LossPerMillion(Received(down), down)
            [] f = "bitrateUp"   -> Rate(delivered)
            [] f = "bitrateDown" -> Rate(Received(down))
  BY Zenon DEF Sample, up, down, acked, delivered
<1> QED
  BY <1>4, <1>5, <1>6, <1>7, <1>8, <1>9, <1>10, <1>11

\* What calcPhaseAll makes of the filters
LEMMA JudgedFilters ==
  ASSUME TypeOK, NEW phase \in Int, NEW f \in FilterNames
  PROVE  LET g == IF Sample(f, phase) = {} THEN filters[f]
                  ELSE Added(f, CHOOSE v \in Sample(f, phase) : TRUE)
         IN /\ g \in Filter
            /\ g = filters[f] \/ \E v \in Sample(f, phase) : v \in Int /\ g = Added(f, v)
<1>1. Sample(f, phase) # {} => (CHOOSE v \in Sample(f, phase) : TRUE) \in Sample(f, phase)
  OBVIOUS
<1>2. Sample(f, phase) \subseteq Int
  BY SampleTyped
<1>3. filters[f] \in Filter
  BY DEF TypeOK
<1> QED
  BY <1>1, <1>2, <1>3, AddedTyped

-----------------------------------------------------------------------------
(* Types *)

Positions ==
    {"idle", "clock", "phase", "judge", "target", "reset", "count", "store", "record"}

\* A thread that moves on keeps its type, and the other one stays.
LEMMA ThreadMoves ==
  ASSUME TypeOK, NEW t \in Threads, NEW pc \in Positions,
         thread' = [thread EXCEPT ![t].pc = pc]
  PROVE  /\ thread' \in [Threads -> ThreadState]
         /\ thread'[t].pc = pc
         /\ thread'[t].new = thread[t].new /\ thread'[t].old = thread[t].old
         /\ thread'[t].at = thread[t].at /\ thread'[t].packet = thread[t].packet
         /\ \A u \in Threads \ {t} : thread'[u] = thread[u]
<1>1. thread[t] \in ThreadState
  BY DEF TypeOK
<1>2. thread' = [thread EXCEPT ![t] = [thread[t] EXCEPT !.pc = pc]]
  BY DEF TypeOK
<1>3. [thread[t] EXCEPT !.pc = pc] \in ThreadState
  BY <1>1 DEF ThreadState, Positions
<1> QED
  BY <1>1, <1>2, <1>3 DEF TypeOK, ThreadState

\* A thread that enters updatePhase or leaves it
LEMMA ThreadSet ==
  ASSUME TypeOK, NEW t \in Threads, NEW x \in ThreadState,
         thread' = [thread EXCEPT ![t] = x]
  PROVE  /\ thread' \in [Threads -> ThreadState]
         /\ thread'[t] = x
         /\ \A u \in Threads \ {t} : thread'[u] = thread[u]
BY DEF TypeOK

LEMMA IdleTyped == Idle \in ThreadState
BY RateCtrlAssumption DEF Idle, NoPacket, ThreadState, Packet

\* What thread t is about to do with a packet
LEMMA EnterTyped ==
  ASSUME TypeOK, NEW t \in Threads, NEW p \in Packet, Enter(t, p)
  PROVE  LET x == [Idle EXCEPT !.pc = "clock", !.packet = p, !.at = now]
         IN /\ x \in ThreadState /\ thread' = [thread EXCEPT ![t] = x]
            /\ x.pc = "clock" /\ x.packet = p /\ x.at = now
BY RateCtrlAssumption DEF Enter, ThreadState, TypeOK, Idle

LEMMA PhaseOfTyped ==
  ASSUME TypeOK, NEW at \in 0 .. MaxTime
  PROVE  PhaseOf(at) \in Nat
<1>1. at \in Int /\ cycleStartTime \in Int
  BY RateCtrlAssumption DEF TypeOK
<1> DEFINE time == at - cycleStartTime
<1>2. time \in Int /\ (at >= cycleStartTime => time >= 0)
  BY <1>1
<1>3. PhaseOf(at) = IF at >= cycleStartTime THEN time \div PhaseTime
                    ELSE NumPhasePerCycle
  BY DEF PhaseOf
<1> HIDE DEF time
<1>4. time \div PhaseTime \in Int /\ (time >= 0 => time \div PhaseTime >= 0)
  BY <1>2, Division, RateCtrlAssumption
<1> QED
  BY <1>2, <1>3, <1>4, RateCtrlAssumption

\* What ReadStart reads
LEMMA ReadStartThread ==
  ASSUME TypeOK, NEW t \in Threads, ReadStart(t)
  PROVE  /\ thread' \in [Threads -> ThreadState]
         /\ thread'[t].pc = "phase"
         /\ thread'[t].new = PhaseOf(thread[t].at) /\ thread'[t].new \in Nat
         /\ thread'[t].at = thread[t].at /\ thread'[t].packet = thread[t].packet
         /\ \A u \in Threads \ {t} : thread'[u] = thread[u]
<1> DEFINE new == PhaseOf(thread[t].at)
           x == [thread[t] EXCEPT !.new = new, !.pc = "phase"]
<1>1. thread[t] \in ThreadState
  BY DEF TypeOK
<1>2. new \in Nat
  BY <1>1, PhaseOfTyped DEF ThreadState
<1>3. thread' = [thread EXCEPT ![t] = x]
  BY DEF ReadStart, TypeOK
<1> HIDE DEF new
<1>4. /\ x \in ThreadState /\ x.pc = "phase" /\ x.new = new
      /\ x.at = thread[t].at /\ x.packet = thread[t].packet
  BY <1>1, <1>2 DEF ThreadState
<1> HIDE DEF x
<1>5. /\ thread' \in [Threads -> ThreadState] /\ thread'[t] = x
      /\ \A u \in Threads \ {t} : thread'[u] = thread[u]
  BY <1>3, <1>4, ThreadSet
<1> QED
  BY <1>2, <1>4, <1>5 DEF new

\* What is left of a thread that returns from updatePhase
LEMMA ReturnedTyped ==
  ASSUME NEW x \in ThreadState
  PROVE  /\ Returned(x) \in ThreadState /\ Returned(x).pc = "record"
         /\ Returned(x).at = x.at /\ Returned(x).packet = x.packet
BY DEF Returned, ThreadState

\* What ReadPhase reads, and where the thread goes from there
LEMMA ReadPhaseThread ==
  ASSUME TypeOK, NEW t \in Threads, ReadPhase(t)
  PROVE  LET old == phaseCycleCount % NumPhasePerCycle
             new == thread[t].new
         IN /\ thread' \in [Threads -> ThreadState]
            /\ new \in Nat /\ old \in Nat /\ old < NumPhasePerCycle
            /\ \/ /\ thread'[t].pc = "judge" /\ thread'[t].new = new /\ thread'[t].old = old
                  /\ new >= NumPhasePerCycle \/ new > old
               \/ thread'[t].pc = "record" /\ new <= old
            /\ thread'[t].at = thread[t].at /\ thread'[t].packet = thread[t].packet
            /\ \A u \in Threads \ {t} : thread'[u] = thread[u]
<1> DEFINE old == phaseCycleCount % NumPhasePerCycle
           new == thread[t].new
           y == [thread[t] EXCEPT !.old = old, !.pc = "judge"]
           x == IF new >= NumPhasePerCycle \/ new > old THEN y ELSE Returned(thread[t])
<1>1. thread[t] \in ThreadState /\ new \in Nat
  BY DEF TypeOK, ThreadState
<1>2. old \in Nat /\ old < NumPhasePerCycle
  BY RateCtrlAssumption DEF TypeOK
<1>3. thread' = [thread EXCEPT ![t] = x]
  BY DEF ReadPhase, TypeOK
<1> HIDE DEF old
<1>4. /\ y \in ThreadState /\ y.pc = "judge" /\ y.new = new /\ y.old = old
      /\ y.at = thread[t].at /\ y.packet = thread[t].packet
  BY <1>1, <1>2 DEF ThreadState
<1>5. x \in ThreadState /\ x.at = thread[t].at /\ x.packet = thread[t].packet
  BY <1>1, <1>4, ReturnedTyped
<1>6. \/ x = y /\ (new >= NumPhasePerCycle \/ new > old)
      \/ x.pc = "record" /\ new <= old
  BY <1>1, <1>2, ReturnedTyped
<1> HIDE DEF x, y
<1>7. /\ thread' \in [Threads -> ThreadState] /\ thread'[t] = x
      /\ \A u \in Threads \ {t} : thread'[u] = thread[u]
  BY <1>3, <1>5, ThreadSet
<1> QED
  BY <1>1, <1>2, <1>4, <1>5, <1>6, <1>7 DEF old

\* What LoadCount reads
LEMMA LoadCountThread ==
  ASSUME TypeOK, NEW t \in Threads, LoadCount(t)
  PROVE  /\ thread' \in [Threads -> ThreadState]
         /\ thread'[t].pc = "store" /\ thread'[t].count = phaseCycleCount
         /\ thread'[t].new = thread[t].new /\ thread'[t].old = thread[t].old
         /\ thread'[t].at = thread[t].at /\ thread'[t].packet = thread[t].packet
         /\ \A u \in Threads \ {t} : thread'[u] = thread[u]
<1> DEFINE x == [thread[t] EXCEPT !.count = phaseCycleCount, !.pc = "store"]
<1>1. thread[t] \in ThreadState /\ phaseCycleCount \in Nat
  BY DEF TypeOK
<1>2. thread' = [thread EXCEPT ![t] = x]
  BY DEF LoadCount, TypeOK
<1>3. /\ x \in ThreadState /\ x.pc = "store" /\ x.count = phaseCycleCount
      /\ x.new = thread[t].new /\ x.old = thread[t].old
      /\ x.at = thread[t].at /\ x.packet = thread[t].packet
  BY <1>1 DEF ThreadState
<1> HIDE DEF x
<1>4. /\ thread' \in [Threads -> ThreadState] /\ thread'[t] = x
      /\ \A u \in Threads \ {t} : thread'[u] = thread[u]
  BY <1>2, <1>3, ThreadSet
<1> QED
  BY <1>3, <1>4

\* A thread that has counted returns.
LEMMA CountPhaseThread ==
  ASSUME TypeOK, NEW t \in Threads, CountPhase(t)
  PROVE  /\ thread' \in [Threads -> ThreadState]
         /\ thread'[t].pc = "record"
         /\ thread'[t].at = thread[t].at /\ thread'[t].packet = thread[t].packet
         /\ \A u \in Threads \ {t} : thread'[u] = thread[u]
<1>1. thread[t] \in ThreadState
  BY DEF TypeOK
<1>2. thread' = [thread EXCEPT ![t] = Returned(thread[t])]
  BY DEF CountPhase, TypeOK
<1>3. /\ thread' \in [Threads -> ThreadState] /\ thread'[t] = Returned(thread[t])
      /\ \A u \in Threads \ {t} : thread'[u] = thread[u]
  BY <1>1, <1>2, ReturnedTyped, ThreadSet
<1> QED
  BY <1>1, <1>3, ReturnedTyped

LEMMA PhasesBackTyped ==
  ASSUME TypeOK
  PROVE  /\ filters["bigRTT"].value \in Int
         /\ PhasesBack \in Int
<1> DEFINE rtt == filters["bigRTT"].value
<1>1. filters["bigRTT"] \in Filter
  BY DEF TypeOK, FilterNames, Gains
<1>2. rtt \in Int
  BY <1>1 DEF Filter
<1>3. PhasesBack = rtt \div PhaseTime + 1
  BY DEF PhasesBack
<1> HIDE DEF rtt
<1>4. rtt \div PhaseTime \in Int
  BY <1>2, Division, RateCtrlAssumption
<1> QED
  BY <1>2, <1>3, <1>4 DEF rtt

LEMMA GivenUpTyped ==
  ASSUME TypeOK, NEW phase
  PROVE  GivenUp(phase) \in Seq(UpRecord) /\ GivenUpDown(phase) \in Seq(DownRecord)
<1>1. ASSUME NEW i \in DOMAIN upstreamHistory
      PROVE  GivenUp(phase)[i] \in UpRecord
  BY RttTyped DEF GivenUp, UpRecord
<1>2. ASSUME NEW i \in DOMAIN downstreamHistory
      PROVE  GivenUpDown(phase)[i] \in DownRecord
  <2>1. downstreamHistory[i] \in DownRecord
    BY DEF TypeOK
  <2> QED
    BY <2>1 DEF GivenUpDown, DownRecord
<1>3. GivenUp(phase) = [i \in DOMAIN upstreamHistory |-> GivenUp(phase)[i]]
      /\ GivenUpDown(phase) = [i \in DOMAIN downstreamHistory |-> GivenUpDown(phase)[i]]
  BY DEF GivenUp, GivenUpDown
<1>4. DOMAIN upstreamHistory = 1 .. Len(upstreamHistory) /\ Len(upstreamHistory) \in Nat
      /\ DOMAIN downstreamHistory = 1 .. Len(downstreamHistory)
      /\ Len(downstreamHistory) \in Nat
  BY DEF TypeOK
<1> QED
  BY <1>1, <1>2, <1>3, <1>4

LEMMA CalcPhaseAllTyped ==
  ASSUME TypeOK, NEW t \in Threads, CalcPhaseAll(t)
  PROVE  /\ upstreamHistory' \in Seq(UpRecord) /\ downstreamHistory' \in Seq(DownRecord)
         /\ filters' \in [FilterNames -> Filter] /\ judged' \subseteq Nat
         /\ downHistorySeqOffset' \in Nat
<1> DEFINE phase == phaseCycleCount - PhasesBack
<1>1. CASE PhasesBack >= phaseCycleCount
  BY <1>1 DEF CalcPhaseAll, TypeOK
<1>2. CASE ~(PhasesBack >= phaseCycleCount)
  <2>1. PhasesBack \in Int
    BY PhasesBackTyped
  <2>2. phase \in Nat
    BY <1>2, <2>1 DEF TypeOK
  <2>3. judged' \subseteq Nat /\ downHistorySeqOffset' \in Nat
    BY <1>2, <2>2 DEF CalcPhaseAll, TypeOK
  <2>4. upstreamHistory' = GivenUp(phase) /\ downstreamHistory' = GivenUpDown(phase)
    BY <1>2 DEF CalcPhaseAll
  <2>5. filters' = [f \in FilterNames |->
                      IF Sample(f, phase) = {} THEN filters[f]
                      ELSE Added(f, CHOOSE v \in Sample(f, phase) : TRUE)]
    BY <1>2 DEF CalcPhaseAll
  <2> HIDE DEF phase
  <2>6. filters' \in [FilterNames -> Filter]
    BY <2>2, <2>5, JudgedFilters
  <2>7. GivenUp(phase) \in Seq(UpRecord)
    BY GivenUpTyped
  <2>8. GivenUpDown(phase) \in Seq(DownRecord)
    BY GivenUpTyped
  <2> QED
    BY <2>3, <2>4, <2>6, <2>7, <2>8
<1> QED
  BY <1>1, <1>2

LEMMA FiltersOverridden ==
  ASSUME TypeOK, NEW f \in FilterNames, NEW v \in Int
  PROVE  [filters EXCEPT ![f] = Estimate(v)] \in [FilterNames -> Filter]
BY DEF TypeOK, Estimate, Filter

LEMMA TargetsTyped ==
  ASSUME TypeOK
  PROVE  NextTargetsUp \subseteq Int /\ NextTargetDown \in Int
<1>1. /\ filters["bitrateUp"].value \in Int /\ filters["bitrateDown"].value \in Int
      /\ filters["lossUp"].value \in Int /\ filters["lossDown"].value \in Int
  BY DEF TypeOK, FilterNames, Gains, Filter
<1> QED
  BY <1>1, RateCtrlAssumption DEF TypeOK, NextTargetsUp, NextTargetDown, Smaller

LEMMA StartNewCycleFilters ==
  ASSUME TypeOK, NEW t \in Threads, StartNewCycle(t)
  PROVE  /\ filters' \in [FilterNames -> Filter]
         /\ \A f \in FilterNames \ {"minRTT", "bigRTT"} : filters'[f] = filters[f]
         /\ filters'["bigRTT"].value >= 0
<1> DEFINE min == Milli * StatsRtt.min
           big == Milli * StatsRtt.big
<1>1. {"minRTT", "bigRTT"} \subseteq FilterNames
  BY DEF FilterNames, Gains
<1>2. filters' = [filters EXCEPT !["minRTT"] = Estimate(min), !["bigRTT"] = Estimate(big)]
  BY DEF StartNewCycle
<1>3. min \in Int /\ big \in Int /\ big >= 0
  <2>1. /\ filters["minRTT"].value \in Int /\ filters["bigRTT"].value \in Int
        /\ Milli \in Nat \ {0}
    BY <1>1, RateCtrlAssumption DEF TypeOK, Filter
  <2>2. \A v \in Int : InMillis(v) \in Nat
    BY <2>1 DEF InMillis
  <2>3. StatsRtt.min \in Nat /\ StatsRtt.big \in Nat
    BY <2>1, <2>2 DEF StatsRtt
  <2>4. \A k \in Nat : Milli * k \in Nat
    BY <2>1
  <2> QED
    BY <2>3, <2>4
<1> HIDE DEF min, big
<1>4. /\ filters' \in [FilterNames -> Filter]
      /\ \A f \in FilterNames \ {"minRTT", "bigRTT"} : filters'[f] = filters[f]
      /\ filters'["bigRTT"].value = big
  BY <1>1, <1>2, <1>3 DEF TypeOK, Estimate, Filter
<1> QED
  BY <1>3, <1>4

LEMMA ResetCycleFilters ==
  ASSUME TypeOK, NEW t \in Threads, ResetCycle(t)
  PROVE  /\ filters' \in [FilterNames -> Filter]
         /\ \A f \in FilterNames :
               /\ filters'[f].value = filters[f].value
               /\ f \notin {"bitrateUp", "bitrateDown", "lossUp", "lossDown"} =>
                     filters'[f] = filters[f]
<1>1. \A f \in FilterNames : filters[f] \in Filter
  BY DEF TypeOK
<1> QED
  BY <1>1 DEF ResetCycle, Filter

\* The packets the receive thread takes
LEMMA PacketsTyped ==
  ASSUME TypeOK
  PROVE  /\ Sends => \E p \in Packet : p.type = "send" /\ Enter("send", p)
         /\ RecvsAck => \E p \in Packet :
                  /\ p.type = "ack" /\ p.seq \in DOMAIN upstreamHistory
                  /\ \E at \in {upstreamHistory[p.seq].localSendTime, now} :
                        p.remoteAckTime = at + Skew
                  /\ Enter("recv", p)
         /\ RecvsData => \E p \in Packet : p.type = "data" /\ Enter("recv", p)
<1>1. Sends => \E p \in Packet : p.type = "send" /\ Enter("send", p)
  BY DEF Sends, Packet
<1>2. ASSUME RecvsAck
      PROVE  \E p \in Packet :
                  /\ p.type = "ack" /\ p.seq \in DOMAIN upstreamHistory
                  /\ \E at \in {upstreamHistory[p.seq].localSendTime, now} :
                        p.remoteAckTime = at + Skew
                  /\ Enter("recv", p)
  <2>0. PICK seq \in DOMAIN upstreamHistory, haveAck \in BOOLEAN :
             \E at \in {upstreamHistory[seq].localSendTime, now} :
                Enter("recv", [type |-> "ack", seq |-> seq, haveAck |-> haveAck,
                               remoteAckTime |-> at + Skew])
    BY <1>2 DEF RecvsAck
  <2>1. PICK at \in {upstreamHistory[seq].localSendTime, now} :
             Enter("recv", [type |-> "ack", seq |-> seq, haveAck |-> haveAck,
                            remoteAckTime |-> at + Skew])
    BY <2>0
  <2>6. upstreamHistory[seq] \in UpRecord
    BY RttTyped
  <2>7. now \in Int /\ 0 .. MaxTime \subseteq Int
    BY RateCtrlAssumption DEF TypeOK
  <2>4. upstreamHistory[seq].localSendTime \in Int /\ now \in Int
    BY <2>6, <2>7 DEF UpRecord
  <2>2. seq \in Nat /\ at \in Int
    BY <2>4 DEF TypeOK
  <2>3. at + Skew \in Int
    BY <2>2, RateCtrlAssumption
  <2> DEFINE p == [type |-> "ack", seq |-> seq, haveAck |-> haveAck,
                   remoteAckTime |-> at + Skew]
  <2>5. p \in Packet
    BY <2>2, <2>3 DEF Packet
  <2> QED
    BY <2>1, <2>5
<1>3. RecvsData => \E p \in Packet : p.type = "data" /\ Enter("recv", p)
  BY DEF RecvsData, Packet
<1> QED
  BY <1>1, <1>2, <1>3

LEMMA RecvPacketTyped ==
  ASSUME TypeOK, Deciding, RecvPacket
  PROVE  /\ thread["recv"].packet.seq \in 1 .. MaxRelaySeq
         /\ downHistorySeqOffset' \in Nat
         /\ downstreamHistory' \in Seq(DownRecord)
         /\ arrived' \subseteq 1 .. MaxRelaySeq
<1> DEFINE p == thread["recv"].packet
           far == p.seq - downHistorySeqOffset > MaxGap
                     \/ downHistorySeqOffset - p.seq > MaxGap
           offset == IF far THEN p.seq ELSE downHistorySeqOffset
           history == IF far THEN <<>> ELSE downstreamHistory
           index == p.seq - offset + 1
           missing == [sendPhaseCount |-> 0, status |-> "none"]
           longer == [i \in 1 .. Larger(index, Len(history)) |->
                      IF i = index
                      THEN [sendPhaseCount |-> phaseCycleCount, status |-> "received"]
                      ELSE IF i \in DOMAIN history THEN history[i] ELSE missing]
<1>1. thread["recv"] \in ThreadState /\ p.type = "data"
  BY DEF TypeOK, Threads, RecvPacket
<1>2. p.seq \in 1 .. MaxRelaySeq
  BY <1>1 DEF ThreadState, Packet
<1>3. offset \in Nat /\ history \in Seq(DownRecord)
  BY <1>2 DEF TypeOK
<1>4. index \in Int
  BY <1>2, <1>3
<1>5. downHistorySeqOffset' = offset
      /\ downstreamHistory' = (IF index < 1 THEN history ELSE longer)
      /\ arrived' \subseteq arrived \cup {p.seq}
  BY DEF RecvPacket
<1>6. missing \in DownRecord /\ phaseCycleCount \in Nat
  BY DEF DownRecord, TypeOK
<1> HIDE DEF p, far, offset, history, index, missing
<1>7. Larger(index, Len(history)) \in Int
      /\ (index >= 1 => Larger(index, Len(history)) \in Nat)
  BY <1>3, <1>4 DEF Larger
<1>8. \A i \in 1 .. Larger(index, Len(history)) : longer[i] \in DownRecord
  <2> SUFFICES ASSUME NEW i \in 1 .. Larger(index, Len(history))
               PROVE  longer[i] \in DownRecord
    OBVIOUS
  <2>1. i \in DOMAIN history => history[i] \in DownRecord
    BY <1>3
  <2>2. [sendPhaseCount |-> phaseCycleCount, status |-> "received"] \in DownRecord
    BY <1>6 DEF DownRecord
  <2> QED
    BY <1>6, <2>1, <2>2
<1>9. index >= 1 => longer \in Seq(DownRecord)
  BY <1>7, <1>8
<1>10. downstreamHistory' \in Seq(DownRecord)
  BY <1>3, <1>4, <1>5, <1>9
<1> QED
  BY <1>2, <1>3, <1>5, <1>10 DEF p, TypeOK

\* What an acknowledgement makes of the history
LEMMA RecvAckTyped ==
  ASSUME TypeOK, RecvAck
  PROVE  /\ thread["recv"].packet.type = "ack"
         /\ upstreamHistory' \in Seq(UpRecord) /\ Len(upstreamHistory') = Len(upstreamHistory)
         /\ \A i \in DOMAIN upstreamHistory :
               /\ upstreamHistory'[i].sendPhaseCount = upstreamHistory[i].sendPhaseCount
               /\ upstreamHistory'[i].localSendTime = upstreamHistory[i].localSendTime
               /\ upstreamHistory'[i].status \in {"ack", "received", upstreamHistory[i].status}
               /\ upstreamHistory'[i].status = "ack" =>
                     \/ /\ i = thread["recv"].packet.seq
                        /\ upstreamHistory'[i].remoteReceiveTime
                              = thread["recv"].packet.remoteAckTime
                        /\ upstreamHistory'[i].localAckTime = thread["recv"].at
                     \/ upstreamHistory'[i] = upstreamHistory[i]
<1> DEFINE p == thread["recv"].packet
           at == thread["recv"].at
<1>1. thread["recv"] \in ThreadState /\ p.type = "ack"
  BY DEF TypeOK, Threads, RecvAck
<1>2. p.seq \in Nat /\ p.remoteAckTime \in Int /\ at \in 0 .. MaxTime
  BY <1>1 DEF ThreadState, Packet
<1>3. upstreamHistory \in Seq(UpRecord)
  BY DEF TypeOK
<1> DEFINE h == upstreamHistory
           acked == [h[p.seq] EXCEPT !.status = "ack", !.remoteReceiveTime = p.remoteAckTime,
                                     !.localAckTime = at]
           received == [h[p.seq] EXCEPT !.status = "received"]
<1>4. DOMAIN h = 1 .. Len(h) /\ Len(h) \in Nat /\ \A i \in DOMAIN h : h[i] \in UpRecord
  BY <1>3
<1>5. ASSUME p.seq \in DOMAIN h
      PROVE  /\ acked \in UpRecord /\ received \in UpRecord
             /\ acked.sendPhaseCount = h[p.seq].sendPhaseCount
             /\ acked.localSendTime = h[p.seq].localSendTime
             /\ acked.status = "ack" /\ acked.remoteReceiveTime = p.remoteAckTime
             /\ acked.localAckTime = at
             /\ received.sendPhaseCount = h[p.seq].sendPhaseCount
             /\ received.localSendTime = h[p.seq].localSendTime
             /\ received.status = "received"
  <2>1. h[p.seq] \in UpRecord
    BY <1>4, <1>5
  <2> HIDE DEF p, at, h
  <2> QED
    BY <1>2, <2>1 DEF UpRecord
<1>6. \/ upstreamHistory' = [upstreamHistory EXCEPT ![p.seq] = acked]
      \/ upstreamHistory' = [upstreamHistory EXCEPT ![p.seq] = received]
      \/ upstreamHistory' = upstreamHistory
  BY DEF RecvAck
<1> HIDE DEF p, at, acked, received
<1>7. DOMAIN upstreamHistory' = DOMAIN upstreamHistory
  BY <1>6
<1>8. ASSUME NEW i \in DOMAIN h
      PROVE  upstreamHistory'[i] \in {h[i]} \cup (IF i = p.seq THEN {acked, received} ELSE {})
  BY <1>6
<1>9. \A i \in DOMAIN h : upstreamHistory'[i] \in UpRecord
  BY <1>4, <1>5, <1>8
<1>10. upstreamHistory' = [i \in 1 .. Len(h) |-> upstreamHistory'[i]]
  BY <1>3, <1>4, <1>6
<1>11. upstreamHistory' \in Seq(UpRecord) /\ Len(upstreamHistory') = Len(upstreamHistory)
  BY <1>4, <1>9, <1>10
<1>12. \A i \in DOMAIN h :
               /\ upstreamHistory'[i].sendPhaseCount = h[i].sendPhaseCount
               /\ upstreamHistory'[i].localSendTime = h[i].localSendTime
               /\ upstreamHistory'[i].status \in {"ack", "received", h[i].status}
               /\ upstreamHistory'[i].status = "ack" =>
                     \/ /\ i = p.seq /\ upstreamHistory'[i].remoteReceiveTime = p.remoteAckTime
                        /\ upstreamHistory'[i].localAckTime = at
                     \/ upstreamHistory'[i] = h[i]
  BY <1>5, <1>8
<1> QED
  BY <1>1, <1>11, <1>12 DEF p, at

\* What is appended to the history
LEMMA SendPacketTyped ==
  ASSUME TypeOK, SendPacket
  PROVE  LET r == [sendPhaseCount |-> phaseCycleCount, status |-> "sent",
                   localSendTime |-> thread["send"].at,
                   remoteReceiveTime |-> 0, localAckTime |-> 0]
         IN /\ r \in UpRecord
            /\ upstreamHistory' = Append(upstreamHistory, r)
            /\ upstreamHistory' \in Seq(UpRecord)
            /\ thread["send"].at \in Int
<1>1. thread["send"] \in ThreadState
  BY DEF TypeOK, Threads
<1>2. thread["send"].at \in 0 .. MaxTime /\ 0 \in 0 .. MaxTime
  BY <1>1, RateCtrlAssumption DEF ThreadState
<1> QED
  BY <1>2, RateCtrlAssumption DEF SendPacket, TypeOK, UpRecord

\* What enters has its packet.
LEMMA EnterStep ==
  ASSUME TypeOK, Deciding, NEW t \in Threads, NEW p \in Packet, Enter(t, p),
         p.type \in (IF t = "send" THEN {"send"} ELSE {"ack", "data"})
  PROVE  TypeOK' /\ Deciding'
<1> DEFINE x == [Idle EXCEPT !.pc = "clock", !.packet = p, !.at = now]
<1>1. x \in ThreadState /\ thread' = [thread EXCEPT ![t] = x]
  BY EnterTyped
<1>2. x.pc = "clock" /\ x.packet = p
  BY EnterTyped
<1> HIDE DEF x
<1>3. /\ thread' \in [Threads -> ThreadState] /\ thread'[t] = x
      /\ \A u \in Threads \ {t} : thread'[u] = thread[u]
  BY <1>1, ThreadSet
<1>4. TypeOK'
  BY <1>3 DEF Enter, TypeOK, InUpdate
<1>5. Deciding'
  BY <1>2, <1>3 DEF Deciding
<1> QED
  BY <1>4, <1>5

\* A step from one point of updatePhase to the next
LEMMA MoveStep ==
  ASSUME TypeOK, Deciding, NEW t \in Threads, NEW pc \in Positions,
         thread' = [thread EXCEPT ![t].pc = pc],
         pc \in {"judge", "target", "reset", "count", "store"} =>
            thread[t].new >= NumPhasePerCycle \/ thread[t].new > thread[t].old,
         pc \in {"target", "reset"} => thread[t].new >= NumPhasePerCycle,
         thread[t].pc # "idle"
  PROVE  thread' \in [Threads -> ThreadState] /\ Deciding'
<1>1. /\ thread' \in [Threads -> ThreadState]
      /\ thread'[t].pc = pc
      /\ thread'[t].new = thread[t].new /\ thread'[t].old = thread[t].old
      /\ thread'[t].at = thread[t].at /\ thread'[t].packet = thread[t].packet
      /\ \A u \in Threads \ {t} : thread'[u] = thread[u]
  BY ThreadMoves
<1> QED
  BY <1>1 DEF Deciding

LEMMA LeaveStep ==
  ASSUME TypeOK, Deciding, NEW t \in Threads, thread' = [thread EXCEPT ![t] = Idle]
  PROVE  thread' \in [Threads -> ThreadState] /\ Deciding'
<1>1. /\ thread' \in [Threads -> ThreadState] /\ thread'[t] = Idle
      /\ \A u \in Threads \ {t} : thread'[u] = thread[u]
  BY ThreadSet, IdleTyped
<1>2. Idle.pc = "idle"
  BY DEF Idle
<1> QED
  BY <1>1, <1>2 DEF Deciding

LEMMA TypeStep ==
  ASSUME TypeOK, Deciding, [Next]_vars
  PROVE  TypeOK' /\ Deciding'
<1>1. ASSUME NEW t \in Threads, ReadStart(t) \/ ReadPhase(t) \/ LoadCount(t)
      PROVE  TypeOK' /\ Deciding'
  <2>1. CASE ReadStart(t)
    <3>2. /\ thread'[t].pc = "phase"
          /\ thread'[t].packet = thread[t].packet /\ thread[t].pc # "idle"
          /\ \A u \in Threads \ {t} : thread'[u] = thread[u]
      BY <2>1, ReadStartThread DEF ReadStart
    <3>1. Deciding'
      BY <3>2 DEF Deciding
    <3> QED
      BY <2>1, <3>1, ReadStartThread DEF ReadStart, TypeOK
  <2>2. CASE ReadPhase(t)
    <3>2. /\ thread'[t].pc \in {"judge", "record"}
          /\ thread'[t].pc = "judge" =>
                thread'[t].new >= NumPhasePerCycle \/ thread'[t].new > thread'[t].old
          /\ thread'[t].packet = thread[t].packet /\ thread[t].pc # "idle"
          /\ \A u \in Threads \ {t} : thread'[u] = thread[u]
      BY <2>2, ReadPhaseThread DEF ReadPhase
    <3>1. Deciding'
      BY <3>2 DEF Deciding
    <3> QED
      BY <2>2, <3>1, ReadPhaseThread DEF ReadPhase, TypeOK
  <2>3. CASE LoadCount(t)
    <3>2. /\ thread'[t].pc = "store"
          /\ thread'[t].new >= NumPhasePerCycle \/ thread'[t].new > thread'[t].old
          /\ thread'[t].packet = thread[t].packet /\ thread[t].pc # "idle"
          /\ \A u \in Threads \ {t} : thread'[u] = thread[u]
      BY <2>3, LoadCountThread DEF LoadCount, Deciding
    <3>1. Deciding'
      BY <3>2 DEF Deciding
    <3> QED
      BY <2>3, <3>1, LoadCountThread DEF LoadCount, TypeOK
  <2> QED
    BY <1>1, <2>1, <2>2, <2>3
<1>2. ASSUME NEW t \in Threads, CalcPhaseAll(t)
      PROVE  TypeOK' /\ Deciding'
  <2>1. thread' \in [Threads -> ThreadState] /\ Deciding'
    BY <1>2, MoveStep DEF CalcPhaseAll, Positions, Deciding
  <2> QED
    BY <1>2, <2>1, CalcPhaseAllTyped DEF CalcPhaseAll, TypeOK
<1>3. ASSUME NEW t \in Threads, StartNewCycle(t)
      PROVE  TypeOK' /\ Deciding'
  <2>1. thread' \in [Threads -> ThreadState] /\ Deciding'
    BY <1>3, MoveStep DEF StartNewCycle, Positions, Deciding
  <2> QED
    BY <1>3, <2>1, StartNewCycleFilters, TargetsTyped DEF StartNewCycle, TypeOK
<1>4. ASSUME NEW t \in Threads, ResetCycle(t)
      PROVE  TypeOK' /\ Deciding'
  <2>1. thread' \in [Threads -> ThreadState] /\ Deciding'
    BY <1>4, MoveStep DEF ResetCycle, Positions, Deciding
  <2> QED
    BY <1>4, <2>1, ResetCycleFilters DEF ResetCycle, TypeOK
<1>5. ASSUME NEW t \in Threads, CountPhase(t)
      PROVE  TypeOK' /\ Deciding'
  <2>1. thread' \in [Threads -> ThreadState] /\ Deciding'
    BY <1>5, CountPhaseThread DEF CountPhase, Deciding
  <2>2. thread[t].new \in Nat /\ thread[t].old \in Nat /\ thread[t].count \in Nat
    BY DEF TypeOK, ThreadState
  <2>3. phaseCycleCount' \in Nat
    BY <1>5, <2>2 DEF CountPhase, Deciding, TypeOK
  <2> QED
    BY <1>5, <2>1, <2>3 DEF CountPhase, TypeOK
<1>6. CASE Sends
  BY <1>6, PacketsTyped, EnterStep DEF Threads
<1>7. CASE RecvsAck
  <2>1. PICK p \in Packet : p.type = "ack" /\ Enter("recv", p)
    BY <1>7, PacketsTyped
  <2> QED
    BY <2>1, EnterStep DEF Threads
<1>8. CASE RecvsData
  <2>1. PICK p \in Packet : p.type = "data" /\ Enter("recv", p)
    BY <1>8, PacketsTyped
  <2> QED
    BY <2>1, EnterStep DEF Threads
<1>9. CASE SendPacket
  <2>1. thread' \in [Threads -> ThreadState] /\ Deciding'
    BY <1>9, LeaveStep DEF SendPacket, Threads
  <2> QED
    BY <1>9, <2>1, SendPacketTyped DEF SendPacket, TypeOK
<1>10. CASE RecvAck
  <2>1. thread' \in [Threads -> ThreadState] /\ Deciding'
    BY <1>10, LeaveStep DEF RecvAck, Threads
  <2> QED
    BY <1>10, <2>1, RecvAckTyped DEF RecvAck, TypeOK
<1>11. CASE RecvPacket
  <2>1. thread' \in [Threads -> ThreadState] /\ Deciding'
    BY <1>11, LeaveStep DEF RecvPacket, Threads
  <2> QED
    BY <1>11, <2>1, RecvPacketTyped DEF RecvPacket, TypeOK
<1>12. CASE OverrideRTT \/ OverrideBitrateUp
  <2>1. {"bigRTT", "bitrateUp"} \subseteq FilterNames
        /\ SetBigRtt \in Int /\ SetRate \in Int
    BY RateCtrlAssumption DEF FilterNames, Gains
  <2>2. /\ [filters EXCEPT !["bigRTT"] = Estimate(SetBigRtt)] \in [FilterNames -> Filter]
        /\ [filters EXCEPT !["bitrateUp"] = Estimate(SetRate)] \in [FilterNames -> Filter]
    BY <2>1, FiltersOverridden
  <2> QED
    BY <1>12, <2>1, <2>2 DEF OverrideRTT, OverrideBitrateUp, TypeOK, Deciding
<1>13. CASE Tick
  BY <1>13, RateCtrlAssumption DEF Tick, TypeOK, Deciding
<1>14. CASE UNCHANGED vars
  BY <1>14 DEF TypeOK, Deciding
<1> QED
  BY <1>1, <1>2, <1>3, <1>4, <1>5, <1>6, <1>7, <1>8, <1>9, <1>10, <1>11, <1>12, <1>13,
     <1>14 DEF Next, UpdatePhase

LEMMA TypeInit ==
  ASSUME Init
  PROVE  TypeOK /\ Deciding
<1>1. FirstFilters \in [FilterNames -> Filter]
  <2> SUFFICES ASSUME NEW f \in FilterNames
               PROVE  FirstFilters[f] \in Filter
    BY DEF FirstFilters
  <2>1. FirstFilters[f].value \in {FirstMinRtt, FirstBigRtt, FirstRate, 0}
        /\ FirstFilters[f].initOnFirst \in BOOLEAN
        /\ FirstFilters[f] = [value |-> FirstFilters[f].value,
                              initOnFirst |-> FirstFilters[f].initOnFirst]
    BY DEF FirstFilters
  <2>2. {FirstMinRtt, FirstBigRtt, FirstRate, 0} \subseteq Int
    BY RateCtrlAssumption
  <2> QED
    BY <2>1, <2>2 DEF Filter
<1>2. thread \in [Threads -> ThreadState] /\ \A t \in Threads : thread[t].pc = "idle"
  BY IdleTyped DEF Init, Idle
<1>3. upstreamHistory \in Seq(UpRecord) /\ downstreamHistory \in Seq(DownRecord)
  BY DEF Init
<1>4. 0 \in 0 .. MaxTime /\ FirstRate \in Int /\ Garbage \subseteq Int
  BY RateCtrlAssumption
<1>5. TypeOK
  BY <1>1, <1>2, <1>3, <1>4 DEF Init, TypeOK, Smaller
<1>6. Deciding
  BY <1>2 DEF Deciding
<1> QED
  BY <1>5, <1>6

\* Every variable of RateCtrl and of its two threads keeps its type, whichever way
\* their steps interleave: no phase count becomes negative.
THEOREM TypeCorrect == Spec => []TypeOK
<1>1. Init => TypeOK /\ Deciding
  BY TypeInit
<1>2. TypeOK /\ Deciding /\ [Next]_vars => (TypeOK /\ Deciding)'
  BY TypeStep
<1>3. TypeOK /\ Deciding => TypeOK
  OBVIOUS
<1> QED
  BY <1>1, <1>2, <1>3, PTL DEF Spec

-----------------------------------------------------------------------------
(* Round trips and the difference of the clocks *)

LEMMA GivenUpKeeps ==
  ASSUME TypeOK, NEW phase, NEW i \in DOMAIN upstreamHistory
  PROVE  LET h == upstreamHistory[i]
             g == GivenUp(phase)[i]
         IN /\ g.sendPhaseCount = h.sendPhaseCount
            /\ g.localSendTime = h.localSendTime
            /\ g.remoteReceiveTime = h.remoteReceiveTime
            /\ g.localAckTime = h.localAckTime
            /\ g.status = h.status \/ (h.status = "sent" /\ g.status = "lost")
            /\ i \in UpRange(phase) => g.status # "sent"
<1>1. upstreamHistory[i] \in UpRecord
  BY RttTyped
<1>2. GivenUp(phase)[i] =
         IF i \in UpRange(phase) /\ upstreamHistory[i].status = "sent"
         THEN [upstreamHistory[i] EXCEPT !.status = "lost"] ELSE upstreamHistory[i]
  BY DEF GivenUp
<1> QED
  BY <1>1, <1>2 DEF UpRecord

\* What no step of updatePhase changes
LEMMA UpdateKeeps ==
  ASSUME TypeOK, Deciding, NEW t \in Threads, UpdatePhase(t)
  PROVE  /\ now' = now /\ arrived' = arrived /\ overlapped' = overlapped
         /\ downHistorySeqOffset' = downHistorySeqOffset
         /\ \A u \in Threads : /\ thread'[u].at = thread[u].at
                               /\ thread'[u].packet = thread[u].packet
                               /\ u # t => thread'[u] = thread[u]
         /\ DOMAIN upstreamHistory' = DOMAIN upstreamHistory
         /\ \A i \in DOMAIN upstreamHistory :
               LET h == upstreamHistory[i]
                   g == upstreamHistory'[i]
               IN /\ g.sendPhaseCount = h.sendPhaseCount
                  /\ g.localSendTime = h.localSendTime
                  /\ g.remoteReceiveTime = h.remoteReceiveTime
                  /\ g.localAckTime = h.localAckTime
                  /\ g.status = h.status \/ (h.status = "sent" /\ g.status = "lost")
<1>1. /\ now' = now /\ arrived' = arrived /\ overlapped' = overlapped
      /\ downHistorySeqOffset' = downHistorySeqOffset
  BY DEF UpdatePhase, ReadStart, ReadPhase, CalcPhaseAll, StartNewCycle, ResetCycle,
         LoadCount, CountPhase
<1>2. \A u \in Threads : /\ thread'[u].at = thread[u].at
                         /\ thread'[u].packet = thread[u].packet
                         /\ u # t => thread'[u] = thread[u]
  <2>1. CASE ReadStart(t) \/ ReadPhase(t)
    BY <2>1, ReadStartThread, ReadPhaseThread
  <2>2. CASE LoadCount(t) \/ CountPhase(t)
    BY <2>2, LoadCountThread, CountPhaseThread
  <2>3. CASE CalcPhaseAll(t) \/ StartNewCycle(t) \/ ResetCycle(t)
    <3>1. \E pc \in Positions : thread' = [thread EXCEPT ![t].pc = pc]
      BY <2>3 DEF CalcPhaseAll, StartNewCycle, ResetCycle, Positions
    <3> QED
      BY <3>1, ThreadMoves
  <2> QED
    BY <2>1, <2>2, <2>3 DEF UpdatePhase
<1>3. upstreamHistory' = upstreamHistory
      \/ \E phase \in Int : upstreamHistory' = GivenUp(phase)
  <2>1. CalcPhaseAll(t) => upstreamHistory' = upstreamHistory
             \/ upstreamHistory' = GivenUp(phaseCycleCount - PhasesBack)
    BY DEF CalcPhaseAll
  <2>2. phaseCycleCount - PhasesBack \in Int
    BY PhasesBackTyped DEF TypeOK
  <2> QED
    BY <2>1, <2>2 DEF UpdatePhase, ReadStart, ReadPhase, StartNewCycle, ResetCycle,
                      LoadCount, CountPhase
<1>4. \A phase : DOMAIN GivenUp(phase) = DOMAIN upstreamHistory
  BY DEF GivenUp
<1> QED
  BY <1>1, <1>2, <1>3, <1>4, GivenUpKeeps

\* A filter stays on the side of a bound that its samples are on.
LEMMA AddedWithin ==
  ASSUME TypeOK, NEW f \in {"bigRTT", "lowerBoundSkew", "upperBoundSkew"},
         NEW v \in Int, NEW k \in Int
  PROVE  /\ v >= k /\ (filters[f].initOnFirst \/ filters[f].value >= k) => Added(f, v).value >= k
         /\ v <= k /\ (filters[f].initOnFirst \/ filters[f].value <= k) => Added(f, v).value <= k
<1> DEFINE old == filters[f].value
           gain == IF v > old THEN Gains[f].up ELSE Gains[f].down
           sum == v * gain + old * (1024 - gain)
<1>1. filters[f] \in Filter
  BY DEF TypeOK, FilterNames, Gains
<1>2. old \in Int
  BY <1>1 DEF Filter
<1>3. gain \in {1, 10, 1024}
  BY DEF Gains
<1>4. Added(f, v).value = IF filters[f].initOnFirst THEN v ELSE Truncated(sum, 1024)
  BY DEF Added
<1> HIDE DEF old, gain
<1>5. /\ sum \in Int
      /\ v >= k /\ old >= k => sum >= 1024 * k
      /\ v <= k /\ old <= k => sum <= 1024 * k
  <2>1. CASE gain = 1
    BY <1>2, <2>1
  <2>2. CASE gain = 10
    BY <1>2, <2>2
  <2>3. CASE gain = 1024
    BY <1>2, <2>3
  <2> QED
    BY <1>3, <2>1, <2>2, <2>3
<1> HIDE DEF sum
<1> QED
  BY <1>1, <1>2, <1>4, <1>5, TruncatedWithin DEF old, Filter

\* The round trip and the bounds of every acknowledged packet
LEMMA SamplesWithin ==
  ASSUME TypeOK, Timed, NEW phase \in Int
  PROVE  /\ \A v \in Sample("bigRTT", phase) : v >= 0
         /\ \A v \in Sample("lowerBoundSkew", phase) : v <= Skew
         /\ \A v \in Sample("upperBoundSkew", phase) : v >= Skew
<1>1. ASSUME NEW S, S \subseteq DOMAIN upstreamHistory, NEW i \in WithStatus(S, "ack")
      PROVE  /\ Rtt(i) >= 0
             /\ upstreamHistory[i].remoteReceiveTime - upstreamHistory[i].localAckTime <= Skew
             /\ upstreamHistory[i].remoteReceiveTime - upstreamHistory[i].localSendTime >= Skew
  <2> DEFINE r == upstreamHistory[i]
  <2>1. r \in UpRecord /\ r.status = "ack" /\ i \in DOMAIN upstreamHistory
    BY <1>1, RttTyped DEF WithStatus
  <2>2. WithinFlight(r.localSendTime, r.remoteReceiveTime, r.localAckTime)
    BY <2>1 DEF Timed
  <2>3. r.localSendTime \in Int /\ r.remoteReceiveTime \in Int /\ r.localAckTime \in Int
    BY <2>1, RateCtrlAssumption DEF UpRecord
  <2> HIDE DEF r
  <2>4. /\ r.localAckTime - r.localSendTime >= 0
        /\ r.remoteReceiveTime - r.localAckTime <= Skew
        /\ r.remoteReceiveTime - r.localSendTime >= Skew
    BY <2>2, <2>3, RateCtrlAssumption DEF WithinFlight
  <2> QED
    BY <2>4 DEF r, Rtt
<1>2. UpRange(phase) \subseteq DOMAIN upstreamHistory
      /\ UpTo(phase) \subseteq DOMAIN upstreamHistory
  BY DEF UpRange, UpTo
<1>3. \A v \in BigRtt(phase) : v >= 0
  BY <1>1, <1>2 DEF BigRtt
<1>4. Sample("bigRTT", phase) = BigRtt(phase)
  BY DEF Sample
<1>5. /\ Sample("lowerBoundSkew", phase) \subseteq
            {upstreamHistory[i].remoteReceiveTime - upstreamHistory[i].localAckTime :
                 i \in WithStatus(UpRange(phase), "ack")}
      /\ Sample("upperBoundSkew", phase) \subseteq
            {upstreamHistory[i].remoteReceiveTime - upstreamHistory[i].localSendTime :
                 i \in WithStatus(UpRange(phase), "ack")}
  BY DEF Sample, Least, Greatest
<1> QED
  BY <1>1, <1>2, <1>3, <1>4, <1>5

\* What an acknowledgement, or a publication, that enters keeps
LEMMA EnterKeeps ==
  ASSUME TypeOK, NEW t \in Threads, NEW p \in Packet, Enter(t, p)
  PROVE  /\ UNCHANGED <<now, clocks, histories, filters, targets, judged, arrived, rewound>>
         /\ now' = now /\ upstreamHistory' = upstreamHistory
         /\ thread[t].pc = "idle"
         /\ thread'[t].pc = "clock" /\ thread'[t].packet = p /\ thread'[t].at = now
         /\ \A u \in Threads \ {t} : thread'[u] = thread[u]
<1> DEFINE x == [Idle EXCEPT !.pc = "clock", !.packet = p, !.at = now]
<1>1. x \in ThreadState /\ thread' = [thread EXCEPT ![t] = x]
  BY EnterTyped
<1>2. x.pc = "clock" /\ x.packet = p /\ x.at = now
  BY EnterTyped
<1> HIDE DEF x
<1>3. thread'[t] = x /\ \A u \in Threads \ {t} : thread'[u] = thread[u]
  BY <1>1, ThreadSet
<1> QED
  BY <1>2, <1>3 DEF Enter

LEMMA LeaveKeeps ==
  ASSUME TypeOK, NEW t \in Threads, thread' = [thread EXCEPT ![t] = Idle]
  PROVE  /\ thread'[t].pc = "idle" /\ thread'[t].at = 0
         /\ thread'[t].packet.type = "none"
         /\ \A u \in Threads \ {t} : thread'[u] = thread[u]
BY ThreadSet, IdleTyped DEF Idle, NoPacket

LEMMA SendPacketAppends ==
  ASSUME TypeOK, SendPacket
  PROVE  /\ Len(upstreamHistory) \in Nat
         /\ DOMAIN upstreamHistory = 1 .. Len(upstreamHistory)
         /\ DOMAIN upstreamHistory' = DOMAIN upstreamHistory \cup {Len(upstreamHistory) + 1}
         /\ \A i \in DOMAIN upstreamHistory : upstreamHistory'[i] = upstreamHistory[i]
         /\ upstreamHistory'[Len(upstreamHistory) + 1].status = "sent"
         /\ upstreamHistory'[Len(upstreamHistory) + 1].localSendTime = thread["send"].at
         /\ upstreamHistory'[Len(upstreamHistory) + 1].sendPhaseCount = phaseCycleCount
<1> DEFINE h == upstreamHistory
           r == [sendPhaseCount |-> phaseCycleCount, status |-> "sent",
                 localSendTime |-> thread["send"].at,
                 remoteReceiveTime |-> 0, localAckTime |-> 0]
<1>1. r \in UpRecord /\ upstreamHistory' = Append(h, r)
  BY SendPacketTyped
<1>2. /\ r.status = "sent" /\ r.localSendTime = thread["send"].at
      /\ r.sendPhaseCount = phaseCycleCount
  OBVIOUS
<1>3. h \in Seq(UpRecord)
  BY DEF TypeOK
<1> HIDE DEF h, r
<1>4. /\ DOMAIN h = 1 .. Len(h) /\ Len(h) \in Nat
      /\ DOMAIN Append(h, r) = DOMAIN h \cup {Len(h) + 1}
      /\ \A i \in DOMAIN h : Append(h, r)[i] = h[i]
      /\ Append(h, r)[Len(h) + 1] = r
  BY <1>1, <1>3
<1> QED
  BY <1>1, <1>2, <1>4 DEF h

LEMMA TimedStep ==
  ASSUME TypeOK, Deciding, Timed, [Next]_vars
  PROVE  Timed'
<1>0. /\ now \in Int /\ 0 <= now /\ Skew \in Int
      /\ upstreamHistory \in Seq(UpRecord)
      /\ DOMAIN upstreamHistory = 1 .. Len(upstreamHistory)
      /\ Len(upstreamHistory) \in Nat
  BY RateCtrlAssumption DEF TypeOK
<1>1. ASSUME NEW t \in Threads, UpdatePhase(t)
      PROVE  Timed'
  BY <1>1, UpdateKeeps DEF Timed, Threads
<1>2. ASSUME NEW t \in Threads, NEW p \in Packet, Enter(t, p), t = "send" \/ p.type = "data"
      PROVE  Timed'
  <2>1. /\ UNCHANGED <<now, upstreamHistory>>
        /\ thread'[t].at = now /\ thread'[t].packet = p
        /\ \A u \in Threads \ {t} : thread'[u] = thread[u]
    BY <1>2, EnterKeeps
  <2>2. \A u \in Threads : thread'[u].at <= now
    BY <1>0, <2>1 DEF Timed
  <2>3. thread'["recv"] = thread["recv"] \/ thread'["recv"].packet.type = "data"
    BY <1>2, <2>1 DEF Threads
  <2> QED
    BY <2>1, <2>2, <2>3 DEF Timed
<1>3. CASE RecvsAck
  <2>1. PICK p \in Packet : /\ p.type = "ack" /\ p.seq \in DOMAIN upstreamHistory
                            /\ \E at \in {upstreamHistory[p.seq].localSendTime, now} :
                                  p.remoteAckTime = at + Skew
                            /\ Enter("recv", p)
    BY <1>3, PacketsTyped
  <2>2. /\ UNCHANGED <<now, upstreamHistory>>
        /\ thread'["recv"].packet = p /\ thread'["recv"].at = now
        /\ thread'["send"] = thread["send"]
    BY <2>1, EnterKeeps DEF Threads
  <2>3. upstreamHistory[p.seq].localSendTime \in Int
        /\ upstreamHistory[p.seq].localSendTime <= now
    BY <2>1, RttTyped, RateCtrlAssumption DEF UpRecord, Timed
  <2>4. WithinFlight(upstreamHistory[p.seq].localSendTime, p.remoteAckTime, now)
    BY <1>0, <2>1, <2>3 DEF WithinFlight
  <2> QED
    BY <1>0, <2>1, <2>2, <2>4 DEF Timed, Threads
<1>4. CASE SendPacket
  <2>1. thread'["recv"] = thread["recv"] /\ thread'["send"].at = 0 /\ now' = now
    BY <1>4, LeaveKeeps DEF SendPacket, Threads
  <2> QED
    BY <1>0, <1>4, <2>1, SendPacketAppends DEF Timed, Threads
<1>5. CASE RecvAck
  <2>1. thread["recv"].packet.type = "ack"
    BY <1>5 DEF RecvAck
  <2>2. now' = now /\ thread'["send"] = thread["send"] /\ thread'["recv"].at = 0
        /\ thread'["recv"].packet.type = "none"
    BY <1>5, LeaveKeeps DEF RecvAck, Threads
  <2>3. DOMAIN upstreamHistory' = DOMAIN upstreamHistory
    BY <1>0, <1>5, RecvAckTyped
  <2>4. ASSUME NEW i \in DOMAIN upstreamHistory
        PROVE  /\ upstreamHistory'[i].localSendTime <= now
               /\ upstreamHistory'[i].status = "ack" =>
                     WithinFlight(upstreamHistory'[i].localSendTime,
                                  upstreamHistory'[i].remoteReceiveTime,
                                  upstreamHistory'[i].localAckTime)
    <3>1. /\ upstreamHistory'[i].localSendTime = upstreamHistory[i].localSendTime
          /\ upstreamHistory'[i].status = "ack" =>
                     \/ /\ i = thread["recv"].packet.seq
                        /\ upstreamHistory'[i].remoteReceiveTime
                              = thread["recv"].packet.remoteAckTime
                        /\ upstreamHistory'[i].localAckTime = thread["recv"].at
                     \/ upstreamHistory'[i] = upstreamHistory[i]
      BY <1>5, RecvAckTyped
    <3> QED
      BY <2>1, <3>1 DEF Timed
  <2> QED
    BY <1>0, <2>2, <2>3, <2>4 DEF Timed, Threads
<1>6. CASE RecvPacket
  <2>1. /\ UNCHANGED <<now, upstreamHistory>> /\ thread'["send"] = thread["send"]
        /\ thread'["recv"].at = 0 /\ thread'["recv"].packet.type = "none"
    BY <1>6, LeaveKeeps DEF RecvPacket, Threads
  <2> QED
    BY <1>0, <2>1 DEF Timed, Threads
<1>7. CASE OverrideRTT \/ OverrideBitrateUp \/ UNCHANGED vars
  BY <1>7 DEF OverrideRTT, OverrideBitrateUp, Timed
<1>8. CASE Tick
  <2>1. now' = now + 1 /\ UNCHANGED <<upstreamHistory, thread>>
    BY <1>8 DEF Tick
  <2>2. \A i \in DOMAIN upstreamHistory : upstreamHistory[i].localSendTime \in Int
    BY RttTyped, RateCtrlAssumption DEF UpRecord
  <2>3. \A t \in Threads : thread[t].at \in Int
    BY RateCtrlAssumption DEF TypeOK, ThreadState
  <2> QED
    BY <1>0, <2>1, <2>2, <2>3 DEF Timed
<1> QED
  <2>1. Sends => Timed'
    BY <1>2, PacketsTyped DEF Threads
  <2>2. RecvsData => Timed'
    BY <1>2, PacketsTyped DEF Threads
  <2> QED
    BY <1>1, <1>3, <1>4, <1>5, <1>6, <1>7, <1>8, <2>1, <2>2 DEF Next

LEMMA SkewStep ==
  ASSUME TypeOK, Deciding, Timed, RttIsTime, SkewBracketed, [Next]_vars
  PROVE  RttIsTime' /\ SkewBracketed'
<1> DEFINE names == {"bigRTT", "lowerBoundSkew", "upperBoundSkew"}
<1>0. names \subseteq FilterNames
  BY DEF FilterNames, Gains
<1>1. ASSUME \A f \in names : filters'[f] = filters[f]
      PROVE  RttIsTime' /\ SkewBracketed'
  BY <1>1 DEF RttIsTime, SkewBracketed
<1>2. ASSUME NEW t \in Threads, CalcPhaseAll(t), ~(PhasesBack >= phaseCycleCount)
      PROVE  RttIsTime' /\ SkewBracketed'
  <2> DEFINE phase == phaseCycleCount - PhasesBack
  <2>1. phase \in Int
    BY PhasesBackTyped DEF TypeOK
  <2>2. filters' = [f \in FilterNames |->
                      IF Sample(f, phase) = {} THEN filters[f]
                      ELSE Added(f, CHOOSE v \in Sample(f, phase) : TRUE)]
    BY <1>2 DEF CalcPhaseAll
  <2> HIDE DEF phase
  <2>3. ASSUME NEW f \in names
        PROVE  filters'[f] = filters[f]
                  \/ \E v \in Sample(f, phase) : v \in Int /\ filters'[f] = Added(f, v)
    BY <1>0, <2>1, <2>2, JudgedFilters
  <2>4. /\ \A v \in Sample("bigRTT", phase) : v >= 0
        /\ \A v \in Sample("lowerBoundSkew", phase) : v <= Skew
        /\ \A v \in Sample("upperBoundSkew", phase) : v >= Skew
    BY <2>1, SamplesWithin
  <2>5. RttIsTime'
    BY <2>3, <2>4, AddedWithin DEF RttIsTime
  <2>6. SkewBracketed'
    <3>2. ~filters'["lowerBoundSkew"].initOnFirst => filters'["lowerBoundSkew"].value <= Skew
      BY <2>3, <2>4, AddedWithin, RateCtrlAssumption DEF SkewBracketed
    <3>3. ~filters'["upperBoundSkew"].initOnFirst => filters'["upperBoundSkew"].value >= Skew
      BY <2>3, <2>4, AddedWithin, RateCtrlAssumption DEF SkewBracketed
    <3> QED
      BY <3>2, <3>3 DEF SkewBracketed
  <2> QED
    BY <2>5, <2>6
<1>3. ASSUME NEW t \in Threads, StartNewCycle(t)
      PROVE  RttIsTime' /\ SkewBracketed'
  BY <1>0, <1>3, StartNewCycleFilters DEF RttIsTime, SkewBracketed
<1>4. ASSUME NEW t \in Threads, ResetCycle(t)
      PROVE  RttIsTime' /\ SkewBracketed'
  <2>1. \A f \in names : filters'[f] = filters[f]
    BY <1>0, <1>4, ResetCycleFilters
  <2> QED
    BY <1>1, <2>1
<1>5. CASE OverrideRTT
  <2>1. filters' = [filters EXCEPT !["bigRTT"] = Estimate(SetBigRtt)]
        /\ filters \in [FilterNames -> Filter]
    BY <1>5 DEF OverrideRTT, TypeOK
  <2>2. filters'["bigRTT"].value = SetBigRtt
        /\ \A f \in FilterNames \ {"bigRTT"} : filters'[f] = filters[f]
    BY <1>0, <2>1 DEF Estimate
  <2> QED
    BY <1>0, <2>2, RateCtrlAssumption DEF RttIsTime, SkewBracketed
<1>6. CASE OverrideBitrateUp
  <2>1. \A f \in names : filters'[f] = filters[f]
    BY <1>6 DEF OverrideBitrateUp, TypeOK
  <2> QED
    BY <1>1, <2>1
<1>7. ASSUME UNCHANGED filters
      PROVE  RttIsTime' /\ SkewBracketed'
  BY <1>1, <1>7
<1>8. ASSUME NEW t \in Threads, UpdatePhase(t)
      PROVE  RttIsTime' /\ SkewBracketed'
  <2>1. CalcPhaseAll(t) /\ PhasesBack >= phaseCycleCount => UNCHANGED filters
    BY DEF CalcPhaseAll
  <2>2. ReadStart(t) \/ ReadPhase(t) \/ LoadCount(t) \/ CountPhase(t) => UNCHANGED filters
    BY DEF ReadStart, ReadPhase, LoadCount, CountPhase
  <2> QED
    BY <1>2, <1>3, <1>4, <1>7, <1>8, <2>1, <2>2 DEF UpdatePhase
<1>9. Sends \/ SendPacket \/ RecvsAck \/ RecvAck \/ RecvsData \/ RecvPacket \/ Tick
         \/ UNCHANGED vars => UNCHANGED filters
  BY DEF Sends, SendPacket, RecvsAck, RecvAck, RecvsData, RecvPacket, Enter, Tick
<1> QED
  BY <1>5, <1>6, <1>7, <1>8, <1>9 DEF Next

-----------------------------------------------------------------------------
(* What is judged *)

\* A phase is judged after it is over.
LEMMA LooksBack ==
  ASSUME TypeOK, RttIsTime
  PROVE  PhasesBack \in Nat \ {0}
<1> DEFINE rtt == filters["bigRTT"].value
           n == rtt \div PhaseTime
<1>1. rtt \in Int /\ rtt >= 0
  BY PhasesBackTyped DEF RttIsTime
<1>2. PhasesBack = n + 1
  BY DEF PhasesBack
<1> HIDE DEF rtt
<1>3. n \in Int /\ n >= 0
  BY <1>1, Division, RateCtrlAssumption
<1> HIDE DEF n
<1> QED
  BY <1>2, <1>3

\* As the history is ordered, calcPhaseAll finds every packet of a phase.
LEMMA RangeIsPhase ==
  ASSUME TypeOK, Ordered, NEW phase \in Int, NEW i \in DOMAIN upstreamHistory,
         upstreamHistory[i].sendPhaseCount = phase
  PROVE  i \in UpRange(phase)
<1>0. /\ DOMAIN upstreamHistory = 1 .. Len(upstreamHistory)
      /\ Len(upstreamHistory) \in Nat
      /\ \A j \in DOMAIN upstreamHistory : upstreamHistory[j] \in UpRecord
  BY DEF TypeOK
<1>1. /\ DOMAIN upstreamHistory = 1 .. Len(upstreamHistory)
      /\ Len(upstreamHistory) \in Nat
      /\ \A j \in DOMAIN upstreamHistory : upstreamHistory[j].sendPhaseCount \in Int
  BY <1>0 DEF UpRecord
<1>2. i \in UpTo(phase)
  BY <1>1 DEF UpTo
<1>3. ASSUME NEW j \in UpTo(phase), j >= i
      PROVE  upstreamHistory[j].sendPhaseCount = phase
  <2>1. PICK k \in j .. Len(upstreamHistory) : upstreamHistory[k].sendPhaseCount <= phase
    BY DEF UpTo
  <2>2. j \in DOMAIN upstreamHistory /\ k \in DOMAIN upstreamHistory /\ j <= k
    BY <1>1, <2>1 DEF UpTo
  <2>3. /\ upstreamHistory[j].sendPhaseCount <= upstreamHistory[k].sendPhaseCount
        /\ upstreamHistory[i].sendPhaseCount <= upstreamHistory[j].sendPhaseCount
    BY <1>3, <2>2 DEF Ordered
  <2> QED
    BY <1>1, <2>1, <2>2, <2>3
<1> QED
  BY <1>2, <1>3 DEF UpRange

LEMMA OrderedStep ==
  ASSUME TypeOK, Deciding, RttIsTime, Ordered, JudgedCompletely, [Next]_vars,
         ~rewound, ~rewound'
  PROVE  Ordered' /\ JudgedCompletely'
<1>0. /\ phaseCycleCount \in Nat /\ judged \subseteq Nat
      /\ DOMAIN upstreamHistory = 1 .. Len(upstreamHistory)
      /\ Len(upstreamHistory) \in Nat
      /\ \A i \in DOMAIN upstreamHistory : upstreamHistory[i].sendPhaseCount \in Nat
  BY RttTyped DEF TypeOK, UpRecord
<1>1. ASSUME NEW t \in Threads, CalcPhaseAll(t)
      PROVE  Ordered' /\ JudgedCompletely'
  <2>1. /\ DOMAIN upstreamHistory' = DOMAIN upstreamHistory
        /\ phaseCycleCount' = phaseCycleCount
        /\ \A i \in DOMAIN upstreamHistory :
              /\ upstreamHistory'[i].sendPhaseCount = upstreamHistory[i].sendPhaseCount
              /\ upstreamHistory'[i].status = "sent" => upstreamHistory[i].status = "sent"
    BY <1>1, UpdateKeeps DEF UpdatePhase, CalcPhaseAll
  <2>2. CASE UNCHANGED judged
    BY <2>1, <2>2 DEF Ordered, JudgedCompletely
  <2>3. CASE ~UNCHANGED judged
    <3> DEFINE phase == phaseCycleCount - PhasesBack
    <3>1. phase \in Int /\ phase < phaseCycleCount
      BY <1>0, LooksBack
    <3>2. upstreamHistory' = GivenUp(phase) /\ judged' = judged \cup {phase}
      BY <1>1, <2>3 DEF CalcPhaseAll
    <3> HIDE DEF phase
    <3>3. ASSUME NEW i \in DOMAIN upstreamHistory, upstreamHistory[i].sendPhaseCount = phase
          PROVE  upstreamHistory'[i].status # "sent"
      BY <3>1, <3>2, <3>3, RangeIsPhase, GivenUpKeeps
    <3>4. JudgedCompletely'
      BY <2>1, <3>2, <3>3 DEF JudgedCompletely
    <3>5. Ordered'
      BY <2>1, <3>1, <3>2 DEF Ordered
    <3> QED
      BY <3>4, <3>5
  <2> QED
    BY <2>2, <2>3
<1>2. ASSUME NEW t \in Threads, CountPhase(t)
      PROVE  Ordered' /\ JudgedCompletely'
  <2>1. thread[t].new \in Nat /\ thread[t].old \in Nat /\ thread[t].count \in Nat
    BY DEF TypeOK, ThreadState
  <2>2. phaseCycleCount' >= phaseCycleCount /\ phaseCycleCount' \in Nat
    <3>1. phaseCycleCount' \in Nat
      BY <1>2, <2>1 DEF CountPhase, Deciding
    <3>2. rewound' <=> rewound \/ phaseCycleCount' < phaseCycleCount
      BY <1>2 DEF CountPhase
    <3> QED
      BY <1>0, <3>1, <3>2
  <2>3. UNCHANGED <<upstreamHistory, judged>>
    BY <1>2 DEF CountPhase
  <2>4. Ordered'
    BY <1>0, <2>2, <2>3 DEF Ordered
  <2>5. JudgedCompletely'
    BY <2>3 DEF JudgedCompletely
  <2> QED
    BY <2>4, <2>5
<1>3. CASE SendPacket
  <2>1. phaseCycleCount' = phaseCycleCount /\ judged' = judged
    BY <1>3 DEF SendPacket
  <2> DEFINE n == Len(upstreamHistory) + 1
  <2>2. /\ DOMAIN upstreamHistory' = DOMAIN upstreamHistory \cup {n}
        /\ \A i \in DOMAIN upstreamHistory : upstreamHistory'[i] = upstreamHistory[i] /\ i < n
        /\ upstreamHistory'[n].sendPhaseCount = phaseCycleCount
    BY <1>0, <1>3, SendPacketAppends
  <2>4. n \in Nat
    BY <1>0
  <2> HIDE DEF n
  <2>3. Ordered'
    BY <1>0, <2>1, <2>2, <2>4 DEF Ordered
  <2>5. JudgedCompletely'
    BY <1>0, <2>1, <2>2 DEF Ordered, JudgedCompletely
  <2> QED
    BY <2>3, <2>5
<1>4. CASE RecvAck
  <2>1. phaseCycleCount' = phaseCycleCount /\ judged' = judged
    BY <1>4 DEF RecvAck
  <2>2. /\ DOMAIN upstreamHistory' = DOMAIN upstreamHistory
        /\ \A i \in DOMAIN upstreamHistory :
              /\ upstreamHistory'[i].sendPhaseCount = upstreamHistory[i].sendPhaseCount
              /\ upstreamHistory'[i].status = "sent" => upstreamHistory[i].status = "sent"
    BY <1>0, <1>4, RecvAckTyped
  <2> QED
    BY <2>1, <2>2 DEF Ordered, JudgedCompletely
<1>5. ASSUME UNCHANGED <<phaseCycleCount, upstreamHistory, judged>>
      PROVE  Ordered' /\ JudgedCompletely'
  BY <1>5 DEF Ordered, JudgedCompletely
<1>6. (\E t \in Threads : ReadStart(t) \/ ReadPhase(t) \/ StartNewCycle(t)
                              \/ ResetCycle(t) \/ LoadCount(t))
         \/ Sends \/ RecvsAck \/ RecvsData \/ RecvPacket \/ OverrideRTT \/ OverrideBitrateUp
         \/ Tick \/ UNCHANGED vars => UNCHANGED <<phaseCycleCount, upstreamHistory, judged>>
  BY DEF ReadStart, ReadPhase, StartNewCycle, ResetCycle, LoadCount, Sends, RecvsAck,
         RecvsData, Enter, RecvPacket, OverrideRTT, OverrideBitrateUp, Tick
<1> QED
  BY <1>1, <1>2, <1>3, <1>4, <1>5, <1>6 DEF Next, UpdatePhase

LEMMA RecordedStep ==
  ASSUME TypeOK, Deciding, Recorded, [Next]_vars
  PROVE  Recorded'
<1>1. ASSUME NEW t \in Threads, CalcPhaseAll(t)
      PROVE  Recorded'
  <2>1. /\ arrived' = arrived /\ downHistorySeqOffset' = downHistorySeqOffset
        /\ \/ downstreamHistory' = downstreamHistory
           \/ downstreamHistory' = GivenUpDown(phaseCycleCount - PhasesBack)
    BY <1>1 DEF CalcPhaseAll
  <2>2. \A phase : /\ DOMAIN GivenUpDown(phase) = DOMAIN downstreamHistory
                    /\ \A i \in DOMAIN downstreamHistory :
                         downstreamHistory[i].status = "received" =>
                            GivenUpDown(phase)[i].status = "received"
    BY DEF GivenUpDown
  <2> QED
    BY <2>1, <2>2 DEF Recorded
<1>2. CASE RecvPacket
  <2> DEFINE p == thread["recv"].packet
             far == p.seq - downHistorySeqOffset > MaxGap
                       \/ downHistorySeqOffset - p.seq > MaxGap
             offset == IF far THEN p.seq ELSE downHistorySeqOffset
             history == IF far THEN <<>> ELSE downstreamHistory
             index == p.seq - offset + 1
             missing == [sendPhaseCount |-> 0, status |-> "none"]
             new == [sendPhaseCount |-> phaseCycleCount, status |-> "received"]
             longer == [i \in 1 .. Larger(index, Len(history)) |->
                          IF i = index THEN new
                          ELSE IF i \in DOMAIN history THEN history[i] ELSE missing]
  <2>1. /\ downHistorySeqOffset' = offset
        /\ downstreamHistory' = (IF index < 1 THEN history ELSE longer)
        /\ arrived' = (IF far THEN {} ELSE arrived) \cup {p.seq}
    BY <1>2 DEF RecvPacket
  <2>2. p.seq \in Nat /\ offset \in Nat /\ history \in Seq(DownRecord)
        /\ arrived \subseteq Int
    BY <1>2, RecvPacketTyped DEF TypeOK
  <2>3. new.status = "received"
    OBVIOUS
  <2>4. ASSUME NEW n \in arrived, ~far, n >= offset
        PROVE  n - offset + 1 \in DOMAIN history
               /\ history[n - offset + 1].status = "received"
    BY <2>4 DEF Recorded
  <2> HIDE DEF p, new, missing, far, history, offset
  <2>5. DOMAIN history = 1 .. Len(history) /\ Len(history) \in Nat /\ index \in Int
    BY <2>2
  <2>6. ASSUME NEW n \in arrived', n >= offset
        PROVE  /\ n - offset + 1 \in DOMAIN downstreamHistory'
               /\ downstreamHistory'[n - offset + 1].status = "received"
    <3>1. CASE index < 1
      BY <2>1, <2>2, <2>4, <2>6, <3>1
    <3>2. CASE ~(index < 1) /\ n = p.seq
      <4>1. n - offset + 1 = index /\ downstreamHistory' = longer
        BY <2>1, <3>2
      <4>2. index \in 1 .. Larger(index, Len(history))
        BY <2>5, <3>2 DEF Larger
      <4> QED
        BY <2>3, <4>1, <4>2
    <3>3. CASE ~(index < 1) /\ n # p.seq
      <4>1. n \in arrived /\ ~far /\ downstreamHistory' = longer
        BY <2>1, <2>6, <3>3
      <4>2. n - offset + 1 \in DOMAIN history
            /\ history[n - offset + 1].status = "received"
        BY <2>4, <2>6, <4>1
      <4>3. n - offset + 1 \in 1 .. Larger(index, Len(history))
        BY <2>5, <4>2 DEF Larger
      <4> QED
        BY <2>3, <4>1, <4>2, <4>3
    <3> QED
      BY <3>1, <3>2, <3>3
  <2> QED
    BY <2>1, <2>6 DEF Recorded
<1>3. ASSUME UNCHANGED <<arrived, downHistorySeqOffset, downstreamHistory>>
      PROVE  Recorded'
  BY <1>3 DEF Recorded
<1>4. (\E t \in Threads : ReadStart(t) \/ ReadPhase(t) \/ StartNewCycle(t)
                              \/ ResetCycle(t) \/ LoadCount(t) \/ CountPhase(t))
         \/ Sends \/ SendPacket \/ RecvsAck \/ RecvAck \/ RecvsData \/ OverrideRTT
         \/ OverrideBitrateUp \/ Tick \/ UNCHANGED vars
         => UNCHANGED <<arrived, downHistorySeqOffset, downstreamHistory>>
  BY DEF ReadStart, ReadPhase, StartNewCycle, ResetCycle, LoadCount, CountPhase,
         Sends, SendPacket, RecvsAck,
         RecvAck, RecvsData, Enter, OverrideRTT, OverrideBitrateUp, Tick
<1> QED
  BY <1>1, <1>2, <1>3, <1>4 DEF Next, UpdatePhase

\* What arrived is in the history as received, so it is not there as lost.
LEMMA ArrivedIsNotLost ==
  ASSUME TypeOK, Recorded
  PROVE  LostDidNotArrive
<1> SUFFICES ASSUME NEW i \in DOMAIN downstreamHistory,
                    downHistorySeqOffset + i - 1 \in arrived
             PROVE  downstreamHistory[i].status = "received"
  BY DEF LostDidNotArrive
<1>1. i \in Nat \ {0} /\ downHistorySeqOffset \in Nat
  BY DEF TypeOK
<1> DEFINE n == downHistorySeqOffset + i - 1
<1>2. n >= downHistorySeqOffset /\ n - downHistorySeqOffset + 1 = i
  BY <1>1
<1> QED
  BY <1>2 DEF Recorded

-----------------------------------------------------------------------------
(* The phase count and the clock, as long as no two calls overlap *)

\* Nobody else has begun or is about to count.
LEMMA AloneMeans ==
  ASSUME Alone, NEW t \in Threads, InUpdate(t), NEW u \in Threads, u # t
  PROVE  ~InUpdate(u) /\ ~Begins(u)
BY DEF Alone, InUpdate, Begins

\* A thread that is not in updatePhase has read nothing.
LEMMA OutsideConsistent ==
  ASSUME NEW x, x.pc \in {"idle", "record"}, NEW start, NEW count
  PROVE  Consistent(x, start, count)
BY DEF Consistent

\* A step of one thread, whose facts hold after it, keeps Alone if nobody else is
\* in updatePhase or the cycle and the count stay as they are.
LEMMA AloneAfter ==
  ASSUME Alone, NEW t \in Threads,
         \A u \in Threads \ {t} : thread'[u] = thread[u],
         Consistent(thread'[t], cycleStartTime', phaseCycleCount'),
         cycleStartTime' <= now',
         InUpdate(t)' => \A u \in Threads \ {t} : ~InUpdate(u),
         \/ UNCHANGED <<cycleStartTime, phaseCycleCount>>
         \/ \A u \in Threads \ {t} : thread[u].pc \in {"idle", "record"}
  PROVE  Alone'
<1>1. \A u \in Threads \ {t} : InUpdate(u)' <=> InUpdate(u)
  BY DEF InUpdate
<1>2. \A u \in Threads : Consistent(thread[u], cycleStartTime, phaseCycleCount)
  BY DEF Alone
<1>3. \A u \in Threads \ {t} : Consistent(thread'[u], cycleStartTime', phaseCycleCount')
  BY <1>2, OutsideConsistent
<1>4. \A u, w \in Threads : InUpdate(u)' /\ InUpdate(w)' => u = w
  BY <1>1 DEF Alone
<1> QED
  BY <1>3, <1>4 DEF Alone

LEMMA InsideOrOut ==
  ASSUME TypeOK, NEW u \in Threads
  PROVE  InUpdate(u) \/ thread[u].pc \in {"idle", "record"}
BY DEF InUpdate

\* The phase that the clock shows
LEMMA PhaseOfBounds ==
  ASSUME TypeOK, NEW at \in Int, cycleStartTime <= at
  PROVE  LET new == PhaseOf(at)
         IN /\ new \in Nat
            /\ cycleStartTime + PhaseTime * new <= at
            /\ at < cycleStartTime + PhaseTime * new + PhaseTime
<1> DEFINE time == at - cycleStartTime
           q == time \div PhaseTime
           rest == time % PhaseTime
<1>1. cycleStartTime \in Int
  BY RateCtrlAssumption DEF TypeOK
<1>2. time \in Int /\ time >= 0
  BY <1>1
<1>3. PhaseOf(at) = q
  BY <1>1 DEF PhaseOf
<1> HIDE DEF time
<1>4. q \in Int /\ q >= 0 /\ rest \in 0 .. PhaseTime - 1 /\ rest = time - PhaseTime * q
  BY <1>2, Division, RateCtrlAssumption
<1> HIDE DEF q, rest
<1>5. PhaseTime * q \in Int /\ PhaseTime \in Int
  BY <1>4, RateCtrlAssumption
<1>6. PhaseTime * q <= time /\ time < PhaseTime * q + PhaseTime
  BY <1>2, <1>4, <1>5
<1> QED
  BY <1>1, <1>3, <1>4, <1>5, <1>6 DEF time

\* The thread after ReadStart
LEMMA ReadStartConsistent ==
  ASSUME TypeOK, NEW t \in Threads, ReadStart(t), cycleStartTime <= thread[t].at
  PROVE  Consistent(thread'[t], cycleStartTime, phaseCycleCount)
<1> DEFINE at == thread[t].at
           new == PhaseOf(at)
<1>1. thread'[t].pc = "phase" /\ thread'[t].new = new /\ thread'[t].at = at
  BY ReadStartThread
<1>2. at \in Int /\ PhaseTime \in Nat /\ NumPhasePerCycle \in Nat /\ cycleStartTime \in Int
  BY RateCtrlAssumption DEF TypeOK, ThreadState
<1>3. /\ new \in Nat
      /\ cycleStartTime + PhaseTime * new <= at
      /\ at < cycleStartTime + PhaseTime * new + PhaseTime
  BY <1>2, PhaseOfBounds
<1> HIDE DEF new
<1>4. new >= NumPhasePerCycle => PhaseTime * NumPhasePerCycle <= PhaseTime * new
  BY <1>2, <1>3, Multiplied
<1>5. PhaseTime * NumPhasePerCycle \in Int /\ PhaseTime * new \in Int
  BY <1>2, <1>3
<1> HIDE DEF at
<1> QED
  BY <1>1, <1>2, <1>3, <1>4, <1>5 DEF Consistent

\* The thread after ReadPhase
LEMMA ReadPhaseConsistent ==
  ASSUME TypeOK, NEW t \in Threads, ReadPhase(t),
         Consistent(thread[t], cycleStartTime, phaseCycleCount)
  PROVE  /\ Consistent(thread'[t], cycleStartTime, phaseCycleCount)
         /\ thread'[t].pc = "record" =>
               thread[t].at < cycleStartTime
                    + (phaseCycleCount % NumPhasePerCycle) * PhaseTime + PhaseTime
<1> DEFINE at == thread[t].at
           new == thread[t].new
           old == phaseCycleCount % NumPhasePerCycle
<1>1. /\ new \in Nat /\ old \in Nat /\ old < NumPhasePerCycle /\ thread'[t].at = at
      /\ \/ thread'[t].pc = "judge" /\ thread'[t].new = new /\ thread'[t].old = old
         \/ thread'[t].pc = "record" /\ new <= old
  BY ReadPhaseThread
<1>2. at \in Int /\ PhaseTime \in Nat /\ NumPhasePerCycle \in Nat /\ cycleStartTime \in Int
  BY RateCtrlAssumption DEF TypeOK, ThreadState
<1>3. thread[t].pc = "phase"
  BY DEF ReadPhase
<1>4. /\ new < NumPhasePerCycle => /\ cycleStartTime + PhaseTime * new <= at
                                   /\ at < cycleStartTime + PhaseTime * new + PhaseTime
      /\ new >= NumPhasePerCycle => cycleStartTime + PhaseTime * NumPhasePerCycle <= at
  BY <1>3 DEF Consistent
<1> HIDE DEF new, old, at
<1>5. Consistent(thread'[t], cycleStartTime, phaseCycleCount)
  BY <1>1, <1>4 DEF Consistent, old
<1>6. new <= old => PhaseTime * new <= old * PhaseTime
  <2>1. new <= old => new * PhaseTime <= old * PhaseTime
    BY <1>1, <1>2, Multiplied
  <2> QED
    BY <2>1, <1>1, <1>2
<1>7. PhaseTime * new \in Int /\ old * PhaseTime \in Int
  BY <1>1, <1>2
<1>8. thread'[t].pc = "record" => at < cycleStartTime + old * PhaseTime + PhaseTime
  BY <1>1, <1>2, <1>4, <1>6, <1>7
<1> QED
  BY <1>5, <1>8 DEF old, at

LEMMA AloneStep ==
  ASSUME TypeOK, Deciding, Timed, Alone, [Next]_vars, ~overlapped'
  PROVE  Alone'
<1>0. /\ now \in Int /\ cycleStartTime \in Int /\ cycleStartTime <= now
      /\ \A u \in Threads : thread[u].at \in Int /\ thread[u].at <= now
      /\ \A u \in Threads : Consistent(thread[u], cycleStartTime, phaseCycleCount)
  BY RateCtrlAssumption DEF Alone, TypeOK, ThreadState, Timed
<1>1. ASSUME NEW t \in Threads, InUpdate(t)
      PROVE  \A u \in Threads \ {t} : ~InUpdate(u) /\ thread[u].pc \in {"idle", "record"}
  BY <1>1, AloneMeans, InsideOrOut
<1>2. ASSUME NEW t \in Threads, ReadStart(t) \/ ReadPhase(t) \/ LoadCount(t)
      PROVE  Alone'
  <2>1. /\ InUpdate(t)
        /\ UNCHANGED <<now, cycleStartTime, phaseCycleCount>>
    BY <1>2 DEF InUpdate, ReadStart, ReadPhase, LoadCount
  <2>2. \A u \in Threads \ {t} : thread'[u] = thread[u]
    BY <1>2, ReadStartThread, ReadPhaseThread, LoadCountThread
  <2>3. CASE ReadStart(t)
    <3>1. cycleStartTime <= thread[t].at
      BY <1>0, <2>3 DEF ReadStart, Consistent
    <3> QED
      BY <1>0, <1>1, <2>1, <2>2, <2>3, <3>1, ReadStartConsistent, AloneAfter
  <2>4. CASE ReadPhase(t)
    BY <1>0, <1>1, <2>1, <2>2, <2>4, ReadPhaseConsistent, AloneAfter
  <2>5. CASE LoadCount(t)
    <3>1. Consistent(thread'[t], cycleStartTime, phaseCycleCount)
      BY <1>0, <2>5, LoadCountThread DEF LoadCount, Consistent
    <3> QED
      BY <1>0, <1>1, <2>1, <2>2, <3>1, AloneAfter
  <2> QED
    BY <1>2, <2>3, <2>4, <2>5
<1>3. ASSUME NEW t \in Threads, NEW pc \in Positions, thread' = [thread EXCEPT ![t].pc = pc]
      PROVE  /\ thread'[t].pc = pc /\ thread'[t].new = thread[t].new
             /\ thread'[t].old = thread[t].old /\ thread'[t].at = thread[t].at
             /\ \A u \in Threads \ {t} : thread'[u] = thread[u]
  BY <1>3, ThreadMoves
<1>4. ASSUME NEW t \in Threads, CalcPhaseAll(t)
      PROVE  Alone'
  <2> DEFINE pc == IF thread[t].new >= NumPhasePerCycle THEN "target" ELSE "count"
  <2>1. /\ thread[t].pc = "judge" /\ thread' = [thread EXCEPT ![t].pc = pc]
        /\ UNCHANGED <<now, cycleStartTime, phaseCycleCount>>
    BY <1>4 DEF CalcPhaseAll
  <2>2. pc \in Positions
    BY DEF Positions
  <2>3. thread[t].new \in Nat /\ NumPhasePerCycle \in Nat
    BY RateCtrlAssumption DEF TypeOK, ThreadState
  <2>4. /\ thread'[t].pc = pc /\ thread'[t].new = thread[t].new
        /\ thread'[t].old = thread[t].old /\ thread'[t].at = thread[t].at
        /\ \A u \in Threads \ {t} : thread'[u] = thread[u]
    BY <1>3, <2>1, <2>2
  <2>5. Consistent(thread'[t], cycleStartTime, phaseCycleCount)
    BY <1>0, <2>1, <2>3, <2>4 DEF Consistent
  <2>6. InUpdate(t)
    BY <2>1 DEF InUpdate
  <2> QED
    BY <1>0, <1>1, <2>1, <2>4, <2>5, <2>6, AloneAfter
<1>5. ASSUME NEW t \in Threads, StartNewCycle(t)
      PROVE  Alone'
  <2>1. /\ thread[t].pc = "target" /\ thread' = [thread EXCEPT ![t].pc = "reset"]
        /\ UNCHANGED <<now, cycleStartTime, phaseCycleCount>>
    BY <1>5 DEF StartNewCycle
  <2>2. /\ thread'[t].pc = "reset" /\ thread'[t].new = thread[t].new
        /\ thread'[t].old = thread[t].old /\ thread'[t].at = thread[t].at
        /\ \A u \in Threads \ {t} : thread'[u] = thread[u]
    BY <1>3, <2>1 DEF Positions
  <2>3. Consistent(thread'[t], cycleStartTime, phaseCycleCount)
    BY <1>0, <2>1, <2>2 DEF Consistent
  <2>4. InUpdate(t)
    BY <2>1 DEF InUpdate
  <2> QED
    BY <1>0, <1>1, <2>1, <2>2, <2>3, <2>4, AloneAfter
<1>6. ASSUME NEW t \in Threads, ResetCycle(t)
      PROVE  Alone'
  <2>1. /\ thread[t].pc = "reset" /\ thread' = [thread EXCEPT ![t].pc = "count"]
        /\ cycleStartTime' = now /\ UNCHANGED <<now, phaseCycleCount>>
    BY <1>6 DEF ResetCycle
  <2>2. /\ thread'[t].pc = "count" /\ thread'[t].new = thread[t].new
        /\ thread'[t].old = thread[t].old /\ thread'[t].at = thread[t].at
        /\ \A u \in Threads \ {t} : thread'[u] = thread[u]
    BY <1>3, <2>1 DEF Positions
  <2>3. thread[t].new >= NumPhasePerCycle /\ thread[t].new \in Nat /\ NumPhasePerCycle \in Nat
    BY <2>1, RateCtrlAssumption DEF Deciding, TypeOK, ThreadState
  <2>4. Consistent(thread'[t], cycleStartTime', phaseCycleCount')
    BY <1>0, <2>1, <2>2, <2>3 DEF Consistent
  <2>5. InUpdate(t)
    BY <2>1 DEF InUpdate
  <2> QED
    BY <1>0, <1>1, <2>1, <2>2, <2>4, <2>5, AloneAfter
<1>7. ASSUME NEW t \in Threads, CountPhase(t)
      PROVE  Alone'
  <2>1. thread[t].pc = "store" /\ UNCHANGED <<now, cycleStartTime>>
    BY <1>7 DEF CountPhase
  <2>2. /\ thread'[t].pc = "record"
        /\ \A u \in Threads \ {t} : thread'[u] = thread[u]
    BY <1>7, CountPhaseThread
  <2>3. Consistent(thread'[t], cycleStartTime', phaseCycleCount')
    BY <2>2, OutsideConsistent
  <2>4. InUpdate(t)
    BY <2>1 DEF InUpdate
  <2> QED
    BY <1>0, <1>1, <2>1, <2>2, <2>3, <2>4, AloneAfter
<1>8. ASSUME NEW t \in Threads, NEW p \in Packet, Enter(t, p)
      PROVE  Alone'
  <2>1. /\ UNCHANGED <<now, cycleStartTime, phaseCycleCount>>
        /\ thread'[t].pc = "clock" /\ thread'[t].at = now
        /\ \A u \in Threads \ {t} : thread'[u] = thread[u]
    BY <1>8, EnterKeeps
  <2>2. \A u \in Threads : ~InUpdate(u)
    BY <1>8 DEF Enter
  <2>3. Consistent(thread'[t], cycleStartTime, phaseCycleCount)
    BY <1>0, <2>1 DEF Consistent
  <2> QED
    BY <1>0, <2>1, <2>2, <2>3, AloneAfter
<1>9. ASSUME NEW t \in Threads, thread' = [thread EXCEPT ![t] = Idle],
             UNCHANGED <<now, cycleStartTime, phaseCycleCount>>
      PROVE  Alone'
  <2>1. /\ thread'[t].pc = "idle"
        /\ \A u \in Threads \ {t} : thread'[u] = thread[u]
    BY <1>9, LeaveKeeps
  <2>2. Consistent(thread'[t], cycleStartTime', phaseCycleCount')
    BY <2>1, OutsideConsistent
  <2>3. ~InUpdate(t)'
    BY <2>1 DEF InUpdate
  <2> QED
    BY <1>0, <1>9, <2>1, <2>2, <2>3, AloneAfter
<1>10. ASSUME UNCHANGED <<cycleStartTime, phaseCycleCount, thread>>, now' \in {now, now + 1}
       PROVE  Alone'
  BY <1>0, <1>10 DEF Alone, InUpdate
<1>11. Sends \/ RecvsAck \/ RecvsData => Alone'
  BY <1>8, PacketsTyped DEF Threads
<1>12. SendPacket \/ RecvAck \/ RecvPacket => Alone'
  BY <1>9 DEF SendPacket, RecvAck, RecvPacket, Threads
<1>13. OverrideRTT \/ OverrideBitrateUp \/ Tick \/ UNCHANGED vars => Alone'
  BY <1>10 DEF OverrideRTT, OverrideBitrateUp, Tick
<1> QED
  BY <1>2, <1>4, <1>5, <1>6, <1>7, <1>11, <1>12, <1>13 DEF Next, UpdatePhase

LEMMA CountTyped ==
  ASSUME TypeOK
  PROVE  /\ phaseCycleCount \in Nat /\ cycleStartTime \in Int /\ now \in Int
         /\ Count \in Nat /\ PhaseStart \in Int /\ PhaseStart >= cycleStartTime
         /\ (\E t \in Threads : Begins(t)) => Count = phaseCycleCount + 1
         /\ (\A t \in Threads : ~Begins(t)) => Count = phaseCycleCount
         /\ phaseCycleCount % NumPhasePerCycle \in 0 .. NumPhasePerCycle - 1
<1>1. /\ phaseCycleCount \in Nat /\ cycleStartTime \in Int /\ now \in Int
      /\ PhaseTime \in Nat /\ NumPhasePerCycle \in Nat \ {0}
  BY RateCtrlAssumption DEF TypeOK
<1>2. /\ Count \in Nat
      /\ (\E t \in Threads : Begins(t)) => Count = phaseCycleCount + 1
      /\ (\A t \in Threads : ~Begins(t)) => Count = phaseCycleCount
  BY <1>1 DEF Count
<1>3. /\ Count % NumPhasePerCycle \in 0 .. NumPhasePerCycle - 1
      /\ phaseCycleCount % NumPhasePerCycle \in 0 .. NumPhasePerCycle - 1
  BY <1>1, <1>2, Division
<1>4. (Count % NumPhasePerCycle) * PhaseTime \in Nat
  BY <1>1, <1>3
<1>5. PhaseStart = cycleStartTime + (Count % NumPhasePerCycle) * PhaseTime
  BY DEF PhaseStart
<1> QED
  BY <1>1, <1>2, <1>3, <1>4, <1>5

LEMMA CountTypedNext ==
  (TypeOK => Count \in Int /\ PhaseStart \in Int /\ phaseCycleCount \in Int
             /\ PhaseStart >= cycleStartTime)'
<1>1. TypeOK => Count \in Int /\ PhaseStart \in Int /\ phaseCycleCount \in Int
                /\ PhaseStart >= cycleStartTime
  BY CountTyped
<1> QED
  BY <1>1, PTL

\* The count moves on by no more phases than the time it stands for.
LEMMA SentStays ==
  ASSUME NEW sent \in Int, NEW phase \in Int, NEW phase2 \in Int, phase <= phase2,
         NEW number \in Int, NEW number2 \in Int, NEW start \in Int, NEW start2 \in Int,
         SentBefore(sent, phase, number, start),
         start + (number2 - number) * PhaseTime <= start2
  PROVE  SentBefore(sent, phase2, number2, start2)
<1>1. PhaseTime \in Nat
  BY RateCtrlAssumption
<1>2. (number2 - phase2) * PhaseTime <= (number2 - phase) * PhaseTime
  BY <1>1, Multiplied
<1>3. (number2 - phase) * PhaseTime
         = (number - phase) * PhaseTime + (number2 - number) * PhaseTime
  BY <1>1
<1>4. /\ (number2 - phase2) * PhaseTime \in Int /\ (number2 - phase) * PhaseTime \in Int
      /\ (number - phase) * PhaseTime \in Int /\ (number2 - number) * PhaseTime \in Int
  BY <1>1
<1> QED
  BY <1>1, <1>2, <1>3, <1>4 DEF SentBefore

LEMMA InTimeAfter ==
  ASSUME TypeOK, TypeOK', InTime, Behind',
         phaseCycleCount <= phaseCycleCount',
         PhaseStart + (Count' - Count) * PhaseTime <= PhaseStart',
         \A i \in DOMAIN upstreamHistory' :
            \/ /\ i \in DOMAIN upstreamHistory
               /\ upstreamHistory'[i].localSendTime = upstreamHistory[i].localSendTime
               /\ upstreamHistory'[i].sendPhaseCount = upstreamHistory[i].sendPhaseCount
            \/ SentBefore(upstreamHistory'[i].localSendTime,
                          upstreamHistory'[i].sendPhaseCount, Count', PhaseStart'),
         thread'["send"].pc = "record" =>
            \/ thread["send"].pc = "record" /\ thread'["send"].at = thread["send"].at
            \/ SentBefore(thread'["send"].at, phaseCycleCount', Count', PhaseStart')
  PROVE  InTime'
<1>1. /\ Count \in Int /\ PhaseStart \in Int /\ phaseCycleCount \in Int
      /\ Count' \in Int /\ PhaseStart' \in Int /\ phaseCycleCount' \in Int
      /\ thread["send"].at \in Int
  <2>1. Count \in Int /\ PhaseStart \in Int /\ phaseCycleCount \in Int
    BY CountTyped
  <2>2. Count' \in Int /\ PhaseStart' \in Int /\ phaseCycleCount' \in Int
    BY CountTypedNext
  <2>3. thread["send"].at \in Int
    BY RateCtrlAssumption DEF TypeOK, ThreadState, Threads
  <2> QED
    BY <2>1, <2>2, <2>3
<1>2. ASSUME NEW i \in DOMAIN upstreamHistory'
      PROVE  SentBefore(upstreamHistory'[i].localSendTime,
                        upstreamHistory'[i].sendPhaseCount, Count', PhaseStart')
  <2>1. CASE /\ i \in DOMAIN upstreamHistory
             /\ upstreamHistory'[i].localSendTime = upstreamHistory[i].localSendTime
             /\ upstreamHistory'[i].sendPhaseCount = upstreamHistory[i].sendPhaseCount
    <3>1. upstreamHistory[i].localSendTime \in Int /\ upstreamHistory[i].sendPhaseCount \in Int
      BY <2>1, RttTyped, RateCtrlAssumption DEF UpRecord
    <3>2. SentBefore(upstreamHistory[i].localSendTime, upstreamHistory[i].sendPhaseCount,
                     Count, PhaseStart)
      BY <2>1 DEF InTime
    <3> QED
      BY <1>1, <2>1, <3>1, <3>2, SentStays
  <2> QED
    BY <2>1
<1>3. thread'["send"].pc = "record" =>
         SentBefore(thread'["send"].at, phaseCycleCount', Count', PhaseStart')
  <2>1. ASSUME thread["send"].pc = "record", thread'["send"].at = thread["send"].at
        PROVE  SentBefore(thread'["send"].at, phaseCycleCount', Count', PhaseStart')
    <3>1. SentBefore(thread["send"].at, phaseCycleCount, Count, PhaseStart)
      BY <2>1 DEF InTime
    <3> QED
      BY <1>1, <2>1, <3>1, SentStays
  <2> QED
    BY <2>1
<1> QED
  BY <1>2, <1>3 DEF InTime

\* A step that neither counts nor starts a cycle
LEMMA InTimeStays ==
  ASSUME TypeOK, TypeOK', InTime,
         UNCHANGED <<cycleStartTime, phaseCycleCount>>, now <= now',
         (\E t \in Threads : Begins(t)') <=> (\E t \in Threads : Begins(t)),
         \A i \in DOMAIN upstreamHistory' :
            \/ /\ i \in DOMAIN upstreamHistory
               /\ upstreamHistory'[i].localSendTime = upstreamHistory[i].localSendTime
               /\ upstreamHistory'[i].sendPhaseCount = upstreamHistory[i].sendPhaseCount
            \/ SentBefore(upstreamHistory'[i].localSendTime,
                          upstreamHistory'[i].sendPhaseCount, Count, PhaseStart),
         thread'["send"].pc = "record" =>
            \/ thread["send"].pc = "record" /\ thread'["send"].at = thread["send"].at
            \/ SentBefore(thread'["send"].at, phaseCycleCount, Count, PhaseStart)
  PROVE  InTime'
<1>1. Count' = Count
  BY DEF Count
<1>2. PhaseStart' = PhaseStart
  BY <1>1 DEF PhaseStart
<1>3. /\ Count \in Int /\ PhaseStart \in Int /\ phaseCycleCount \in Int /\ PhaseTime \in Int
      /\ now \in Int /\ now' \in Int
  <2>1. 0 .. MaxTime \subseteq Int /\ PhaseTime \in Int
    BY RateCtrlAssumption
  <2>2. now' \in 0 .. MaxTime
    BY DEF TypeOK
  <2> QED
    BY <2>1, <2>2, CountTyped
<1>4. Behind'
  BY <1>1, <1>2, <1>3 DEF InTime, Behind
<1>5. PhaseStart + (Count' - Count) * PhaseTime <= PhaseStart'
  BY <1>1, <1>2, <1>3
<1> QED
  BY <1>1, <1>2, <1>3, <1>4, <1>5, InTimeAfter

LEMMA InTimeStep ==
  ASSUME TypeOK, TypeOK', Deciding, Timed, Alone, InTime, [Next]_vars, ~overlapped'
  PROVE  InTime'
<1> DEFINE r == phaseCycleCount % NumPhasePerCycle
<1>0. /\ phaseCycleCount \in Nat /\ cycleStartTime \in Int /\ now \in Int
      /\ Count \in Int /\ PhaseStart \in Int
      /\ PhaseTime \in Nat \ {0} /\ NumPhasePerCycle \in Nat \ {0}
      /\ r \in Nat /\ r <= NumPhasePerCycle - 1
      /\ r * PhaseTime \in Int /\ PhaseTime * NumPhasePerCycle \in Int
      /\ \A u \in Threads : thread[u].at \in Int /\ thread[u].at <= now
                            /\ thread[u].new \in Nat /\ thread[u].old \in Nat
      /\ \A u \in Threads : Consistent(thread[u], cycleStartTime, phaseCycleCount)
  <2>1. /\ phaseCycleCount \in Nat /\ cycleStartTime \in Int /\ now \in Int
        /\ Count \in Int /\ PhaseStart \in Int
        /\ PhaseTime \in Nat \ {0} /\ NumPhasePerCycle \in Nat \ {0}
        /\ r \in Nat /\ r <= NumPhasePerCycle - 1
    BY CountTyped, RateCtrlAssumption
  <2>2. \A u \in Threads : thread[u].at \in Int /\ thread[u].at <= now
                            /\ thread[u].new \in Nat /\ thread[u].old \in Nat
    <3>1. \A u \in Threads : thread[u] \in ThreadState /\ thread[u].at <= now
      BY DEF TypeOK, Timed
    <3>2. 0 .. MaxTime \subseteq Int
      BY RateCtrlAssumption
    <3> QED
      BY <3>1, <3>2 DEF ThreadState
  <2> HIDE DEF r
  <2>3. r * PhaseTime \in Int /\ PhaseTime * NumPhasePerCycle \in Int
    BY <2>1
  <2> QED
    BY <2>1, <2>2, <2>3 DEF Alone
\* While one thread is in updatePhase the other does not begin a cycle.
<1>1. ASSUME NEW t \in Threads, InUpdate(t), ~Begins(t)
      PROVE  /\ \A u \in Threads : ~Begins(u)
             /\ Count = phaseCycleCount
             /\ PhaseStart = cycleStartTime + r * PhaseTime
  <2>1. \A u \in Threads : ~Begins(u)
    BY <1>1, AloneMeans
  <2>2. Count = phaseCycleCount
    BY <2>1, CountTyped
  <2> QED
    BY <2>1, <2>2 DEF PhaseStart
<1> HIDE DEF r
<1>2. ASSUME NEW t \in Threads, ReadStart(t) \/ ReadPhase(t)
      PROVE  InTime'
  <2>1. InUpdate(t) /\ ~Begins(t)
    BY <1>2 DEF InUpdate, Begins, ReadStart, ReadPhase
  <2>2. UNCHANGED <<now, cycleStartTime, phaseCycleCount, upstreamHistory>>
    BY <1>2 DEF ReadStart, ReadPhase
  <2>3. /\ thread'[t].pc \in {"phase", "judge", "record"} /\ thread'[t].at = thread[t].at
        /\ \A u \in Threads \ {t} : thread'[u] = thread[u]
    BY <1>2, ReadStartThread, ReadPhaseThread
  <2>4. thread'[t].pc = "record" => thread[t].at < cycleStartTime + r * PhaseTime + PhaseTime
    <3>1. CASE ReadStart(t)
      BY <3>1, ReadStartThread
    <3>2. CASE ReadPhase(t)
      BY <1>0, <3>2, ReadPhaseConsistent DEF r
    <3> QED
      BY <1>2, <3>1, <3>2
  <2>5. \A u \in Threads : ~Begins(u)' /\ ~Begins(u)
    BY <1>1, <2>1, <2>3 DEF Begins
  <2>6. thread'[t].pc = "record" => SentBefore(thread'[t].at, phaseCycleCount, Count, PhaseStart)
    BY <1>0, <1>1, <2>1, <2>3, <2>4 DEF SentBefore
  <2> QED
    BY <1>0, <2>2, <2>3, <2>5, <2>6, InTimeStays DEF Threads
<1>14. ASSUME NEW t \in Threads, LoadCount(t)
       PROVE  InTime'
  <2>1. /\ thread[t].pc = "count"
        /\ UNCHANGED <<now, cycleStartTime, phaseCycleCount, upstreamHistory>>
    BY <1>14 DEF LoadCount
  <2>2. /\ thread'[t].pc = "store" /\ thread'[t].new = thread[t].new
        /\ \A u \in Threads \ {t} : thread'[u] = thread[u]
    BY <1>14, LoadCountThread
  <2>3. \A u \in Threads : Begins(u)' <=> Begins(u)
    BY <2>1, <2>2 DEF Begins
  <2> QED
    BY <1>0, <2>1, <2>2, <2>3, InTimeStays DEF Threads
<1>3. ASSUME NEW t \in Threads, NEW pc \in Positions, thread' = [thread EXCEPT ![t].pc = pc]
      PROVE  /\ thread'[t].pc = pc /\ thread'[t].new = thread[t].new
             /\ thread'[t].old = thread[t].old /\ thread'[t].at = thread[t].at
             /\ \A u \in Threads \ {t} : thread'[u] = thread[u]
  BY <1>3, ThreadMoves
<1>4. ASSUME NEW t \in Threads, CalcPhaseAll(t) \/ StartNewCycle(t)
      PROVE  InTime'
  <2> DEFINE pc == IF thread[t].pc = "target" THEN "reset"
                   ELSE IF thread[t].new >= NumPhasePerCycle THEN "target" ELSE "count"
  <2>1. /\ thread[t].pc \in {"judge", "target"} /\ thread' = [thread EXCEPT ![t].pc = pc]
        /\ UNCHANGED <<now, cycleStartTime, phaseCycleCount>>
    BY <1>4 DEF CalcPhaseAll, StartNewCycle
  <2>2. pc \in Positions /\ pc # "record"
    BY DEF Positions
  <2>3. /\ thread'[t].pc = pc /\ thread'[t].new = thread[t].new
        /\ \A u \in Threads \ {t} : thread'[u] = thread[u]
    BY <1>3, <2>1, <2>2
  <2>4. InUpdate(t) /\ ~Begins(t) /\ ~Begins(t)'
    BY <2>1, <2>3 DEF InUpdate, Begins
  <2>5. \A u \in Threads : ~Begins(u)' /\ ~Begins(u)
    BY <1>1, <2>3, <2>4 DEF Begins
  <2>6. /\ DOMAIN upstreamHistory' = DOMAIN upstreamHistory
        /\ \A i \in DOMAIN upstreamHistory :
              /\ upstreamHistory'[i].localSendTime = upstreamHistory[i].localSendTime
              /\ upstreamHistory'[i].sendPhaseCount = upstreamHistory[i].sendPhaseCount
    BY <1>4, UpdateKeeps DEF UpdatePhase
  <2> QED
    BY <1>0, <2>1, <2>2, <2>3, <2>5, <2>6, InTimeStays DEF Threads
<1>5. ASSUME NEW t \in Threads, ResetCycle(t)
      PROVE  InTime'
  <2>1. /\ thread[t].pc = "reset" /\ thread' = [thread EXCEPT ![t].pc = "count"]
        /\ cycleStartTime' = now /\ UNCHANGED <<now, phaseCycleCount, upstreamHistory>>
    BY <1>5 DEF ResetCycle
  <2>2. /\ thread'[t].pc = "count" /\ thread'[t].new = thread[t].new
        /\ \A u \in Threads \ {t} : thread'[u] = thread[u]
    BY <1>3, <2>1 DEF Positions
  <2>3. InUpdate(t) /\ ~Begins(t) /\ thread[t].new >= NumPhasePerCycle
    BY <2>1 DEF InUpdate, Begins, Deciding
  <2>4. Count = phaseCycleCount /\ PhaseStart = cycleStartTime + r * PhaseTime
    BY <1>1, <2>3
  <2>5. Count' = phaseCycleCount + 1
    BY <2>1, <2>2, <2>3 DEF Count, Begins
  <2>6. PhaseStart' >= now /\ PhaseStart' \in Int
    BY <2>1, CountTypedNext
  <2>7. cycleStartTime + PhaseTime * NumPhasePerCycle <= now
    <3>1. cycleStartTime + PhaseTime * NumPhasePerCycle <= thread[t].at
      BY <1>0, <2>1, <2>3 DEF Consistent
    <3> QED
      BY <1>0, <3>1
  <2>8. r * PhaseTime + PhaseTime <= PhaseTime * NumPhasePerCycle
    <3>1. (r + 1) * PhaseTime <= NumPhasePerCycle * PhaseTime
      BY <1>0, Multiplied
    <3> QED
      BY <1>0, <3>1
  <2>9. PhaseStart + PhaseTime <= now
    BY <1>0, <2>4, <2>7, <2>8
  <2>10. Count * PhaseTime <= PhaseStart /\ Count * PhaseTime \in Int
    BY <1>0 DEF InTime, Behind
  <2>11. Count' * PhaseTime = Count * PhaseTime + PhaseTime
    BY <1>0, <2>4, <2>5
  <2>12. Behind'
    BY <1>0, <2>1, <2>6, <2>9, <2>10, <2>11 DEF Behind
  <2>13. PhaseStart + (Count' - Count) * PhaseTime <= PhaseStart'
    BY <1>0, <2>4, <2>5, <2>6, <2>9
  <2> QED
    BY <1>0, <2>1, <2>2, <2>12, <2>13, InTimeAfter DEF Threads
<1>6. ASSUME NEW t \in Threads, CountPhase(t)
      PROVE  InTime'
  <2>0. /\ thread[t].pc = "store"
        /\ UNCHANGED <<now, cycleStartTime, upstreamHistory>>
        /\ phaseCycleCount' = thread[t].count
              + (IF thread[t].new >= NumPhasePerCycle THEN 1 ELSE thread[t].new - thread[t].old)
    BY <1>6 DEF CountPhase
  <2>1. /\ thread[t].pc = "store"
        /\ UNCHANGED <<now, cycleStartTime, upstreamHistory>>
        /\ phaseCycleCount' = phaseCycleCount
              + (IF thread[t].new >= NumPhasePerCycle THEN 1 ELSE thread[t].new - thread[t].old)
    <3>1. thread[t].count = phaseCycleCount
      BY <1>0, <2>0 DEF Consistent
    <3> QED
      BY <2>0, <3>1
  <2>2. /\ thread'[t].pc = "record" /\ thread'[t].at = thread[t].at
        /\ \A u \in Threads \ {t} : thread'[u] = thread[u]
    BY <1>6, CountPhaseThread
  <2>3. InUpdate(t)
    BY <2>1 DEF InUpdate
  <2>4. \A u \in Threads : ~Begins(u)'
    BY <2>2, <2>3, AloneMeans DEF Begins
  <2>5. Count' = phaseCycleCount'
    BY <2>4, <2>1, <1>0 DEF Count
  <2> DEFINE new == thread[t].new
             at == thread[t].at
  <2>6. CASE new >= NumPhasePerCycle
    <3>1. Begins(t) /\ phaseCycleCount' = phaseCycleCount + 1
      BY <2>1, <2>6 DEF Begins
    <3>2. Count' = Count
      BY <2>5, <3>1, CountTyped
    <3>3. PhaseStart' = PhaseStart
      BY <2>1, <3>2 DEF PhaseStart
    <3>4. Behind'
      BY <2>1, <3>2, <3>3 DEF InTime, Behind
    <3>5. at <= cycleStartTime
      BY <1>0, <2>1, <2>6 DEF Consistent
    <3>6. SentBefore(at, phaseCycleCount', Count', PhaseStart')
      <4>1. PhaseStart >= cycleStartTime
        BY CountTyped
      <4>2. (Count' - phaseCycleCount') * PhaseTime = 0
        BY <1>0, <2>5, <3>1
      <4> QED
        BY <1>0, <3>3, <3>5, <4>1, <4>2 DEF SentBefore
    <3>7. PhaseStart + (Count' - Count) * PhaseTime <= PhaseStart'
      BY <1>0, <3>2, <3>3
    <3>8. phaseCycleCount <= phaseCycleCount'
      BY <1>0, <3>1
    <3> QED
      BY <2>1, <2>2, <3>4, <3>6, <3>7, <3>8, InTimeAfter DEF Threads
  <2>7. CASE ~(new >= NumPhasePerCycle)
    <3>1. /\ ~Begins(t) /\ new < NumPhasePerCycle /\ new \in Nat
          /\ thread[t].old = r /\ new > r /\ at \in Int /\ at <= now
          /\ cycleStartTime + PhaseTime * new <= at
          /\ at < cycleStartTime + PhaseTime * new + PhaseTime
      BY <1>0, <2>1, <2>7 DEF Begins, Consistent, Deciding, r
    <3>2. Count = phaseCycleCount /\ PhaseStart = cycleStartTime + r * PhaseTime
      BY <1>1, <2>3, <3>1
    <3>3. phaseCycleCount' = phaseCycleCount + (new - r)
      BY <2>1, <2>7, <3>1
    <3> HIDE DEF new, at
    <3>4. phaseCycleCount' % NumPhasePerCycle = new
      <4> DEFINE q == phaseCycleCount \div NumPhasePerCycle
      <4>1. q \in Int /\ r = phaseCycleCount - NumPhasePerCycle * q
        <5>1. phaseCycleCount \in Int /\ NumPhasePerCycle \in Nat \ {0}
          BY <1>0
        <5> QED
          BY <5>1, Division DEF r
      <4> HIDE DEF q
      <4>2. phaseCycleCount' = NumPhasePerCycle * q + new
        BY <1>0, <3>1, <3>3, <4>1
      <4>3. new \in 0 .. NumPhasePerCycle - 1
        BY <1>0, <3>1
      <4> QED
        BY <1>0, <4>1, <4>2, <4>3, Remainder
    <3>5. PhaseStart' = cycleStartTime + new * PhaseTime
      BY <2>1, <2>5, <3>4 DEF PhaseStart
    <3>6. new * PhaseTime \in Int /\ PhaseTime * new = new * PhaseTime
      BY <1>0, <3>1
    <3>7. (Count' - Count) * PhaseTime = new * PhaseTime - r * PhaseTime
      BY <1>0, <2>5, <3>1, <3>2, <3>3
    <3>8. Count' * PhaseTime = Count * PhaseTime + (new * PhaseTime - r * PhaseTime)
      BY <1>0, <2>5, <3>1, <3>2, <3>3
    <3>9. Count * PhaseTime <= PhaseStart /\ Count * PhaseTime \in Int
      BY <1>0 DEF InTime, Behind
    <3>10. Behind'
      BY <1>0, <2>1, <3>1, <3>2, <3>5, <3>6, <3>8, <3>9 DEF Behind
    <3>11. SentBefore(at, phaseCycleCount', Count', PhaseStart')
      <4>1. (Count' - phaseCycleCount') * PhaseTime = 0
        BY <1>0, <2>5, <3>1, <3>3
      <4> QED
        BY <1>0, <3>1, <3>5, <3>6, <4>1 DEF SentBefore
    <3>12. PhaseStart + (Count' - Count) * PhaseTime <= PhaseStart'
      BY <1>0, <3>2, <3>5, <3>6, <3>7
    <3>13. phaseCycleCount <= phaseCycleCount'
      BY <1>0, <3>1, <3>3
    <3> QED
      BY <2>1, <2>2, <3>10, <3>11, <3>12, <3>13, InTimeAfter DEF Threads, at
  <2> QED
    BY <2>6, <2>7
<1>7. ASSUME NEW t \in Threads, NEW p \in Packet, Enter(t, p)
      PROVE  InTime'
  <2>1. /\ UNCHANGED <<now, cycleStartTime, phaseCycleCount, upstreamHistory>>
        /\ thread[t].pc = "idle" /\ thread'[t].pc = "clock"
        /\ \A u \in Threads \ {t} : thread'[u] = thread[u]
    BY <1>7, EnterKeeps
  <2>2. \A u \in Threads : Begins(u)' <=> Begins(u)
    BY <2>1 DEF Begins
  <2> QED
    BY <1>0, <2>1, <2>2, InTimeStays DEF Threads
<1>8. ASSUME NEW t \in Threads, thread[t].pc = "record", thread' = [thread EXCEPT ![t] = Idle],
             UNCHANGED <<now, cycleStartTime, phaseCycleCount>>,
             \A i \in DOMAIN upstreamHistory' :
                \/ /\ i \in DOMAIN upstreamHistory
                   /\ upstreamHistory'[i].localSendTime = upstreamHistory[i].localSendTime
                   /\ upstreamHistory'[i].sendPhaseCount = upstreamHistory[i].sendPhaseCount
                \/ SentBefore(upstreamHistory'[i].localSendTime,
                              upstreamHistory'[i].sendPhaseCount, Count, PhaseStart)
      PROVE  InTime'
  <2>1. /\ thread'[t].pc = "idle"
        /\ \A u \in Threads \ {t} : thread'[u] = thread[u]
    BY <1>8, LeaveKeeps
  <2>2. \A u \in Threads : Begins(u)' <=> Begins(u)
    BY <1>8, <2>1 DEF Begins
  <2>3. thread'["send"].pc = "record" =>
            thread["send"].pc = "record" /\ thread'["send"].at = thread["send"].at
    BY <2>1 DEF Threads
  <2> QED
    BY <1>0, <1>8, <2>2, <2>3, InTimeStays
<1>9. CASE SendPacket
  <2>1. SentBefore(thread["send"].at, phaseCycleCount, Count, PhaseStart)
    BY <1>9 DEF InTime, SendPacket
  <2>2. /\ thread["send"].pc = "record" /\ thread' = [thread EXCEPT !["send"] = Idle]
        /\ UNCHANGED <<now, cycleStartTime, phaseCycleCount>>
    BY <1>9 DEF SendPacket
  <2> QED
    BY <1>8, <1>9, <2>1, <2>2, SendPacketAppends DEF Threads
<1>10. CASE RecvAck
  <2>1. /\ thread["recv"].pc = "record" /\ thread' = [thread EXCEPT !["recv"] = Idle]
        /\ UNCHANGED <<now, cycleStartTime, phaseCycleCount>>
    BY <1>10 DEF RecvAck
  <2>2. DOMAIN upstreamHistory' = DOMAIN upstreamHistory
    BY <1>10, RecvAckTyped DEF TypeOK
  <2> QED
    BY <1>8, <1>10, <2>1, <2>2, RecvAckTyped DEF Threads
<1>11. CASE RecvPacket
  BY <1>8, <1>11 DEF RecvPacket, Threads
<1>12. CASE OverrideRTT \/ OverrideBitrateUp \/ Tick \/ UNCHANGED vars
  <2>1. /\ UNCHANGED <<cycleStartTime, phaseCycleCount, thread, upstreamHistory>>
        /\ now' \in {now, now + 1}
    BY <1>12 DEF OverrideRTT, OverrideBitrateUp, Tick
  <2>2. \A u \in Threads : Begins(u)' <=> Begins(u)
    BY <2>1 DEF Begins
  <2> QED
    BY <1>0, <2>1, <2>2, InTimeStays
<1>13. Sends \/ RecvsAck \/ RecvsData => InTime'
  BY <1>7, PacketsTyped DEF Threads
<1> QED
  BY <1>2, <1>4, <1>5, <1>6, <1>9, <1>10, <1>11, <1>12, <1>13, <1>14 DEF Next, UpdatePhase

-----------------------------------------------------------------------------
(* The invariant, and what follows from it *)

LEMMA HistoryStays ==
  ASSUME [Next]_vars
  PROVE  (overlapped => overlapped') /\ (rewound => rewound')
<1>1. ASSUME overlapped
      PROVE  overlapped'
  BY <1>1 DEF Next, UpdatePhase, ReadStart, ReadPhase, CalcPhaseAll,
         StartNewCycle, ResetCycle, LoadCount, CountPhase, Enter, Sends,
         SendPacket, RecvsAck, RecvAck, RecvsData, RecvPacket, OverrideRTT,
         OverrideBitrateUp, Tick
<1>2. ASSUME rewound
      PROVE  rewound'
  BY <1>2 DEF Next, UpdatePhase, ReadStart, ReadPhase, CalcPhaseAll,
         StartNewCycle, ResetCycle, LoadCount, CountPhase, Enter, Sends,
         SendPacket, RecvsAck, RecvAck, RecvsData, RecvPacket, OverrideRTT,
         OverrideBitrateUp, Tick
<1> QED
  BY <1>1, <1>2

LEMMA ArrivedIsNotLostNext == (TypeOK /\ Recorded => LostDidNotArrive)'
<1>1. TypeOK /\ Recorded => LostDidNotArrive
  BY ArrivedIsNotLost
<1> QED
  BY <1>1, PTL

LEMMA InvInit ==
  ASSUME Init
  PROVE  IInv
<1>1. TypeOK /\ Deciding
  BY TypeInit
<1>2. /\ \A t \in Threads : thread[t] = Idle
      /\ upstreamHistory = <<>> /\ DOMAIN upstreamHistory = {}
      /\ downstreamHistory = <<>> /\ DOMAIN downstreamHistory = {}
      /\ now = 0 /\ phaseCycleCount = 0 /\ cycleStartTime = 0
      /\ judged = {} /\ arrived = {}
  BY DEF Init
<1>3. \A t \in Threads : thread[t].pc = "idle" /\ thread[t].at = 0
                         /\ thread[t].packet.type = "none"
  BY <1>2 DEF Idle, NoPacket
<1>4. Timed /\ Ordered /\ JudgedCompletely /\ Recorded /\ LostDidNotArrive
  BY <1>2, <1>3 DEF Timed, Ordered, JudgedCompletely, Recorded, LostDidNotArrive, Threads
<1>5. RttIsTime /\ SkewBracketed
  <2>1. /\ FirstFilters["bigRTT"].value = FirstBigRtt
        /\ FirstFilters["lowerBoundSkew"].initOnFirst
        /\ FirstFilters["upperBoundSkew"].initOnFirst
    BY DEF FirstFilters, FilterNames, Gains
  <2> QED
    BY <2>1, RateCtrlAssumption DEF Init, RttIsTime, SkewBracketed
<1>6. Alone
  BY <1>2, <1>3, OutsideConsistent DEF Alone, InUpdate
<1>7. InTime
  <2>1. Count = 0
    BY <1>1, <1>3, CountTyped, <1>2 DEF Begins
  <2>2. 0 % NumPhasePerCycle = 0
    BY Remainder, RateCtrlAssumption
  <2>3. PhaseStart = 0
    BY <1>2, <2>1, <2>2, RateCtrlAssumption DEF PhaseStart
  <2>4. Count * PhaseTime = 0
    BY <2>1, RateCtrlAssumption
  <2> QED
    BY <1>2, <1>3, <2>3, <2>4 DEF InTime, Behind, Threads
<1> QED
  BY <1>1, <1>4, <1>5, <1>6, <1>7 DEF IInv

LEMMA InvStep ==
  ASSUME IInv, [Next]_vars
  PROVE  IInv'
<1>1. TypeOK' /\ Deciding'
  BY TypeStep DEF IInv
<1>2. Timed' /\ RttIsTime' /\ SkewBracketed'
  BY TimedStep, SkewStep DEF IInv
<1>3. (~rewound' => Ordered') /\ JudgedCompletely' /\ Recorded'
  <2>1. ~rewound' => ~rewound
    BY HistoryStays
  <2>2. ~rewound' => Ordered' /\ JudgedCompletely'
    BY <2>1, OrderedStep DEF IInv
  <2>3. JudgedCompletely'
    BY <2>2 DEF JudgedCompletely
  <2>4. Recorded'
    BY RecordedStep DEF IInv
  <2> QED
    BY <2>2, <2>3, <2>4
<1>4. LostDidNotArrive'
  BY <1>1, <1>3, ArrivedIsNotLostNext
<1>5. ASSUME ~overlapped'
      PROVE  Alone' /\ InTime'
  <2>1. Alone /\ InTime
    BY <1>5, HistoryStays DEF IInv
  <2> QED
    BY <1>1, <1>5, <2>1, AloneStep, InTimeStep DEF IInv
<1> QED
  BY <1>1, <1>2, <1>3, <1>4, <1>5 DEF IInv

LEMMA Invariant == Spec => []IInv
<1>1. Init => IInv
  BY InvInit
<1>2. IInv /\ [Next]_vars => IInv'
  BY InvStep
<1> QED
  BY <1>1, <1>2, PTL DEF Spec

\* The difference between the relay's clock and the client's stays between the two
\* estimates of it, whatever the network does to acknowledgements.
THEOREM SkewIsBracketed == Spec => []SkewBracketed
<1>1. IInv => SkewBracketed
  BY DEF IInv
<1> QED
  BY <1>1, Invariant, PTL

\* Once a phase has been judged no packet of it is open, although both threads
\* may judge at once and later phases may be judged before earlier ones, until one
\* thread overwrites what the other has counted with a smaller count.
THEOREM JudgedHasNoOpen == Spec => []JudgedCompletely
<1>1. IInv => JudgedCompletely
  BY DEF IInv
<1> QED
  BY <1>1, Invariant, PTL

\* No publication that arrived is counted lost, in whatever order publications
\* arrive and however often the history is cleared.
THEOREM LostWasNotReceived == Spec => []LostDidNotArrive
<1>1. IInv => LostDidNotArrive
  BY DEF IInv
<1> QED
  BY <1>1, Invariant, PTL

\* While no two calls of updatePhase overlap, the phase count does not run ahead of
\* the clock, for any pauses between the calls.
THEOREM CountFollowsClock == Spec => []CountWithinTime
<1>1. IInv => CountWithinTime
  <2> SUFFICES ASSUME IInv, ~overlapped
               PROVE  phaseCycleCount * PhaseTime <= now
    BY DEF CountWithinTime
  <2>1. /\ phaseCycleCount \in Int /\ Count \in Int /\ phaseCycleCount <= Count
        /\ now \in Int /\ cycleStartTime \in Int /\ PhaseStart \in Int
    BY CountTyped DEF IInv, Count
  <2>2. /\ Count * PhaseTime <= cycleStartTime \/ PhaseStart <= now
        /\ Count * PhaseTime <= PhaseStart /\ cycleStartTime <= now
    BY DEF IInv, InTime, Behind, Alone
  <2>3. phaseCycleCount * PhaseTime <= Count * PhaseTime
    BY <2>1, Multiplied, RateCtrlAssumption
  <2>4. phaseCycleCount * PhaseTime \in Int /\ Count * PhaseTime \in Int
    BY <2>1, RateCtrlAssumption
  <2> QED
    BY <2>1, <2>2, <2>3, <2>4
<1> QED
  BY <1>1, Invariant, PTL

\* Only a step that judges gives a packet up.
LEMMA OnlyJudgingGivesUp ==
  ASSUME TypeOK, Deciding, [Next]_vars, NEW i \in DOMAIN upstreamHistory,
         upstreamHistory[i].status # "lost", upstreamHistory'[i].status = "lost"
  PROVE  \E t \in Threads : /\ CalcPhaseAll(t) /\ PhasesBack < phaseCycleCount
                            /\ i \in UpRange(phaseCycleCount - PhasesBack)
<1>1. ~(UNCHANGED upstreamHistory)
  OBVIOUS
<1>2. CASE SendPacket
  BY <1>2, SendPacketAppends
<1>3. CASE RecvAck
  BY <1>3, RecvAckTyped
<1>4. ASSUME NEW t \in Threads, CalcPhaseAll(t)
      PROVE  /\ PhasesBack < phaseCycleCount
             /\ i \in UpRange(phaseCycleCount - PhasesBack)
  <2> DEFINE phase == phaseCycleCount - PhasesBack
  <2>1. ~(PhasesBack >= phaseCycleCount) /\ upstreamHistory' = GivenUp(phase)
    BY <1>1, <1>4 DEF CalcPhaseAll
  <2>2. i \in UpRange(phase)
    BY <2>1 DEF GivenUp
  <2>3. PhasesBack \in Int /\ phaseCycleCount \in Int
    BY PhasesBackTyped, CountTyped
  <2> QED
    BY <2>1, <2>2, <2>3
<1> QED
  BY <1>1, <1>2, <1>3, <1>4
     DEF Next, UpdatePhase, ReadStart, ReadPhase, StartNewCycle, ResetCycle, LoadCount,
         CountPhase, Enter, Sends, RecvsAck, RecvsData, RecvPacket,
         OverrideRTT, OverrideBitrateUp, Tick

\* What is PhasesBack phases old was sent longer ago than the large round trip.
LEMMA RoundTripAgo ==
  ASSUME TypeOK, RttIsTime
  PROVE  PhasesBack * PhaseTime \in Int /\ PhasesBack * PhaseTime > filters["bigRTT"].value
<1> DEFINE rtt == filters["bigRTT"].value
           n == rtt \div PhaseTime
<1>1. rtt \in Int /\ PhaseTime \in Nat \ {0}
  BY PhasesBackTyped, RateCtrlAssumption
<1>2. PhasesBack = n + 1
  BY DEF PhasesBack
<1> HIDE DEF rtt
<1>3. n \in Int /\ rtt - PhaseTime * n < PhaseTime
  <2>1. n \in Int /\ rtt % PhaseTime \in 0 .. PhaseTime - 1
        /\ rtt % PhaseTime = rtt - PhaseTime * n
    BY <1>1, Division DEF n
  <2> HIDE DEF n
  <2> QED
    BY <1>1, <2>1
<1> HIDE DEF n
<1>4. PhasesBack * PhaseTime = PhaseTime * n + PhaseTime /\ PhaseTime * n \in Int
  BY <1>1, <1>2, <1>3
<1> QED
  BY <1>1, <1>3, <1>4 DEF rtt

LEMMA GivenUpLater ==
  ASSUME IInv, ~overlapped, NEW t \in Threads, CalcPhaseAll(t),
         NEW i \in UpRange(phaseCycleCount - PhasesBack)
  PROVE  now - upstreamHistory[i].localSendTime > filters["bigRTT"].value
<1> DEFINE r == phaseCycleCount % NumPhasePerCycle
           sent == upstreamHistory[i].localSendTime
           at == thread[t].at
           new == thread[t].new
           phase == phaseCycleCount - PhasesBack
<1>0. TypeOK /\ Deciding /\ Timed /\ RttIsTime /\ Alone /\ InTime
  BY DEF IInv
<1>1. /\ phaseCycleCount \in Int /\ PhasesBack \in Int /\ PhaseTime \in Nat \ {0}
      /\ NumPhasePerCycle \in Nat \ {0} /\ now \in Int /\ cycleStartTime \in Int
      /\ r \in 0 .. NumPhasePerCycle - 1 /\ filters["bigRTT"].value \in Int
  BY <1>0, CountTyped, PhasesBackTyped, RateCtrlAssumption
<1>2. at \in Int /\ at <= now /\ new \in Nat
  <2>1. thread[t] \in ThreadState /\ at <= now
    BY <1>0 DEF TypeOK, Timed
  <2>2. 0 .. MaxTime \subseteq Int
    BY RateCtrlAssumption
  <2> QED
    BY <2>1, <2>2 DEF ThreadState
<1>3. /\ i \in DOMAIN upstreamHistory /\ upstreamHistory[i].sendPhaseCount = phase
      /\ sent \in Int
  <2>1. i \in UpTo(phase) /\ i \in DOMAIN upstreamHistory /\ i \in Int
    BY <1>0, <1>1, RangesFinite DEF UpRange, UpTo, TypeOK
  <2>2. upstreamHistory[i].sendPhaseCount = phase
    BY <2>1 DEF UpRange
  <2>3. upstreamHistory[i] \in UpRecord /\ 0 .. MaxTime \subseteq Int
    BY <1>0, <2>1, RttTyped, RateCtrlAssumption
  <2> QED
    BY <2>1, <2>2, <2>3 DEF UpRecord
<1>4. thread[t].pc = "judge" /\ InUpdate(t)
  BY DEF CalcPhaseAll, InUpdate
<1>5. \A u \in Threads : ~Begins(u)
  BY <1>0, <1>4, AloneMeans DEF Begins
<1>6. Count = phaseCycleCount
  BY <1>0, <1>5, CountTyped
<1>7. PhaseStart = cycleStartTime + r * PhaseTime
  BY <1>6 DEF PhaseStart
<1>8. SentBefore(sent, phase, phaseCycleCount, PhaseStart)
  BY <1>0, <1>3, <1>6 DEF InTime
<1>9. Consistent(thread[t], cycleStartTime, phaseCycleCount)
  BY <1>0 DEF Alone
<1>10. \/ new >= NumPhasePerCycle /\ cycleStartTime + PhaseTime * NumPhasePerCycle <= at
       \/ new > r /\ cycleStartTime + PhaseTime * new <= at
  <2>1. new >= NumPhasePerCycle \/ (new < NumPhasePerCycle /\ new > thread[t].old)
    BY <1>0, <1>1, <1>2, <1>4 DEF Deciding
  <2> QED
    BY <1>4, <1>9, <2>1 DEF Consistent
<1> HIDE DEF r, sent, at, new
<1>11. \E k \in Int : r + 1 <= k /\ cycleStartTime + PhaseTime * k <= at
  BY <1>1, <1>2, <1>10
<1>12. PICK k \in Int : r + 1 <= k /\ cycleStartTime + PhaseTime * k <= at
  BY <1>11
<1>13. PhaseTime * (r + 1) <= PhaseTime * k
  BY <1>1, <1>12, Multiplied
<1>14. PhaseTime * (r + 1) = r * PhaseTime + PhaseTime /\ r * PhaseTime \in Int
       /\ PhaseTime * k \in Int
  BY <1>1, <1>12
<1>15. PhaseStart + PhaseTime <= at
  BY <1>1, <1>2, <1>7, <1>12, <1>13, <1>14
<1>16. PhasesBack * PhaseTime > filters["bigRTT"].value /\ PhasesBack * PhaseTime \in Int
  BY <1>0, RoundTripAgo
<1>17. sent + PhasesBack * PhaseTime < PhaseStart + PhaseTime
  <2>1. phaseCycleCount - phase = PhasesBack
    BY <1>1
  <2> QED
    BY <1>8, <2>1 DEF SentBefore
<1>18. PhaseStart \in Int /\ sent \in Int
  BY <1>0, <1>3, CountTyped DEF sent
<1> QED
  BY <1>1, <1>2, <1>15, <1>16, <1>17, <1>18 DEF sent

\* While no two calls of updatePhase overlap, a packet is given up only when more
\* than the large round trip has passed since it was sent, whatever it is set to.
THEOREM GivenUpLate == Spec => GivenUpInTime
<1>1. IInv /\ [Next]_vars =>
        [\A i \in DOMAIN upstreamHistory :
            /\ ~overlapped
            /\ upstreamHistory[i].status # "lost" /\ upstreamHistory'[i].status = "lost"
            => now - upstreamHistory[i].localSendTime > filters["bigRTT"].value]_vars
  <2> SUFFICES ASSUME IInv, [Next]_vars, NEW i \in DOMAIN upstreamHistory, ~overlapped,
                      upstreamHistory[i].status # "lost",
                      upstreamHistory'[i].status = "lost"
               PROVE  now - upstreamHistory[i].localSendTime > filters["bigRTT"].value
    OBVIOUS
  <2> QED
    BY OnlyJudgingGivesUp, GivenUpLater DEF IInv
<1> QED
  BY <1>1, Invariant, PTL DEF Spec, GivenUpInTime

-----------------------------------------------------------------------------
(* The rates *)

\* The packets of a phase that the relay got, and the rates at which packets got there
Delivered(h, p) ==
    {i \in DOMAIN h : h[i].sendPhaseCount = p /\ h[i].status \in {"received", "ack"}}
Reached(h, phases) ==
    {FirstRate, SetRate} \cup {Cardinality(Delivered(h, p)) : p \in phases}

\* Both rates are at most one that was reached.
Within(rate, target, h, phases) ==
    \E r \in Reached(h, phases) : rate <= r /\ target <= r

LEMMA ReachedMeans ==
  RateWasReached <=>
      Within(filters["bitrateUp"].value, upstreamBitrateTarget, upstreamHistory, judged)
BY DEF RateWasReached, Within, Reached, Delivered

LEMMA ReachedMeansNext ==
  RateWasReached' <=>
      Within(filters'["bitrateUp"].value, upstreamBitrateTarget', upstreamHistory', judged')
BY DEF RateWasReached, Within, Reached, Delivered

LEMMA DeliveredFinite ==
  ASSUME NEW h \in Seq(UpRecord), NEW p
  PROVE  IsFiniteSet(Delivered(h, p)) /\ Cardinality(Delivered(h, p)) \in Nat
<1>1. Delivered(h, p) \subseteq 1 .. Len(h) /\ IsFiniteSet(1 .. Len(h))
  BY FS_Interval DEF Delivered
<1>2. IsFiniteSet(Delivered(h, p))
  BY <1>1, FS_Subset
<1> QED
  BY <1>2, FS_CardinalityType

\* Nothing that was delivered is taken back.
Grows(h, g) ==
    \A i \in DOMAIN h :
        /\ i \in DOMAIN g /\ g[i].sendPhaseCount = h[i].sendPhaseCount
        /\ h[i].status \in {"received", "ack"} => g[i].status \in {"received", "ack"}

\* So what was reached stays in reach.
LEMMA ReachedGrows ==
  ASSUME NEW h \in Seq(UpRecord), NEW g \in Seq(UpRecord), Grows(h, g),
         NEW phases, NEW more, phases \subseteq more,
         NEW r \in Reached(h, phases)
  PROVE  r \in Nat /\ \E s \in Reached(g, more) : s \in Nat /\ r <= s
<1>1. CASE r \in {FirstRate, SetRate}
  BY <1>1, RateCtrlAssumption DEF Reached
<1>2. ASSUME NEW p \in phases, r = Cardinality(Delivered(h, p))
      PROVE  r \in Nat /\ \E s \in Reached(g, more) : s \in Nat /\ r <= s
  <2>1. Delivered(h, p) \subseteq Delivered(g, p)
    BY DEF Grows, Delivered
  <2>2. Cardinality(Delivered(h, p)) <= Cardinality(Delivered(g, p))
    BY <2>1, DeliveredFinite, FS_Subset
  <2>3. Cardinality(Delivered(g, p)) \in Reached(g, more)
    BY DEF Reached
  <2> QED
    BY <1>2, <2>2, <2>3, DeliveredFinite
<1> QED
  BY <1>1, <1>2 DEF Reached

LEMMA WithinGrows ==
  ASSUME NEW h \in Seq(UpRecord), NEW g \in Seq(UpRecord), Grows(h, g),
         NEW phases, NEW more, phases \subseteq more,
         NEW rate \in Int, NEW target \in Int, Within(rate, target, h, phases)
  PROVE  Within(rate, target, g, more)
<1>1. PICK r \in Reached(h, phases) : rate <= r /\ target <= r
  BY DEF Within
<1>2. PICK s \in Reached(g, more) : s \in Nat /\ r \in Nat /\ r <= s
  BY <1>1, ReachedGrows
<1> QED
  BY <1>1, <1>2 DEF Within

\* Two rates are at most the larger of what each of them is at most.
LEMMA WithinLarger ==
  ASSUME NEW h \in Seq(UpRecord), NEW phases, NEW rate \in Int, NEW target \in Int,
         \E r \in Reached(h, phases) : rate <= r,
         \E r \in Reached(h, phases) : target <= r
  PROVE  Within(rate, target, h, phases)
<1>1. Reached(h, phases) \subseteq Nat
  BY DeliveredFinite, RateCtrlAssumption DEF Reached
<1>2. PICK r \in Reached(h, phases), s \in Reached(h, phases) : rate <= r /\ target <= s
  OBVIOUS
<1>3. r \in Nat /\ s \in Nat
  BY <1>1
<1>4. CASE r <= s
  BY <1>2, <1>3, <1>4 DEF Within
<1>5. CASE s <= r
  BY <1>2, <1>3, <1>5 DEF Within
<1> QED
  BY <1>3, <1>4, <1>5

\* The filter of the rate falls for no sample and rises at once.
LEMMA RateAdded ==
  ASSUME TypeOK, NEW v \in Int
  PROVE  Added("bitrateUp", v).value \in {v, filters["bitrateUp"].value}
<1> DEFINE old == filters["bitrateUp"].value
<1>1. old \in Int
  BY DEF TypeOK, FilterNames, Gains, Filter
<1>2. /\ Added("bitrateUp", v).value =
            IF filters["bitrateUp"].initOnFirst THEN v
            ELSE IF v > old THEN Truncated(v * 1024 + old * (1024 - 1024), 1024)
            ELSE Truncated(v * 0 + old * (1024 - 0), 1024)
  BY DEF Added, Gains
<1> HIDE DEF old
<1>3. \A n \in Int : Truncated(n * 1024, 1024) = n
  BY TruncatedWithin, TruncatedTyped
<1>4. v * 1024 + old * (1024 - 1024) = v * 1024 /\ v * 0 + old * (1024 - 0) = old * 1024
  BY <1>1
<1> QED
  BY <1>1, <1>2, <1>3, <1>4 DEF old

\* What calcPhaseAll adds to the filter was delivered in the phase it judges.
LEMMA JudgedRate ==
  ASSUME TypeOK, NEW phase \in Int, NEW v \in Sample("bitrateUp", phase)
  PROVE  v \in Nat /\ v <= Cardinality(Delivered(upstreamHistory, phase))
<1> DEFINE up == UpRange(phase)
           delivered == WithStatus(up, "ack") \cup WithStatus(up, "received")
<1>1. v \in Rate(delivered)
  BY DEF Sample
<1>2. v = Cardinality(delivered)
  BY <1>1 DEF Rate
<1>3. delivered \subseteq Delivered(upstreamHistory, phase)
  BY DEF WithStatus, UpRange, UpTo, Delivered
<1>4. upstreamHistory \in Seq(UpRecord)
  BY DEF TypeOK
<1>5. IsFiniteSet(Delivered(upstreamHistory, phase))
      /\ Cardinality(Delivered(upstreamHistory, phase)) \in Nat
  BY <1>4, DeliveredFinite
<1> HIDE DEF delivered
<1>6. Cardinality(delivered) <= Cardinality(Delivered(upstreamHistory, phase))
  BY <1>3, <1>5, FS_Subset
<1>7. IsFiniteSet(delivered)
  BY <1>3, <1>5, FS_Subset
<1>8. Cardinality(delivered) \in Nat
  BY <1>7, FS_CardinalityType
<1> QED
  BY <1>2, <1>6, <1>8

LEMMA CalcPhaseAllReached ==
  ASSUME TypeOK, TypeOK', RateWasReached, NEW t \in Threads, CalcPhaseAll(t)
  PROVE  RateWasReached'
<1> DEFINE phase == phaseCycleCount - PhasesBack
           h == upstreamHistory
           rate == filters["bitrateUp"].value
           target == upstreamBitrateTarget
<1>0. /\ h \in Seq(UpRecord) /\ rate \in Int /\ target \in Int /\ target' = target
      /\ "bitrateUp" \in FilterNames /\ h' \in Seq(UpRecord)
  BY DEF TypeOK, FilterNames, Gains, Filter, CalcPhaseAll
<1>1. Within(rate, target, h, judged)
  BY ReachedMeans
<1>2. CASE PhasesBack >= phaseCycleCount
  BY <1>1, <1>2, ReachedMeansNext DEF CalcPhaseAll
<1>3. CASE ~(PhasesBack >= phaseCycleCount)
  <2>1. phase \in Int
    BY PhasesBackTyped DEF TypeOK
  <2>2. /\ h' = GivenUp(phase) /\ judged' = judged \cup {phase}
        /\ filters'["bitrateUp"] =
              IF Sample("bitrateUp", phase) = {} THEN filters["bitrateUp"]
              ELSE Added("bitrateUp", CHOOSE v \in Sample("bitrateUp", phase) : TRUE)
    BY <1>0, <1>3 DEF CalcPhaseAll
  <2> HIDE DEF phase
  <2>3. Grows(h, h')
    BY <2>2, GivenUpKeeps DEF Grows, GivenUp
  <2>4. Within(rate, target, h', judged')
    BY <1>0, <1>1, <2>2, <2>3, WithinGrows
  <2>5. PICK r \in Reached(h', judged') : rate <= r /\ target <= r
    BY <2>4 DEF Within
  <2>6. CASE filters'["bitrateUp"] = filters["bitrateUp"]
    BY <1>0, <2>4, <2>6, ReachedMeansNext
  <2>7. ASSUME NEW v \in Sample("bitrateUp", phase),
               filters'["bitrateUp"] = Added("bitrateUp", v)
        PROVE  RateWasReached'
    <3>1. v \in Nat /\ v <= Cardinality(Delivered(h, phase))
      BY <2>1, JudgedRate
    <3>2. filters'["bitrateUp"].value \in {v, rate}
      BY <2>7, <3>1, RateAdded
    <3>3. Cardinality(Delivered(h, phase)) \in Reached(h, judged')
      BY <2>2 DEF Reached
    <3>4. PICK s \in Reached(h', judged') :
             s \in Nat /\ Cardinality(Delivered(h, phase)) <= s
      BY <1>0, <2>3, <3>3, ReachedGrows
    <3>5. v <= s
      BY <1>0, <3>1, <3>4, DeliveredFinite
    <3>6. \E q \in Reached(h', judged') : filters'["bitrateUp"].value <= q
      BY <2>5, <3>2, <3>4, <3>5
    <3>7. filters'["bitrateUp"].value \in Int
      BY <1>0, <3>1, <3>2
    <3> HIDE DEF h, rate, target
    <3>8. Within(filters'["bitrateUp"].value, target', h', judged')
      BY <1>0, <2>5, <3>6, <3>7, WithinLarger
    <3> QED
      BY <3>8, ReachedMeansNext DEF h, target
  <2> QED
    BY <2>1, <2>2, <2>6, <2>7, JudgedFilters, <1>0
<1> QED
  BY <1>2, <1>3

\* The target of a new cycle is at most what the filter says.
LEMMA TargetBelowRate ==
  ASSUME TypeOK
  PROVE  \A v \in NextTargetsUp : v \in Int /\ v <= filters["bitrateUp"].value
<1>1. filters["bitrateUp"].value \in Int /\ NextTargetsUp \subseteq Int
  BY TargetsTyped DEF TypeOK, FilterNames, Gains, Filter
<1>2. upstreamBitrateTarget \div 2 \in Int /\ (upstreamBitrateTarget * 3) \div 2 \in Int
  BY DEF TypeOK
<1> QED
  BY <1>1, <1>2, RateCtrlAssumption DEF NextTargetsUp, Smaller

LEMMA RateStep ==
  ASSUME TypeOK, TypeOK', Deciding, RateWasReached, [Next]_vars
  PROVE  RateWasReached'
<1> DEFINE h == upstreamHistory
           rate == filters["bitrateUp"].value
           target == upstreamBitrateTarget
<1>0. /\ h \in Seq(UpRecord) /\ rate \in Int /\ target \in Int /\ h' \in Seq(UpRecord)
      /\ "bitrateUp" \in FilterNames \ {"minRTT", "bigRTT"}
  BY DEF TypeOK, FilterNames, Gains, Filter
<1>1. Within(rate, target, h, judged)
  BY ReachedMeans
<1>2. ASSUME filters'["bitrateUp"].value = rate, target' = target, judged' = judged,
             Grows(h, h')
      PROVE  RateWasReached'
  BY <1>0, <1>1, <1>2, WithinGrows, ReachedMeansNext
<1>3. h' = h => Grows(h, h')
  BY DEF Grows
<1>4. ASSUME NEW t \in Threads, CalcPhaseAll(t)
      PROVE  RateWasReached'
  BY <1>4, CalcPhaseAllReached
<1>5. ASSUME NEW t \in Threads, StartNewCycle(t)
      PROVE  RateWasReached'
  <2>1. /\ filters'["bitrateUp"] = filters["bitrateUp"] /\ target' \in NextTargetsUp
        /\ h' = h /\ judged' = judged
    BY <1>0, <1>5, StartNewCycleFilters DEF StartNewCycle
  <2>2. PICK r \in Reached(h, judged) : rate <= r
    BY <1>1 DEF Within
  <2>3. target' \in Int /\ target' <= rate
    BY <2>1, TargetBelowRate
  <2>4. r \in Nat
    BY <1>0, <2>2, DeliveredFinite, RateCtrlAssumption DEF Reached
  <2>5. target' <= r
    BY <1>0, <2>1, <2>2, <2>3, <2>4
  <2>6. Within(filters'["bitrateUp"].value, target', h', judged')
    BY <2>1, <2>2, <2>5 DEF Within
  <2> QED
    BY <2>6, ReachedMeansNext
<1>6. ASSUME NEW t \in Threads, ResetCycle(t)
      PROVE  RateWasReached'
  <2>1. /\ filters'["bitrateUp"].value = rate /\ target' = target
        /\ h' = h /\ judged' = judged
    BY <1>0, <1>6, ResetCycleFilters DEF ResetCycle
  <2> QED
    BY <1>2, <1>3, <2>1
<1>7. CASE SendPacket
  <2>1. Grows(h, h')
    BY <1>7, SendPacketAppends DEF Grows
  <2> QED
    BY <1>2, <1>7, <2>1 DEF SendPacket
<1>8. CASE RecvAck
  <2>1. Grows(h, h')
    BY <1>0, <1>8, RecvAckTyped DEF Grows
  <2> QED
    BY <1>2, <1>8, <2>1 DEF RecvAck
<1>9. CASE OverrideRTT
  <2>1. filters'["bitrateUp"] = filters["bitrateUp"] /\ UNCHANGED <<h, target, judged>>
    BY <1>0, <1>9 DEF OverrideRTT, TypeOK
  <2> QED
    BY <1>2, <1>3, <2>1
<1>10. CASE OverrideBitrateUp
  <2>1. filters'["bitrateUp"].value = SetRate /\ target' = SetRate
    BY <1>0, <1>10 DEF OverrideBitrateUp, TypeOK, Estimate
  <2>2. SetRate \in Reached(h', judged') /\ SetRate \in Nat
    BY RateCtrlAssumption DEF Reached
  <2>3. Within(filters'["bitrateUp"].value, target', h', judged')
    BY <2>1, <2>2 DEF Within
  <2> QED
    BY <2>3, ReachedMeansNext
<1>11. CASE UNCHANGED <<filters, target, h, judged>>
  BY <1>2, <1>3, <1>11
<1> QED
  BY <1>4, <1>5, <1>6, <1>7, <1>8, <1>9, <1>10, <1>11
     DEF Next, UpdatePhase, ReadStart, ReadPhase, LoadCount, CountPhase, Enter,
         Sends, RecvsAck, RecvsData, RecvPacket, Tick

\* The upstream rate and the target that follows from it are at most one at which
\* packets of one phase were delivered, or one the session began with or the
\* application set, whatever is lost, late or repeated.
THEOREM RatesWereReached == Spec => []RateWasReached
<1> DEFINE Inv == TypeOK /\ Deciding /\ RateWasReached
<1>1. Init => Inv
  <2> SUFFICES ASSUME Init PROVE RateWasReached
    BY TypeInit
  <2>1. filters["bitrateUp"].value = FirstRate
    BY DEF Init, FirstFilters, FilterNames, Gains
  <2>2. FirstRate \in Reached(upstreamHistory, judged) /\ FirstRate \in Nat
    BY RateCtrlAssumption DEF Reached
  <2>3. upstreamBitrateTarget <= FirstRate
    BY <2>2, RateCtrlAssumption DEF Init, Smaller
  <2>4. Within(filters["bitrateUp"].value, upstreamBitrateTarget, upstreamHistory, judged)
    BY <2>1, <2>2, <2>3 DEF Within
  <2> QED
    BY <2>4, ReachedMeans
<1>2. Inv /\ [Next]_vars => Inv'
  BY TypeStep, RateStep
<1>3. Inv => RateWasReached
  OBVIOUS
<1> QED
  BY <1>1, <1>2, <1>3, PTL DEF Spec

=============================================================================
