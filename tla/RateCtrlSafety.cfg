\* Two threads without a lock, any network, cycles of three phases.
SPECIFICATION Spec
CONSTANTS
    PhaseTime = 1
    NumPhasePerCycle = 3
    Milli = 1
    MaxGap = 2
    BigWindow = 1
    FirstMinRtt = 0
    FirstBigRtt = 0
    FirstRate = 1
    SetBigRtt = 1
    SetRate = 1
    Garbage <- AnyRate
    Skew = 3
    SetUntil = 0
    MaxTime = 5
    MaxSent = 2
    MaxRelaySeq = 3
    OverlapUntil = 3
INVARIANTS
    TypeOK
    CountWithinTime
    JudgedCompletely
    LostDidNotArrive
    RateWasReached
    SkewBracketed
PROPERTY
    GivenUpInTime
CONSTRAINT
    Bounded
CHECK_DEADLOCK FALSE
