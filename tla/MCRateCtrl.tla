----------------------------- MODULE MCRateCtrl -----------------------------
(* Instances of RateCtrl for model checking. *)
EXTENDS RateCtrl

CONSTANT
    OverlapUntil  \* bound: ticks of a session in which two calls overlapped

\* A rest of what is not initialised: below zero, or as large as the first rate.
AnyRate == {-1, FirstRate}

\* A session in which acknowledgements or publications arrive, not both: the two
\* histories share only the phases.  What subscribes sends one packet.
OneDirection ==
    \/ arrived = {}
    \/ Len(upstreamHistory) <= 1 /\ \A i \in DOMAIN upstreamHistory :
                                      upstreamHistory[i].status \in {"sent", "lost"}

Bounded == OneDirection /\ (overlapped => now <= OverlapUntil)
=============================================================================
