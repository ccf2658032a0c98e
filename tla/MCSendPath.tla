----------------------------- MODULE MCSendPath -----------------------------
(* Instances of SendPath for model checking. *)
EXTENDS SendPath, TLC

\* All packets of one priority, the default of Packet.
OnePriority == [n \in Names |-> 1]
\* Later packets are more important, by the comment of packet.hh.
TwoPriorities == [n \in Names |-> IF n % 2 = 0 THEN 1 ELSE 2]
=============================================================================
