--------------------------- MODULE MessageChannel ---------------------------
(***************************************************************************)
(* What publishing promises (QuicRClient::publish, QuicRClient::recv): a   *)
(* subscriber receives whole messages that were published.  A message may  *)
(* arrive late, several times or never.                                    *)
(***************************************************************************)
CONSTANT Messages

VARIABLES
    published,  \* the messages that were published
    received    \* the messages the subscriber has been given

vars == <<published, received>>

Init == published = {} /\ received = {}

Publish(m) ==
    /\ m \notin published
    /\ published' = published \cup {m}
    /\ UNCHANGED received

Receive(m) ==
    /\ m \in published
    /\ received' = received \cup {m}
    /\ UNCHANGED published

Next == \E m \in Messages : Publish(m) \/ Receive(m)

Spec == Init /\ [][Next]_vars
=============================================================================
