-------------------------- MODULE ReturnRoutability --------------------------
(***************************************************************************)
(* What the relay's handshake promises (ServerConnectionPipe::processSyn): *)
(* an address becomes connected only from a challenge, and only when a     *)
(* challenge has reached that address.                                     *)
(***************************************************************************)
CONSTANT Clients

VARIABLES
    phase,   \* what the relay holds for each address
    reached  \* the addresses at which a challenge has arrived

vars == <<phase, reached>>

Init ==
    /\ phase = [c \in Clients |-> "unknown"]
    /\ reached = {}

\* The first sync of an unknown address is answered with a challenge.
Challenge(c) ==
    /\ phase[c] = "unknown"
    /\ phase' = [phase EXCEPT ![c] = "challenged"]
    /\ UNCHANGED reached

\* A challenge arrives.
Reach(c) ==
    /\ reached' = reached \cup {c}
    /\ UNCHANGED phase

\* The challenge is answered.
Accept(c) ==
    /\ phase[c] = "challenged" /\ c \in reached
    /\ phase' = [phase EXCEPT ![c] = "connected"]
    /\ UNCHANGED reached

\* The client resets its connection.
Forget(c) ==
    /\ phase[c] = "connected"
    /\ phase' = [phase EXCEPT ![c] = "unknown"]
    /\ UNCHANGED reached

\* The relay is started again.
Restart ==
    /\ phase' = [c \in Clients |-> "unknown"]
    /\ UNCHANGED reached

Next ==
    \/ \E c \in Clients : Challenge(c) \/ Reach(c) \/ Accept(c) \/ Forget(c)
    \/ Restart

Spec == Init /\ [][Next]_vars
=============================================================================
