------------------------------- MODULE PubSub -------------------------------
(***************************************************************************)
(* What a relay promises: a publication that it takes is acknowledged, and *)
(* a copy goes to every subscription that covers its name.                 *)
(***************************************************************************)
CONSTANTS
    Clients, Seqs,  \* who publishes, and the numbers of the packets
    Names,
    Covers(_, _)    \* a subscription's name, a publication's name

VARIABLES
    subscriptions,  \* pairs of a client and the name it subscribed to
    acked,          \* pairs of a client and the number of its publication
    forwarded       \* pairs of a subscription and the name of a copy

vars == <<subscriptions, acked, forwarded>>

Init == subscriptions = {} /\ acked = {} /\ forwarded = {}

Subscribe(client, name) ==
    /\ subscriptions' = subscriptions \cup {<<client, name>>}
    /\ UNCHANGED <<acked, forwarded>>

Publish(client, seq, name) ==
    /\ acked' = acked \cup {<<client, seq>>}
    /\ forwarded' = forwarded \cup
           {<<s, name>> : s \in {t \in subscriptions : Covers(t[2], name)}}
    /\ UNCHANGED subscriptions

Next ==
    \E client \in Clients, name \in Names :
        \/ Subscribe(client, name)
        \/ \E seq \in Seqs : Publish(client, seq, name)

Spec == Init /\ [][Next]_vars
=============================================================================
