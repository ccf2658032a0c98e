-------------------------- MODULE MCBroadcastRelay --------------------------
(* Instances of BroadcastRelay for model checking. *)
EXTENDS BroadcastRelay

\* The last two bytes are below the size and above it.
SomePackets == {[size |-> 20, tail |-> 3], [size |-> 20, tail |-> 700]}
=============================================================================
