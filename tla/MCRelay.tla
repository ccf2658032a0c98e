------------------------------ MODULE MCRelay ------------------------------
(* Instances of Relay for model checking. *)
EXTENDS Relay, TLC

CONSTANTS a, b

\* A publication of b, at a mediaTime.
Media(s, q, t) == [Name(1, s, q) EXCEPT !.mediaTime = t]

\* Each client has its own names: b publishes, a and b subscribe to everything of
\* a sender, of a source or of the resource.
OwnNames == a :> {Name(1, 2, 0), Name(1, 2, 3)} @@ b :> {Name(1, 0, 0)}
TwoPublications == a :> {Media(2, 4, 8)} @@ b :> {Media(2, 3, 4)}
OnePublication == a :> {} @@ b :> {Media(2, 3, 8)}
\* Both subscribe to the same name.
SharedName == a :> {Name(1, 2, 0)} @@ b :> {Name(1, 2, 0)}

TwoAndTwo == a :> 2 @@ b :> 2
Four == a :> 4 @@ b :> 4
=============================================================================
