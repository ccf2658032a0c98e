----------------------------- MODULE MCFragment -----------------------------
(* Instances of Fragment for model checking. *)
EXTENDS Fragment, TLC

CONSTANTS m1, m2

\* For the MTUs 1280 and 600: one datagram or two full fragments, and two fragments, of
\* which the last has one byte, or three.
Sizes == m1 :> 2 * 575 - 20 @@ m2 :> 1255 + 1 - 20

ASSUME LengthsAreRegular == Regular

=============================================================================
