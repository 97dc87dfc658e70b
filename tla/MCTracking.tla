----------------------------- MODULE MCTracking -----------------------------
(* Values for model checking Tracking.                                     *)
EXTENDS Tracking, TLC

(* Bound: what a rider is pushed takes a socket and one request.           *)
RidersNeedLess == \A c \in Clients : viewer[c] = "rider" => calls <= 2

Symmetry == {p @@ s @@ l : p \in Permutations(Processes), s \in Permutations(Slots), l \in Permutations(Places)}
=============================================================================
