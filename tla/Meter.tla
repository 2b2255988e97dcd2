------------------------------- MODULE Meter -------------------------------
(***************************************************************************)
(* What an exported packet counter promises (internal/censor/kernel.go):   *)
(* it never goes backwards and never reports a packet that did not arrive, *)
(* whatever happens to the counters it is read from.                       *)
(***************************************************************************)
EXTENDS Naturals

CONSTANT Names  \* the series

VARIABLES
    arrived,  \* packets there have been, per series
    reported  \* what the meter shows

Init == arrived = [e \in Names |-> 0] /\ reported = [e \in Names |-> 0]

Arrival ==
    /\ \E e \in Names : arrived' = [arrived EXCEPT ![e] = @ + 1]
    /\ UNCHANGED reported

Report ==
    /\ reported' \in [Names -> Nat]
    /\ \A e \in Names : reported[e] <= reported'[e] /\ reported'[e] <= arrived[e]
    /\ UNCHANGED arrived

Spec == Init /\ [][Arrival \/ Report]_<<arrived, reported>>
=============================================================================
