---------------------------- MODULE MCLifecycle ----------------------------
(* Instances of Lifecycle for TLC. *)
EXTENDS Lifecycle, TLC

\* Conntrack tuples are interchangeable.
FlowSymmetry == Permutations(Flows)
=============================================================================
