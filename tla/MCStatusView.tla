---------------------------- MODULE MCStatusView ----------------------------
(* Model checking of StatusView: the two artifacts are interchangeable. *)
EXTENDS StatusView, TLC

ArtifactSymmetry == Permutations(Artifacts)
=============================================================================
