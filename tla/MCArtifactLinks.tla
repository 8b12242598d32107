-------------------------- MODULE MCArtifactLinks --------------------------
(* ArtifactLinks with model values for TLC. *)
EXTENDS ArtifactLinks, TLC

Symmetry == Permutations(Artifacts) \cup Permutations(Requests) \cup Permutations(Relations)
=============================================================================
