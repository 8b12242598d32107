---------------------------- MODULE MCUseCaseRun ----------------------------
(* UseCaseRun with model values for TLC. *)
EXTENDS UseCaseRun, TLC

CONSTANTS client

(* Every use case is the client's. *)
Cast == [u \in Names |-> client]

(* Bound: two runs and one further call, or one run and two.               *)
FewSteps == runs + calls <= 3

Symmetry ==
    Permutations(Requests) \cup Permutations(Modules) \cup Permutations(Names)

=============================================================================
