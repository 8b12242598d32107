--------------------------- MODULE MCAgentSession ---------------------------
(* AgentSession with model values for TLC. *)
EXTENDS AgentSession, FiniteSets, TLC

(* Bound: a third message only without a kill and with at most one         *)
(* proposal.                                                               *)
FewEvents ==
    \/ clock <= 2
    \/ crashes = 0 /\ Cardinality({p \in Proposals : proposal[p].verdict # "unused"}) <= 1

(* Sessions, messages, proposals and turns are interchangeable. *)
Symmetry == Permutations(Sessions) \cup Permutations(Messages)
            \cup Permutations(Proposals) \cup Permutations(Turns)

=============================================================================
