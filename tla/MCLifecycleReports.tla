------------------------ MODULE MCLifecycleReports ------------------------
(* LifecycleReports over three item types: business_rules of the BRD, and  *)
(* use_case and functional_requirement of the PRD; each follows the ones   *)
(* before it.                                                              *)
EXTENDS LifecycleReports, FiniteSets, TLC

Follows == <<{}, {1}, {1, 2}>>
Documents == <<"brd", "prd", "prd">>
Closure == <<{}, {1}, {1, 2}>>

\* Bound: business_rules may move on to a second version, the others may not,
\* and three versions are written at most.
FewVersions ==
    /\ Len(version[2]) <= 1 /\ Len(version[3]) <= 1
    /\ Len(version[1]) + Len(version[2]) + Len(version[3]) <= 3

\* Bound: POST /artifacts makes one item at most, and requests leave use_case
\* alone once it is there.
FewRequests ==
    /\ Cardinality(created) <= 1
    /\ \A r \in Requests : request[r].item # 2

\* Bound: use_case is proposed only beside functional_requirement, while no
\* request is in flight and nothing but a first version of each was written.
FewWriters ==
    LET made == {a \in Approvals : proposal[a].stage # "none"}
        on(i) == {a \in made : proposal[a].item = i}
    IN  \/ Cardinality(made) <= 1 /\ on(2) = {}
        \/ /\ \A i \in Items :
                 Len(version[i]) <= 1 /\ item[i].status \in {"absent", "draft", "accepted"}
           /\ \A r \in Requests : request[r] = NoRequest
           /\ created = {}

Symmetry == Permutations(Approvals) \cup Permutations(Requests)

=============================================================================
