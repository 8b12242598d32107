-------------------------- MODULE MCProviderConfig --------------------------
(* ProviderConfig with model values for TLC. *)
EXTENDS ProviderConfig, TLC

(* Bound: rows hold the same settings, unless one of them has none. No      *)
(* operation compares the settings of two rows.                             *)
SameSettings == Cardinality({row[c].settings : c \in Configs} \ {None}) <= 1

(* Calls and settings are interchangeable. *)
Symmetry == Permutations(Requests) \cup Permutations(Settings)

=============================================================================
