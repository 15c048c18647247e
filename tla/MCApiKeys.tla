------------------------------- MODULE MCApiKeys -------------------------------
(* Small instances of ApiKeys for TLC. *)
EXTENDS ApiKeys, TLC

CONSTANTS s1, s2

NoLegacy == [i \in {} |-> s1]
OneLegacy == [i \in {1} |-> s1]

(* Raw keys that are not legacy ones are interchangeable. *)
Symmetry == Permutations(Calls) \cup Permutations(People)
                \cup Permutations(Secrets \ {Legacy[i] : i \in DOMAIN Legacy})
===============================================================================
