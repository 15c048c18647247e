------------------------------ MODULE MCRateLimit -----------------------------
(* Small instances of RateLimit for TLC: the keys of one department. *)
EXTENDS RateLimit, TLC

CONSTANT Planning

OneDept == [k \in Keys |-> Planning]

(* One request per window and key; a department limit that may change. *)
TwoPolicies == {[key |-> 1, dept |-> 1], [key |-> 1, dept |-> 2]}
OnePolicy == {[key |-> 1, dept |-> 2]}

Symmetry == Permutations(Slots) \cup Permutations(Keys)
===============================================================================
