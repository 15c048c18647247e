-------------------------------- MODULE MCBudget --------------------------------
(* Two requests and two changes of the policy at once, over two months. *)
EXTENDS Budget, TLC

(* A model of MODEL_PRICING; "local" has no price. *)
MCPricing == [m \in {"gpt-4o"} |-> [input |-> 250, output |-> 1000]]
MCModels == {"gpt-4o", "local"}
MCUsages == {[input |-> 40, output |-> 10]}
Symmetric == Permutations(Requests) \cup Permutations(Upserts)
================================================================================
