------------------------------ MODULE MCLoginLimit -----------------------------
(* Small instances of LoginLimit for TLC. *)
EXTENDS LoginLimit, TLC

Symmetry == Permutations(Slots)
===============================================================================
