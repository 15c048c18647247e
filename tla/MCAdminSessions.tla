--------------------------- MODULE MCAdminSessions ----------------------------
(* Small instances of AdminSessions for TLC. *)
EXTENDS AdminSessions, TLC

CONSTANT root

Symmetry == Permutations(Calls)
===============================================================================
