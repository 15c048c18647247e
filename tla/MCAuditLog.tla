------------------------------ MODULE MCAuditLog ------------------------------
(* Small instances of AuditLog for TLC. *)
EXTENDS AuditLog, TLC

(* Loggers are interchangeable.  Contents are not: an idle logger holds one
   that CHOOSE picks. *)
Symmetry == Permutations(Loggers)
===============================================================================
