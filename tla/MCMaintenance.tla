----------------------------- MODULE MCMaintenance ------------------------------
(* The second version is sick, the third migrates the database; or there are two
   and the second does both. *)
EXTENDS Maintenance

MCRev == <<1, 1, 2>>
MCRevTwo == <<1, 2>>
================================================================================
