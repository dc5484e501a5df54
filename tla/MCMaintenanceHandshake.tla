------------------------- MODULE MCMaintenanceHandshake -------------------------
(* Instances of MaintenanceHandshake for TLC. *)
EXTENDS MaintenanceHandshake
=============================================================================
