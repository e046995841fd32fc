--------------------------- MODULE MCMaintenanceGate ---------------------------
(* An instance of MaintenanceGate for TLC. *)
EXTENDS MaintenanceGate, TLC

CONSTANTS t1, t2, t3, import
=============================================================================
