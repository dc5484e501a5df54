---------------------------- MODULE MCBulkDelete ----------------------------
(* Instances of BulkDelete for TLC. *)
EXTENDS BulkDelete
=============================================================================
