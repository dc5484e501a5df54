--------------------------- MODULE MCDatabaseWriter ---------------------------
(* Instances of DatabaseWriter for TLC. *)
EXTENDS DatabaseWriter
=============================================================================
