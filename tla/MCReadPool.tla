------------------------------ MODULE MCReadPool ------------------------------
(* Instances of ReadPool for TLC. *)
EXTENDS ReadPool
=============================================================================
