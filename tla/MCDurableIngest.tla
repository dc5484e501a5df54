--------------------------- MODULE MCDurableIngest ---------------------------
(* DurableIngest for TLC.                                                   *)
EXTENDS DurableIngest
=============================================================================
