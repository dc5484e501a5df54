---------------------------- MODULE MCRecoveryScan ----------------------------
(* RecoveryScan for TLC: two manifests of which a batch holds the bytes of  *)
(* one.                                                                     *)
EXTENDS RecoveryScan

MCSmall == [p \in Paths |-> 1]
=============================================================================
