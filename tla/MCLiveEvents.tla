---------------------------- MODULE MCLiveEvents ----------------------------
(* LiveEvents for TLC: the ring holds RingSize events, so that the events  *)
(* of one connection can push those of a delivery out.                     *)
EXTENDS LiveEvents
=============================================================================
