------------------------------- MODULE Receipts -------------------------------
(***************************************************************************)
(* What the ingest pipeline promises about a message, without sessions,    *)
(* queues, workers, files or scans (README.md:225-245 of the repository):  *)
(* nothing is acknowledged before a receipt holds it, a held message is    *)
(* indexed or quarantined, an indexed one leaves only by deletion, and a   *)
(* deletion is final.                                                      *)
(***************************************************************************)
CONSTANT Msgs   \* message identities

VARIABLES
  state,         \* per message: "none", "held", "indexed", "quarantined", "deleted"
  acknowledged   \* messages whose client was told 250

rvars == <<state, acknowledged>>

Init == state = [m \in Msgs |-> "none"] /\ acknowledged = {}

(* A set of messages takes one arrow of the diagram together. *)
Move(S, from, to) ==
  /\ \A m \in S : state[m] \in from
  /\ state' = [m \in Msgs |-> IF m \in S THEN to ELSE state[m]]
  /\ UNCHANGED acknowledged

Hold(S) == Move(S, {"none", "quarantined"}, "held")
Index(S) == Move(S, {"held"}, "indexed")
Quarantine(S) == Move(S, {"held"}, "quarantined")
Delete(S) == Move(S, {"indexed"}, "deleted")

Acknowledge(m) ==
  /\ state[m] # "none"
  /\ acknowledged' = acknowledged \cup {m}
  /\ UNCHANGED state

Next ==
  \/ \E S \in SUBSET Msgs : Hold(S) \/ Index(S) \/ Quarantine(S) \/ Delete(S)
  \/ \E m \in Msgs : Acknowledge(m)

Spec == Init /\ [][Next]_rvars
=============================================================================
