------------------------------ MODULE LiveState -----------------------------
(***************************************************************************)
(* The ring of live events in the memory of the HTTP process               *)
(* (src/app/smtp/live_state.py).  Every operation holds the ring's lock    *)
(* and is one step.                                                        *)
(*                                                                         *)
(*   ring     the last RingSize events, [seq, event]                       *)
(*   nextSeq  the number of the next event                                 *)
(*   gen      the generation: numbers start again in a new one             *)
(*                                                                         *)
(* A cursor is [gen, seq]: the last event its owner has had.               *)
(***************************************************************************)
EXTENDS Naturals, Sequences

CONSTANT RingSize

ASSUME RingSizeIsPositive == RingSize \in Nat \ {0}

VARIABLES ring, nextSeq, gen

ringVars == <<ring, nextSeq, gen>>

\* publish, of several events one after the other.
Publish(events) ==
  LET all == ring \o [i \in 1..Len(events) |-> [seq |-> nextSeq + i - 1, event |-> events[i]]]
      from == IF Len(all) > RingSize THEN Len(all) - RingSize + 1 ELSE 1 IN
  /\ ring' = SubSeq(all, from, Len(all))
  /\ nextSeq' = nextSeq + Len(events)
  /\ UNCHANGED gen

\* clear.
ClearRing ==
  /\ ring' = <<>>
  /\ nextSeq' = 1
  /\ gen' = gen + 1

\* events[-1].
LastOf(events) == events[Len(events)]

\* The cursor of snapshot_state.
SnapshotCursor == [gen |-> gen, seq |-> IF ring = <<>> THEN 0 ELSE LastOf(ring).seq]

Oldest == IF ring = <<>> THEN nextSeq ELSE ring[1].seq

\* snapshot_stream_window: the generation changed, the ring overran the cursor
\* or the cursor is ahead ...
Gap(cursor) ==
  \/ cursor.gen # gen
  \/ cursor.seq + 1 < Oldest
  \/ cursor.seq > nextSeq - 1

\* ... or the events after the cursor.
Window(cursor) == SelectSeq(ring, LAMBDA e : e.seq > cursor.seq)
=============================================================================
