---------------------------- MODULE AdmissionQueue ----------------------------
(***************************************************************************)
(* The deque of admission waiters that app/db/writer.py and                *)
(* app/db/read_pool.py share in form: entries are never removed from the   *)
(* middle, a cancelled or granted one is skipped when it is met.  q is the *)
(* deque, w the state of every waiter.                                     *)
(***************************************************************************)
EXTENDS Integers, FiniteSets, Sequences

Waiting(q, w, k) == {i \in 1 .. k : w[q[i]] = "waiting"}

(* How many entries of the deque the loop of _grant_waiters_locked pops     *)
(* with free slots left: up to the last waiter it grants, all when there    *)
(* are fewer.                                                               *)
Popped(q, w, free) ==
  IF Cardinality(Waiting(q, w, Len(q))) < free THEN Len(q)
  ELSE CHOOSE k \in 0 .. Len(q) :
         /\ Cardinality(Waiting(q, w, k)) = free
         /\ \A j \in 0 .. k - 1 : Cardinality(Waiting(q, w, j)) < free

(* _discard_inactive_waiters_locked: the deque from its first waiting entry. *)
Active(q, w) ==
  LET k == CHOOSE k \in 0 .. Len(q) :
             /\ \A i \in 1 .. k : w[q[i]] # "waiting"
             /\ k < Len(q) => w[q[k + 1]] = "waiting"
  IN SubSeq(q, k + 1, Len(q))
=============================================================================
