---------------------- MODULE IngestAndSessionsProofs -----------------------
(***************************************************************************)
(* Proofs about the two SMTP sides: ingestd with its durable receipts, and *)
(* the sessions of the embedded server.                                    *)
(*                                                                         *)
(* DurableIngest: the inductive invariant, the safety theorems that follow *)
(* from it and, with a durable ACK, the refinement of Receipts: every step *)
(* is one of the arrows of a receipt or leaves all receipts as they are.   *)
(* Sequences are dealt with once, in the lemmas that say how the set Pipe  *)
(* of queued and popped messages changes; the lemmas about files, rows and *)
(* scans then treat Pipe as a set.                                         *)
(*                                                                         *)
(* LiveEvents: a connection that is gone leaves neither a slot nor an open *)
(* row behind.                                                             *)
(***************************************************************************)
EXTENDS DurableIngest, LiveEvents, TLAPS

-----------------------------------------------------------------------------
(* Sequences. *)

(* push_reserved adds one element.                                         *)
LEMMA ElemsAppend ==
  ASSUME NEW S, NEW q \in Seq(S), NEW m \in S
  PROVE  Elems(Append(q, m)) = Elems(q) \cup {m} /\ Append(q, m) \in Seq(S)
  <1>1. Len(Append(q, m)) = Len(q) + 1 /\ Append(q, m) \in Seq(S)
    OBVIOUS
  <1>2. \A i \in 1 .. Len(q) : Append(q, m)[i] = q[i]
    OBVIOUS
  <1>3. Append(q, m)[Len(q) + 1] = m
    OBVIOUS
  <1>4. ASSUME NEW x \in Elems(Append(q, m)) PROVE x \in Elems(q) \cup {m}
    <2>1. PICK i \in 1 .. Len(q) + 1 : x = Append(q, m)[i]
      BY <1>1, <1>4, Zenon DEF Elems
    <2>2. CASE i = Len(q) + 1
      BY <2>1, <2>2, <1>3, Zenon
    <2>3. CASE i # Len(q) + 1
      <3>1. i \in 1 .. Len(q)
        BY <2>3
      <3> QED
        BY <2>1, <3>1, <1>2, Zenon DEF Elems
    <2> QED
      BY <2>2, <2>3, Zenon
  <1>5. ASSUME NEW x \in Elems(q) \cup {m} PROVE x \in Elems(Append(q, m))
    <2>1. CASE x = m
      BY <2>1, <1>1, <1>3 DEF Elems
    <2>2. CASE x \in Elems(q)
      <3>1. PICK i \in 1 .. Len(q) : x = q[i]
        BY <2>2, Zenon DEF Elems
      <3>2. i \in 1 .. Len(Append(q, m)) /\ x = Append(q, m)[i]
        BY <3>1, <1>1, <1>2
      <3> QED
        BY <3>2, Zenon DEF Elems
    <2> QED
      BY <1>5, <2>1, <2>2, Zenon
  <1> QED
    BY <1>1, <1>4, <1>5, Zenon

(* A slice of a batch holds messages of the batch.                         *)
LEMMA ElemsSlice ==
  ASSUME NEW S, NEW q \in Seq(S), NEW a \in Nat \ {0}, NEW b \in Nat, b <= Len(q)
  PROVE  Elems(SubSeq(q, a, b)) \subseteq Elems(q) /\ SubSeq(q, a, b) \in Seq(S)
  <1>1. SubSeq(q, a, b) \in Seq(S)
    OBVIOUS
  <1>2. \A i \in 1 .. Len(SubSeq(q, a, b)) :
          a + i - 1 \in 1 .. Len(q) /\ SubSeq(q, a, b)[i] = q[a + i - 1]
    OBVIOUS
  <1> QED
    BY <1>1, <1>2, Zenon DEF Elems

(* Without its top batch the stack holds nothing new.                      *)
LEMMA TailStack ==
  ASSUME NEW S, NEW bs \in Seq(Seq(S)), bs # <<>>
  PROVE  Batches(Tail(bs)) \subseteq Batches(bs) /\ Tail(bs) \in Seq(Seq(S))
  <1>1. Tail(bs) \in Seq(Seq(S)) /\ Len(Tail(bs)) = Len(bs) - 1
    OBVIOUS
  <1>2. \A i \in 1 .. Len(Tail(bs)) : i + 1 \in 1 .. Len(bs) /\ Tail(bs)[i] = bs[i + 1]
    OBVIOUS
  <1> QED
    BY <1>1, <1>2, Zenon DEF Batches

(* The two halves of the top batch, on the rest of the stack, hold nothing *)
(* new.                                                                    *)
LEMMA SplitStack ==
  ASSUME NEW S, NEW bs \in Seq(Seq(S)), bs # <<>>,
         NEW x \in Seq(S), NEW y \in Seq(S),
         Elems(x) \subseteq Elems(bs[1]), Elems(y) \subseteq Elems(bs[1])
  PROVE  /\ Batches(<<x, y>> \o Tail(bs)) \subseteq Batches(bs)
         /\ <<x, y>> \o Tail(bs) \in Seq(Seq(S))
  <1> DEFINE cs == <<x, y>> \o Tail(bs)
  <1>0. 1 \in 1 .. Len(bs)
    OBVIOUS
  <1>1. Tail(bs) \in Seq(Seq(S)) /\ Len(Tail(bs)) = Len(bs) - 1
    OBVIOUS
  <1>2. \A i \in 1 .. Len(Tail(bs)) : i + 1 \in 1 .. Len(bs) /\ Tail(bs)[i] = bs[i + 1]
    OBVIOUS
  <1>3. cs \in Seq(Seq(S)) /\ Len(cs) = 2 + Len(Tail(bs))
    BY <1>1
  <1>4. cs[1] = x /\ cs[2] = y
    BY <1>1
  <1>5. \A i \in 1 .. Len(Tail(bs)) : cs[i + 2] = Tail(bs)[i]
    BY <1>1
  <1>6. ASSUME NEW i \in 1 .. Len(cs) PROVE Elems(cs[i]) \subseteq Batches(bs)
    <2>1. CASE i \in {1, 2}
      BY <2>1, <1>0, <1>4, Zenon DEF Batches
    <2>2. CASE i \notin {1, 2}
      <3>1. i - 2 \in 1 .. Len(Tail(bs)) /\ cs[i] = Tail(bs)[i - 2]
        <4>1. i - 2 \in 1 .. Len(Tail(bs)) /\ (i - 2) + 2 = i
          BY <2>2, <1>3, <1>1
        <4> QED
          BY <4>1, <1>5, Zenon
      <3>2. (i - 2) + 1 \in 1 .. Len(bs) /\ cs[i] = bs[(i - 2) + 1]
        BY <3>1, <1>2, Zenon
      <3> QED
        BY <3>2, Zenon DEF Batches
    <2> QED
      BY <2>1, <2>2, Zenon
  <1> QED
    BY <1>3, <1>6, Zenon DEF Batches

-----------------------------------------------------------------------------
(* The pipe. *)

(* A worker that replaces its stack by one with no new message, queue      *)
(* untouched, leaves no new message in the pipe.                           *)
LEMMA StackShrinks ==
  ASSUME TypeOK, NEW w \in Workers, NEW bs \in Seq(Seq(Msgs)),
         Batches(bs) \subseteq Undone(w),
         work' = [work EXCEPT ![w] = bs], queue' = queue
  PROVE  Pipe' \subseteq Pipe
  <1>1. ASSUME NEW v \in Workers PROVE Undone(v)' \subseteq Undone(v)
    <2>1. CASE v = w
      <3>1. work'[v] = bs
        BY <2>1, Zenon DEF TypeOK
      <3> QED
        BY <2>1, <3>1, Zenon DEF Undone
    <2>2. CASE v # w
      <3>1. work'[v] = work[v]
        BY <2>2, Zenon DEF TypeOK
      <3> QED
        BY <3>1, Zenon DEF Undone
    <2> QED
      BY <2>1, <2>2, Zenon
  <1>2. Elems(queue') = Elems(queue)
    OBVIOUS
  <1> QED
    BY <1>1, <1>2 DEF Pipe

(* pop_batch moves messages from the queue to a worker.                    *)
LEMMA PopShrinks ==
  ASSUME TypeOK, NEW w \in Workers, PopBatch(w)
  PROVE  /\ Pipe' \subseteq Pipe
         /\ queue' \in Seq(Msgs) /\ work' \in [Workers -> Seq(Seq(Msgs))]
  <1> DEFINE n == IF Len(queue) <= BatchMax THEN Len(queue) ELSE BatchMax
             b == SubSeq(queue, 1, n)
             r == SubSeq(queue, n + 1, Len(queue))
  <1>0. queue \in Seq(Msgs) /\ Len(queue) \in Nat
    BY DEF TypeOK
  <1>1. n \in Nat /\ n <= Len(queue) /\ n + 1 \in Nat \ {0}
    BY <1>0, IngestConstants
  <1>2. Elems(b) \subseteq Elems(queue) /\ b \in Seq(Msgs)
    BY <1>0, <1>1, ElemsSlice
  <1>3. Elems(r) \subseteq Elems(queue) /\ r \in Seq(Msgs)
    BY <1>0, <1>1, ElemsSlice
  <1>4. work' = [work EXCEPT ![w] = <<b>>] /\ queue' = r
    BY Zenon DEF PopBatch
  <1> HIDE DEF n, b, r
  <1>5. <<b>> \in Seq(Seq(Msgs)) /\ Batches(<<b>>) = Elems(b)
    BY <1>2 DEF Batches
  <1>6. ASSUME NEW v \in Workers PROVE Undone(v)' \subseteq Pipe
    <2>1. CASE v = w
      <3>1. work'[v] = <<b>>
        BY <2>1, <1>4, Zenon DEF TypeOK
      <3> QED
        BY <3>1, <1>5, <1>2, Zenon DEF Undone, Pipe
    <2>2. CASE v # w
      <3>1. work'[v] = work[v]
        BY <2>2, <1>4, Zenon DEF TypeOK
      <3> QED
        BY <3>1, Zenon DEF Undone, Pipe
    <2> QED
      BY <2>1, <2>2, Zenon
  <1>7. Elems(queue') \subseteq Pipe
    BY <1>4, <1>3, Zenon DEF Pipe
  <1>8. Pipe' \subseteq Pipe
    BY <1>6, <1>7, Zenon DEF Pipe
  <1>9. queue' \in Seq(Msgs) /\ work' \in [Workers -> Seq(Seq(Msgs))]
    BY <1>3, <1>4, <1>5, Zenon DEF TypeOK
  <1> QED
    BY <1>8, <1>9, Zenon

(* The middle of a batch lies inside it.                                   *)
LEMMA HalfInside ==
  ASSUME NEW n \in Nat
  PROVE  n \div 2 \in Nat /\ n \div 2 <= n /\ n \div 2 + 1 \in Nat \ {0}
  OBVIOUS

(* What write_batch_with_isolation leaves for the next attempt is part of  *)
(* what there was.                                                         *)
LEMMA IsolateShrinks ==
  ASSUME TypeOK, NEW w \in Workers, work[w] # <<>>, Isolate(w), queue' = queue
  PROVE  /\ Pipe' \subseteq Pipe
         /\ work' \in [Workers -> Seq(Seq(Msgs))]
         /\ \A v \in Workers : v # w => work'[v] = work[v]
         /\ stage' = [stage EXCEPT ![w] = "files"]
         /\ attempt' \in [Workers -> Nat] /\ qrec' \subseteq Msgs
  <1> DEFINE bs == work[w]
             b == bs[1]
             half == Len(b) \div 2
             x == SubSeq(b, 1, half)
             y == SubSeq(b, half + 1, Len(b))
  <1>0. bs \in Seq(Seq(Msgs)) /\ b \in Seq(Msgs) /\ Len(b) \in Nat /\ 1 \in 1 .. Len(bs)
    BY DEF TypeOK
  <1>1. half \in Nat /\ half <= Len(b) /\ half + 1 \in Nat \ {0}
    BY <1>0, HalfInside, Zenon
  <1> HIDE DEF half, b
  <1>2. Elems(x) \subseteq Elems(b) /\ x \in Seq(Msgs)
    BY <1>0, <1>1, ElemsSlice
  <1>3. Elems(y) \subseteq Elems(b) /\ y \in Seq(Msgs)
    BY <1>0, <1>1, ElemsSlice, Len(b) <= Len(b), Zenon
  <1>4. Batches(Tail(bs)) \subseteq Batches(bs) /\ Tail(bs) \in Seq(Seq(Msgs))
    BY <1>0, TailStack, Zenon
  <1>5. Batches(<<x, y>> \o Tail(bs)) \subseteq Batches(bs) /\ <<x, y>> \o Tail(bs) \in Seq(Seq(Msgs))
    <2>1. b = bs[1]
      BY Zenon DEF b
    <2> HIDE DEF bs, x, y
    <2> QED
      BY <1>0, <1>2, <1>3, <2>1, SplitStack
  <1>6. \/ work' = [work EXCEPT ![w] = <<x, y>> \o Tail(bs)]
        \/ work' = work
        \/ work' = [work EXCEPT ![w] = Tail(bs)]
    BY Zenon DEF Isolate, Top, Below, half, b
  <1>7. Elems(b) \subseteq Msgs
    BY <1>0 DEF Elems
  <1>8. attempt' \in [Workers -> Nat] /\ qrec' \subseteq Msgs
    <2>1. attempt' = [attempt EXCEPT ![w] = 0] \/ attempt' = [attempt EXCEPT ![w] = @ + 1]
      BY Zenon DEF Isolate
    <2>2. qrec' = qrec \/ qrec' = qrec \cup Elems(b)
      BY SMT DEF Isolate, Top, b
    <2>3. attempt' \in [Workers -> Nat]
      <3>1. CASE attempt' = [attempt EXCEPT ![w] = 0]
        BY <3>1, Zenon DEF TypeOK
      <3>2. CASE attempt' = [attempt EXCEPT ![w] = @ + 1]
        BY <3>2 DEF TypeOK
      <3> QED
        BY <2>1, <3>1, <3>2, Zenon
    <2> QED
      BY <2>2, <2>3, <1>7, Zenon DEF TypeOK
  <1>9. stage' = [stage EXCEPT ![w] = "files"]
    BY Zenon DEF Isolate
  <1> HIDE DEF bs, x, y, b
  <1>10. Batches(bs) = Undone(w)
    BY Zenon DEF Undone, bs
  <1>11. Pipe' \subseteq Pipe
    <2>1. CASE work' = [work EXCEPT ![w] = <<x, y>> \o Tail(bs)]
      BY <2>1, <1>5, <1>10, StackShrinks, Zenon
    <2>2. CASE work' = work
      BY <2>2, Zenon DEF Pipe, Undone
    <2>3. CASE work' = [work EXCEPT ![w] = Tail(bs)]
      BY <2>3, <1>4, <1>10, StackShrinks, Zenon
    <2> QED
      BY <1>6, <2>1, <2>2, <2>3, Zenon
  <1>12. work' \in [Workers -> Seq(Seq(Msgs))]
    BY <1>4, <1>5, <1>6, Zenon DEF TypeOK
  <1>13. \A v \in Workers : v # w => work'[v] = work[v]
    BY <1>6, Zenon DEF TypeOK
  <1> QED
    BY <1>8, <1>9, <1>11, <1>12, <1>13, Zenon

-----------------------------------------------------------------------------
(* Files. *)

(* What a worker may do to the files: only messages of the pipe get a new  *)
(* manifest, live, next to their raw file; no raw file disappears.         *)
Grown ==
  /\ raw \subseteq raw' /\ raw' \subseteq Msgs
  /\ man' \in [Msgs -> {"none", "pending", "final", "quarantined"}]
  /\ \A m \in Msgs :
       man'[m] # man[m] => m \in Pipe /\ m \in raw' /\ man'[m] \in {"pending", "final"}

(* Such a step keeps all that is said of rows, sessions and scans.         *)
LEMMA GrownKeeps ==
  ASSUME IInv, Grown, Pipe' \subseteq Pipe,
         UNCHANGED <<sess, acked, db, received, deleted, tomb, scanning, sel>>
  PROVE  PipeLive' /\ SessionFiles' /\ RowsAndFiles' /\ Selected'
  <1> USE DEF IInv, Grown
  <1>0. Pipe \subseteq Msgs
    BY SMT DEF Pipe, Undone, Batches, Elems, TypeOK
  <1>1. \A m \in Msgs : Live(m) => Live(m)'
    BY Zenon DEF Live
  <1>2. PipeLive'
    BY <1>0, <1>1, Zenon DEF PipeLive
  <1>3. SessionFiles'
    BY Zenon DEF SessionFiles, PipeLive, Live
  <1>4. RowsAndFiles'
    BY <1>1, Zenon DEF RowsAndFiles, PipeLive, Live
  <1>5. Selected'
    BY Zenon DEF Selected, TypeOK
  <1> QED
    BY <1>2, <1>3, <1>4, <1>5, Zenon

(* write_storage_artifacts is such a step.                                 *)
LEMMA FilesOfGrow ==
  ASSUME IInv, NEW S \in SUBSET Pipe, Pipe \subseteq Msgs, FilesOf(S)
  PROVE  Grown /\ \A m \in S : m \in raw' /\ man'[m] = "final"
  <1> USE DEF IInv
  <1>1. \A m \in S : DurableAck => m \in raw
    BY Zenon DEF PipeLive, Live
  <1>2. raw \subseteq raw' /\ raw' \subseteq Msgs /\ S \subseteq raw'
    BY <1>1, Zenon DEF FilesOf, TypeOK
  <1>3. \A m \in Msgs : man'[m] = IF m \in S THEN "final" ELSE man[m]
    BY Zenon DEF FilesOf
  <1>4. man' \in [Msgs -> {"none", "pending", "final", "quarantined"}]
    BY Zenon DEF FilesOf, TypeOK
  <1> QED
    BY <1>2, <1>3, <1>4, Zenon DEF Grown

(* And so is one that is cut off half-way.                                 *)
LEMMA FilesUpToGrow ==
  ASSUME IInv, NEW b \in Seq(Msgs), Elems(b) \subseteq Pipe, Pipe \subseteq Msgs,
         NEW k \in 0 .. Len(b) - 1, FilesUpTo(b, k)
  PROVE  Grown
  <1> DEFINE done == {b[i] : i \in 1 .. k}
             next == b[k + 1]
  <1>1. done \subseteq Elems(b) /\ next \in Elems(b)
    BY DEF Elems
  <1>2. CASE FilesOf(done)
    BY <1>1, <1>2, FilesOfGrow, Zenon
  <1>3. CASE /\ ~DurableAck
             /\ raw' = raw \cup done \cup {next}
             /\ \E held \in {man[next], "pending"} :
                  man' = [m \in Msgs |-> IF m \in done THEN "final"
                                         ELSE IF m = next THEN held ELSE man[m]]
    <2>1. PICK held \in {man[next], "pending"} :
            man' = [m \in Msgs |-> IF m \in done THEN "final"
                                   ELSE IF m = next THEN held ELSE man[m]]
      BY <1>3, Zenon
    <2> HIDE DEF done, next
    <2>2. next \in Msgs /\ done \subseteq Pipe /\ next \in Pipe /\ done \subseteq Msgs
      BY <1>1, Zenon
    <2>3. man' \in [Msgs -> {"none", "pending", "final", "quarantined"}]
      BY <2>1, <2>2, Zenon DEF IInv, TypeOK
    <2>4. \A m \in Msgs : man'[m] # man[m] =>
            m \in Pipe /\ m \in raw' /\ man'[m] \in {"pending", "final"}
      BY <1>3, <2>1, <2>2, Zenon
    <2>5. raw \subseteq raw' /\ raw' \subseteq Msgs
      BY <1>3, <2>2, Zenon DEF IInv, TypeOK
    <2> QED
      BY <2>3, <2>4, <2>5, Zenon DEF Grown
  <1> QED
    BY <1>2, <1>3, Zenon DEF FilesUpTo

(* The messages of the top batch are in the pipe.                          *)
LEMMA TopInPipe ==
  ASSUME TypeOK, NEW w \in Workers, work[w] # <<>>
  PROVE  /\ Top(w) \in Seq(Msgs) /\ Elems(Top(w)) \subseteq Pipe
         /\ 1 \in 1 .. Len(work[w]) /\ work[w] \in Seq(Seq(Msgs))
  <1>1. 1 \in 1 .. Len(work[w]) /\ work[w] \in Seq(Seq(Msgs)) /\ work[w][1] \in Seq(Msgs)
    BY DEF TypeOK
  <1>2. Elems(work[w][1]) \subseteq Undone(w)
    BY <1>1, Zenon DEF Undone, Batches
  <1> QED
    BY <1>1, <1>2, Zenon DEF Top, Pipe

(* The pipe holds messages.                                                *)
LEMMA PipeType ==
  ASSUME TypeOK
  PROVE  Pipe \subseteq Msgs
  BY SMT DEF Pipe, Undone, Batches, Elems, TypeOK

-----------------------------------------------------------------------------
(* The writer threads. *)

(* A worker back at its files owes the disk nothing; the others keep what  *)
(* they have.                                                              *)
LEMMA StagedAfter ==
  ASSUME IInv, Grown, NEW w \in Workers, stage' = [stage EXCEPT ![w] = "files"],
         \A v \in Workers : v # w => work'[v] = work[v]
  PROVE  StagedFiles'
  <1> SUFFICES ASSUME NEW v \in Workers, stage'[v] = "sqlite", work'[v] # <<>>,
                      NEW m \in Elems(work'[v][1])
               PROVE  m \in raw' /\ man'[m] # "none"
    BY Zenon DEF StagedFiles
  <1>1. v # w /\ stage[v] = "sqlite" /\ work[v] = work'[v]
    BY Zenon DEF IInv, TypeOK
  <1>2. m \in raw /\ man[m] # "none"
    BY <1>1, Zenon DEF IInv, StagedFiles
  <1> QED
    BY <1>2, Zenon DEF Grown, IInv, TypeOK

(* A popped batch starts with its files.                                   *)
LEMMA PopBatchKeeps ==
  ASSUME IInv, NEW w \in Workers, PopBatch(w)
  PROVE  IInv'
  <1>0. /\ Pipe' \subseteq Pipe
        /\ queue' \in Seq(Msgs) /\ work' \in [Workers -> Seq(Seq(Msgs))]
    BY PopShrinks, Zenon DEF IInv
  <1>1. /\ UNCHANGED <<up, closed, sess, acked, raw, man, qrec, db, received, deleted, tomb,
                       scanning, sel, faults, crashes>>
        /\ stage' = [stage EXCEPT ![w] = "files"]
        /\ attempt' = [attempt EXCEPT ![w] = 0]
    BY Zenon DEF PopBatch, files, sqlite, scanner, bounds
  <1>2. \A v \in Workers : v # w => work'[v] = work[v]
    <2>1. \E b : work' = [work EXCEPT ![w] = b]
      BY Zenon DEF PopBatch
    <2> QED
      BY <2>1, Zenon DEF IInv, TypeOK
  <1>3. TypeOK'
    <2>1. stage' \in [Workers -> {"files", "sqlite"}] /\ attempt' \in [Workers -> Nat]
      BY <1>1, Zenon DEF IInv, TypeOK
    <2> QED
      BY <1>0, <1>1, <2>1, Zenon DEF IInv, TypeOK
  <1>4. PipeLive'
    BY <1>0, <1>1, Zenon DEF IInv, PipeLive, Live
  <1>5. SessionFiles' /\ Selected'
    BY <1>1, Zenon DEF IInv, SessionFiles, Selected
  <1>6. RowsAndFiles'
    BY <1>1, Zenon DEF IInv, RowsAndFiles, Live
  <1>7. StagedFiles'
    <2>1. Grown
      BY <1>1, Zenon DEF Grown, IInv, TypeOK
    <2> QED
      BY <1>1, <1>2, <2>1, StagedAfter, Zenon
  <1> QED
    BY <1>3, <1>4, <1>5, <1>6, <1>7, Zenon DEF IInv

(* After write_storage_artifacts the batch is on disk.                     *)
LEMMA WorkerFilesKeeps ==
  ASSUME IInv, NEW w \in Workers, WorkerFiles(w)
  PROVE  IInv'
  <1> USE DEF IInv
  <1> DEFINE S == Elems(Top(w))
  <1>0. Pipe \subseteq Msgs /\ S \subseteq Pipe
    BY PipeType, TopInPipe, Zenon DEF WorkerFiles
  <1>1. Grown /\ \A m \in S : m \in raw' /\ man'[m] = "final"
    BY <1>0, FilesOfGrow, Zenon DEF WorkerFiles
  <1>2. Pipe' = Pipe
    BY Zenon DEF WorkerFiles, Pipe, Undone
  <1> USE DEF sqlite, scanner, bounds
  <1>3. PipeLive' /\ SessionFiles' /\ RowsAndFiles' /\ Selected'
    BY <1>1, <1>2, GrownKeeps, Zenon DEF WorkerFiles
  <1>4. TypeOK'
    BY <1>1, SMTT(20) DEF WorkerFiles, TypeOK, Grown
  <1>5. StagedFiles'
    <2> SUFFICES ASSUME NEW v \in Workers, stage'[v] = "sqlite", work'[v] # <<>>,
                        NEW m \in Elems(work'[v][1])
                 PROVE  m \in raw' /\ man'[m] # "none"
      BY Zenon DEF StagedFiles
    <2>1. CASE v = w
      BY <2>1, <1>1, Zenon DEF WorkerFiles, Top
    <2>2. CASE v # w
      <3>1. stage[v] = "sqlite" /\ work[v] = work'[v]
        BY <2>2, Zenon DEF WorkerFiles, TypeOK
      <3>2. m \in raw /\ man[m] # "none"
        BY <3>1, Zenon DEF StagedFiles
      <3> QED
        BY <3>2, <1>1, Zenon DEF Grown, TypeOK
    <2> QED
      BY <2>1, <2>2, Zenon
  <1> QED
    BY <1>3, <1>4, <1>5, Zenon

(* A failed attempt at the files of a batch.                               *)
LEMMA WorkerFilesFailKeeps ==
  ASSUME IInv, NEW w \in Workers, WorkerFilesFail(w)
  PROVE  IInv'
  <1> USE DEF IInv
  <1>0. work[w] # <<>> /\ Pipe \subseteq Msgs /\ Top(w) \in Seq(Msgs) /\ Elems(Top(w)) \subseteq Pipe
    BY PipeType, TopInPipe, Zenon DEF WorkerFilesFail
  <1>1. Grown
    BY <1>0, FilesUpToGrow, Zenon DEF WorkerFilesFail
  <1>2. /\ Pipe' \subseteq Pipe
        /\ work' \in [Workers -> Seq(Seq(Msgs))]
        /\ \A v \in Workers : v # w => work'[v] = work[v]
        /\ stage' = [stage EXCEPT ![w] = "files"]
        /\ attempt' \in [Workers -> Nat] /\ qrec' \subseteq Msgs
    BY <1>0, IsolateShrinks, Zenon DEF WorkerFilesFail
  <1>3. /\ UNCHANGED <<up, closed, sess, acked, queue, db, received, deleted, tomb, scanning, sel>>
        /\ faults' = faults + 1 /\ crashes' = crashes
    BY Zenon DEF WorkerFilesFail, sqlite, scanner, Fault
  <1>4. PipeLive' /\ SessionFiles' /\ RowsAndFiles' /\ Selected'
    BY <1>1, <1>2, <1>3, GrownKeeps, Zenon
  <1>5. StagedFiles'
    BY <1>1, <1>2, StagedAfter, Zenon
  <1>6. TypeOK'
    BY <1>1, <1>2, <1>3, SMTT(20) DEF TypeOK, Grown
  <1> QED
    BY <1>4, <1>5, <1>6, Zenon

(* A rolled-back transaction.                                              *)
LEMMA CommitFailsKeeps ==
  ASSUME IInv, NEW w \in Workers, CommitFails(w)
  PROVE  IInv'
  <1> USE DEF IInv
  <1>0. work[w] # <<>>
    BY Zenon DEF CommitFails
  <1>1. /\ UNCHANGED <<up, closed, sess, acked, queue, raw, man, db, received, deleted, tomb,
                       scanning, sel>>
        /\ faults' \in Nat /\ crashes' = crashes
    BY SMTT(20) DEF CommitFails, sqlite, scanner, bounds, Fault, TypeOK
  <1>2. /\ Pipe' \subseteq Pipe
        /\ work' \in [Workers -> Seq(Seq(Msgs))]
        /\ \A v \in Workers : v # w => work'[v] = work[v]
        /\ stage' = [stage EXCEPT ![w] = "files"]
        /\ attempt' \in [Workers -> Nat] /\ qrec' \subseteq Msgs
    BY <1>0, <1>1, IsolateShrinks, Zenon DEF CommitFails
  <1>3. Grown
    BY <1>1, Zenon DEF Grown, TypeOK
  <1>4. PipeLive' /\ SessionFiles' /\ RowsAndFiles' /\ Selected'
    BY <1>1, <1>2, <1>3, GrownKeeps, Zenon
  <1>5. StagedFiles'
    BY <1>2, <1>3, StagedAfter, Zenon
  <1>6. TypeOK'
    BY <1>1, <1>2, SMTT(20) DEF TypeOK
  <1> QED
    BY <1>4, <1>5, <1>6, Zenon

(* A committed batch: its messages have files, nobody deleted them, and    *)
(* only the ones without rows are counted.                                 *)
LEMMA CommitBatchKeeps ==
  ASSUME IInv, NEW w \in Workers, CommitBatch(w)
  PROVE  IInv'
  <1> USE DEF IInv
  <1> DEFINE S == Elems(Top(w))
  <1>0. work[w] # <<>> /\ Pipe \subseteq Msgs /\ S \subseteq Pipe /\ work[w] \in Seq(Seq(Msgs))
    BY PipeType, TopInPipe, Zenon DEF CommitBatch
  <1>1. /\ UNCHANGED <<up, closed, sess, acked, queue, raw, man, qrec, deleted, tomb, scanning,
                       sel, faults, crashes>>
        /\ stage' = [stage EXCEPT ![w] = "files"]
        /\ attempt' = [attempt EXCEPT ![w] = 0]
        /\ work' = [work EXCEPT ![w] = Tail(work[w])]
        /\ db' = db \cup S
        /\ received' = [m \in Msgs |-> IF m \in S \ db THEN received[m] + 1 ELSE received[m]]
        /\ (S \ db) \cap Conflicting = {}
    BY Zenon DEF CommitBatch, files, scanner, bounds, Missing, Below
  <1>2. \A m \in S : m \in raw /\ man[m] # "none" /\ sess[m] = "done" /\ m \notin deleted
    BY <1>0, Zenon DEF CommitBatch, StagedFiles, Top, PipeLive, Live
  <1> HIDE DEF S
  <1>3. Batches(Tail(work[w])) \subseteq Undone(w) /\ Tail(work[w]) \in Seq(Seq(Msgs))
    BY <1>0, TailStack, Zenon DEF Undone
  <1>4. Pipe' \subseteq Pipe
    BY <1>1, <1>3, StackShrinks, Zenon
  <1>5. TypeOK'
    <2>1. work' \in [Workers -> Seq(Seq(Msgs))]
      BY <1>1, <1>3, Zenon DEF TypeOK
    <2>2. received' \in [Msgs -> Nat]
      BY <1>1 DEF TypeOK
    <2>3. db' \subseteq Msgs
      BY <1>0, <1>1, Zenon DEF TypeOK
    <2> QED
      BY <1>1, <2>1, <2>2, <2>3, SMTT(20) DEF TypeOK
  <1>6. PipeLive' /\ Selected'
    BY <1>1, <1>4, Zenon DEF PipeLive, Live, Selected
  <1>7. SessionFiles'
    BY <1>1, <1>2, Zenon DEF SessionFiles
  <1>8. RowsAndFiles'
    <2>0. UNCHANGED <<sess, acked, raw, man, deleted, tomb>>
      BY <1>1, Zenon
    <2> SUFFICES ASSUME NEW m \in Msgs
                 PROVE  /\ m \in db' => m \in raw /\ m \notin deleted /\ m \notin Conflicting
                        /\ received'[m] = IF m \in db' \cup deleted THEN 1 ELSE 0
      BY <2>0, Zenon DEF RowsAndFiles, Live
    <2>1. CASE m \in S \ db
      BY <2>1, <1>1, <1>2 DEF RowsAndFiles
    <2>2. CASE m \notin S \ db
      BY <2>2, <1>1, Zenon DEF RowsAndFiles
    <2> QED
      BY <2>1, <2>2, Zenon
  <1>9. StagedFiles'
    <2>1. Grown
      BY <1>1, Zenon DEF Grown, TypeOK
    <2>2. \A v \in Workers : v # w => work'[v] = work[v]
      BY <1>1, Zenon DEF TypeOK
    <2> QED
      BY <2>1, <2>2, <1>1, StagedAfter, Zenon
  <1> QED
    BY <1>5, <1>6, <1>7, <1>8, <1>9, Zenon

-----------------------------------------------------------------------------
(* The SMTP session, the scanner and deletion leave the pipe alone. *)

(* DATA is accepted.                                                       *)
LEMMA ReserveKeeps ==
  ASSUME IInv, NEW m \in Msgs, Reserve(m)
  PROVE  IInv'
  <1>0. /\ UNCHANGED <<up, closed, acked, queue, work, stage, attempt, raw, man, qrec, db,
                       received, deleted, tomb, scanning, sel, faults, crashes>>
        /\ sess[m] = "idle" /\ sess' = [sess EXCEPT ![m] = "reserved"]
    BY Zenon DEF Reserve, files, sqlite, scanner, bounds
  <1>1. Pipe' = Pipe /\ Pipe \subseteq Msgs
    BY <1>0, PipeType, Zenon DEF IInv, Pipe, Undone
  <1>2. TypeOK'
    BY <1>0, Zenon DEF IInv, TypeOK
  <1>3. PipeLive'
    BY <1>0, <1>1, Zenon DEF IInv, PipeLive, Live, TypeOK
  <1>4. StagedFiles'
    BY <1>0, Zenon DEF IInv, StagedFiles
  <1>5. SessionFiles'
    BY <1>0, Zenon DEF IInv, SessionFiles, TypeOK
  <1>6. RowsAndFiles'
    BY <1>0, Zenon DEF IInv, RowsAndFiles, Live, TypeOK
  <1>7. Selected'
    BY <1>0, Zenon DEF IInv, Selected
  <1> QED
    BY <1>2, <1>3, <1>4, <1>5, <1>6, <1>7, Zenon DEF IInv

(* The raw file appears first.                                             *)
LEMMA WriteRawKeeps ==
  ASSUME IInv, NEW m \in Msgs, WriteRaw(m)
  PROVE  IInv'
  <1>0. /\ UNCHANGED <<up, closed, acked, queue, work, stage, attempt, man, qrec, db,
                       received, deleted, tomb, scanning, sel, faults, crashes>>
        /\ DurableAck /\ sess[m] = "reserved" /\ raw' = raw \cup {m}
        /\ sess' = [sess EXCEPT ![m] = "rawed"]
    BY Zenon DEF WriteRaw, sqlite, scanner, bounds
  <1>1. Pipe' = Pipe /\ Pipe \subseteq Msgs
    BY <1>0, PipeType, Zenon DEF IInv, Pipe, Undone
  <1>2. TypeOK'
    BY <1>0, Zenon DEF IInv, TypeOK
  <1>3. PipeLive'
    BY <1>0, <1>1, Zenon DEF IInv, PipeLive, Live, TypeOK
  <1>4. StagedFiles'
    BY <1>0, Zenon DEF IInv, StagedFiles
  <1>5. SessionFiles'
    BY <1>0, Zenon DEF IInv, SessionFiles, TypeOK
  <1>6. RowsAndFiles'
    BY <1>0, Zenon DEF IInv, RowsAndFiles, Live, TypeOK
  <1>7. Selected'
    BY <1>0, Zenon DEF IInv, Selected, TypeOK
  <1> QED
    BY <1>2, <1>3, <1>4, <1>5, <1>6, <1>7, Zenon DEF IInv

(* The manifest appears next to it.                                        *)
LEMMA WriteManifestKeeps ==
  ASSUME IInv, NEW m \in Msgs, WriteManifest(m)
  PROVE  IInv'
  <1>0. /\ UNCHANGED <<up, closed, acked, queue, work, stage, attempt, raw, qrec, db,
                       received, deleted, tomb, scanning, sel, faults, crashes>>
        /\ sess[m] = "rawed" /\ man' = [man EXCEPT ![m] = "pending"]
        /\ sess' = [sess EXCEPT ![m] = "persisted"]
    BY Zenon DEF WriteManifest, sqlite, scanner, bounds
  <1>1. Pipe' = Pipe /\ Pipe \subseteq Msgs
    BY <1>0, PipeType, Zenon DEF IInv, Pipe, Undone
  <1>2. TypeOK'
    BY <1>0, Zenon DEF IInv, TypeOK
  <1>3. PipeLive'
    BY <1>0, <1>1, Zenon DEF IInv, PipeLive, Live, TypeOK
  <1>4. StagedFiles'
    BY <1>0 DEF IInv, StagedFiles, SessionFiles, TypeOK
  <1>5. SessionFiles'
    BY <1>0, Zenon DEF IInv, SessionFiles, TypeOK
  <1>6. RowsAndFiles'
    BY <1>0, Zenon DEF IInv, RowsAndFiles, Live, TypeOK, SessionFiles
  <1>7. Selected'
    BY <1>0, Zenon DEF IInv, Selected, TypeOK
  <1> QED
    BY <1>2, <1>3, <1>4, <1>5, <1>6, <1>7, Zenon DEF IInv

(* A failed write leaves no manifest without its raw file.                 *)
LEMMA PersistFailsKeeps ==
  ASSUME IInv, NEW m \in Msgs, PersistFails(m)
  PROVE  IInv'
  <1>0. /\ UNCHANGED <<up, closed, acked, queue, work, stage, attempt, qrec, db, received,
                       deleted, tomb, scanning, sel, crashes>>
        /\ sess[m] \in {"reserved", "rawed"} /\ sess' = [sess EXCEPT ![m] = "refused"]
        /\ raw' \in {raw, raw \cup {m}} /\ man' \in {man, [man EXCEPT ![m] = "pending"]}
        /\ man' # man => sess[m] = "rawed" /\ raw' = raw
        /\ faults' = faults + 1
    BY SMT DEF PersistFails, sqlite, scanner, Fault
  <1>1. Pipe' = Pipe /\ Pipe \subseteq Msgs
    BY <1>0, PipeType DEF IInv, Pipe, Undone
  <1>2. TypeOK'
    BY <1>0 DEF IInv, TypeOK
  <1>3. PipeLive'
    BY <1>0, <1>1, Zenon DEF IInv, PipeLive, Live, TypeOK, SessionFiles
  <1>4. StagedFiles'
    BY <1>0, Zenon DEF IInv, StagedFiles, SessionFiles, TypeOK
  <1>5. SessionFiles'
    BY <1>0, Zenon DEF IInv, SessionFiles, TypeOK
  <1>6. RowsAndFiles'
    BY <1>0 DEF IInv, RowsAndFiles, Live, TypeOK, SessionFiles
  <1>7. Selected'
    BY <1>0, Zenon DEF IInv, Selected, TypeOK
  <1> QED
    BY <1>2, <1>3, <1>4, <1>5, <1>6, <1>7, Zenon DEF IInv

(* A replayed receipt becomes a row, or is quarantined when its domain is  *)
(* retired.                                                                *)
LEMMA ReplayKeeps ==
  ASSUME IInv, NEW m \in Msgs, Replay(m)
  PROVE  IInv'
  <1>0. /\ UNCHANGED <<up, closed, sess, acked, queue, work, stage, attempt, raw, qrec,
                       deleted, tomb, scanning, faults, crashes>>
        /\ m \in sel /\ sel' = sel \ {m}
        /\ db' = IF m \in Conflicting THEN db ELSE db \cup {m}
        /\ man' = IF m \in Conflicting THEN [man EXCEPT ![m] = "quarantined"] ELSE man
        /\ received' = [received EXCEPT ![m] = IF m \in db' \ db THEN received[m] + 1 ELSE received[m]]
    <2>1. CASE m \in Conflicting
      BY <2>1, Zenon DEF Replay, ingestd, bounds, IInv, TypeOK
    <2>2. CASE m \notin Conflicting
      BY <2>2, Zenon DEF Replay, ingestd, bounds, IInv, TypeOK
    <2> QED
      BY <2>1, <2>2, Zenon
  <1>1. Pipe' = Pipe /\ Pipe \subseteq Msgs
    BY <1>0, PipeType, Zenon DEF IInv, Pipe, Undone
  <1>2. TypeOK'
    BY <1>0 DEF IInv, TypeOK
  <1>3. PipeLive'
    BY <1>0, <1>1, Zenon DEF IInv, PipeLive, Live, TypeOK
  <1>4. StagedFiles'
    BY <1>0, Zenon DEF IInv, StagedFiles, TypeOK
  <1>5. SessionFiles'
    BY <1>0, Zenon DEF IInv, SessionFiles, TypeOK, Selected
  <1>6. RowsAndFiles'
    BY <1>0 DEF IInv, RowsAndFiles, Live, TypeOK, Selected
  <1>7. Selected'
    BY <1>0, Zenon DEF IInv, Selected, TypeOK
  <1> QED
    BY <1>2, <1>3, <1>4, <1>5, <1>6, <1>7, Zenon DEF IInv

(* A deleted message gets its tombstones with the same transaction.        *)
LEMMA DeleteKeeps ==
  ASSUME IInv, NEW m \in Msgs, Delete(m)
  PROVE  IInv'
  <1>0. /\ UNCHANGED <<up, closed, sess, acked, queue, work, stage, attempt, raw, man, qrec,
                       received, scanning, sel, faults, crashes>>
        /\ m \in db /\ ~scanning /\ m \notin Owned
        /\ db' = db \ {m} /\ deleted' = deleted \cup {m}
        /\ tomb' = [tomb EXCEPT ![m] = Artifacts]
    BY Zenon DEF Delete, ingestd, files, scanner, bounds
  <1>1. Pipe' = Pipe /\ Pipe \subseteq Msgs
    BY <1>0, PipeType, Zenon DEF IInv, Pipe, Undone
  <1>2. TypeOK'
    BY <1>0, Zenon DEF IInv, TypeOK, Artifacts
  <1>3. PipeLive'
    BY <1>0, <1>1, Zenon DEF IInv, PipeLive, Live, TypeOK, Owned
  <1>4. StagedFiles'
    BY <1>0, Zenon DEF IInv, StagedFiles
  <1>5. SessionFiles'
    BY <1>0, Zenon DEF IInv, SessionFiles, TypeOK, Owned
  <1>6. RowsAndFiles'
    BY <1>0 DEF IInv, RowsAndFiles, Live, TypeOK, Artifacts
  <1>7. Selected'
    BY <1>0, Zenon DEF IInv, Selected, TypeOK
  <1> QED
    BY <1>2, <1>3, <1>4, <1>5, <1>6, <1>7, Zenon DEF IInv

(* Only files with a tombstone are unlinked.                               *)
LEMMA UnlinkKeeps ==
  ASSUME IInv, NEW m \in Msgs, NEW f \in Artifacts, Unlink(m, f)
  PROVE  IInv'
  <1>0. /\ UNCHANGED <<up, closed, sess, acked, queue, work, stage, attempt, qrec, db,
                       received, deleted, tomb, scanning, sel, faults, crashes>>
        /\ f \in tomb[m] /\ ~scanning
        /\ raw' = IF f = "raw" THEN raw \ {m} ELSE raw
        /\ man' = IF f = "manifest" THEN [man EXCEPT ![m] = "none"] ELSE man
    BY Zenon DEF Unlink, ingestd, sqlite, scanner, bounds
  <1>1. Pipe' = Pipe /\ Pipe \subseteq Msgs
    BY <1>0, PipeType, Zenon DEF IInv, Pipe, Undone
  <1>2. TypeOK'
    BY <1>0, Zenon DEF IInv, TypeOK
  <1>3. PipeLive'
    BY <1>0, <1>1, Zenon DEF IInv, PipeLive, Live, TypeOK, RowsAndFiles
  <1>4. StagedFiles'
    <2> SUFFICES ASSUME NEW v \in Workers, stage[v] = "sqlite", work[v] # <<>>,
                        NEW x \in Elems(work[v][1])
                 PROVE  x \in raw' /\ man'[x] # "none"
      BY <1>0, Zenon DEF StagedFiles
    <2>1. x \in Pipe
      BY TopInPipe, Zenon DEF IInv, Top
    <2>2. x # m
      BY <1>0, <1>1, <2>1, Zenon DEF IInv, PipeLive, Live, RowsAndFiles
    <2>3. x \in Msgs /\ x \in raw /\ man[x] # "none"
      BY <1>1, <2>1, Zenon DEF IInv, StagedFiles
    <2> QED
      BY <1>0, <2>2, <2>3, Zenon DEF IInv, TypeOK
  <1>5. SessionFiles'
    BY <1>0, Zenon DEF IInv, SessionFiles, TypeOK, RowsAndFiles
  <1>6. RowsAndFiles'
    BY <1>0, Zenon DEF IInv, RowsAndFiles, Live, TypeOK, Artifacts
  <1>7. Selected'
    BY <1>0, Zenon DEF IInv, Selected, TypeOK, RowsAndFiles
  <1> QED
    BY <1>2, <1>3, <1>4, <1>5, <1>6, <1>7, Zenon DEF IInv

(* A tombstone goes only after its file.                                   *)
LEMMA ForgetKeeps ==
  ASSUME IInv, NEW m \in Msgs, NEW f \in Artifacts, Forget(m, f)
  PROVE  IInv'
  <1>0. /\ UNCHANGED <<up, closed, sess, acked, queue, work, stage, attempt, raw, man, qrec,
                       db, received, deleted, scanning, sel, faults, crashes>>
        /\ f \in tomb[m] /\ Gone(m, f)
        /\ tomb' = [tomb EXCEPT ![m] = tomb[m] \ {f}]
    BY Zenon DEF Forget, ingestd, files, scanner, bounds
  <1>1. Pipe' = Pipe /\ Pipe \subseteq Msgs
    BY <1>0, PipeType, Zenon DEF IInv, Pipe, Undone
  <1>2. TypeOK'
    BY <1>0, Zenon DEF IInv, TypeOK
  <1>3. PipeLive'
    BY <1>0, <1>1, Zenon DEF IInv, PipeLive, Live
  <1>4. StagedFiles'
    BY <1>0, Zenon DEF IInv, StagedFiles
  <1>5. SessionFiles'
    BY <1>0, Zenon DEF IInv, SessionFiles
  <1>6. RowsAndFiles'
    BY <1>0, Zenon DEF IInv, RowsAndFiles, Live, TypeOK, Gone, Artifacts
  <1>7. Selected'
    BY <1>0, Zenon DEF IInv, Selected
  <1> QED
    BY <1>2, <1>3, <1>4, <1>5, <1>6, <1>7, Zenon DEF IInv

(* The queue is closed.                                                    *)
LEMMA CloseKeeps ==
  ASSUME IInv, Close
  PROVE  IInv'
  <1>0. /\ UNCHANGED <<up, sess, acked, queue, work, stage, attempt, raw, man, qrec, db,
                       received, deleted, tomb, scanning, sel, faults, crashes>>
        /\ closed' = TRUE
    BY Zenon DEF Close, files, sqlite, scanner, bounds
  <1>1. Pipe' = Pipe /\ Pipe \subseteq Msgs
    BY <1>0, PipeType, Zenon DEF IInv, Pipe, Undone
  <1>2. TypeOK'
    BY <1>0, Zenon DEF IInv, TypeOK
  <1>3. PipeLive'
    BY <1>0, <1>1, Zenon DEF IInv, PipeLive, Live
  <1>4. StagedFiles'
    BY <1>0, Zenon DEF IInv, StagedFiles
  <1>5. SessionFiles'
    BY <1>0, Zenon DEF IInv, SessionFiles
  <1>6. RowsAndFiles'
    BY <1>0, Zenon DEF IInv, RowsAndFiles, Live
  <1>7. Selected'
    BY <1>0, Zenon DEF IInv, Selected
  <1> QED
    BY <1>2, <1>3, <1>4, <1>5, <1>6, <1>7, Zenon DEF IInv

(* ingestd is started again.                                               *)
LEMMA RestartKeeps ==
  ASSUME IInv, Restart
  PROVE  IInv'
  <1>0. /\ UNCHANGED <<sess, acked, queue, work, stage, attempt, raw, man, qrec, db,
                       received, deleted, tomb, scanning, sel, faults, crashes>>
        /\ up' = TRUE /\ closed' = FALSE
    BY Zenon DEF Restart, files, sqlite, scanner, bounds
  <1>1. Pipe' = Pipe /\ Pipe \subseteq Msgs
    BY <1>0, PipeType, Zenon DEF IInv, Pipe, Undone
  <1>2. TypeOK'
    BY <1>0, Zenon DEF IInv, TypeOK
  <1>3. PipeLive'
    BY <1>0, <1>1, Zenon DEF IInv, PipeLive, Live
  <1>4. StagedFiles'
    BY <1>0, Zenon DEF IInv, StagedFiles
  <1>5. SessionFiles'
    BY <1>0, Zenon DEF IInv, SessionFiles
  <1>6. RowsAndFiles'
    BY <1>0, Zenon DEF IInv, RowsAndFiles, Live
  <1>7. Selected'
    BY <1>0, Zenon DEF IInv, Selected
  <1> QED
    BY <1>2, <1>3, <1>4, <1>5, <1>6, <1>7, Zenon DEF IInv

(* A scan selects complete receipts and finds no broken one.               *)
LEMMA ScanStartKeeps ==
  ASSUME IInv, ScanStart
  PROVE  IInv'
  <1>1. \A m \in Msgs : ~Broken(m)
    BY Zenon DEF IInv, RowsAndFiles, Broken
  <1>2. man' = man
    BY <1>1, Zenon DEF ScanStart, IInv, TypeOK
  <1>3. /\ UNCHANGED <<up, closed, sess, acked, queue, work, stage, attempt, raw, qrec, db,
                       received, deleted, tomb, faults, crashes>>
        /\ scanning' = TRUE
    BY Zenon DEF ScanStart, ingestd, sqlite, bounds
  <1>4. sel' \subseteq {m \in Msgs : Replayable(m)}
    BY Zenon DEF ScanStart
  <1>5. Pipe' = Pipe
    BY <1>3, Zenon DEF Pipe, Undone
  <1>6. TypeOK'
    <2>1. sel' \subseteq Msgs
      BY <1>4, Zenon
    <2> QED
      BY <1>2, <1>3, <2>1, Zenon DEF IInv, TypeOK
  <1>7. PipeLive'
    BY <1>2, <1>3, <1>5, Zenon DEF IInv, PipeLive, Live
  <1>8. StagedFiles' /\ SessionFiles'
    BY <1>2, <1>3, Zenon DEF IInv, StagedFiles, SessionFiles
  <1>9. RowsAndFiles'
    BY <1>2, <1>3, Zenon DEF IInv, RowsAndFiles, Live
  <1>10. Selected'
    BY <1>2, <1>3, <1>4, Zenon DEF IInv, RowsAndFiles, Selected, Replayable
  <1> QED
    BY <1>6, <1>7, <1>8, <1>9, <1>10, Zenon DEF IInv

(* A scan ends.                                                            *)
LEMMA ScanEndKeeps ==
  ASSUME IInv, ScanEnd
  PROVE  IInv'
  <1>0. /\ UNCHANGED <<up, closed, sess, acked, queue, work, stage, attempt, raw, man, qrec,
                       db, received, deleted, tomb, sel, faults, crashes>>
        /\ sel = {} /\ scanning' = FALSE
    BY Zenon DEF ScanEnd, ingestd, files, sqlite, bounds
  <1>1. Pipe' = Pipe /\ Pipe \subseteq Msgs
    BY <1>0, PipeType, Zenon DEF IInv, Pipe, Undone
  <1>2. TypeOK'
    BY <1>0, Zenon DEF IInv, TypeOK
  <1>3. PipeLive'
    BY <1>0, <1>1, Zenon DEF IInv, PipeLive, Live
  <1>4. StagedFiles'
    BY <1>0, Zenon DEF IInv, StagedFiles
  <1>5. SessionFiles'
    BY <1>0, Zenon DEF IInv, SessionFiles
  <1>6. RowsAndFiles'
    BY <1>0, Zenon DEF IInv, RowsAndFiles, Live
  <1>7. Selected'
    BY <1>0, Zenon DEF IInv, Selected
  <1> QED
    BY <1>2, <1>3, <1>4, <1>5, <1>6, <1>7, Zenon DEF IInv

(* A scan is cut off.                                                      *)
LEMMA ScanAbortedKeeps ==
  ASSUME IInv, ScanAborted
  PROVE  IInv'
  <1>0. /\ UNCHANGED <<up, closed, sess, acked, queue, work, stage, attempt, raw, man, qrec,
                       db, received, deleted, tomb, crashes>>
        /\ scanning' = FALSE /\ sel' = {} /\ faults' = faults + 1
    BY Zenon DEF ScanAborted, ingestd, files, sqlite, Fault
  <1>1. Pipe' = Pipe /\ Pipe \subseteq Msgs
    BY <1>0, PipeType, Zenon DEF IInv, Pipe, Undone
  <1>2. TypeOK'
    <2>1. faults' \in Nat
      BY <1>0 DEF IInv, TypeOK
    <2>2. sel' \subseteq Msgs
      BY <1>0, Zenon
    <2> QED
      BY <1>0, <2>1, <2>2, Zenon DEF IInv, TypeOK
  <1>3. PipeLive'
    BY <1>0, <1>1, Zenon DEF IInv, PipeLive, Live
  <1>4. StagedFiles'
    BY <1>0, Zenon DEF IInv, StagedFiles
  <1>5. SessionFiles'
    BY <1>0, Zenon DEF IInv, SessionFiles
  <1>6. RowsAndFiles'
    BY <1>0, Zenon DEF IInv, RowsAndFiles, Live
  <1>7. Selected'
    BY <1>0, Zenon DEF IInv, Selected
  <1> QED
    BY <1>2, <1>3, <1>4, <1>5, <1>6, <1>7, Zenon DEF IInv

(* A message enters the queue with its files written.                      *)
LEMMA PushAckKeeps ==
  ASSUME IInv, NEW m \in Msgs, PushAck(m)
  PROVE  IInv'
  <1>1. queue' \in Seq(Msgs) /\ Elems(queue') \subseteq Elems(queue) \cup {m}
    BY ElemsAppend DEF IInv, TypeOK, PushAck
  <1>2. UNCHANGED <<up, closed, work, stage, attempt, raw, man, qrec, db, received, deleted,
                    tomb, scanning, sel, faults, crashes>>
    BY Zenon DEF PushAck, files, sqlite, scanner, bounds
  <1>3. Pipe' \subseteq Pipe \cup (IF closed THEN {} ELSE {m}) /\ Pipe \subseteq Msgs
    <2>1. CASE closed
      BY <1>2, <2>1, PipeType DEF Pipe, Undone, PushAck, IInv
    <2>2. CASE ~closed
      BY <1>1, <1>2, <2>2, PipeType, Zenon DEF Pipe, Undone, IInv
    <2> QED
      BY <2>1, <2>2, Zenon
  <1>4. /\ sess' \in [Msgs -> {"idle", "reserved", "rawed", "persisted", "done", "refused"}]
        /\ \A x \in Msgs : x # m => sess'[x] = sess[x]
        /\ sess'[m] = IF closed /\ ~DurableAck THEN "refused" ELSE "done"
        /\ acked' \subseteq acked \cup (IF closed /\ ~DurableAck THEN {} ELSE {m})
    <2>1. CASE closed /\ ~DurableAck
      BY <2>1, Zenon DEF PushAck, IInv, TypeOK
    <2>2. CASE ~(closed /\ ~DurableAck)
      BY <2>2, Zenon DEF PushAck, IInv, TypeOK
    <2> QED
      BY <2>1, <2>2, Zenon
  <1>5. /\ DurableAck => m \in raw /\ man[m] # "none"
        /\ m \notin deleted /\ sess[m] \in {"reserved", "persisted"}
    BY Zenon DEF PushAck, IInv, SessionFiles
  <1>6. TypeOK'
    <2>1. acked' \subseteq Msgs
      BY <1>4, Zenon DEF IInv, TypeOK
    <2> QED
      BY <1>1, <1>2, <1>4, <2>1, Zenon DEF IInv, TypeOK
  <1>7. PipeLive'
    <2> SUFFICES ASSUME NEW x \in Pipe' PROVE Live(x)'
      BY Zenon DEF PipeLive
    <2>1. CASE x # m
      BY <2>1, <1>2, <1>3, <1>4, Zenon DEF IInv, PipeLive, Live
    <2>2. CASE x = m /\ ~closed
      BY <2>2, <1>2, <1>4, <1>5, Zenon DEF Live
    <2>3. CASE x = m /\ closed
      BY <2>3, <1>3, <1>5, Zenon DEF IInv, PipeLive, Live
    <2> QED
      BY <2>1, <2>2, <2>3, Zenon
  <1>8. StagedFiles' /\ Selected'
    BY <1>2, Zenon DEF IInv, StagedFiles, Selected
  <1>9. SessionFiles'
    BY <1>2, <1>4, Zenon DEF IInv, SessionFiles
  <1>10. RowsAndFiles'
    BY <1>2, <1>4, <1>5, Zenon DEF IInv, RowsAndFiles, Live
  <1> QED
    BY <1>6, <1>7, <1>8, <1>9, <1>10, Zenon DEF IInv

(* A dead process holds nothing: files and rows are all that is left.      *)
LEMMA LoseMemoryKeeps ==
  ASSUME IInv, LoseMemory, UNCHANGED <<closed, acked, files, sqlite, scanner>>,
         faults' \in Nat, crashes' \in Nat
  PROVE  IInv'
  <1>1. Pipe' = {}
    <2>1. Elems(<<>>) = {} /\ Batches(<<>>) = {}
      BY SMTT(20) DEF Elems, Batches
    <2>2. Elems(queue') = {}
      BY <2>1, Zenon DEF LoseMemory
    <2>3. \A w \in Workers : Undone(w)' = {}
      BY <2>1, Zenon DEF LoseMemory, Undone
    <2> QED
      BY <2>2, <2>3, Zenon DEF Pipe
  <1>2. UNCHANGED <<closed, acked, raw, man, qrec, db, received, deleted, tomb, scanning, sel>>
    BY Zenon DEF files, sqlite, scanner
  <1>3. /\ sess' \in [Msgs -> {"idle", "reserved", "rawed", "persisted", "done", "refused"}]
        /\ \A m \in Msgs : sess'[m] \in {sess[m], "refused"} /\ (sess[m] = "done" => sess'[m] = "done")
    BY Zenon DEF LoseMemory, IInv, TypeOK
  <1>4. TypeOK'
    <2>1. queue' \in Seq(Msgs) /\ work' \in [Workers -> Seq(Seq(Msgs))]
      BY DEF LoseMemory
    <2>2. stage' \in [Workers -> {"files", "sqlite"}] /\ attempt' \in [Workers -> Nat]
      BY Zenon DEF LoseMemory
    <2>3. up' \in BOOLEAN
      BY Zenon DEF LoseMemory
    <2> QED
      BY <1>2, <1>3, <2>1, <2>2, <2>3, Zenon DEF IInv, TypeOK
  <1>5. PipeLive'
    BY <1>1, Zenon DEF PipeLive
  <1>6. StagedFiles'
    BY Zenon DEF LoseMemory, StagedFiles
  <1>7. SessionFiles'
    BY <1>2, <1>3, Zenon DEF IInv, SessionFiles
  <1>8. RowsAndFiles'
    BY <1>2, <1>3, Zenon DEF IInv, RowsAndFiles, Live
  <1>9. Selected'
    BY <1>2, Zenon DEF IInv, Selected
  <1> QED
    BY <1>4, <1>5, <1>6, <1>7, <1>8, <1>9, Zenon DEF IInv

-----------------------------------------------------------------------------
(* The invariant and what follows from it.                                 *)

(* The empty installation satisfies the invariant.                         *)
LEMMA InitInv == Init => IInv
  <1> SUFFICES ASSUME Init PROVE IInv
    OBVIOUS
  <1>1. Pipe = {}
    BY DEF Init, Pipe, Undone, Batches, Elems
  <1>2. TypeOK
    <2>1. up \in BOOLEAN /\ closed \in BOOLEAN /\ scanning \in BOOLEAN
      BY Zenon DEF Init
    <2> QED
      BY <2>1 DEF Init, TypeOK, Artifacts
  <1>3. PipeLive /\ StagedFiles /\ Selected
    BY <1>1, Zenon DEF Init, PipeLive, StagedFiles, Selected
  <1>4. SessionFiles /\ RowsAndFiles
    BY Zenon DEF Init, SessionFiles, RowsAndFiles
  <1> QED
    BY <1>2, <1>3, <1>4, Zenon DEF IInv

(* Every step of a session, a worker, the process, the scanner or the      *)
(* collector preserves it.                                                 *)
LEMMA StepInv == IInv /\ [Next]_vars => IInv'
  <1> SUFFICES ASSUME IInv, [Next]_vars PROVE IInv'
    OBVIOUS
  <1>1. ASSUME NEW m \in Msgs,
               \/ Reserve(m) \/ WriteRaw(m) \/ WriteManifest(m) \/ PersistFails(m)
               \/ PushAck(m) \/ Replay(m) \/ Delete(m)
               \/ \E f \in Artifacts : Unlink(m, f) \/ Forget(m, f)
        PROVE  IInv'
    BY <1>1, ReserveKeeps, WriteRawKeeps, WriteManifestKeeps, PersistFailsKeeps,
       PushAckKeeps, ReplayKeeps, DeleteKeeps, UnlinkKeeps, ForgetKeeps, Zenon
  <1>2. ASSUME NEW w \in Workers,
               \/ PopBatch(w) \/ WorkerFiles(w) \/ WorkerFilesFail(w)
               \/ CommitBatch(w) \/ CommitFails(w)
        PROVE  IInv'
    BY <1>2, PopBatchKeeps, WorkerFilesKeeps, WorkerFilesFailKeeps, CommitBatchKeeps,
       CommitFailsKeeps, Zenon
  <1>3. CASE Crash
    <2>1. faults' \in Nat /\ crashes' \in Nat
      BY <1>3 DEF Crash, IInv, TypeOK
    <2> QED
      BY <1>3, <2>1, LoseMemoryKeeps, Zenon DEF Crash
  <1>4. CASE Drained
    <2>1. faults' \in Nat /\ crashes' \in Nat
      BY <1>4, Zenon DEF Drained, IInv, TypeOK, bounds
    <2> QED
      BY <1>4, <2>1, LoseMemoryKeeps, Zenon DEF Drained
  <1>5. CASE Close \/ Restart \/ ScanStart \/ ScanEnd \/ ScanAborted
    BY <1>5, CloseKeeps, RestartKeeps, ScanStartKeeps, ScanEndKeeps, ScanAbortedKeeps, Zenon
  <1>6. CASE UNCHANGED vars
    <2>1. UNCHANGED <<up, closed, queue, work, stage, attempt, sess, acked, raw, man, qrec,
                      db, deleted, tomb, received, scanning, sel, faults, crashes>>
      BY <1>6, Zenon DEF vars, ingestd, files, sqlite, scanner, bounds
    <2>2. Pipe' = Pipe
      BY <2>1, Zenon DEF Pipe, Undone
    <2>3. TypeOK'
      BY <2>1, Zenon DEF IInv, TypeOK
    <2>4. PipeLive'
      BY <2>1, <2>2, Zenon DEF IInv, PipeLive, Live
    <2>5. StagedFiles' /\ SessionFiles'
      BY <2>1, Zenon DEF IInv, StagedFiles, SessionFiles
    <2>6. RowsAndFiles'
      BY <2>1, Zenon DEF IInv, RowsAndFiles, Live
    <2>7. Selected'
      BY <2>1, Zenon DEF IInv, Selected
    <2> QED
      BY <2>3, <2>4, <2>5, <2>6, <2>7, Zenon DEF IInv
  <1> QED
    BY <1>1, <1>2, <1>3, <1>4, <1>5, <1>6, Zenon DEF Next

(* Sessions, workers, crashes, scans and collection never leave it.        *)
THEOREM IngestInvariant == Spec => []IInv
  BY InitInv, StepInv, PTL DEF Spec

(* Every variable keeps its type.                                          *)
THEOREM IngestTypes == Spec => []TypeOK
  <1>1. IInv => TypeOK
    BY Zenon DEF IInv
  <1> QED
    BY <1>1, IngestInvariant, PTL

(* However ingestd crashes, an acknowledged message is indexed, deleted on *)
(* purpose, or on disk with raw file and manifest.                         *)
THEOREM AckIsDurable == Spec => []AckedDurable
  <1>1. IInv => AckedDurable
    BY Zenon DEF IInv, AckedDurable, RowsAndFiles, Live, TypeOK
  <1> QED
    BY <1>1, IngestInvariant, PTL

(* No live manifest points at a missing raw file.                          *)
THEOREM ManifestsAreComplete == Spec => []ManifestHasRaw
  <1>1. IInv => ManifestHasRaw
    BY Zenon DEF IInv, ManifestHasRaw, RowsAndFiles
  <1> QED
    BY <1>1, IngestInvariant, PTL

(* A worker and the scanner never both insert and count a message.         *)
THEOREM MessagesCountOnce == Spec => []CountedOnce
  <1>1. IInv => CountedOnce
    BY DEF IInv, CountedOnce, RowsAndFiles
  <1> QED
    BY <1>1, IngestInvariant, PTL

(* A deleted message is never replayed.                                    *)
THEOREM DeletionIsFinal == Spec => []NoResurrection
  <1>1. IInv => NoResurrection
    BY Zenon DEF IInv, NoResurrection, RowsAndFiles, TypeOK
  <1> QED
    BY <1>1, IngestInvariant, PTL

(* Every row points to an existing raw file.                               *)
THEOREM RowsHaveFiles == Spec => []IndexedHasRaw
  <1>1. IInv => IndexedHasRaw
    BY Zenon DEF IInv, IndexedHasRaw, RowsAndFiles, TypeOK
  <1> QED
    BY <1>1, IngestInvariant, PTL

-----------------------------------------------------------------------------
(* The pipeline implements the receipts.                                   *)

Receipt(m) ==
  IF m \in deleted THEN "deleted"
  ELSE IF m \in db THEN "indexed"
  ELSE IF man[m] = "quarantined" THEN "quarantined"
  ELSE IF man[m] # "none" THEN "held" ELSE "none"

(* A step that leaves manifests and rows alone is invisible.               *)
LEMMA QuietStep ==
  ASSUME \A m \in Msgs : Receipt(m)' = Receipt(m), acked' = acked
  PROVE  UNCHANGED R!rvars
  <1>1. ReceiptState = [m \in Msgs |-> Receipt(m)]
    BY Zenon DEF ReceiptState, Receipt
  <1>2. ReceiptState' = [m \in Msgs |-> Receipt(m)']
    BY Zenon DEF ReceiptState, Receipt
  <1> QED
    BY <1>1, <1>2, Zenon DEF R!rvars

(* A step that takes the messages of S along one arrow is that arrow.      *)
LEMMA ArrowStep ==
  ASSUME NEW S \in SUBSET Msgs, NEW from, NEW to,
         \A m \in S : Receipt(m) \in from,
         \A m \in Msgs : Receipt(m)' = IF m \in S THEN to ELSE Receipt(m),
         acked' = acked
  PROVE  R!Move(S, from, to)
  <1>1. ReceiptState = [m \in Msgs |-> Receipt(m)]
    BY Zenon DEF ReceiptState, Receipt
  <1>2. ReceiptState' = [m \in Msgs |-> Receipt(m)']
    BY Zenon DEF ReceiptState, Receipt
  <1>3. \A m \in Msgs : ReceiptState[m] = Receipt(m)
    BY <1>1, Zenon
  <1>4. \A m \in S : ReceiptState[m] \in from
    BY <1>3, Zenon
  <1>5. ReceiptState' = [m \in Msgs |-> IF m \in S THEN to ELSE ReceiptState[m]]
    BY <1>2, <1>3, Zenon
  <1> QED
    BY <1>4, <1>5, Zenon DEF R!Move

(* Files written by a worker: a receipt the scanner had set aside is held  *)
(* again, nothing else changes.                                            *)
LEMMA FilesAreHold ==
  ASSUME IInv, DurableAck, NEW D \in SUBSET Pipe, FilesOf(D),
         UNCHANGED <<db, deleted, acked>>
  PROVE  \E S \in SUBSET Msgs : R!Hold(S)
  <1> DEFINE S == {m \in D : Receipt(m) = "quarantined"}
  <1>1. S \in SUBSET Msgs
    BY PipeType, Zenon DEF IInv
  <1>2. \A m \in D : m \in Msgs /\ m \notin deleted /\ man[m] # "none"
    BY PipeType, Zenon DEF IInv, PipeLive, Live
  <1>3. \A m \in Msgs : man'[m] = IF m \in D THEN "final" ELSE man[m]
    BY Zenon DEF FilesOf
  <1>4. \A m \in Msgs : Receipt(m)' = IF m \in S THEN "held" ELSE Receipt(m)
    BY <1>2, <1>3, Zenon DEF Receipt
  <1>5. \A m \in S : Receipt(m) \in {"none", "quarantined"}
    OBVIOUS
  <1> HIDE DEF S
  <1>6. R!Move(S, {"none", "quarantined"}, "held")
    BY <1>1, <1>4, <1>5, ArrowStep, Zenon
  <1> QED
    BY <1>1, <1>6, Zenon DEF R!Hold

(* A committed batch indexes the held messages SQLite did not have.        *)
LEMMA CommitIsIndex ==
  ASSUME IInv, NEW w \in Workers, CommitBatch(w)
  PROVE  \E S \in SUBSET Msgs : R!Index(S)
  <1> DEFINE S == Missing(w)
  <1>1. Elems(Top(w)) \subseteq Pipe /\ Pipe \subseteq Msgs
    BY TopInPipe, PipeType, Zenon DEF IInv, CommitBatch, Top
  <1>2. S \in SUBSET Msgs
    BY <1>1, Zenon DEF Missing
  <1>3. \A m \in Elems(Top(w)) : m \notin deleted /\ man[m] # "none"
    BY <1>1, Zenon DEF IInv, PipeLive, Live, StagedFiles, CommitBatch, Top
  <1>4. \A m \in S : Receipt(m) \in {"held"}
    BY <1>1, <1>3, Zenon DEF Missing, Receipt, IInv, RowsAndFiles, CommitBatch
  <1>5. \A m \in Msgs : Receipt(m)' = IF m \in S THEN "indexed" ELSE Receipt(m)
    BY <1>3, Zenon DEF Missing, Receipt, CommitBatch, files
  <1>6. acked' = acked
    BY Zenon DEF CommitBatch
  <1> HIDE DEF S
  <1>7. R!Move(S, {"held"}, "indexed")
    BY <1>2, <1>4, <1>5, <1>6, ArrowStep, Zenon
  <1> QED
    BY <1>2, <1>7, Zenon DEF R!Index

(* A manifest written by a session holds its message; a failed write may   *)
(* hold one too.                                                           *)
LEMMA SessionIsHold ==
  ASSUME IInv, NEW m \in Msgs, WriteManifest(m) \/ PersistFails(m)
  PROVE  (\E S \in SUBSET Msgs : R!Hold(S)) \/ UNCHANGED R!rvars
  <1>1. UNCHANGED <<db, deleted, acked>>
    BY Zenon DEF WriteManifest, PersistFails, sqlite
  <1>2. CASE man' = man
    BY <1>1, <1>2, QuietStep, Zenon DEF Receipt
  <1>3. CASE man' = [man EXCEPT ![m] = "pending"] /\ sess[m] = "rawed"
    <2>1. Receipt(m) \in {"none", "quarantined"}
      BY <1>3, Zenon DEF Receipt, IInv, SessionFiles
    <2>2. \A x \in Msgs : Receipt(x)' = IF x \in {m} THEN "held" ELSE Receipt(x)
      BY <1>1, <1>3, Zenon DEF Receipt, IInv, SessionFiles, TypeOK
    <2>3. R!Move({m}, {"none", "quarantined"}, "held")
      BY <1>1, <2>1, <2>2, ArrowStep, Zenon
    <2> QED
      BY <2>3, Zenon DEF R!Hold
  <1> QED
    BY <1>2, <1>3, Zenon DEF WriteManifest, PersistFails

(* The scanner indexes what it holds, or sets it aside.                    *)
LEMMA ReplayIsArrow ==
  ASSUME IInv, NEW m \in Msgs, Replay(m)
  PROVE  \/ \E S \in SUBSET Msgs : R!Index(S) \/ R!Quarantine(S)
         \/ UNCHANGED R!rvars
  <1>1. UNCHANGED <<deleted, acked>> /\ m \notin deleted /\ man[m] \in {"pending", "final"}
    BY Zenon DEF Replay, IInv, Selected
  <1>2. CASE m \in Conflicting
    <2>1. Receipt(m) \in {"held"}
      BY <1>1, <1>2, Zenon DEF Receipt, IInv, RowsAndFiles
    <2>2. \A x \in Msgs : Receipt(x)' = IF x \in {m} THEN "quarantined" ELSE Receipt(x)
      BY <1>1, <1>2 DEF Receipt, Replay, IInv, RowsAndFiles, TypeOK
    <2>3. R!Move({m}, {"held"}, "quarantined")
      BY <1>1, <2>1, <2>2, ArrowStep, Zenon
    <2> QED
      BY <2>3, Zenon DEF R!Quarantine
  <1>3. CASE m \notin Conflicting /\ m \in db
    BY <1>1, <1>3, QuietStep, Zenon DEF Receipt, Replay
  <1>4. CASE m \notin Conflicting /\ m \notin db
    <2>1. Receipt(m) \in {"held"}
      BY <1>1, <1>4, Zenon DEF Receipt
    <2>2. \A x \in Msgs : Receipt(x)' = IF x \in {m} THEN "indexed" ELSE Receipt(x)
      BY <1>1, <1>4, Zenon DEF Receipt, Replay
    <2>3. R!Move({m}, {"held"}, "indexed")
      BY <1>1, <2>1, <2>2, ArrowStep, Zenon
    <2> QED
      BY <2>3, Zenon DEF R!Index
  <1> QED
    BY <1>2, <1>3, <1>4, Zenon

(* A deletion takes an indexed message; collecting its files and starting  *)
(* a scan change no receipt.                                               *)
LEMMA CollectorArrows ==
  ASSUME IInv, NEW m \in Msgs
  PROVE  /\ Delete(m) => \E S \in SUBSET Msgs : R!Delete(S)
         /\ (\E f \in Artifacts : Unlink(m, f)) => UNCHANGED R!rvars
  <1>1. ASSUME Delete(m) PROVE \E S \in SUBSET Msgs : R!Delete(S)
    <2>1. Receipt(m) \in {"indexed"}
      BY <1>1, Zenon DEF Receipt, Delete, IInv, RowsAndFiles
    <2>2. \A x \in Msgs : Receipt(x)' = IF x \in {m} THEN "deleted" ELSE Receipt(x)
      BY <1>1, Zenon DEF Receipt, Delete, files
    <2>3. R!Move({m}, {"indexed"}, "deleted")
      BY <1>1, <2>1, <2>2, ArrowStep, Zenon DEF Delete
    <2> QED
      BY <2>3, Zenon DEF R!Delete
  <1>2. ASSUME NEW f \in Artifacts, Unlink(m, f) PROVE UNCHANGED R!rvars
    <2>1. m \in deleted /\ UNCHANGED <<db, deleted, acked>>
      BY <1>2, Zenon DEF Unlink, sqlite, IInv, RowsAndFiles
    <2>2. \A x \in Msgs : x # m => man'[x] = man[x]
      BY <1>2, Zenon DEF Unlink, IInv, TypeOK
    <2> QED
      BY <2>1, <2>2, QuietStep, Zenon DEF Receipt
  <1> QED
    BY <1>1, <1>2, Zenon

(* No live receipt is without its raw file, so the scan sets none aside.   *)
LEMMA ScanIsQuiet ==
  ASSUME IInv, ScanStart
  PROVE  UNCHANGED R!rvars
  <1>1. \A m \in Msgs : ~Broken(m)
    BY Zenon DEF Broken, IInv, RowsAndFiles
  <1>2. \A m \in Msgs : man'[m] = man[m]
    BY <1>1, Zenon DEF ScanStart
  <1> QED
    BY <1>2, QuietStep, Zenon DEF ScanStart, sqlite, Receipt

(* With a durable ACK a message is acknowledged only when a receipt holds  *)
(* it.                                                                     *)
LEMMA PushIsAcknowledge ==
  ASSUME IInv, DurableAck, NEW m \in Msgs, PushAck(m)
  PROVE  R!Acknowledge(m)
  <1>1. UNCHANGED <<db, deleted, man>> /\ acked' = acked \cup {m}
    BY Zenon DEF PushAck, files, sqlite
  <1>2. ReceiptState' = ReceiptState
    BY <1>1, Zenon DEF ReceiptState
  <1>3. ReceiptState[m] # "none"
    BY Zenon DEF ReceiptState, PushAck, IInv, SessionFiles
  <1> QED
    BY <1>1, <1>2, <1>3, Zenon DEF R!Acknowledge

(* Every step is an arrow of the receipts or invisible to them.            *)
LEMMA StepRefines ==
  ASSUME IInv, DurableAck, [Next]_vars
  PROVE  [R!Next]_R!rvars
  <1>1. ASSUME UNCHANGED <<man, db, deleted, acked>> PROVE UNCHANGED R!rvars
    BY <1>1, Zenon DEF R!rvars, ReceiptState
  <1>2. ASSUME NEW m \in Msgs, WriteManifest(m) \/ PersistFails(m) PROVE [R!Next]_R!rvars
    BY <1>2, SessionIsHold, Zenon DEF R!Next
  <1>3. ASSUME NEW m \in Msgs, PushAck(m) PROVE R!Next
    BY <1>3, PushIsAcknowledge, Zenon DEF R!Next
  <1>4. ASSUME NEW m \in Msgs, Replay(m) PROVE [R!Next]_R!rvars
    BY <1>4, ReplayIsArrow, Zenon DEF R!Next
  <1>5. ASSUME NEW m \in Msgs, Delete(m) \/ \E f \in Artifacts : Unlink(m, f)
        PROVE  [R!Next]_R!rvars
    BY <1>5, CollectorArrows, Zenon DEF R!Next
  <1>6. ASSUME NEW m \in Msgs,
               Reserve(m) \/ WriteRaw(m) \/ \E f \in Artifacts : Forget(m, f)
        PROVE  UNCHANGED R!rvars
    BY <1>1, <1>6, Zenon DEF Reserve, WriteRaw, Forget, files, sqlite
  <1>7. ASSUME NEW w \in Workers, WorkerFiles(w) \/ WorkerFilesFail(w) PROVE R!Next
    <2>1. Elems(Top(w)) \subseteq Pipe /\ Top(w) \in Seq(Msgs)
      BY <1>7, TopInPipe, Zenon DEF IInv, WorkerFiles, WorkerFilesFail
    <2>2. PICK D \in SUBSET Pipe : FilesOf(D)
      <3>1. CASE WorkerFiles(w)
        BY <3>1, <2>1, Zenon DEF WorkerFiles
      <3>2. CASE WorkerFilesFail(w)
        <4>1. PICK k \in 0 .. Len(Top(w)) - 1 : FilesUpTo(Top(w), k)
          BY <3>2, Zenon DEF WorkerFilesFail
        <4>2. {Top(w)[i] : i \in 1 .. k} \subseteq Elems(Top(w))
          BY <2>1, SMTT(30) DEF Elems
        <4> QED
          BY <4>1, <4>2, <2>1, Zenon DEF FilesUpTo
      <3> QED
        BY <1>7, <3>1, <3>2, Zenon
    <2>3. UNCHANGED <<db, deleted, acked>>
      BY <1>7, Zenon DEF WorkerFiles, WorkerFilesFail, sqlite
    <2> QED
      BY <2>2, <2>3, FilesAreHold, Zenon DEF R!Next
  <1>8. ASSUME NEW w \in Workers, CommitBatch(w) PROVE R!Next
    BY <1>8, CommitIsIndex, Zenon DEF R!Next
  <1>9. ASSUME NEW w \in Workers, PopBatch(w) \/ CommitFails(w) PROVE UNCHANGED R!rvars
    BY <1>1, <1>9, Zenon DEF PopBatch, CommitFails, files, sqlite
  <1>10. ASSUME Crash \/ Close \/ Drained \/ Restart \/ ScanEnd \/ ScanAborted
         PROVE  UNCHANGED R!rvars
    BY <1>1, <1>10, Zenon DEF Crash, Close, Drained, Restart, ScanEnd, ScanAborted, files,
       sqlite
  <1>11. ASSUME ScanStart PROVE UNCHANGED R!rvars
    BY <1>11, ScanIsQuiet, Zenon
  <1>12. ASSUME UNCHANGED vars PROVE UNCHANGED R!rvars
    BY <1>1, <1>12, Zenon DEF vars, files, sqlite
  <1> QED
    BY <1>2, <1>3, <1>4, <1>5, <1>6, <1>7, <1>8, <1>9, <1>10, <1>11, <1>12, Zenon DEF Next

(* With INGEST_DURABLE_ACK the pipeline of sessions, workers, scanner and  *)
(* collector, crashes included, implements the receipts.                   *)
THEOREM PipelineRefinesReceipts ==
  ASSUME DurableAck
  PROVE  Spec => ImplementsReceipts
  <1>1. Init => R!Init
    BY Zenon DEF Init, R!Init, ReceiptState
  <1>2. IInv /\ [Next]_vars => [R!Next]_R!rvars
    BY StepRefines, Zenon
  <1> QED
    BY <1>1, <1>2, IngestInvariant, PTL DEF Spec, ImplementsReceipts, R!Spec

-----------------------------------------------------------------------------
(* SMTP sessions. *)

\* The types of the session bookkeeping.
SessionsTyped ==
  /\ conn \in [Conns -> {"new", "open", "ensure", "erring", "quitting", "bye", "lost", "closing", "gone"}]
  /\ row \in [Conns -> {"none", "open", "closed", "error"}]
  /\ ops \in [Conns -> Seq({"ensure", "error", "quit", "upsert", "mark"})]
  /\ reply \in [Conns -> {"none", "ok", "failed"}]

\* Nothing of the connection is left to do, and its row is not open unless the
\* closing write failed.
Ended(c) == c \notin slots /\ ops[c] = <<>> /\ (row[c] = "open" => c \in unclosed)

\* handle_DISCONNECT waits: the closing write is the last one pending, and once
\* it is answered the connection has ended.
Closes(c) ==
  /\ c \notin slots
  /\ reply[c] = "none" => ops[c] # <<>> /\ ops[c][Len(ops[c])] \in {"upsert", "mark"}
  /\ reply[c] # "none" => Ended(c)

EndsWell(c) == (conn[c] = "gone" => Ended(c)) /\ (conn[c] = "closing" => Closes(c))

SessionsInv == SessionsTyped /\ \A c \in Conns : EndsWell(c)

\* A connection a step does not concern.
LEMMA OtherSession ==
  ASSUME NEW d, EndsWell(d), conn'[d] = conn[d], ops'[d] = ops[d], reply'[d] = reply[d],
         row'[d] = "open" => row[d] = "open", d \in slots' => d \in slots,
         d \in unclosed => d \in unclosed'
  PROVE  EndsWell(d)'
BY Zenon DEF EndsWell, Ended, Closes

\* A connection that is neither closing nor gone.
LEMMA LiveSession ==
  ASSUME NEW d, conn'[d] \notin {"closing", "gone"}
  PROVE  EndsWell(d)'
<1>1. conn'[d] # "closing" /\ conn'[d] # "gone"
  OBVIOUS
<1> QED BY <1>1, Zenon DEF EndsWell

\* The ends of a queue.
LEMMA QueueEnds ==
  ASSUME NEW S, NEW q \in Seq(S)
  PROVE  /\ \A x \in S : Append(q, x) # <<>> /\ Append(q, x)[Len(Append(q, x))] = x
         /\ Len(q) = 1 => Tail(q) = <<>> /\ q[Len(q)] = Head(q)
         /\ q # <<>> /\ Len(q) # 1 => Tail(q) # <<>> /\ Tail(q)[Len(Tail(q))] = q[Len(q)]
<1> DEFINE none == <<>>
<1>1. Len(none) = 0 /\ \A s \in Seq(S) : Len(s) = 0 => s = none
  OBVIOUS
<1>2. Len(q) \in Nat
  OBVIOUS
<1> HIDE DEF none
<1>3. ASSUME NEW x \in S PROVE Append(q, x) # none /\ Append(q, x)[Len(Append(q, x))] = x
  <2>1. Len(Append(q, x)) = Len(q) + 1 /\ Append(q, x)[Len(q) + 1] = x
    OBVIOUS
  <2> QED BY <1>1, <1>2, <2>1
<1>4. ASSUME q # none
      PROVE  /\ Tail(q) \in Seq(S) /\ Len(Tail(q)) = Len(q) - 1 /\ Len(q) # 0 /\ Head(q) = q[1]
             /\ \A i \in 1 .. Len(q) - 1 : Tail(q)[i] = q[i + 1]
  BY <1>4 DEF none
<1>5. ASSUME Len(q) = 1 PROVE Tail(q) = none /\ q[Len(q)] = Head(q)
  <2>1. q # none
    BY <1>1, <1>5
  <2>2. Len(Tail(q)) = 0
    BY <1>4, <1>5, <2>1
  <2> QED BY <1>1, <1>4, <1>5, <2>1, <2>2, Zenon
<1>6. ASSUME q # none, Len(q) # 1 PROVE Tail(q) # none /\ Tail(q)[Len(Tail(q))] = q[Len(q)]
  <2>1. PICK n \in Nat : n = Len(q)
    BY <1>2
  <2>2. n # 0 /\ n # 1
    BY <1>4, <1>6, <2>1, Zenon
  <2>3. n - 1 \in 1 .. n - 1 /\ (n - 1) + 1 = n /\ n - 1 # 0
    BY <2>2
  <2> QED BY <1>1, <1>4, <1>6, <2>1, <2>3, Zenon
<1> QED BY <1>3, <1>5, <1>6, Zenon DEF none

\* A handler that goes on to wait for a write.
LEMMA AwaitFacts ==
  ASSUME SessionsTyped, NEW c \in Conns,
         NEW at \in {"new", "open", "ensure", "erring", "quitting", "bye", "lost", "closing", "gone"},
         NEW op \in {"ensure", "error", "quit", "upsert", "mark"}, Await(c, at, op), row' = row
  PROVE  /\ SessionsTyped' /\ conn'[c] = at /\ ops'[c] = Append(ops[c], op) /\ reply'[c] = "none"
         /\ \A d \in Conns : d # c => conn'[d] = conn[d] /\ ops'[d] = ops[d] /\ reply'[d] = reply[d]
<1>1. /\ conn' = [conn EXCEPT ![c] = at] /\ reply' = [reply EXCEPT ![c] = "none"]
      /\ ops' = [ops EXCEPT ![c] = Append(@, op)]
  BY Zenon DEF Await
<1>2. Append(ops[c], op) \in Seq({"ensure", "error", "quit", "upsert", "mark"})
  BY DEF SessionsTyped
<1> QED BY <1>1, <1>2 DEF SessionsTyped

\* A handler that goes on without.
LEMMA StepFacts ==
  ASSUME SessionsTyped, NEW c \in Conns,
         NEW at \in {"new", "open", "ensure", "erring", "quitting", "bye", "lost", "closing", "gone"},
         Step(c, at), row' = row, ops' = ops
  PROVE  /\ SessionsTyped' /\ conn'[c] = at /\ reply'[c] = "none"
         /\ \A d \in Conns : d # c => conn'[d] = conn[d] /\ ops'[d] = ops[d] /\ reply'[d] = reply[d]
<1>1. conn' = [conn EXCEPT ![c] = at] /\ reply' = [reply EXCEPT ![c] = "none"]
  BY Zenon DEF Step
<1> QED BY <1>1 DEF SessionsTyped

\* The handlers up to the loss of the connection.
LEMMA HandlerStep ==
  ASSUME SessionsInv, NEW c \in Conns,
         \/ \E rateAllows \in BOOLEAN : Command(c, rateAllows)
         \/ CommandDone(c) \/ CommandRaises(c) \/ EnsureFailed(c) \/ Quit(c) \/ CloseDone(c)
         \/ Lost(c)
  PROVE  SessionsInv'
<1> DEFINE Places == {"open", "ensure", "erring", "quitting", "bye", "lost"}
<1>1. /\ row' = row /\ unclosed' = unclosed /\ \A d \in slots' : d \in slots \/ d = c
      /\ \E at \in Places : \/ \E op \in {"ensure", "error", "quit"} : Await(c, at, op)
                            \/ Step(c, at) /\ ops' = ops
  <2>1. ASSUME NEW r \in BOOLEAN, Command(c, r)
        PROVE  /\ row' = row /\ unclosed' = unclosed /\ \A d \in slots' : d \in slots \/ d = c
               /\ Await(c, "ensure", "ensure") \/ (Step(c, "open") /\ ops' = ops)
    BY <2>1, Zenon DEF Command
  <2>2. CASE CommandDone(c) \/ EnsureFailed(c)
    BY <2>2, Zenon DEF CommandDone, EnsureFailed
  <2>3. CASE CommandRaises(c)
    BY <2>3, Zenon DEF CommandRaises
  <2>4. CASE Quit(c)
    BY <2>4, Zenon DEF Quit
  <2>5. CASE CloseDone(c)
    <3>1. Step(c, "bye") \/ Step(c, "open")
      BY <2>5, Zenon DEF CloseDone
    <3> QED BY <2>5, <3>1, Zenon DEF CloseDone
  <2>6. CASE Lost(c)
    BY <2>6, Zenon DEF Lost
  <2> QED BY <2>1, <2>2, <2>3, <2>4, <2>5, <2>6, Zenon
<1>2. PICK at \in Places : \/ \E op \in {"ensure", "error", "quit"} : Await(c, at, op)
                           \/ Step(c, at) /\ ops' = ops
  BY <1>1, Zenon
<1>3. /\ SessionsTyped' /\ conn'[c] = at
      /\ \A d \in Conns : d # c => conn'[d] = conn[d] /\ ops'[d] = ops[d] /\ reply'[d] = reply[d]
  <2>1. at \in {"new", "open", "ensure", "erring", "quitting", "bye", "lost", "closing", "gone"}
    OBVIOUS
  <2>2. SessionsTyped
    BY Zenon DEF SessionsInv
  <2>3. ASSUME NEW op \in {"ensure", "error", "quit"}, Await(c, at, op)
        PROVE  /\ SessionsTyped' /\ conn'[c] = at
               /\ \A d \in Conns : d # c => conn'[d] = conn[d] /\ ops'[d] = ops[d] /\ reply'[d] = reply[d]
    <3>1. op \in {"ensure", "error", "quit", "upsert", "mark"}
      OBVIOUS
    <3> QED BY <1>1, <2>1, <2>2, <2>3, <3>1, AwaitFacts, Zenon
  <2>4. CASE Step(c, at) /\ ops' = ops
    BY <1>1, <2>1, <2>2, <2>4, StepFacts, Zenon
  <2> QED BY <1>2, <2>3, <2>4, Zenon
<1>4. at \notin {"closing", "gone"}
  OBVIOUS
<1>5. EndsWell(c)'
  BY <1>3, <1>4, LiveSession, Zenon
<1>6. ASSUME NEW d \in Conns, d # c PROVE EndsWell(d)'
  <2>1. EndsWell(d)
    BY Zenon DEF SessionsInv
  <2> QED BY <1>1, <1>3, <1>6, <2>1, OtherSession, Zenon
<1> QED BY <1>3, <1>5, <1>6, Zenon DEF SessionsInv

\* handle_DISCONNECT releases the slot and queues the closing write.
LEMMA DisconnectStep ==
  ASSUME SessionsInv, NEW c \in Conns, Disconnect(c)
  PROVE  SessionsInv'
<1> DEFINE op == IF c \in slots THEN "upsert" ELSE "mark"
<1>1. /\ Await(c, "closing", op) /\ row' = row /\ unclosed' = unclosed /\ slots' = slots \ {c}
  BY Zenon DEF Disconnect
<1>2. op \in {"upsert", "mark"}
  BY Zenon
<1>3. op \in {"ensure", "error", "quit", "upsert", "mark"}
  BY <1>2
<1>4. "closing" \in {"new", "open", "ensure", "erring", "quitting", "bye", "lost", "closing", "gone"}
  OBVIOUS
<1>5. SessionsTyped
  BY Zenon DEF SessionsInv
<1> HIDE DEF op
<1>6. /\ SessionsTyped' /\ conn'[c] = "closing" /\ ops'[c] = Append(ops[c], op) /\ reply'[c] = "none"
      /\ \A d \in Conns : d # c => conn'[d] = conn[d] /\ ops'[d] = ops[d] /\ reply'[d] = reply[d]
  BY <1>1, <1>3, <1>4, <1>5, AwaitFacts, Zenon
<1>7. ops'[c] # <<>> /\ ops'[c][Len(ops'[c])] = op
  <2>1. ops[c] \in Seq({"ensure", "error", "quit", "upsert", "mark"})
    BY <1>5 DEF SessionsTyped
  <2>2. Append(ops[c], op) # <<>> /\ Append(ops[c], op)[Len(Append(ops[c], op))] = op
    BY <1>3, <2>1, QueueEnds
  <2> QED BY <1>6, <2>2, Zenon
<1>8. EndsWell(c)'
  BY <1>1, <1>2, <1>6, <1>7, Zenon DEF EndsWell, Closes
<1>9. ASSUME NEW d \in Conns, d # c PROVE EndsWell(d)'
  <2>1. EndsWell(d)
    BY Zenon DEF SessionsInv
  <2>2. d \in slots' => d \in slots
    BY <1>1, Zenon
  <2> QED BY <1>1, <1>6, <1>9, <2>1, <2>2, OtherSession, Zenon
<1> QED BY <1>6, <1>8, <1>9, Zenon DEF SessionsInv

\* The closing write is answered, and the connection is gone.
LEMMA DisconnectDoneStep ==
  ASSUME SessionsInv, NEW c \in Conns, DisconnectDone(c)
  PROVE  SessionsInv'
<1>1. /\ Step(c, "gone") /\ row' = row /\ unclosed' = unclosed /\ slots' = slots /\ ops' = ops
      /\ conn[c] = "closing" /\ reply[c] # "none"
  BY Zenon DEF DisconnectDone
<1>2. "gone" \in {"new", "open", "ensure", "erring", "quitting", "bye", "lost", "closing", "gone"}
  OBVIOUS
<1>3. SessionsTyped
  BY Zenon DEF SessionsInv
<1>4. /\ SessionsTyped' /\ conn'[c] = "gone"
      /\ \A d \in Conns : d # c => conn'[d] = conn[d] /\ ops'[d] = ops[d] /\ reply'[d] = reply[d]
  BY <1>1, <1>2, <1>3, StepFacts, Zenon
<1>5. Ended(c)
  BY <1>1, Zenon DEF SessionsInv, EndsWell, Closes
<1>6. EndsWell(c)'
  <2>1. Ended(c)'
    BY <1>1, <1>5, Zenon DEF Ended
  <2>2. conn'[c] # "closing"
    BY <1>4
  <2> QED BY <2>1, <2>2, Zenon DEF EndsWell
<1>7. ASSUME NEW d \in Conns, d # c PROVE EndsWell(d)'
  <2>1. EndsWell(d)
    BY Zenon DEF SessionsInv
  <2> QED BY <1>1, <1>4, <1>7, <2>1, OtherSession, Zenon
<1> QED BY <1>4, <1>6, <1>7, Zenon DEF SessionsInv

\* A write leaves a status of a row; the closing writes never an open one.
LEMMA WrittenFacts ==
  ASSUME NEW op \in {"ensure", "error", "quit", "upsert", "mark"},
         NEW was \in {"none", "open", "closed", "error"}
  PROVE  /\ Written(op, was) \in {"none", "open", "closed", "error"}
         /\ op \in {"upsert", "mark"} => Written(op, was) # "open"
BY DEF Written

\* The database writer performs the oldest write of a connection.
LEMMA WriteStep ==
  ASSUME SessionsInv, NEW c \in Conns, NEW ok \in BOOLEAN, Write(c, ok)
  PROVE  SessionsInv'
<1> DEFINE Ops == {"ensure", "error", "quit", "upsert", "mark"}
           op == Head(ops[c])
           waiting == Len(ops[c]) = 1 /\ conn[c] \in {"ensure", "erring", "quitting", "closing"}
           changed == op # "mark" \/ row[c] = "open"
<1>1. /\ ops[c] # <<>>
      /\ row' = IF ok THEN [row EXCEPT ![c] = Written(op, @)] ELSE row
      /\ ops' = [ops EXCEPT ![c] = Tail(@)]
      /\ reply' = IF waiting THEN [reply EXCEPT ![c] = IF ok /\ changed THEN "ok" ELSE "failed"]
                            ELSE reply
      /\ unclosed' = IF ~ok /\ op \in {"upsert", "mark"} THEN unclosed \cup {c} ELSE unclosed
      /\ slots' = slots /\ conn' = conn
  BY Zenon DEF Write
<1>2. SessionsTyped /\ EndsWell(c)
  BY Zenon DEF SessionsInv
<1>3. /\ ops[c] \in Seq(Ops) /\ op \in Ops /\ Tail(ops[c]) \in Seq(Ops)
      /\ row[c] \in {"none", "open", "closed", "error"}
  BY <1>1, <1>2 DEF SessionsTyped
<1>4. PICK w : w = Written(op, row[c])
  OBVIOUS
<1>5. w \in {"none", "open", "closed", "error"} /\ (op \in {"upsert", "mark"} => w # "open")
  BY <1>3, <1>4, WrittenFacts, Zenon
<1>6. row' = IF ok THEN [row EXCEPT ![c] = w] ELSE row
  BY <1>1, <1>4, Zenon
<1>7. PICK said \in {"ok", "failed"} : reply' = IF waiting THEN [reply EXCEPT ![c] = said] ELSE reply
  BY <1>1, Zenon
<1>8. PICK o : o = op
  OBVIOUS
<1>9. PICK wait \in BOOLEAN : wait = waiting
  OBVIOUS
<1>10. SessionsTyped'
  BY <1>1, <1>2, <1>3, <1>5, <1>6, <1>7 DEF SessionsTyped
<1>11. /\ row'[c] = IF ok THEN w ELSE row[c]
       /\ ops'[c] = Tail(ops[c]) /\ conn'[c] = conn[c]
       /\ reply'[c] = IF waiting THEN said ELSE reply[c]
       /\ \A d \in Conns : d # c => /\ conn'[d] = conn[d] /\ ops'[d] = ops[d] /\ reply'[d] = reply[d]
                                    /\ row'[d] = row[d]
  BY <1>1, <1>2, <1>6, <1>7 DEF SessionsTyped
<1>12. EndsWell(c)'
  <2>1. CASE conn[c] = "gone"
    <3>1. ops[c] = <<>>
      BY <1>2, <2>1, Zenon DEF EndsWell, Ended
    <3> QED BY <1>1, <3>1, Zenon
  <2>2. CASE conn[c] = "closing"
    <3>1. reply[c] = "none" /\ c \notin slots /\ ops[c][Len(ops[c])] \in {"upsert", "mark"}
      BY <1>1, <1>2, <2>2, Zenon DEF EndsWell, Closes, Ended
    <3>2. CASE Len(ops[c]) = 1
      <4>1. ops'[c] = <<>> /\ op \in {"upsert", "mark"} /\ reply'[c] = said /\ said # "none"
        <5>1. Tail(ops[c]) = <<>> /\ ops[c][Len(ops[c])] = op
          BY <1>3, <3>2, QueueEnds, Zenon
        <5>2. conn[c] \in {"ensure", "erring", "quitting", "closing"}
          BY <2>2
        <5>3. said # "none"
          OBVIOUS
        <5> QED BY <1>11, <3>1, <3>2, <5>1, <5>2, <5>3, Zenon
      <4>2. row'[c] = "open" => c \in unclosed'
        BY <1>1, <1>5, <1>11, <4>1, Zenon
      <4>3. Ended(c)'
        BY <1>1, <3>1, <4>1, <4>2, Zenon DEF Ended
      <4>4. Closes(c)'
        BY <1>1, <3>1, <4>1, <4>3, Zenon DEF Closes
      <4>5. conn'[c] # "gone"
        BY <1>11, <2>2
      <4> QED BY <4>4, <4>5, Zenon DEF EndsWell
    <3>3. CASE Len(ops[c]) # 1
      <4>1. ops'[c] # <<>> /\ ops'[c][Len(ops'[c])] = ops[c][Len(ops[c])]
        <5>1. Tail(ops[c]) # <<>> /\ Tail(ops[c])[Len(Tail(ops[c]))] = ops[c][Len(ops[c])]
          BY <1>1, <1>3, <3>3, QueueEnds, Zenon
        <5> QED BY <1>11, <5>1, Zenon
      <4>2. reply'[c] = "none"
        BY <1>11, <3>1, <3>3, Zenon
      <4>3. Closes(c)'
        BY <1>1, <3>1, <4>1, <4>2, Zenon DEF Closes
      <4>4. conn'[c] # "gone"
        BY <1>11, <2>2
      <4> QED BY <4>3, <4>4, Zenon DEF EndsWell
    <3> QED BY <3>2, <3>3, Zenon
  <2>3. CASE conn[c] # "gone" /\ conn[c] # "closing"
    BY <1>11, <2>3, Zenon DEF EndsWell
  <2> QED BY <2>1, <2>2, <2>3, Zenon
<1>13. ASSUME NEW d \in Conns, d # c PROVE EndsWell(d)'
  <2>1. EndsWell(d)
    BY Zenon DEF SessionsInv
  <2>2. d \in unclosed => d \in unclosed'
    BY <1>1, Zenon
  <2> QED BY <1>1, <1>11, <1>13, <2>1, <2>2, OtherSession, Zenon
<1> QED BY <1>10, <1>12, <1>13, Zenon DEF SessionsInv

\* The rest leaves the sessions alone, but for clear-all, which deletes the rows,
\* and a restart.
LEMMA QuietSessions ==
  ASSUME SessionsInv, UNCHANGED <<slots, conn, ops, reply, unclosed>>,
         row' = row \/ row' = [c \in Conns |-> "none"]
  PROVE  SessionsInv'
<1>1. row' \in [Conns -> {"none", "open", "closed", "error"}]
      /\ \A d \in Conns : row'[d] = "open" => row[d] = "open"
  BY DEF SessionsInv, SessionsTyped
<1>2. SessionsTyped'
  BY <1>1, Zenon DEF SessionsInv, SessionsTyped
<1>3. ASSUME NEW d \in Conns PROVE EndsWell(d)'
  <2>1. EndsWell(d)
    BY Zenon DEF SessionsInv
  <2> QED BY <1>1, <2>1, OtherSession, Zenon
<1> QED BY <1>2, <1>3, Zenon DEF SessionsInv

\* A restart forgets the connections; start() closes the rows left open.
LEMMA RestartSessions ==
  ASSUME SessionsInv, RestartSmtp
  PROVE  SessionsInv'
<1>1. /\ slots' = {}
      /\ conn' = [c \in Conns |-> IF conn[c] = "new" THEN "new" ELSE "gone"]
      /\ row' = [c \in Conns |-> IF row[c] = "open" THEN "error" ELSE row[c]]
      /\ ops' = [c \in Conns |-> <<>>]
      /\ reply' = [c \in Conns |-> "none"]
  BY Zenon DEF RestartSmtp
<1>2. SessionsTyped'
  BY <1>1 DEF SessionsInv, SessionsTyped
<1>3. ASSUME NEW d \in Conns PROVE EndsWell(d)'
  <2>1. row'[d] # "open" /\ ops'[d] = <<>> /\ conn'[d] # "closing"
    BY <1>1
  <2> QED BY <1>1, <2>1, Zenon DEF EndsWell, Ended
<1> QED BY <1>2, <1>3, Zenon DEF SessionsInv

\* No connection yet.
LEMMA SessionsInit == LiveInit => SessionsInv
<1> SUFFICES ASSUME LiveInit PROVE SessionsInv
  OBVIOUS
<1>1. /\ conn = [c \in Conns |-> "new"] /\ row = [c \in Conns |-> "none"]
      /\ ops = [c \in Conns |-> <<>>] /\ reply = [c \in Conns |-> "none"]
  BY Zenon DEF LiveInit, SmtpInit
<1>2. SessionsTyped
  BY <1>1 DEF SessionsTyped
<1>3. ASSUME NEW d \in Conns PROVE EndsWell(d)
  <2>1. conn[d] # "gone" /\ conn[d] # "closing"
    BY <1>1
  <2> QED BY <2>1, Zenon DEF EndsWell
<1> QED BY <1>2, <1>3, Zenon DEF SessionsInv

\* Every step of the composed system keeps the invariant of the sessions.
LEMMA SessionsNext ==
  ASSUME SessionsInv, [LiveNext]_allVars
  PROVE  SessionsInv'
<1>1. CASE UNCHANGED allVars
  <2>1. UNCHANGED <<slots, conn, ops, reply, unclosed>> /\ row' = row
    BY <1>1, Zenon DEF allVars, smtpVars, sessionVars
  <2> QED BY <2>1, QuietSessions, Zenon
<1>2. ASSUME NEW d \in Deliveries, UNCHANGED <<tailVars, clear, view, sessionVars, ringVars>>
      PROVE  SessionsInv'
  <2>1. UNCHANGED <<slots, conn, ops, reply, unclosed>> /\ row' = row
    BY <1>2, Zenon DEF sessionVars
  <2> QED BY <2>1, QuietSessions, Zenon
<1>3. CASE Tailer
  <2>1. UNCHANGED smtpVars
    BY <1>3, Zenon DEF Tailer, PollLoad, PollApply
  <2>2. UNCHANGED <<slots, conn, ops, reply, unclosed>> /\ row' = row
    BY <2>1, Zenon DEF smtpVars, sessionVars
  <2> QED BY <2>2, QuietSessions, Zenon
<1>4. CASE Viewer
  <2>1. UNCHANGED smtpVars
    BY <1>4, Zenon DEF Viewer
  <2>2. UNCHANGED <<slots, conn, ops, reply, unclosed>> /\ row' = row
    BY <2>1, Zenon DEF smtpVars, sessionVars
  <2> QED BY <2>2, QuietSessions, Zenon
<1>5. CASE Clearing
  <2>1. CASE ClearTables
    <3>1. UNCHANGED <<slots, conn, ops, reply, unclosed>> /\ row' = [c \in Conns |-> "none"]
      BY <2>1, Zenon DEF ClearTables
    <3> QED BY <3>1, QuietSessions, Zenon
  <2>2. CASE ClearEnd \/ ClearFails
    <3>1. UNCHANGED smtpVars
      BY <2>2, Zenon DEF ClearEnd, ClearFails
    <3>2. UNCHANGED <<slots, conn, ops, reply, unclosed>> /\ row' = row
      BY <3>1, Zenon DEF smtpVars, sessionVars
    <3> QED BY <3>2, QuietSessions, Zenon
  <2> QED BY <1>5, <2>1, <2>2, Zenon DEF Clearing
<1>6. CASE Upset
  <2>1. CASE RestartSmtp
    BY <2>1, RestartSessions, Zenon
  <2>2. CASE UNCHANGED sessionVars
    <3>1. UNCHANGED <<slots, conn, ops, reply, unclosed>> /\ row' = row
      BY <2>2, Zenon DEF sessionVars
    <3> QED BY <3>1, QuietSessions, Zenon
  <2>3. RestartSmtp \/ UNCHANGED sessionVars
    BY <1>6, Zenon DEF Upset, ClearBegin, RestartApp
  <2> QED BY <2>1, <2>2, <2>3, Zenon
<1>7. ASSUME NEW c \in Conns, SmtpRuns(c) \/ SmtpClient(c) PROVE SessionsInv'
  <2>1. ASSUME NEW ok \in BOOLEAN, Write(c, ok) PROVE SessionsInv'
    BY <2>1, WriteStep, Zenon
  <2>2. \/ \E rateAllows \in BOOLEAN : Command(c, rateAllows)
        \/ CommandDone(c) \/ CommandRaises(c) \/ EnsureFailed(c) \/ Quit(c) \/ CloseDone(c)
        \/ Lost(c) \/ Disconnect(c) \/ DisconnectDone(c) \/ \E ok \in BOOLEAN : Write(c, ok)
    BY <1>7, Zenon DEF SmtpRuns, SmtpClient
  <2> QED BY <2>1, <2>2, HandlerStep, DisconnectStep, DisconnectDoneStep, Zenon
<1> QED BY <1>1, <1>2, <1>3, <1>4, <1>5, <1>6, <1>7, Zenon DEF LiveNext

\* A connection that is gone holds no slot, and its row does not stay open unless
\* the write that closes it failed, for any number of connections and whatever the
\* slot limit (handle_DISCONNECT and close_lost_smtp_session against the writes
\* cancelled handlers leave behind, clear-all and restarts).  The invariant adds
\* what a closing connection waits for: the closing write is its last pending one.
THEOREM SessionsEndAlways == LiveSpec => []SessionsEnd
<1>1. LiveInit => SessionsInv
  BY SessionsInit
<1>2. SessionsInv /\ [LiveNext]_allVars => SessionsInv'
  BY SessionsNext
<1>3. SessionsInv => SessionsEnd
  BY Zenon DEF SessionsInv, EndsWell, Ended, SessionsEnd
<1> QED BY <1>1, <1>2, <1>3, PTL DEF LiveSpec
=============================================================================
