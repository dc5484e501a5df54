--------------------------- MODULE MailStoreProofs ---------------------------
(***************************************************************************)
(* Proofs about MailStore for any number of messages, deliveries, parses,  *)
(* workers, clear-all requests, faults and crashes.                        *)
(*                                                                         *)
(* IInv has two parts: MsgInv says of each message, whoever holds          *)
(* _mail_store_lock, how its accept, its rows, its files, its parse and    *)
(* its tombstones fit together; LockInv says what the holder of the lock   *)
(* may still rely on of what it read.  Steps that do not hold the lock     *)
(* keep LockInv because they keep Rely, which says all that they may do to *)
(* what the holder has read.                                               *)
(***************************************************************************)
EXTENDS MailStore, TLAPS

Kinds == {"manifest", "raw"} \cup Derived

\* accept_message has returned, or died with its process.
Settled(m) == acc[m] \in {"done", "refused", "lost"}

Typed ==
  /\ acc \in [Msgs -> {"idle", "raw", "manifest", "refusing", "discarding",
                       "done", "refused", "lost"}]
  /\ row \in [Msgs -> {"none", "pending", "parsed", "failed"}]
  /\ refs \in [Msgs -> SUBSET Derived]
  /\ dlv \in [Msgs -> [Dlvs -> {"none", "live", "expired", "deleted"}]]
  /\ files \in [Paths -> {"none", "young", "old"}]
  /\ tomb \in [Paths -> {"none", "new", "waiting", "due"}]
  /\ task \in [Msgs -> {"none", "queued", "loaded", "wrote", "broken", "applied"}]
  /\ gen \in [Msgs -> SUBSET Gens] /\ victims \in [Msgs -> SUBSET Gens]
  /\ deleted \subseteq Msgs
  /\ pc \in {"enqueue", "recover", "replay", "drop", "wait", "expire"} => sel \subseteq Msgs
  /\ pc \in {"unlink", "protect", "remove"} => sel \subseteq Paths
  /\ ok \subseteq Paths /\ bad \subseteq Paths
  /\ batch \subseteq Msgs \X Dlvs \X {"expired", "deleted"}

\* The manifest is gone, or recovery finds its tombstone.
Covered(m) == tomb[<<m, "manifest">>] # "none" \/ ~On(<<m, "manifest">>)
Buried(m) == \E k \in Kinds : tomb[<<m, k>>] # "none"

\* What an accept in progress has written; nothing before it.
AcceptInv(m) ==
  /\ acc[m] = "idle" => \A k \in Kinds : ~On(<<m, k>>)
  /\ acc[m] \in {"raw", "manifest"} => files[<<m, "raw">>] = "young"

\* A row comes with its files, and goes with its columns and deliveries.
RowInv(m) ==
  /\ row[m] # "none" => Settled(m) /\ \A k \in {"raw"} \cup refs[m] : On(<<m, k>>)
  /\ row[m] = "none" => refs[m] = {} /\ \A d \in Dlvs : dlv[m][d] = "none"

\* A parse works for a row.  What it wrote is too young for the sweep until
\* its transaction, and what the transaction replaced is in no row.
ParseInv(m) ==
  /\ task[m] \notin {"none", "queued"} => row[m] # "none"
  /\ task[m] = "wrote" => /\ gen[m] \cap refs[m] = {}
                          /\ \A k \in {"body"} \cup gen[m] : files[<<m, k>>] = "young"
  /\ victims[m] \cap refs[m] = {}

\* What is being collected or was deleted has no row and does not come back.
DeadInv(m) ==
  /\ Buried(m) => row[m] = "none" /\ Settled(m) /\ Covered(m)
  /\ m \in deleted => row[m] = "none" /\ Settled(m)

MsgInv == \A m \in Msgs : AcceptInv(m) /\ RowInv(m) /\ ParseInv(m) /\ DeadInv(m)

\* The holder of the lock, by its step.
RecoverInv ==
  /\ pc = "recover" => \A m \in sel : acc[m] # "idle" /\ m \notin deleted /\ ~Buried(m)
  /\ pc = "replay" => \A m \in sel : /\ Settled(m) /\ m \notin deleted /\ ~Buried(m)
                                     /\ On(<<m, "raw">>)
RetainInv ==
  /\ pc \in {"drop", "wait", "expire"} =>
       sel = FullyExpiring(batch) /\ \A x \in batch : row[x[1]] # "none"
  /\ pc \in {"wait", "expire"} => \A m \in sel : task[m] # "queued"
  /\ pc = "expire" => \A m \in sel : task[m] = "none"
GcInv ==
  pc = "unlink" => /\ \A p \in sel \cup ok \cup bad : tomb[p] # "none"
                   /\ \A p \in ok : ~On(p)
SweepInv ==
  /\ pc = "protect" => \A p \in sel : p[2] # "manifest" /\ acc[p[1]] # "idle"
  /\ pc = "remove" => \A p \in sel :
       /\ p[2] # "manifest" /\ Settled(p[1])
       /\ files[p] = "old" => row[p[1]] = "none" \/ p[2] \notin {"raw"} \cup refs[p[1]]
ClearInv ==
  /\ pc \in {"clear_tables", "clear_files", "clear_manifests"} =>
       gate /\ \A m \in Msgs : acc[m] = "idle" \/ Settled(m)
  /\ pc \in {"clear_files", "clear_manifests"} => \A m \in Msgs : row[m] = "none"
  /\ pc \notin {"clear_files", "clear_manifests"} => \A m \in deleted : Covered(m)

LockInv == RecoverInv /\ RetainInv /\ GcInv /\ SweepInv /\ ClearInv
IInv == Typed /\ MsgInv /\ LockInv

-----------------------------------------------------------------------------
(* Paths and files. *)

LEMMA PathFacts ==
  /\ \A m \in Msgs, k \in Kinds : <<m, k>> \in Paths
  /\ \A p \in Paths : p[1] \in Msgs /\ p[2] \in Kinds /\ p = <<p[1], p[2]>>
  /\ \A m, n, j, k : <<m, k>> = <<n, j>> <=> m = n /\ k = j
  /\ Kinds = {"manifest", "raw", "body"} \cup Gens
  /\ "body" \notin Gens /\ "raw" \notin Gens /\ "manifest" \notin Gens
BY StoreConstants DEF Paths, Kinds, Derived

\* What a write and a removal do to the files.
LEMMA FileEffects ==
  ASSUME Typed, NEW ps
  PROVE  /\ Written(ps) \in [Paths -> {"none", "young", "old"}]
         /\ Removed(ps) \in [Paths -> {"none", "young", "old"}]
         /\ \A p \in Paths : /\ p \in ps => Written(ps)[p] = "young" /\ Removed(ps)[p] = "none"
                             /\ p \notin ps => Written(ps)[p] = files[p] /\ Removed(ps)[p] = files[p]
BY Zenon DEF Written, Removed, Typed

\* What a step leaves of message u.
Same(u) ==
  /\ acc'[u] = acc[u] /\ row'[u] = row[u] /\ refs'[u] = refs[u] /\ dlv'[u] = dlv[u]
  /\ task'[u] = task[u] /\ gen'[u] = gen[u] /\ victims'[u] = victims[u]
  /\ u \in deleted' <=> u \in deleted
  /\ \A k \in Kinds : files'[<<u, k>>] = files[<<u, k>>] /\ tomb'[<<u, k>>] = tomb[<<u, k>>]

LEMMA KindsOf ==
  ASSUME Typed, NEW m \in Msgs
  PROVE  /\ refs[m] \subseteq Kinds /\ gen[m] \subseteq Kinds /\ victims[m] \subseteq Kinds
         /\ gen[m] \subseteq Gens /\ victims[m] \subseteq Gens
         /\ "raw" \in Kinds /\ "body" \in Kinds /\ "manifest" \in Kinds
BY Zenon DEF Typed, Kinds, Derived

LEMMA SameKeeps ==
  ASSUME IInv, NEW u \in Msgs, Same(u)
  PROVE  AcceptInv(u)' /\ RowInv(u)' /\ ParseInv(u)' /\ DeadInv(u)'
<1>1. Typed /\ AcceptInv(u) /\ RowInv(u) /\ ParseInv(u) /\ DeadInv(u)
  BY Zenon DEF IInv, MsgInv
<1>2. /\ refs[u] \subseteq Kinds /\ gen[u] \subseteq Kinds
      /\ "raw" \in Kinds /\ "body" \in Kinds /\ "manifest" \in Kinds
  BY <1>1, KindsOf, Zenon
<1>3. AcceptInv(u)'
  BY <1>1, <1>2, Zenon DEF AcceptInv, Same, On
<1>4. RowInv(u)'
  BY <1>1, <1>2, Zenon DEF RowInv, Same, On, Settled
<1>5. ParseInv(u)'
  BY <1>1, <1>2, Zenon DEF ParseInv, Same
<1>6. DeadInv(u)'
  BY <1>1, <1>2, Zenon DEF DeadInv, Same, Settled, Covered, Buried, On
<1> QED BY <1>3, <1>4, <1>5, <1>6, Zenon

-----------------------------------------------------------------------------
(* Steps outside the lock. *)

\* What they may do to what the holder of the lock has read.
RelyAt(m) ==
  /\ acc[m] # "idle" => acc'[m] # "idle"
  /\ gate /\ acc[m] = "idle" => acc'[m] = "idle"
  /\ acc[m] # "manifest" => (row'[m] = "none" <=> row[m] = "none")
  /\ Settled(m) =>
       /\ Settled(m)'
       /\ \A d \in Dlvs : dlv'[m][d] = "none" <=> dlv[m][d] = "none"
       /\ task'[m] = "queued" => task[m] = "queued"
       /\ task[m] = "none" => task'[m] = "none"
       /\ On(<<m, "raw">>) => On(<<m, "raw">>)'
       /\ On(<<m, "manifest">>)' => On(<<m, "manifest">>)
  /\ \A k \in Kinds :
       /\ tomb'[<<m, k>>] = "none" <=> tomb[<<m, k>>] = "none"
       /\ tomb[<<m, k>>] # "none" /\ ~On(<<m, k>>) => ~On(<<m, k>>)'
       /\ pc # "free" /\ files'[<<m, k>>] = "old" =>
            files[<<m, k>>] = "old" /\ (k \in refs'[m] => k \in refs[m])
Rely ==
  /\ UNCHANGED <<pc, sel, ok, bad, batch, deleted>> /\ (gate => gate')
  /\ \A m \in Msgs : RelyAt(m)

\* The holder of the lock may go on relying on what it has read.
LEMMA RelyKeeps ==
  ASSUME IInv, Rely
  PROVE  LockInv'
<1>1. /\ Typed /\ RecoverInv /\ RetainInv /\ GcInv /\ SweepInv /\ ClearInv
      /\ UNCHANGED <<pc, sel, ok, bad, batch, deleted>> /\ (gate => gate')
  BY Zenon DEF IInv, LockInv, Rely
<1>2. /\ pc \in {"recover", "replay", "drop", "wait", "expire"} => sel \subseteq Msgs
      /\ pc \in {"unlink", "protect", "remove"} => sel \subseteq Paths
      /\ ok \subseteq Paths /\ bad \subseteq Paths /\ deleted \subseteq Msgs
      /\ \A x \in batch : x[1] \in Msgs
  BY <1>1 DEF Typed
<1>3. \A m \in Msgs : /\ row[m] # "none" => Settled(m)
                      /\ m \in deleted => Settled(m)
                      /\ Settled(m) => acc[m] # "manifest" /\ acc[m] # "idle"
  BY Zenon DEF IInv, MsgInv, RowInv, DeadInv, Settled
<1>4. \A m \in Msgs : Buried(m)' => Buried(m)
  BY Zenon DEF Rely, RelyAt, Buried
<1>5. RecoverInv'
  BY <1>1, <1>2, <1>4, Zenon DEF RecoverInv, Rely, RelyAt
<1>6. RetainInv'
  <2>1. CASE pc \in {"drop", "wait", "expire"}
    <3>1. sel = FullyExpiring(batch) /\ \A x \in batch : row[x[1]] # "none" /\ Settled(x[1])
      BY <1>1, <1>2, <1>3, <2>1, Zenon DEF RetainInv
    <3>2. \A x \in batch : row'[x[1]] # "none"
      <4>1. \A m \in Msgs : row[m] # "none" /\ Settled(m) => row'[m] # "none"
        BY <1>3, Zenon DEF Rely, RelyAt
      <4> QED BY <1>2, <3>1, <4>1, Zenon
    <3>3. \A m \in Msgs : (\E x \in batch : x[1] = m) => Settled(m)
      BY <3>1, Zenon
    <3>4. \A m \in Msgs : (\E x \in batch : x[1] = m) =>
            \A d \in Dlvs : dlv'[m][d] # "none" <=> dlv[m][d] # "none"
      BY <3>3, Zenon DEF Rely, RelyAt
    <3>5. FullyExpiring(batch)' = FullyExpiring(batch)
      BY <1>1, <3>4, Zenon DEF FullyExpiring
    <3>6. \A m \in sel : m \in Msgs /\ Settled(m)
      BY <1>2, <2>1, <3>1, <3>3, Zenon DEF FullyExpiring
    <3>7. \A m \in sel : /\ task'[m] = "queued" => task[m] = "queued"
                         /\ task[m] = "none" => task'[m] = "none"
      BY <3>6, Zenon DEF Rely, RelyAt
    <3> QED BY <1>1, <3>1, <3>2, <3>5, <3>7, Zenon DEF RetainInv
  <2>2. CASE pc \notin {"drop", "wait", "expire"}
    BY <1>1, <2>2, Zenon DEF RetainInv
  <2> QED BY <2>1, <2>2, Zenon
<1>7. \A p \in Paths :
        /\ tomb'[p] = "none" <=> tomb[p] = "none"
        /\ tomb[p] # "none" /\ ~On(p) => ~On(p)'
        /\ pc # "free" /\ files'[p] = "old" =>
             files[p] = "old" /\ (p[2] \in refs'[p[1]] => p[2] \in refs[p[1]])
  <2>1. ASSUME NEW p \in Paths
        PROVE  /\ tomb'[p] = "none" <=> tomb[p] = "none"
               /\ tomb[p] # "none" /\ ~On(p) => ~On(p)'
               /\ pc # "free" /\ files'[p] = "old" =>
                    files[p] = "old" /\ (p[2] \in refs'[p[1]] => p[2] \in refs[p[1]])
    <3>1. p[1] \in Msgs /\ p[2] \in Kinds /\ p = <<p[1], p[2]>>
      BY PathFacts, Zenon
    <3>2. PICK m \in Msgs, k \in Kinds : m = p[1] /\ k = p[2] /\ p = <<m, k>>
      BY <3>1, Zenon
    <3>3. /\ tomb'[<<m, k>>] = "none" <=> tomb[<<m, k>>] = "none"
          /\ tomb[<<m, k>>] # "none" /\ ~On(<<m, k>>) => ~On(<<m, k>>)'
          /\ pc # "free" /\ files'[<<m, k>>] = "old" =>
               files[<<m, k>>] = "old" /\ (k \in refs'[m] => k \in refs[m])
      BY Zenon DEF Rely, RelyAt
    <3> QED BY <3>2, <3>3, Zenon DEF On
  <2> QED BY <2>1, Zenon
<1>8. GcInv'
  BY <1>1, <1>2, <1>7, Zenon DEF GcInv
<1>9. SweepInv'
  <2>1. CASE pc = "protect"
    <3>1. \A p \in sel : p[1] \in Msgs /\ acc'[p[1]] # "idle"
      BY <1>1, <1>2, <2>1, PathFacts, Zenon DEF SweepInv, Rely, RelyAt
    <3> QED BY <1>1, <2>1, <3>1, Zenon DEF SweepInv
  <2>2. CASE pc = "remove"
    <3>1. ASSUME NEW p \in sel
          PROVE  /\ p[2] # "manifest" /\ Settled(p[1])'
                 /\ files'[p] = "old" => row'[p[1]] = "none" \/ p[2] \notin {"raw"} \cup refs'[p[1]]
      <4>1. p \in Paths /\ p[1] \in Msgs
        BY <1>2, <2>2, PathFacts, Zenon
      <4>2. /\ p[2] # "manifest" /\ Settled(p[1])
            /\ files[p] = "old" => row[p[1]] = "none" \/ p[2] \notin {"raw"} \cup refs[p[1]]
        BY <1>1, <2>2, Zenon DEF SweepInv
      <4>3. Settled(p[1])' /\ (row'[p[1]] = "none" <=> row[p[1]] = "none")
        BY <1>3, <4>1, <4>2, Zenon DEF Rely, RelyAt
      <4>4. files'[p] = "old" =>
              files[p] = "old" /\ (p[2] \in refs'[p[1]] => p[2] \in refs[p[1]])
        BY <1>7, <2>2, <4>1, Zenon
      <4> QED BY <4>2, <4>3, <4>4, Zenon
    <3> QED BY <1>1, <2>2, <3>1, Zenon DEF SweepInv
  <2>3. CASE pc \notin {"protect", "remove"}
    BY <1>1, <2>3, Zenon DEF SweepInv
  <2> QED BY <2>1, <2>2, <2>3, Zenon
<1>10. ClearInv'
  <2>1. gate /\ (\A m \in Msgs : acc[m] = "idle" \/ Settled(m)) =>
          /\ \A m \in Msgs : acc'[m] = "idle" \/ Settled(m)'
          /\ (\A m \in Msgs : row[m] = "none") => \A m \in Msgs : row'[m] = "none"
    BY <1>3, Zenon DEF Rely, RelyAt, Settled
  <2>2. \A m \in deleted : Covered(m) => Covered(m)'
    BY <1>2, <1>3, PathFacts, Zenon DEF Covered, Rely, RelyAt, Kinds
  <2> QED BY <1>1, <2>1, <2>2, Zenon DEF ClearInv
<1> QED BY <1>5, <1>6, <1>8, <1>9, <1>10, Zenon DEF LockInv

LEMMA SameRelies ==
  ASSUME NEW u \in Msgs, Same(u)
  PROVE  RelyAt(u)
<1>1. "raw" \in Kinds /\ "manifest" \in Kinds
  BY Zenon DEF Kinds
<1> QED BY <1>1, Zenon DEF Same, RelyAt, Settled, On

\* A step outside the lock that concerns one message.
LEMMA LocalStep ==
  ASSUME IInv, Typed', NEW m \in Msgs, \A u \in Msgs \ {m} : Same(u),
         AcceptInv(m)' /\ RowInv(m)' /\ ParseInv(m)' /\ DeadInv(m)', RelyAt(m),
         UNCHANGED <<pc, sel, ok, bad, batch, deleted>>, gate => gate'
  PROVE  IInv'
<1>1. \A u \in Msgs : AcceptInv(u)' /\ RowInv(u)' /\ ParseInv(u)' /\ DeadInv(u)'
  BY SameKeeps, Zenon
<1>2. \A u \in Msgs : RelyAt(u)
  BY SameRelies, Zenon
<1>3. Rely
  BY <1>2, Zenon DEF Rely
<1>4. LockInv'
  BY <1>3, RelyKeeps, Zenon
<1> QED BY <1>1, <1>4, Zenon DEF IInv, MsgInv

LEMMA AcceptRawStep ==
  ASSUME IInv, NEW m \in Msgs, AcceptRaw(m)
  PROVE  IInv'
<1>1. Typed /\ AcceptInv(m) /\ RowInv(m) /\ ParseInv(m) /\ DeadInv(m)
  BY Zenon DEF IInv, MsgInv
<1>2. /\ acc[m] = "idle" /\ acc'[m] = "raw" /\ ~gate /\ \A u \in Msgs \ {m} : acc'[u] = acc[u]
      /\ UNCHANGED <<row, refs, dlv, tomb, task, gen, victims, pc, sel, ok, bad, batch, gate, deleted>>
  BY <1>1, Zenon DEF AcceptRaw, Typed, store, parser, owner
<1>3. /\ files'[<<m, "raw">>] = "young"
      /\ \A k \in Kinds : k # "raw" => files'[<<m, k>>] = files[<<m, k>>]
      /\ \A u \in Msgs \ {m} : \A k \in Kinds : files'[<<u, k>>] = files[<<u, k>>]
      /\ files' \in [Paths -> {"none", "young", "old"}]
  BY <1>1, FileEffects, PathFacts, KindsOf DEF AcceptRaw
<1>4. Typed'
  <2>1. acc' \in [Msgs -> {"idle", "raw", "manifest", "refusing", "discarding",
                       "done", "refused", "lost"}]
    BY <1>1, Zenon DEF AcceptRaw, Typed
  <2> QED BY <1>1, <1>2, <1>3, <2>1, Zenon DEF Typed
<1>5. \A u \in Msgs \ {m} : Same(u)
  BY <1>2, <1>3, Zenon DEF Same
<1>6. AcceptInv(m)' /\ ParseInv(m)' /\ RowInv(m)' /\ DeadInv(m)'
  BY <1>1, <1>2, <1>3, Zenon DEF AcceptInv, ParseInv, RowInv, DeadInv, On, Buried, Covered, Settled
<1>7. RelyAt(m)
  BY <1>1, <1>2, <1>3, Zenon DEF RelyAt, Settled, On, AcceptInv, RowInv, DeadInv, Buried
<1> QED BY <1>2, <1>4, <1>5, <1>6, <1>7, LocalStep, Zenon

\* The rest of accept_message, up to its transaction or its refusal.
LEMMA AcceptFilesStep ==
  ASSUME IInv, NEW m \in Msgs, AcceptManifest(m) \/ AcceptRefuse(m) \/ DiscardArtifact(m)
  PROVE  IInv'
<1>1. Typed /\ AcceptInv(m) /\ RowInv(m) /\ ParseInv(m) /\ DeadInv(m)
  BY Zenon DEF IInv, MsgInv
<1>2. /\ \/ acc[m] = "raw" /\ acc'[m] = "manifest"
         \/ acc[m] = "manifest" /\ acc'[m] = "refusing"
         \/ acc[m] = "refusing" /\ acc'[m] = "discarding"
         \/ acc[m] = "discarding" /\ acc'[m] = "refused"
      /\ \A u \in Msgs \ {m} : acc'[u] = acc[u]
      /\ acc' \in [Msgs -> {"idle", "raw", "manifest", "refusing", "discarding",
                            "done", "refused", "lost"}]
      /\ UNCHANGED <<row, refs, dlv, tomb, task, gen, victims, pc, sel, ok, bad, batch, gate, deleted>>
  <2>1. CASE AcceptManifest(m)
    BY <1>1, <2>1, Zenon DEF AcceptManifest, Typed, store, parser, owner
  <2>2. CASE AcceptRefuse(m)
    BY <1>1, <2>2, Zenon DEF AcceptRefuse, Typed, store, parser, owner
  <2>3. CASE DiscardArtifact(m)
    BY <1>1, <2>3, Zenon DEF DiscardArtifact, Typed, store, parser, owner
  <2> QED BY <2>1, <2>2, <2>3, Zenon
<1>3. /\ \A u \in Msgs \ {m} : \A k \in Kinds : files'[<<u, k>>] = files[<<u, k>>]
      /\ \A k \in Kinds : files'[<<m, k>>] \in {files[<<m, k>>], "young", "none"}
      /\ acc'[m] \in {"manifest", "refusing", "discarding"} =>
           files'[<<m, "raw">>] = files[<<m, "raw">>]
      /\ files' \in [Paths -> {"none", "young", "old"}]
  <2>1. CASE AcceptManifest(m)
    BY <1>1, <2>1, FileEffects, PathFacts, KindsOf DEF AcceptManifest
  <2>2. CASE AcceptRefuse(m)
    BY <1>1, <2>2, Zenon DEF AcceptRefuse, Typed, disk
  <2>3. CASE DiscardArtifact(m)
    BY <1>1, <2>3, FileEffects, PathFacts, KindsOf DEF DiscardArtifact, Typed
  <2> QED BY <2>1, <2>2, <2>3, Zenon
<1>4. Typed'
  BY <1>1, <1>2, <1>3, Zenon DEF Typed
<1>5. \A u \in Msgs \ {m} : Same(u)
  BY <1>2, <1>3, Zenon DEF Same
<1>6. ~Settled(m) /\ row[m] = "none" /\ m \notin deleted
      /\ \A k \in Kinds : tomb[<<m, k>>] = "none"
  BY <1>1, <1>2, Zenon DEF Settled, RowInv, DeadInv, Buried
<1>7. AcceptInv(m)' /\ ParseInv(m)' /\ RowInv(m)' /\ DeadInv(m)'
  <2>1. AcceptInv(m)'
    BY <1>1, <1>2, <1>3, Zenon DEF AcceptInv
  <2> QED BY <1>1, <1>2, <1>6, <2>1, Zenon DEF ParseInv, RowInv, DeadInv, Buried
<1>8. RelyAt(m)
  BY <1>1, <1>2, <1>3, <1>6, Zenon DEF RelyAt, Settled, Typed, RowInv
<1> QED BY <1>2, <1>4, <1>5, <1>7, <1>8, LocalStep, Zenon

\* try_enqueue only adds queued tasks of messages it is given.
LEMMA Enqueued ==
  ASSUME Typed, NEW ms, TryEnqueue(ms)
  PROVE  /\ task' \in [Msgs -> {"none", "queued", "loaded", "wrote", "broken", "applied"}]
         /\ \A u \in Msgs : \/ task'[u] = task[u]
                            \/ u \in ms /\ task[u] = "none" /\ task'[u] = "queued"
<1>1. PICK new : /\ new \subseteq ms \ Reserved
                 /\ task' = [m \in Msgs |-> IF m \in new THEN "queued" ELSE task[m]]
  BY Zenon DEF TryEnqueue, kSubset
<1> QED BY <1>1, Zenon DEF Typed, Reserved

LEMMA AcceptCommitStep ==
  ASSUME IInv, NEW m \in Msgs, AcceptCommit(m)
  PROVE  IInv'
<1>1. Typed /\ AcceptInv(m) /\ RowInv(m) /\ ParseInv(m) /\ DeadInv(m)
  BY Zenon DEF IInv, MsgInv
<1>2. /\ acc[m] = "manifest" /\ acc'[m] = "done" /\ row'[m] = "pending"
      /\ \A u \in Msgs \ {m} : acc'[u] = acc[u] /\ row'[u] = row[u] /\ dlv'[u] = dlv[u]
      /\ acc' \in [Msgs -> {"idle", "raw", "manifest", "refusing", "discarding",
                            "done", "refused", "lost"}]
      /\ row' \in [Msgs -> {"none", "pending", "parsed", "failed"}]
      /\ dlv' \in [Msgs -> [Dlvs -> {"none", "live", "expired", "deleted"}]]
      /\ UNCHANGED <<refs, tomb, files, gen, victims, pc, sel, ok, bad, batch, gate, deleted>>
  BY <1>1, Zenon DEF AcceptCommit, Typed, disk, owner
<1>3. /\ task' \in [Msgs -> {"none", "queued", "loaded", "wrote", "broken", "applied"}]
      /\ \A u \in Msgs : \/ task'[u] = task[u]
                         \/ u = m /\ task[u] = "none" /\ task'[u] = "queued"
  <2>1. TryEnqueue({m})
    BY Zenon DEF AcceptCommit
  <2>2. /\ task' \in [Msgs -> {"none", "queued", "loaded", "wrote", "broken", "applied"}]
        /\ \A u \in Msgs : \/ task'[u] = task[u]
                           \/ u \in {m} /\ task[u] = "none" /\ task'[u] = "queued"
    BY <1>1, <2>1, Enqueued, Zenon
  <2> QED BY <2>2, Zenon
<1>4. Typed'
  BY <1>1, <1>2, <1>3, Zenon DEF Typed
<1>5. \A u \in Msgs \ {m} : Same(u)
  BY <1>2, <1>3, Zenon DEF Same
<1>6. /\ ~Settled(m) /\ row[m] = "none" /\ refs[m] = {} /\ m \notin deleted
      /\ task[m] \in {"none", "queued"} /\ files[<<m, "raw">>] = "young"
      /\ \A k \in Kinds : tomb[<<m, k>>] = "none"
  BY <1>1, <1>2, Zenon DEF Settled, AcceptInv, RowInv, ParseInv, DeadInv, Buried
<1>7. AcceptInv(m)' /\ ParseInv(m)' /\ RowInv(m)' /\ DeadInv(m)'
  <2>1. AcceptInv(m)'
    BY <1>2, Zenon DEF AcceptInv
  <2>2. ParseInv(m)'
    BY <1>1, <1>2, <1>3, <1>6, Zenon DEF ParseInv
  <2>3. RowInv(m)'
    BY <1>2, <1>6, Zenon DEF RowInv, Settled, On
  <2>4. DeadInv(m)'
    BY <1>2, <1>6, Zenon DEF DeadInv, Buried
  <2> QED BY <2>1, <2>2, <2>3, <2>4, Zenon
<1>8. RelyAt(m)
  BY <1>2, <1>6, Zenon DEF RelyAt, Settled
<1> QED BY <1>2, <1>4, <1>5, <1>7, <1>8, LocalStep, Zenon

\* The steps of a worker that write no file and no row.
LEMMA ParseTaskStep ==
  ASSUME IInv, NEW m \in Msgs, ParseStart(m) \/ ParseDies(m)
  PROVE  IInv'
<1>1. Typed /\ AcceptInv(m) /\ RowInv(m) /\ ParseInv(m) /\ DeadInv(m)
  BY Zenon DEF IInv, MsgInv
<1>2. /\ task[m] # "none" /\ \/ task'[m] = "none"
                             \/ task'[m] = "loaded" /\ row[m] # "none"
      /\ task' \in [Msgs -> {"none", "queued", "loaded", "wrote", "broken", "applied"}]
      /\ gen' \in [Msgs -> SUBSET Gens]
      /\ \A u \in Msgs \ {m} : task'[u] = task[u] /\ gen'[u] = gen[u]
      /\ UNCHANGED <<acc, row, refs, dlv, tomb, files, victims,
                     pc, sel, ok, bad, batch, gate, deleted>>
  <2>1. CASE ParseStart(m)
    BY <1>1, <2>1, Zenon DEF ParseStart, Typed, store, disk, owner
  <2>2. CASE ParseDies(m)
    BY <1>1, <2>2, Zenon DEF ParseDies, Typed, store, disk, owner
  <2> QED BY <2>1, <2>2, Zenon
<1>3. Typed'
  BY <1>1, <1>2, Zenon DEF Typed
<1>4. \A u \in Msgs \ {m} : Same(u)
  BY <1>2, Zenon DEF Same
<1>5. AcceptInv(m)' /\ RowInv(m)' /\ ParseInv(m)' /\ DeadInv(m)'
  <2>1. AcceptInv(m)' /\ RowInv(m)' /\ DeadInv(m)'
    BY <1>1, <1>2, Zenon DEF AcceptInv, RowInv, DeadInv, On, Settled, Covered, Buried
  <2>2. ParseInv(m)'
    BY <1>1, <1>2, Zenon DEF ParseInv
  <2> QED BY <2>1, <2>2, Zenon
<1>6. RelyAt(m)
  BY <1>2, Zenon DEF RelyAt, Settled, On
<1> QED BY <1>2, <1>3, <1>4, <1>5, <1>6, LocalStep, Zenon

\* A parse has a row: its accept is over and nothing of it is being collected.
LEMMA ParsedRow ==
  ASSUME IInv, NEW m \in Msgs, task[m] \notin {"none", "queued"}
  PROVE  /\ Typed /\ AcceptInv(m) /\ RowInv(m) /\ ParseInv(m) /\ DeadInv(m)
         /\ row[m] # "none" /\ Settled(m) /\ m \notin deleted
         /\ \A k \in Kinds : tomb[<<m, k>>] = "none"
         /\ \A k \in {"raw"} \cup refs[m] : On(<<m, k>>)
BY Zenon DEF IInv, MsgInv, RowInv, ParseInv, DeadInv, Buried

LEMMA ParseWriteStep ==
  ASSUME IInv, NEW m \in Msgs, ParseWrite(m)
  PROVE  IInv'
<1>1. task[m] = "loaded"
  BY Zenon DEF ParseWrite
<1>2. /\ Typed /\ AcceptInv(m) /\ RowInv(m) /\ ParseInv(m) /\ DeadInv(m)
      /\ row[m] # "none" /\ Settled(m) /\ m \notin deleted
      /\ \A k \in Kinds : tomb[<<m, k>>] = "none"
      /\ \A k \in {"raw"} \cup refs[m] : On(<<m, k>>)
  BY <1>1, ParsedRow, Zenon
<1>3. PICK g \in SUBSET Gens :
        /\ g \cap refs[m] = {}
        /\ files' = Written({<<m, k>> : k \in {"body"} \cup g})
        /\ gen' = [gen EXCEPT ![m] = g]
        /\ task' \in {[task EXCEPT ![m] = "wrote"], [task EXCEPT ![m] = "broken"]}
  <2>1. PICK g \in IF Gens = {} THEN {{}} ELSE {{x} : x \in FreeNames(m)} :
          /\ files' = Written({<<m, k>> : k \in {"body"} \cup g})
          /\ gen' = [gen EXCEPT ![m] = g]
          /\ task' \in {[task EXCEPT ![m] = "wrote"], [task EXCEPT ![m] = "broken"]}
    BY <1>2, Zenon DEF ParseWrite
  <2>2. g \subseteq Gens /\ g \cap refs[m] = {}
    BY <2>1, Zenon DEF FreeNames
  <2> QED BY <2>1, <2>2, Zenon
<1>4. /\ task'[m] \in {"wrote", "broken"} /\ gen'[m] = g
      /\ task' \in [Msgs -> {"none", "queued", "loaded", "wrote", "broken", "applied"}]
      /\ gen' \in [Msgs -> SUBSET Gens]
      /\ \A u \in Msgs \ {m} : task'[u] = task[u] /\ gen'[u] = gen[u]
      /\ UNCHANGED <<acc, row, refs, dlv, tomb, victims, pc, sel, ok, bad, batch, gate, deleted>>
  <2>1. UNCHANGED <<acc, row, refs, dlv, tomb, victims, pc, sel, ok, bad, batch, gate, deleted>>
    BY Zenon DEF ParseWrite, store, owner
  <2>2. task'[m] \in {"wrote", "broken"} /\ \A u \in Msgs \ {m} : task'[u] = task[u]
    BY <1>2, <1>3 DEF Typed
  <2>3. task' \in [Msgs -> {"none", "queued", "loaded", "wrote", "broken", "applied"}]
    BY <1>2, <1>3, Zenon DEF Typed
  <2>4. /\ gen'[m] = g /\ \A u \in Msgs \ {m} : gen'[u] = gen[u]
        /\ gen' \in [Msgs -> SUBSET Gens]
    BY <1>2, <1>3 DEF Typed
  <2> QED BY <2>1, <2>2, <2>3, <2>4, Zenon
<1>5. /\ \A u \in Msgs \ {m} : \A k \in Kinds : files'[<<u, k>>] = files[<<u, k>>]
      /\ \A k \in Kinds : \/ k \in {"body"} \cup g /\ files'[<<m, k>>] = "young"
                          \/ k \notin {"body"} \cup g /\ files'[<<m, k>>] = files[<<m, k>>]
      /\ files' \in [Paths -> {"none", "young", "old"}]
  <2> DEFINE ps == {<<m, k>> : k \in {"body"} \cup g}
  <2>1. /\ Written(ps) \in [Paths -> {"none", "young", "old"}]
        /\ \A p \in Paths : /\ p \in ps => Written(ps)[p] = "young"
                            /\ p \notin ps => Written(ps)[p] = files[p]
    BY <1>2, FileEffects, Zenon
  <2>2. ASSUME NEW u \in Msgs, NEW k \in Kinds
        PROVE  <<u, k>> \in ps <=> (u = m /\ k \in {"body"} \cup g)
    <3>1. \A j : <<u, k>> = <<m, j>> <=> u = m /\ k = j
      BY PathFacts, Zenon
    <3> QED BY <3>1, Zenon
  <2>3. \A u \in Msgs, k \in Kinds : <<u, k>> \in Paths
    BY PathFacts, Zenon
  <2>4. files' = Written(ps)
    BY <1>3, Zenon
  <2> HIDE DEF ps
  <2> QED BY <2>1, <2>2, <2>3, <2>4, Zenon
<1>6. Typed'
  BY <1>2, <1>4, <1>5, Zenon DEF Typed
<1>7. \A u \in Msgs \ {m} : Same(u)
  BY <1>4, <1>5, Zenon DEF Same
<1>8. /\ refs[m] \subseteq Kinds /\ g \subseteq Kinds /\ "raw" \in Kinds
      /\ "body" \in Kinds /\ "manifest" \in Kinds
      /\ \A k \in {"body"} \cup g : k # "manifest"
  BY <1>2, KindsOf, PathFacts DEF Kinds, Derived
<1>9. \A k \in Kinds : On(<<m, k>>) => On(<<m, k>>)'
  BY <1>5, Zenon DEF On
<1>10. AcceptInv(m)' /\ RowInv(m)' /\ ParseInv(m)' /\ DeadInv(m)'
  <2>1. AcceptInv(m)'
    BY <1>2, <1>4, Zenon DEF AcceptInv, Settled
  <2>2. RowInv(m)'
    BY <1>2, <1>4, <1>8, <1>9, Zenon DEF RowInv, Settled
  <2>3. ParseInv(m)'
    <3>1. \A k \in {"body"} \cup g : files'[<<m, k>>] = "young"
      BY <1>5, <1>8, Zenon
    <3>2. /\ gen'[m] = g /\ g \cap refs'[m] = {} /\ victims'[m] \cap refs'[m] = {}
          /\ row'[m] # "none"
      BY <1>2, <1>3, <1>4, Zenon DEF ParseInv
    <3> QED BY <3>1, <3>2, Zenon DEF ParseInv
  <2>4. DeadInv(m)'
    BY <1>2, <1>4, Zenon DEF DeadInv, Buried
  <2> QED BY <2>1, <2>2, <2>3, <2>4, Zenon
<1>11. RelyAt(m)
  <2>1. \A k \in Kinds : files'[<<m, k>>] = "old" => files[<<m, k>>] = "old"
    BY <1>5, Zenon
  <2>2. On(<<m, "manifest">>)' => On(<<m, "manifest">>)
    BY <1>5, <1>8, Zenon DEF On
  <2>3. Settled(m)'
    BY <1>2, <1>4, Zenon DEF Settled
  <2>4. task'[m] # "queued" /\ task[m] # "none"
    BY <1>1, <1>4, Zenon
  <2> QED BY <1>2, <1>4, <1>8, <1>9, <2>1, <2>2, <2>3, <2>4, Zenon DEF RelyAt
<1> QED BY <1>4, <1>6, <1>7, <1>10, <1>11, LocalStep, Zenon

LEMMA PathSet ==
  ASSUME NEW m, NEW S, NEW u, NEW k
  PROVE  <<u, k>> \in {<<m, j>> : j \in S} <=> u = m /\ k \in S
<1>1. \A j : <<u, k>> = <<m, j>> <=> u = m /\ k = j
  BY PathFacts, Zenon
<1> QED BY <1>1, Zenon

\* _apply_parsed_message replaces the columns by what was just written.
LEMMA ParseApplyStep ==
  ASSUME IInv, NEW m \in Msgs, ParseApply(m)
  PROVE  IInv'
<1>1. task[m] \in {"wrote", "broken"}
  BY Zenon DEF ParseApply
<1>2. /\ Typed /\ AcceptInv(m) /\ RowInv(m) /\ ParseInv(m) /\ DeadInv(m)
      /\ row[m] # "none" /\ Settled(m) /\ m \notin deleted
      /\ \A k \in Kinds : tomb[<<m, k>>] = "none"
      /\ \A k \in {"raw"} \cup refs[m] : On(<<m, k>>)
  BY <1>1, ParsedRow, Zenon
<1>3. /\ row' = [row EXCEPT ![m] = IF task[m] = "wrote" THEN "parsed" ELSE "failed"]
      /\ refs' = [refs EXCEPT ![m] = IF task[m] = "wrote" THEN {"body"} \cup gen[m] ELSE {}]
      /\ victims' = [victims EXCEPT ![m] = refs[m] \cap Gens]
      /\ task' = [task EXCEPT ![m] = "applied"]
      /\ gen' = [gen EXCEPT ![m] = {}]
      /\ UNCHANGED <<acc, dlv, tomb, files, pc, sel, ok, bad, batch, gate, deleted>>
  BY <1>2, Zenon DEF ParseApply, disk, owner
<1>4. /\ row'[m] # "none" /\ task'[m] = "applied" /\ victims'[m] = refs[m] \cap Gens
      /\ \/ task[m] = "wrote" /\ refs'[m] = {"body"} \cup gen[m]
         \/ refs'[m] = {}
  BY <1>2, <1>3, Zenon DEF Typed
<1>5. /\ row' \in [Msgs -> {"none", "pending", "parsed", "failed"}]
      /\ task' \in [Msgs -> {"none", "queued", "loaded", "wrote", "broken", "applied"}]
      /\ gen' \in [Msgs -> SUBSET Gens] /\ victims' \in [Msgs -> SUBSET Gens]
      /\ \A u \in Msgs \ {m} : /\ row'[u] = row[u] /\ refs'[u] = refs[u] /\ task'[u] = task[u]
                               /\ gen'[u] = gen[u] /\ victims'[u] = victims[u]
  BY <1>2, <1>3 DEF Typed
<1>6. refs' \in [Msgs -> SUBSET Derived]
  <2>1. (IF task[m] = "wrote" THEN {"body"} \cup gen[m] ELSE {}) \in SUBSET Derived
    BY <1>2, Zenon DEF Typed, Derived
  <2> HIDE DEF Derived
  <2> QED BY <1>2, <1>3, <2>1, Zenon DEF Typed
<1>7. Typed'
  BY <1>2, <1>3, <1>5, <1>6, Zenon DEF Typed
<1>8. \A u \in Msgs \ {m} : Same(u)
  BY <1>3, <1>5, Zenon DEF Same
<1>9. \A k \in refs'[m] : k \in Kinds /\ files[<<m, k>>] = "young"
  BY <1>2, <1>4, KindsOf, Zenon DEF ParseInv
<1>10. AcceptInv(m)' /\ RowInv(m)' /\ ParseInv(m)' /\ DeadInv(m)'
  <2>1. AcceptInv(m)'
    BY <1>2, <1>3, Zenon DEF AcceptInv, Settled
  <2>2. RowInv(m)'
    BY <1>2, <1>3, <1>4, <1>9, Zenon DEF RowInv, Settled, On
  <2>3. victims'[m] \cap refs'[m] = {}
    <3>1. CASE refs'[m] = {}
      BY <3>1, Zenon
    <3>2. CASE task[m] = "wrote" /\ refs'[m] = {"body"} \cup gen[m]
      <4>1. gen[m] \cap refs[m] = {} /\ victims'[m] = refs[m] \cap Gens
        BY <1>2, <1>4, <3>2, Zenon DEF ParseInv
      <4> QED BY <3>2, <4>1, PathFacts
    <3> QED BY <1>4, <3>1, <3>2, Zenon
  <2>4. ParseInv(m)'
    BY <1>4, <2>3, Zenon DEF ParseInv
  <2>5. DeadInv(m)'
    BY <1>2, <1>3, Zenon DEF DeadInv, Buried
  <2> QED BY <2>1, <2>2, <2>4, <2>5, Zenon
<1>11. RelyAt(m)
  <2>1. \A k \in Kinds : files'[<<m, k>>] = "old" => files[<<m, k>>] = "old" /\ k \notin refs'[m]
    BY <1>3, <1>9, Zenon
  <2>2. Settled(m)' /\ task'[m] # "queued" /\ task[m] # "none"
    BY <1>1, <1>2, <1>3, <1>4, Zenon DEF Settled
  <2> QED BY <1>2, <1>3, <1>4, <2>1, <2>2, Zenon DEF RelyAt, On
<1> QED BY <1>3, <1>7, <1>8, <1>10, <1>11, LocalStep, Zenon

LEMMA ParseCleanStep ==
  ASSUME IInv, NEW m \in Msgs, ParseClean(m)
  PROVE  IInv'
<1>1. task[m] = "applied"
  BY Zenon DEF ParseClean
<1>2. /\ Typed /\ AcceptInv(m) /\ RowInv(m) /\ ParseInv(m) /\ DeadInv(m)
      /\ row[m] # "none" /\ Settled(m) /\ m \notin deleted
      /\ \A k \in Kinds : tomb[<<m, k>>] = "none"
      /\ \A k \in {"raw"} \cup refs[m] : On(<<m, k>>)
  BY <1>1, ParsedRow, Zenon
<1>3. /\ task'[m] = "none" /\ victims'[m] = {}
      /\ task' \in [Msgs -> {"none", "queued", "loaded", "wrote", "broken", "applied"}]
      /\ victims' \in [Msgs -> SUBSET Gens]
      /\ \A u \in Msgs \ {m} : task'[u] = task[u] /\ victims'[u] = victims[u]
      /\ UNCHANGED <<acc, row, refs, dlv, tomb, gen, pc, sel, ok, bad, batch, gate, deleted>>
  BY <1>2, Zenon DEF ParseClean, Typed, store, owner
<1>4. /\ \A u \in Msgs \ {m} : \A k \in Kinds : files'[<<u, k>>] = files[<<u, k>>]
      /\ \A k \in Kinds : \/ k \in victims[m] /\ files'[<<m, k>>] = "none"
                          \/ k \notin victims[m] /\ files'[<<m, k>>] = files[<<m, k>>]
      /\ files' \in [Paths -> {"none", "young", "old"}]
  <2> DEFINE ps == {<<m, k>> : k \in victims[m]}
  <2>1. /\ Removed(ps) \in [Paths -> {"none", "young", "old"}]
        /\ \A p \in Paths : /\ p \in ps => Removed(ps)[p] = "none"
                            /\ p \notin ps => Removed(ps)[p] = files[p]
    BY <1>2, FileEffects, Zenon
  <2>2. \A u \in Msgs, k \in Kinds : <<u, k>> \in ps <=> (u = m /\ k \in victims[m])
    BY PathSet, Zenon
  <2>3. \A u \in Msgs, k \in Kinds : <<u, k>> \in Paths
    BY PathFacts, Zenon
  <2>4. files' = Removed(ps)
    BY Zenon DEF ParseClean
  <2> HIDE DEF ps
  <2> QED BY <2>1, <2>2, <2>3, <2>4, Zenon
<1>5. Typed'
  BY <1>2, <1>3, <1>4, Zenon DEF Typed
<1>6. \A u \in Msgs \ {m} : Same(u)
  BY <1>3, <1>4, Zenon DEF Same
<1>7. /\ "raw" \notin victims[m] /\ "manifest" \notin victims[m]
      /\ "raw" \in Kinds /\ "manifest" \in Kinds /\ refs[m] \subseteq Kinds
  BY <1>2, KindsOf, PathFacts, Zenon
<1>8. /\ \A k \in {"raw"} \cup refs[m] : On(<<m, k>>)'
      /\ On(<<m, "manifest">>)' => On(<<m, "manifest">>)
      /\ \A k \in Kinds : On(<<m, k>>)' => files'[<<m, k>>] = files[<<m, k>>]
  BY <1>2, <1>4, <1>7, Zenon DEF ParseInv, On
<1>9. AcceptInv(m)' /\ RowInv(m)' /\ ParseInv(m)' /\ DeadInv(m)'
  <2>1. AcceptInv(m)'
    BY <1>2, <1>3, Zenon DEF AcceptInv, Settled
  <2>2. RowInv(m)'
    BY <1>2, <1>3, <1>8, Zenon DEF RowInv, Settled
  <2>3. ParseInv(m)'
    BY <1>3, Zenon DEF ParseInv
  <2>4. DeadInv(m)'
    BY <1>2, <1>3, Zenon DEF DeadInv, Buried
  <2> QED BY <2>1, <2>2, <2>3, <2>4, Zenon
<1>10. RelyAt(m)
  <2>1. \A k \in Kinds : files'[<<m, k>>] = "old" => files[<<m, k>>] = "old"
    BY <1>4, Zenon
  <2>2. Settled(m)' /\ task'[m] # "queued" /\ task[m] # "none"
    BY <1>1, <1>2, <1>3, Zenon DEF Settled
  <2> QED BY <1>2, <1>3, <1>8, <2>1, <2>2, Zenon DEF RelyAt
<1> QED BY <1>3, <1>5, <1>6, <1>9, <1>10, LocalStep, Zenon

LEMMA DeliveryStep ==
  ASSUME IInv, NEW m \in Msgs, NEW d \in Dlvs, Expire(m, d) \/ DeleteDelivery(m, d)
  PROVE  IInv'
<1>1. Typed /\ AcceptInv(m) /\ RowInv(m) /\ ParseInv(m) /\ DeadInv(m)
  BY Zenon DEF IInv, MsgInv
<1>2. /\ dlv[m][d] # "none" /\ dlv'[m][d] # "none"
      /\ \A c \in Dlvs : c # d => dlv'[m][c] = dlv[m][c]
      /\ \A u \in Msgs \ {m} : dlv'[u] = dlv[u]
      /\ dlv' \in [Msgs -> [Dlvs -> {"none", "live", "expired", "deleted"}]]
      /\ UNCHANGED <<acc, row, refs, tomb, files, task, gen, victims,
                     pc, sel, ok, bad, batch, gate, deleted>>
  <2>1. UNCHANGED <<acc, row, refs, tomb, files, task, gen, victims,
                    pc, sel, ok, bad, batch, gate, deleted>>
    BY Zenon DEF Expire, DeleteDelivery, disk, parser, owner
  <2>2. PICK s \in {"expired", "deleted"} : dlv' = [dlv EXCEPT ![m][d] = s]
    BY Zenon DEF Expire, DeleteDelivery
  <2>3. dlv[m][d] # "none"
    BY Zenon DEF Expire, DeleteDelivery
  <2>4. /\ dlv'[m][d] # "none" /\ \A c \in Dlvs : c # d => dlv'[m][c] = dlv[m][c]
        /\ \A u \in Msgs \ {m} : dlv'[u] = dlv[u]
        /\ dlv' \in [Msgs -> [Dlvs -> {"none", "live", "expired", "deleted"}]]
    BY <1>1, <2>2, Zenon DEF Typed
  <2> QED BY <2>1, <2>3, <2>4, Zenon
<1>3. Typed'
  BY <1>1, <1>2, Zenon DEF Typed
<1>4. \A u \in Msgs \ {m} : Same(u)
  BY <1>2, Zenon DEF Same
<1>5. AcceptInv(m)' /\ RowInv(m)' /\ ParseInv(m)' /\ DeadInv(m)'
  BY <1>1, <1>2, Zenon DEF AcceptInv, RowInv, ParseInv, DeadInv, On, Settled, Covered, Buried
<1>6. RelyAt(m)
  BY <1>2, Zenon DEF RelyAt, Settled, On
<1> QED BY <1>2, <1>3, <1>4, <1>5, <1>6, LocalStep, Zenon

LEMMA BackoffStep ==
  ASSUME IInv, NEW p \in Paths, BackoffEnds(p)
  PROVE  IInv'
<1>1. PICK m \in Msgs, j \in Kinds : p = <<m, j>>
  <2>1. p[1] \in Msgs /\ p[2] \in Kinds /\ p = <<p[1], p[2]>>
    BY PathFacts, Zenon
  <2> QED BY <2>1, Zenon
<1>2. Typed /\ AcceptInv(m) /\ RowInv(m) /\ ParseInv(m) /\ DeadInv(m)
  BY Zenon DEF IInv, MsgInv
<1>3. /\ tomb[p] # "none" /\ tomb'[p] # "none"
      /\ \A q \in Paths : q # p => tomb'[q] = tomb[q]
      /\ tomb' \in [Paths -> {"none", "new", "waiting", "due"}]
      /\ UNCHANGED <<acc, row, refs, dlv, files, task, gen, victims,
                     pc, sel, ok, bad, batch, gate, deleted>>
  BY <1>2, Zenon DEF BackoffEnds, Typed, disk, parser, owner
<1>4. /\ \A u \in Msgs \ {m} : \A k \in Kinds : tomb'[<<u, k>>] = tomb[<<u, k>>]
      /\ \A k \in Kinds : tomb'[<<m, k>>] = "none" <=> tomb[<<m, k>>] = "none"
  <2>1. \A u \in Msgs, k \in Kinds : <<u, k>> \in Paths /\ (<<u, k>> = p => u = m)
    BY <1>1, PathFacts, Zenon
  <2>2. \A q \in Paths : tomb'[q] = "none" <=> tomb[q] = "none"
    BY <1>3, Zenon
  <2> QED BY <1>3, <2>1, <2>2, Zenon
<1>5. Typed'
  BY <1>2, <1>3, Zenon DEF Typed
<1>6. \A u \in Msgs \ {m} : Same(u)
  BY <1>3, <1>4, Zenon DEF Same
<1>7. "manifest" \in Kinds
  BY Zenon DEF Kinds
<1>8. AcceptInv(m)' /\ RowInv(m)' /\ ParseInv(m)' /\ DeadInv(m)'
  <2>1. AcceptInv(m)' /\ RowInv(m)' /\ ParseInv(m)'
    BY <1>2, <1>3, Zenon DEF AcceptInv, RowInv, ParseInv, On, Settled
  <2>2. (Buried(m)' => Buried(m)) /\ (Covered(m) => Covered(m)')
    BY <1>3, <1>4, <1>7, Zenon DEF Buried, Covered, On
  <2>3. DeadInv(m)'
    BY <1>2, <1>3, <2>2, Zenon DEF DeadInv, Settled
  <2> QED BY <2>1, <2>3, Zenon
<1>9. RelyAt(m)
  BY <1>3, <1>4, Zenon DEF RelyAt, Settled, On
<1> QED BY <1>3, <1>5, <1>6, <1>8, <1>9, LocalStep, Zenon

\* The grace period passes when no accept, parse or pass is running.
LEMMA AgeStep ==
  ASSUME IInv, Age
  PROVE  IInv'
<1>1. /\ Typed /\ pc = "free" /\ files' = [p \in Paths |-> IF On(p) THEN "old" ELSE "none"]
      /\ UNCHANGED <<acc, row, refs, dlv, tomb, task, gen, victims,
                     pc, sel, ok, bad, batch, gate, deleted>>
  BY Zenon DEF IInv, Age, store, parser, owner
<1>2. \A m \in Msgs : acc[m] \notin {"raw", "manifest"} /\ task[m] # "wrote"
  BY Zenon DEF Age, Working, Accepting
<1>3. /\ \A p \in Paths : On(p)' <=> On(p)
      /\ files' \in [Paths -> {"none", "young", "old"}]
  BY <1>1, Zenon DEF On, Typed
<1>4. \A m \in Msgs, k \in Kinds : On(<<m, k>>)' <=> On(<<m, k>>)
  BY <1>3, PathFacts, Zenon
<1>5. Typed'
  BY <1>1, <1>3, Zenon DEF Typed
<1>6. ASSUME NEW m \in Msgs
      PROVE  AcceptInv(m)' /\ RowInv(m)' /\ ParseInv(m)' /\ DeadInv(m)' /\ RelyAt(m)
  <2>1. AcceptInv(m) /\ RowInv(m) /\ ParseInv(m) /\ DeadInv(m)
    BY Zenon DEF IInv, MsgInv
  <2>2. refs[m] \subseteq Kinds /\ "raw" \in Kinds /\ "manifest" \in Kinds
    BY <1>1, KindsOf, Zenon
  <2>3. AcceptInv(m)' /\ ParseInv(m)'
    BY <1>1, <1>2, <1>4, <2>1, Zenon DEF AcceptInv, ParseInv
  <2>4. RowInv(m)'
    BY <1>1, <1>4, <2>1, <2>2, Zenon DEF RowInv, Settled
  <2>5. DeadInv(m)'
    BY <1>1, <1>4, <2>1, <2>2, Zenon DEF DeadInv, Settled, Buried, Covered
  <2>6. RelyAt(m)
    BY <1>1, <1>4, <2>2, Zenon DEF RelyAt, Settled
  <2> QED BY <2>3, <2>4, <2>5, <2>6, Zenon
<1>7. Rely
  BY <1>1, <1>6, Zenon DEF Rely
<1> QED BY <1>5, <1>6, <1>7, RelyKeeps, Zenon DEF IInv, MsgInv

LEMMA ClearGateStep ==
  ASSUME IInv, ClearGate
  PROVE  IInv'
<1>1. /\ gate' = TRUE
      /\ UNCHANGED <<acc, row, refs, dlv, tomb, files, task, gen, victims,
                     pc, sel, ok, bad, batch, deleted>>
  BY Zenon DEF ClearGate, store, disk, parser, owner
<1>2. Typed'
  BY <1>1, Zenon DEF IInv, Typed
<1>3. \A m \in Msgs : Same(m)
  BY <1>1, Zenon DEF Same
<1>4. MsgInv' /\ Rely
  BY <1>1, <1>3, SameKeeps, SameRelies, Zenon DEF MsgInv, Rely
<1> QED BY <1>2, <1>4, RelyKeeps, Zenon DEF IInv

-----------------------------------------------------------------------------
(* Steps of the holder of the lock. *)

\* The steps at which the holder has read nothing it relies on.
LEMMA NothingHeld ==
  ASSUME pc' \in {"free", "enqueue", "gc", "sweep"}, \A m \in deleted' : Covered(m)'
  PROVE  LockInv'
BY Zenon DEF LockInv, RecoverInv, RetainInv, GcInv, SweepInv, ClearInv

LEMMA DeletedCovered ==
  ASSUME IInv, pc \notin {"clear_files", "clear_manifests"}
  PROVE  \A m \in deleted : m \in Msgs /\ Covered(m)
BY Zenon DEF IInv, LockInv, ClearInv, Typed

\* What the holder of the lock works on.
Held ==
  /\ pc \in {"enqueue", "recover", "replay", "drop", "wait", "expire"} => sel \subseteq Msgs
  /\ pc \in {"unlink", "protect", "remove"} => sel \subseteq Paths
  /\ ok \subseteq Paths /\ bad \subseteq Paths
  /\ batch \subseteq Msgs \X Dlvs \X {"expired", "deleted"}
Data == <<acc, row, refs, dlv, files, tomb, task, gen, victims, deleted>>

\* A step that only moves the holder of the lock on.
LEMMA OwnerStep ==
  ASSUME IInv, UNCHANGED Data, Held', LockInv'
  PROVE  IInv'
<1>1. \A m \in Msgs : Same(m)
  BY Zenon DEF Same, Data
<1>2. MsgInv'
  BY <1>1, SameKeeps, Zenon DEF MsgInv
<1>3. Typed'
  BY Zenon DEF IInv, Typed, Data, Held
<1> QED BY <1>2, <1>3, Zenon DEF IInv

LEMMA CoveredStays ==
  ASSUME IInv, UNCHANGED Data, pc \notin {"clear_files", "clear_manifests"}
  PROVE  \A m \in deleted' : Covered(m)'
BY DeletedCovered, Zenon DEF Data, Covered, On

LEMMA PageStep ==
  ASSUME IInv, PendingPage \/ RecoverEnd \/ RetainEnd
  PROVE  IInv'
<1>1. /\ UNCHANGED Data /\ pc \in {"free", "replay", "remove"} /\ pc' \in {"enqueue", "free"}
      /\ sel' \subseteq Msgs /\ ok' = {} /\ bad' = {} /\ batch' = {}
  <2>1. CASE PendingPage
    BY <2>1, Zenon DEF PendingPage, Data, Hold, store, disk, parser
  <2>2. CASE RecoverEnd
    BY <2>2, Zenon DEF RecoverEnd, Release, Data, Hold, store, disk, parser
  <2>3. CASE RetainEnd
    BY <2>3, Zenon DEF RetainEnd, Release, Data, Hold, store, disk, parser
  <2> QED BY <2>1, <2>2, <2>3, Zenon
<1>2. Held'
  BY <1>1, Zenon DEF Held
<1>3. LockInv'
  BY <1>1, CoveredStays, NothingHeld, Zenon
<1> QED BY <1>1, <1>2, <1>3, OwnerStep, Zenon

\* Recovery takes up no message that was deleted or is being collected.
LEMMA RecoverReadStep ==
  ASSUME IInv, RecoverRead
  PROVE  IInv'
<1>1. /\ UNCHANGED Data /\ pc = "free" /\ pc' = "recover"
      /\ sel' = {m \in Msgs : On(<<m, "manifest">>) /\ row[m] = "none" /\ ~Retired(m)}
      /\ ok' = {} /\ bad' = {} /\ batch' = {}
  BY Zenon DEF RecoverRead, Data, Hold, store, disk, parser
<1>2. Held'
  BY <1>1, Zenon DEF Held
<1>3. ASSUME NEW m \in sel'
      PROVE  acc[m] # "idle" /\ m \notin deleted /\ ~Buried(m)
  <2>1. m \in Msgs /\ On(<<m, "manifest">>) /\ tomb[<<m, "manifest">>] = "none"
    BY <1>1, <1>3, Zenon DEF Retired
  <2>2. ~Covered(m)
    BY <2>1, Zenon DEF Covered
  <2>3. AcceptInv(m) /\ DeadInv(m) /\ "manifest" \in Kinds
    BY <2>1, Zenon DEF IInv, MsgInv, Kinds
  <2>4. m \notin deleted
    BY <1>1, <2>2, DeletedCovered, Zenon
  <2> QED BY <2>1, <2>2, <2>3, <2>4, Zenon DEF AcceptInv, DeadInv
<1>4. /\ \A m \in deleted' : Covered(m)'
      /\ \A m \in sel' : acc'[m] # "idle" /\ m \notin deleted' /\ ~Buried(m)'
  <2>1. \A m \in sel' : acc'[m] # "idle" /\ m \notin deleted' /\ ~Buried(m)'
    BY <1>1, <1>3, Zenon DEF Data, Buried
  <2> QED BY <1>1, <2>1, CoveredStays, Zenon
<1>5. LockInv'
  BY <1>1, <1>4, Zenon DEF LockInv, RecoverInv, RetainInv, GcInv, SweepInv, ClearInv
<1> QED BY <1>1, <1>2, <1>5, OwnerStep, Zenon

\* The snapshot is of rows that exist.
LEMMA RetainSnapshotStep ==
  ASSUME IInv, RetainSnapshot
  PROVE  IInv'
<1>1. PICK b : /\ b \subseteq Due /\ batch' = b /\ sel' = FullyExpiring(b)
               /\ pc = "free" /\ pc' = "drop" /\ ok' = {} /\ bad' = {} /\ UNCHANGED Data
  <2>1. UNCHANGED Data /\ pc = "free"
    BY Zenon DEF RetainSnapshot, Data, store, disk, parser
  <2>2. PICK b \in kSubset(Min({CleanupBatch, Cardinality(Due)}), Due) :
          /\ batch' = b /\ sel' = FullyExpiring(b)
          /\ pc' = "drop" /\ ok' = {} /\ bad' = {}
    BY Zenon DEF RetainSnapshot
  <2>3. b \subseteq Due
    BY <2>2, Zenon DEF kSubset
  <2> QED BY <2>1, <2>2, <2>3, Zenon
<1>2. Held'
  <2>1. FullyExpiring(b) \subseteq Msgs /\ Due \subseteq Msgs \X Dlvs \X {"expired", "deleted"}
    BY Zenon DEF FullyExpiring, Due
  <2> QED BY <1>1, <2>1, Zenon DEF Held
<1>3. \A x \in b : row[x[1]] # "none"
  <2>1. ASSUME NEW x \in b
        PROVE  row[x[1]] # "none"
    <3>1. x[1] \in Msgs /\ x[2] \in Dlvs /\ dlv[x[1]][x[2]] # "none"
      BY <1>1, <2>1, Zenon DEF Due
    <3>2. RowInv(x[1])
      BY <3>1, Zenon DEF IInv, MsgInv
    <3> QED BY <3>1, <3>2, Zenon DEF RowInv
  <2> QED BY <2>1, Zenon
<1>4. FullyExpiring(batch)' = FullyExpiring(b)
  BY <1>1, Zenon DEF FullyExpiring, Data
<1>5. \A x \in batch' : row'[x[1]] # "none"
  BY <1>1, <1>3, Zenon DEF Data
<1>6. \A m \in deleted' : Covered(m)'
  BY <1>1, CoveredStays, Zenon
<1>7. LockInv'
  BY <1>1, <1>4, <1>5, <1>6, Zenon DEF LockInv, RecoverInv, RetainInv, GcInv, SweepInv, ClearInv
<1> QED BY <1>1, <1>2, <1>7, OwnerStep, Zenon

LEMMA RetainWaitStep ==
  ASSUME IInv, RetainWait
  PROVE  IInv'
<1>1. /\ UNCHANGED Data /\ UNCHANGED <<sel, ok, bad, batch>> /\ pc = "wait" /\ pc' = "expire"
      /\ sel \cap Working = {}
  BY Zenon DEF RetainWait, Data, store, disk, parser
<1>2. /\ Typed /\ sel \subseteq Msgs /\ sel = FullyExpiring(batch)
      /\ (\A x \in batch : row[x[1]] # "none") /\ \A m \in sel : task[m] # "queued"
  BY <1>1, Zenon DEF IInv, LockInv, RetainInv, Typed
<1>3. Held'
  BY <1>1, <1>2, Zenon DEF Held, Typed
<1>4. \A m \in sel' : task'[m] = "none"
  BY <1>1, <1>2, Zenon DEF Working, Data
<1>5. sel' = FullyExpiring(batch)' /\ \A x \in batch' : row'[x[1]] # "none"
  BY <1>1, <1>2, Zenon DEF FullyExpiring, Data
<1>6. \A m \in deleted' : Covered(m)'
  BY <1>1, CoveredStays, Zenon
<1>7. LockInv'
  BY <1>1, <1>4, <1>5, <1>6, Zenon DEF LockInv, RecoverInv, RetainInv, GcInv, SweepInv, ClearInv
<1> QED BY <1>1, <1>3, <1>7, OwnerStep, Zenon

LEMMA GcLoadStep ==
  ASSUME IInv, GcLoad
  PROVE  IInv'
<1>1. /\ UNCHANGED Data /\ pc = "gc" /\ pc' = "unlink" /\ ok' = {} /\ bad' = {} /\ batch' = {}
      /\ sel' \subseteq {p \in Paths : tomb[p] \in {"new", "due"}}
  <2>1. UNCHANGED Data /\ pc = "gc"
    BY Zenon DEF GcLoad, Data, store, disk, parser
  <2> DEFINE new == {p \in Paths : tomb[p] = "new"}
             due == {p \in Paths : tomb[p] = "due"}
  <2>2. \E n : \E a \in kSubset(n, new), b \in kSubset(Min({GcBatch - n, Cardinality(due)}), due) :
          Hold("unlink", a \cup b)
    BY Zenon DEF GcLoad
  <2>3. PICK a \in SUBSET new, b \in SUBSET due : Hold("unlink", a \cup b)
    BY <2>2, Zenon DEF kSubset
  <2> QED BY <2>1, <2>3, Zenon DEF Hold
<1>2. Held'
  BY <1>1, Zenon DEF Held
<1>3. \A p \in sel' \cup ok' \cup bad' : tomb'[p] # "none"
  BY <1>1, Zenon DEF Data
<1>4. \A m \in deleted' : Covered(m)'
  BY <1>1, CoveredStays, Zenon
<1>5. LockInv'
  BY <1>1, <1>3, <1>4, Zenon DEF LockInv, RecoverInv, RetainInv, GcInv, SweepInv, ClearInv
<1> QED BY <1>1, <1>2, <1>5, OwnerStep, Zenon

\* The sweep looks at files that an accept has written ...
LEMMA SweepSelectStep ==
  ASSUME IInv, SweepSelect
  PROVE  IInv'
<1>1. /\ UNCHANGED Data /\ pc = "sweep" /\ pc' = "protect" /\ ok' = {} /\ bad' = {} /\ batch' = {}
      /\ sel' = {p \in Paths : files[p] = "old" /\ p[2] # "manifest"}
  BY Zenon DEF SweepSelect, Hold, Data, store, disk, parser
<1>2. Held'
  BY <1>1, Zenon DEF Held
<1>3. ASSUME NEW p \in sel'
      PROVE  p[2] # "manifest" /\ acc'[p[1]] # "idle"
  <2>1. p \in Paths /\ On(p) /\ p[2] # "manifest"
    BY <1>1, <1>3, Zenon DEF On
  <2>2. p[1] \in Msgs /\ p[2] \in Kinds /\ p = <<p[1], p[2]>>
    BY <2>1, PathFacts, Zenon
  <2>3. PICK m \in Msgs, k \in Kinds : p = <<m, k>> /\ m = p[1]
    BY <2>2, Zenon
  <2>4. AcceptInv(m)
    BY Zenon DEF IInv, MsgInv
  <2> QED BY <1>1, <2>1, <2>3, <2>4, Zenon DEF AcceptInv, Data
<1>4. \A m \in deleted' : Covered(m)'
  BY <1>1, CoveredStays, Zenon
<1>5. LockInv'
  BY <1>1, <1>3, <1>4, Zenon DEF LockInv, RecoverInv, RetainInv, GcInv, SweepInv, ClearInv
<1> QED BY <1>1, <1>2, <1>5, OwnerStep, Zenon

\* ... and keeps the ones that no row names, of accepts that are over.
LEMMA SweepProtectStep ==
  ASSUME IInv, SweepProtect
  PROVE  IInv'
<1>1. /\ UNCHANGED Data /\ pc = "protect" /\ pc' = "remove" /\ ok' = {} /\ bad' = {} /\ batch' = {}
      /\ sel' = {p \in sel : ~Protected(p)}
  BY Zenon DEF SweepProtect, Hold, Data, store, disk, parser
<1>2. Typed /\ sel \subseteq Paths /\ \A p \in sel : p[2] # "manifest" /\ acc[p[1]] # "idle"
  BY <1>1, Zenon DEF IInv, Typed, LockInv, SweepInv
<1>3. Held'
  BY <1>1, <1>2, Zenon DEF Held
<1>4. ASSUME NEW p \in sel'
      PROVE  /\ p[2] # "manifest" /\ Settled(p[1])'
             /\ row'[p[1]] = "none" \/ p[2] \notin {"raw"} \cup refs'[p[1]]
  <2>1. p \in sel /\ p[1] \in Msgs /\ ~Protected(p)
    BY <1>1, <1>2, <1>4, PathFacts, Zenon
  <2>2. Settled(p[1])
    BY <1>2, <2>1, Zenon DEF Protected, Accepting, Settled, Typed
  <2> QED BY <1>1, <1>2, <2>1, <2>2, Zenon DEF Protected, Data, Settled
<1>5. \A m \in deleted' : Covered(m)'
  BY <1>1, CoveredStays, Zenon
<1>6. LockInv'
  BY <1>1, <1>4, <1>5, Zenon DEF LockInv, RecoverInv, RetainInv, GcInv, SweepInv, ClearInv
<1> QED BY <1>1, <1>3, <1>6, OwnerStep, Zenon

LEMMA ReparseStep ==
  ASSUME IInv, NEW m \in Msgs, Reparse(m)
  PROVE  IInv'
<1>1. Typed /\ AcceptInv(m) /\ RowInv(m) /\ ParseInv(m) /\ DeadInv(m)
  BY Zenon DEF IInv, MsgInv
<1>2. /\ pc = "free" /\ pc' = "enqueue" /\ sel' = {m} /\ ok' = {} /\ bad' = {} /\ batch' = {}
      /\ row[m] # "none" /\ row'[m] = "pending" /\ \A u \in Msgs \ {m} : row'[u] = row[u]
      /\ row' \in [Msgs -> {"none", "pending", "parsed", "failed"}]
      /\ UNCHANGED <<acc, refs, dlv, tomb, files, task, gen, victims, gate, deleted>>
  BY <1>1, Zenon DEF Reparse, Hold, Typed, disk, parser
<1>3. Typed'
  <2>1. Held'
    BY <1>2, Zenon DEF Held
  <2> QED BY <1>1, <1>2, <2>1, Zenon DEF Typed, Held
<1>4. AcceptInv(m)' /\ RowInv(m)' /\ ParseInv(m)' /\ DeadInv(m)'
  <2>1. AcceptInv(m)' /\ ParseInv(m)' /\ DeadInv(m)'
    BY <1>1, <1>2, Zenon DEF AcceptInv, ParseInv, DeadInv, On, Settled, Covered, Buried
  <2>2. RowInv(m)'
    BY <1>1, <1>2, Zenon DEF RowInv, On, Settled
  <2> QED BY <2>1, <2>2, Zenon
<1>5. \A u \in Msgs \ {m} : Same(u)
  BY <1>2, Zenon DEF Same
<1>6. MsgInv'
  BY <1>4, <1>5, SameKeeps, Zenon DEF MsgInv
<1>7. \A u \in deleted' : Covered(u)'
  BY <1>2, DeletedCovered, Zenon DEF Covered, On
<1>8. LockInv'
  BY <1>2, <1>7, NothingHeld, Zenon
<1> QED BY <1>3, <1>6, <1>8, Zenon DEF IInv

\* Steps that change the queue only.
Kept(u) ==
  /\ acc'[u] = acc[u] /\ row'[u] = row[u] /\ refs'[u] = refs[u] /\ dlv'[u] = dlv[u]
  /\ gen'[u] = gen[u] /\ victims'[u] = victims[u] /\ (u \in deleted' <=> u \in deleted)
  /\ \A k \in Kinds : files'[<<u, k>>] = files[<<u, k>>] /\ tomb'[<<u, k>>] = tomb[<<u, k>>]
  /\ task'[u] \in {task[u], "none", "queued"}

LEMMA KeptKeeps ==
  ASSUME IInv, NEW u \in Msgs, Kept(u)
  PROVE  AcceptInv(u)' /\ RowInv(u)' /\ ParseInv(u)' /\ DeadInv(u)'
<1>1. Typed /\ AcceptInv(u) /\ RowInv(u) /\ ParseInv(u) /\ DeadInv(u)
  BY Zenon DEF IInv, MsgInv
<1>2. /\ refs[u] \subseteq Kinds /\ gen[u] \subseteq Kinds
      /\ "raw" \in Kinds /\ "body" \in Kinds /\ "manifest" \in Kinds
  BY <1>1, KindsOf, Zenon
<1>3. AcceptInv(u)' /\ RowInv(u)'
  BY <1>1, <1>2, Zenon DEF AcceptInv, RowInv, Kept, On, Settled
<1>4. ParseInv(u)'
  <2>1. CASE task'[u] = task[u]
    BY <1>1, <1>2, <2>1, Zenon DEF ParseInv, Kept
  <2>2. CASE task'[u] \in {"none", "queued"}
    <3>1. task'[u] # "wrote"
      BY <2>2, Zenon
    <3> QED BY <1>1, <2>2, <3>1, Zenon DEF ParseInv, Kept
  <2> QED BY <2>1, <2>2, Zenon DEF Kept
<1>5. DeadInv(u)'
  BY <1>1, <1>2, Zenon DEF DeadInv, Kept, Settled, Covered, Buried, On
<1> QED BY <1>3, <1>4, <1>5, Zenon

LEMMA QueueStep ==
  ASSUME IInv, Enqueue \/ RetainDrop \/ ClearStart
  PROVE  IInv'
<1>1. /\ UNCHANGED <<acc, row, refs, dlv, tomb, files, gen, victims, gate, deleted>>
      /\ pc \in {"enqueue", "drop", "free"}
  BY Zenon DEF Enqueue, RetainDrop, ClearStart, store, disk
<1>2. Typed
  BY Zenon DEF IInv
<1>3. /\ task' \in [Msgs -> {"none", "queued", "loaded", "wrote", "broken", "applied"}]
      /\ \A u \in Msgs : task'[u] \in {task[u], "none", "queued"}
  <2>1. CASE Enqueue
    <3>1. TryEnqueue(sel)
      BY <2>1, Zenon DEF Enqueue
    <3>2. /\ task' \in [Msgs -> {"none", "queued", "loaded", "wrote", "broken", "applied"}]
          /\ \A u \in Msgs : \/ task'[u] = task[u]
                             \/ u \in sel /\ task[u] = "none" /\ task'[u] = "queued"
      BY <1>2, <3>1, Enqueued, Zenon
    <3> QED BY <3>2, Zenon
  <2>2. CASE RetainDrop
    BY <1>2, <2>2, Zenon DEF RetainDrop, Typed
  <2>3. CASE ClearStart
    BY <1>2, <2>3, Zenon DEF ClearStart, Typed
  <2> QED BY <2>1, <2>2, <2>3, Zenon
<1>4. \A u \in Msgs : Kept(u)
  BY <1>1, <1>3, Zenon DEF Kept
<1>5. MsgInv'
  BY <1>4, KeptKeeps, Zenon DEF MsgInv
<1>6. \A m \in deleted' : Covered(m)'
  <2>1. pc \notin {"clear_files", "clear_manifests"}
    BY <1>1, Zenon
  <2> QED BY <1>1, <2>1, DeletedCovered, Zenon DEF Covered, On
<1>7. Held' /\ LockInv'
  <2>1. CASE Enqueue
    <3>1. pc' = "free" /\ sel' = {} /\ ok' = {} /\ bad' = {} /\ batch' = {}
      BY <2>1, Zenon DEF Enqueue, Release, Hold
    <3> QED BY <1>6, <3>1, NothingHeld, Zenon DEF Held
  <2>2. CASE RetainDrop
    <3>1. /\ pc = "drop" /\ pc' = "wait" /\ UNCHANGED <<sel, ok, bad, batch>>
          /\ \A m \in Msgs : m \in sel => task'[m] # "queued"
      BY <1>2, <2>2, Zenon DEF RetainDrop, Typed
    <3>2. /\ sel \subseteq Msgs /\ sel = FullyExpiring(batch) /\ \A x \in batch : row[x[1]] # "none"
          /\ ok \subseteq Paths /\ bad \subseteq Paths
          /\ batch \subseteq Msgs \X Dlvs \X {"expired", "deleted"}
      BY <1>2, <3>1, Zenon DEF IInv, LockInv, RetainInv, Typed
    <3>3. sel' = FullyExpiring(batch)' /\ \A x \in batch' : row'[x[1]] # "none"
      BY <1>1, <3>1, <3>2, Zenon DEF FullyExpiring
    <3>4. \A m \in sel' : task'[m] # "queued"
      BY <3>1, <3>2, Zenon
    <3>5. LockInv'
      BY <1>6, <3>1, <3>3, <3>4, Zenon DEF LockInv, RecoverInv, RetainInv, GcInv, SweepInv, ClearInv
    <3>6. Held'
      BY <3>1, <3>2, Zenon DEF Held
    <3> QED BY <3>5, <3>6, Zenon
  <2>3. CASE ClearStart
    <3>1. /\ pc' = "clear_tables" /\ sel' = {} /\ ok' = {} /\ bad' = {} /\ batch' = {}
          /\ gate' = gate /\ gate /\ Accepting = {}
      BY <1>1, <2>3, Zenon DEF ClearStart, Hold
    <3>2. \A m \in Msgs : acc'[m] = "idle" \/ Settled(m)'
      <4>1. \A m \in Msgs : acc[m] \notin {"raw", "manifest", "refusing", "discarding"}
        BY <3>1, Zenon DEF Accepting
      <4> QED BY <1>1, <1>2, <4>1, Zenon DEF Settled, Typed
    <3>3. LockInv'
      BY <1>6, <3>1, <3>2, Zenon DEF LockInv, RecoverInv, RetainInv, GcInv, SweepInv, ClearInv
    <3>4. Held'
      BY <3>1, Zenon DEF Held
    <3> QED BY <3>3, <3>4, Zenon
  <2> QED BY <2>1, <2>2, <2>3, Zenon
<1>8. Typed'
  BY <1>1, <1>2, <1>3, <1>7, Zenon DEF Typed, Held
<1> QED BY <1>5, <1>7, <1>8, Zenon DEF IInv

\* Quarantining a manifest takes no file a row names; what is left to replay
\* has its raw file and was neither deleted nor is being collected.
LEMMA RecoverCheckStep ==
  ASSUME IInv, RecoverCheck
  PROVE  IInv'
<1> DEFINE idle == sel \ Accepting
           damaged == {m \in idle : ~On(<<m, "raw">>)}
           ps == {<<m, "manifest">> : m \in damaged}
<1>1. /\ pc = "recover" /\ pc' = "replay" /\ ok' = {} /\ bad' = {} /\ batch' = {}
      /\ sel' = idle \ damaged /\ files' = Removed(ps)
      /\ UNCHANGED <<acc, row, refs, dlv, tomb, task, gen, victims, gate, deleted>>
  BY Zenon DEF RecoverCheck, Hold, store, parser
<1>2. /\ Typed /\ sel \subseteq Msgs
      /\ \A m \in sel : acc[m] # "idle" /\ m \notin deleted /\ ~Buried(m)
  BY <1>1, Zenon DEF IInv, Typed, LockInv, RecoverInv
<1>3. \A u \in Msgs, k \in Kinds : k # "manifest" => <<u, k>> \notin ps
  BY PathFacts, Zenon
<1>4. /\ \A u \in Msgs, k \in Kinds : /\ k # "manifest" => files'[<<u, k>>] = files[<<u, k>>]
                                      /\ files'[<<u, k>>] \in {files[<<u, k>>], "none"}
      /\ files' \in [Paths -> {"none", "young", "old"}]
  <2> HIDE DEF ps
  <2>1. /\ Removed(ps) \in [Paths -> {"none", "young", "old"}]
        /\ \A p \in Paths : /\ p \in ps => Removed(ps)[p] = "none"
                            /\ p \notin ps => Removed(ps)[p] = files[p]
    BY <1>2, FileEffects, Zenon
  <2>2. \A u \in Msgs, k \in Kinds : <<u, k>> \in Paths
    BY PathFacts, Zenon
  <2> QED BY <1>1, <1>3, <2>1, <2>2, Zenon
<1>5. \A m \in sel' : m \in sel /\ m \notin Accepting /\ On(<<m, "raw">>)
  BY <1>1, Zenon
<1> HIDE DEF idle, damaged, ps
<1>6. ASSUME NEW u \in Msgs
      PROVE  AcceptInv(u)' /\ RowInv(u)' /\ ParseInv(u)' /\ DeadInv(u)'
  <2>1. Typed /\ AcceptInv(u) /\ RowInv(u) /\ ParseInv(u) /\ DeadInv(u)
    BY Zenon DEF IInv, MsgInv
  <2>2. /\ refs[u] \subseteq Kinds /\ gen[u] \subseteq Kinds /\ "raw" \in Kinds
        /\ "body" \in Kinds /\ "manifest" \in Kinds
        /\ "manifest" \notin refs[u] /\ "manifest" \notin gen[u]
    BY <2>1, KindsOf, PathFacts, Zenon DEF Typed, Derived
  <2>3. \A k \in Kinds : On(<<u, k>>)' => On(<<u, k>>)
    BY <1>4, Zenon DEF On
  <2>4. \A k \in {"raw", "body"} \cup refs[u] \cup gen[u] : files'[<<u, k>>] = files[<<u, k>>]
    BY <1>4, <2>2, Zenon
  <2>5. AcceptInv(u)'
    BY <1>1, <2>1, <2>3, <2>4, Zenon DEF AcceptInv
  <2>6. RowInv(u)'
    BY <1>1, <2>1, <2>4, Zenon DEF RowInv, On, Settled
  <2>7. ParseInv(u)'
    BY <1>1, <2>1, <2>4, Zenon DEF ParseInv
  <2>8. DeadInv(u)'
    BY <1>1, <2>1, <2>2, <2>3, Zenon DEF DeadInv, Settled, Covered, Buried
  <2> QED BY <2>5, <2>6, <2>7, <2>8, Zenon
<1>7. \A m \in deleted' : Covered(m)'
  <2>1. \A m \in deleted : m \in Msgs /\ Covered(m)
    BY <1>1, DeletedCovered, Zenon
  <2>2. \A m \in Msgs : On(<<m, "manifest">>)' => On(<<m, "manifest">>)
    BY <1>4, Zenon DEF On, Kinds
  <2> QED BY <1>1, <2>1, <2>2, Zenon DEF Covered
<1>8. Held'
  BY <1>1, <1>2, <1>5, Zenon DEF Held
<1>9. ASSUME NEW m \in sel'
      PROVE  Settled(m)' /\ m \notin deleted' /\ ~Buried(m)' /\ On(<<m, "raw">>)'
  <2>1. m \in Msgs /\ m \notin deleted /\ ~Buried(m) /\ Settled(m)
    BY <1>2, <1>5, <1>9, Zenon DEF Accepting, Settled, Typed
  <2>2. On(<<m, "raw">>)'
    BY <1>4, <1>5, <2>1, Zenon DEF On, Kinds
  <2> QED BY <1>1, <2>1, <2>2, Zenon DEF Settled, Buried
<1>10. LockInv'
  BY <1>1, <1>7, <1>9, Zenon DEF LockInv, RecoverInv, RetainInv, GcInv, SweepInv, ClearInv
<1>11. Typed'
  BY <1>1, <1>2, <1>4, <1>8, Zenon DEF Typed, Held
<1> QED BY <1>6, <1>10, <1>11, Zenon DEF IInv, MsgInv

LEMMA ReplayStep ==
  ASSUME IInv, NEW m \in Msgs, Replay(m)
  PROVE  IInv'
<1>1. /\ pc = "replay" /\ m \in sel /\ sel' = sel \ {m}
      /\ UNCHANGED <<acc, refs, tomb, files, gen, victims, pc, ok, bad, batch, gate, deleted>>
  BY Zenon DEF Replay, disk
<1>2. /\ Typed /\ sel \subseteq Msgs
      /\ \A u \in sel : Settled(u) /\ u \notin deleted /\ ~Buried(u) /\ On(<<u, "raw">>)
      /\ AcceptInv(m) /\ RowInv(m) /\ ParseInv(m) /\ DeadInv(m)
  BY <1>1, Zenon DEF IInv, MsgInv, Typed, LockInv, RecoverInv
<1>3. /\ task' \in [Msgs -> {"none", "queued", "loaded", "wrote", "broken", "applied"}]
      /\ \A u \in Msgs \ {m} : task'[u] = task[u]
      /\ task'[m] = task[m] \/ task'[m] = "queued"
  <2>1. CASE Retired(m)
    BY <1>2, <2>1, Zenon DEF Replay, Typed
  <2>2. CASE ~Retired(m)
    <3>1. TryEnqueue({m})
      BY <2>2, Zenon DEF Replay
    <3>2. /\ task' \in [Msgs -> {"none", "queued", "loaded", "wrote", "broken", "applied"}]
          /\ \A u \in Msgs : \/ task'[u] = task[u]
                             \/ u \in {m} /\ task[u] = "none" /\ task'[u] = "queued"
      BY <1>2, <3>1, Enqueued, Zenon
    <3> QED BY <3>2, Zenon
  <2> QED BY <2>1, <2>2, Zenon
<1>4. /\ row' \in [Msgs -> {"none", "pending", "parsed", "failed"}]
      /\ dlv' \in [Msgs -> [Dlvs -> {"none", "live", "expired", "deleted"}]]
      /\ \A u \in Msgs \ {m} : row'[u] = row[u] /\ dlv'[u] = dlv[u]
      /\ \/ row'[m] = row[m] /\ dlv'[m] = dlv[m]
         \/ row[m] = "none" /\ row'[m] = "pending"
  <2>1. CASE Retired(m)
    BY <1>2, <2>1, Zenon DEF Replay, Typed
  <2>2. CASE ~Retired(m)
    <3>1. /\ row' = [row EXCEPT ![m] = IF row[m] = "none" THEN "pending" ELSE row[m]]
          /\ dlv' = [dlv EXCEPT ![m] = IF row[m] = "none" THEN [d \in Dlvs |-> "live"] ELSE dlv[m]]
      BY <2>2, Zenon DEF Replay
    <3>2. CASE row[m] = "none"
      BY <1>2, <3>1, <3>2, Zenon DEF Typed
    <3>3. CASE row[m] # "none"
      BY <1>2, <3>1, <3>3, Zenon DEF Typed
    <3> QED BY <3>2, <3>3, Zenon
  <2> QED BY <2>1, <2>2, Zenon
<1>5. Typed'
  BY <1>1, <1>2, <1>3, <1>4, Zenon DEF Typed
<1>6. \A u \in Msgs \ {m} : Same(u)
  BY <1>1, <1>3, <1>4, Zenon DEF Same
<1>7. AcceptInv(m)' /\ RowInv(m)' /\ ParseInv(m)' /\ DeadInv(m)'
  <2>1. Settled(m) /\ m \notin deleted /\ ~Buried(m) /\ On(<<m, "raw">>)
    BY <1>1, <1>2, Zenon
  <2>2. AcceptInv(m)'
    BY <1>1, <2>1, Zenon DEF AcceptInv, Settled
  <2>3. DeadInv(m)'
    BY <1>1, <2>1, Zenon DEF DeadInv, Buried
  <2>4. RowInv(m)'
    <3>1. CASE row'[m] = row[m] /\ dlv'[m] = dlv[m]
      BY <1>1, <1>2, <3>1, Zenon DEF RowInv, On, Settled
    <3>2. CASE row[m] = "none" /\ row'[m] = "pending"
      BY <1>1, <1>2, <2>1, <3>2, Zenon DEF RowInv, On, Settled
    <3> QED BY <1>4, <3>1, <3>2, Zenon
  <2>5. row[m] # "none" => row'[m] # "none"
    BY <1>4, Zenon
  <2>6. ParseInv(m)'
    <3>1. CASE task'[m] = task[m]
      BY <1>1, <1>2, <2>5, <3>1, Zenon DEF ParseInv
    <3>2. CASE task'[m] = "queued"
      BY <1>1, <1>2, <3>2, Zenon DEF ParseInv
    <3> QED BY <1>3, <3>1, <3>2, Zenon
  <2> QED BY <2>2, <2>3, <2>4, <2>6, Zenon
<1>8. MsgInv'
  BY <1>6, <1>7, SameKeeps, Zenon DEF MsgInv
<1>9. \A u \in sel' : Settled(u)' /\ u \notin deleted' /\ ~Buried(u)' /\ On(<<u, "raw">>)'
  BY <1>1, <1>2, Zenon DEF Settled, Buried, On
<1>10. \A u \in deleted' : Covered(u)'
  <2>1. \A u \in deleted : u \in Msgs /\ Covered(u)
    BY <1>1, DeletedCovered, Zenon
  <2> QED BY <1>1, <2>1, Zenon DEF Covered, On
<1>11. LockInv'
  BY <1>1, <1>9, <1>10, Zenon DEF LockInv, RecoverInv, RetainInv, GcInv, SweepInv, ClearInv
<1> QED BY <1>5, <1>8, <1>11, Zenon DEF IInv

\* _expire_delivery_batch: what the batch orphans was fully expiring at the
\* snapshot, so no parse of it is queued or running; it gets its tombstones.
LEMMA RetainExpireStep ==
  ASSUME IInv, RetainExpire
  PROVE  IInv'
<1> DEFINE gone == {<<x[1], x[2]>> : x \in Expiring}
           left == [m \in Msgs |-> [d \in Dlvs |-> IF <<m, d>> \in gone THEN "none" ELSE dlv[m][d]]]
           orphans == {m \in Msgs : /\ \E d \in Dlvs : <<m, d>> \in gone
                                    /\ \A d \in Dlvs : left[m][d] = "none"}
           paths == UNION {FilesOf(m) : m \in orphans}
<1>1. /\ pc = "expire" /\ pc' = "gc" /\ sel' = {} /\ ok' = {} /\ bad' = {} /\ batch' = {}
      /\ dlv' = left
      /\ row' = [m \in Msgs |-> IF m \in orphans THEN "none" ELSE row[m]]
      /\ refs' = [m \in Msgs |-> IF m \in orphans THEN {} ELSE refs[m]]
      /\ tomb' = [p \in Paths |-> IF p \in paths /\ tomb[p] = "none" THEN "new" ELSE tomb[p]]
      /\ deleted' = deleted \cup orphans
      /\ UNCHANGED <<acc, files, task, gen, victims, gate>>
  BY Zenon DEF RetainExpire, Hold, disk, parser
<1>2. /\ Typed /\ sel = FullyExpiring(batch) /\ (\A x \in batch : row[x[1]] # "none")
      /\ \A m \in sel : task[m] = "none"
  BY <1>1, Zenon DEF IInv, LockInv, RetainInv
<1>3. \A m, d : <<m, d>> \in gone => \E x \in batch : x[1] = m /\ x[2] = d
  BY PathFacts, Zenon DEF Expiring
<1>4. \A m \in orphans : m \in Msgs /\ row[m] # "none" /\ task[m] = "none"
  <2>1. ASSUME NEW m \in orphans
        PROVE  m \in Msgs /\ row[m] # "none" /\ task[m] = "none"
    <3>1. m \in Msgs /\ (\E d \in Dlvs : <<m, d>> \in gone) /\ \A d \in Dlvs : left[m][d] = "none"
      BY <2>1, Zenon
    <3>2. \A d \in Dlvs : <<m, d>> \notin gone => left[m][d] = dlv[m][d]
      BY <3>1, Zenon
    <3> HIDE DEF gone, left, orphans, paths
    <3>3. \A d \in Dlvs : dlv[m][d] # "none" => <<m, d>> \in gone
      BY <3>1, <3>2, Zenon
    <3>4. \A d \in Dlvs : <<m, d>> \in gone => \E x \in batch : x[1] = m /\ x[2] = d
      BY <1>3, Zenon
    <3>5. \E x \in batch : x[1] = m
      BY <3>1, <3>4, Zenon
    <3>6. m \in FullyExpiring(batch)
      BY <3>1, <3>3, <3>4, <3>5, Zenon DEF FullyExpiring
    <3>7. row[m] # "none"
      BY <1>2, <3>5, Zenon
    <3> QED BY <1>2, <3>1, <3>6, <3>7, Zenon
  <2> QED BY <2>1, Zenon
<1>5. \A m \in Msgs, k \in Kinds :
        <<m, k>> \in paths <=> m \in orphans /\ k \in {"raw", "manifest"} \cup refs[m]
  <2> HIDE DEF orphans
  <2>1. ASSUME NEW m \in Msgs, NEW k \in Kinds
        PROVE  <<m, k>> \in paths <=> m \in orphans /\ k \in {"raw", "manifest"} \cup refs[m]
    <3>1. \A u \in orphans :
            <<m, k>> \in FilesOf(u) <=> m = u /\ k \in {"raw", "manifest"} \cup refs[u]
      <4>1. ASSUME NEW u \in orphans
            PROVE  <<m, k>> \in FilesOf(u) <=> m = u /\ k \in {"raw", "manifest"} \cup refs[u]
        <5> DEFINE S == {"raw", "manifest"} \cup refs[u]
        <5>1. FilesOf(u) = {<<u, j>> : j \in S}
          BY Zenon DEF FilesOf
        <5> HIDE DEF S
        <5>2. <<m, k>> \in {<<u, j>> : j \in S} <=> m = u /\ k \in S
          BY PathSet, Zenon
        <5> QED BY <5>1, <5>2, Zenon DEF S
      <4> QED BY <4>1, Zenon
    <3>2. <<m, k>> \in paths <=> \E u \in orphans : <<m, k>> \in FilesOf(u)
      BY Zenon
    <3> HIDE DEF paths
    <3> QED BY <3>1, <3>2, Zenon
  <2> QED BY <2>1, Zenon
<1>6. /\ left \in [Msgs -> [Dlvs -> {"none", "live", "expired", "deleted"}]]
      /\ \A m \in Msgs, d \in Dlvs : left[m][d] \in {dlv[m][d], "none"}
      /\ \A m \in orphans, d \in Dlvs : left[m][d] = "none"
  <2>1. \A m \in orphans, d \in Dlvs : left[m][d] = "none"
    BY Zenon
  <2> HIDE DEF gone, orphans
  <2> QED BY <1>2, <2>1 DEF Typed
<1> HIDE DEF gone, left, orphans, paths
<1>7. /\ \A m \in Msgs : /\ m \in orphans => row'[m] = "none" /\ refs'[m] = {}
                         /\ m \notin orphans => row'[m] = row[m] /\ refs'[m] = refs[m]
      /\ row' \in [Msgs -> {"none", "pending", "parsed", "failed"}]
      /\ refs' \in [Msgs -> SUBSET Derived]
      /\ tomb' \in [Paths -> {"none", "new", "waiting", "due"}]
      /\ \A p \in Paths : IF p \in paths THEN tomb'[p] # "none" ELSE tomb'[p] = tomb[p]
  BY <1>1, <1>2, Zenon DEF Typed
<1>8. \A m \in Msgs, k \in Kinds :
        /\ m \in orphans /\ k = "manifest" => tomb'[<<m, k>>] # "none"
        /\ m \notin orphans => tomb'[<<m, k>>] = tomb[<<m, k>>]
        /\ tomb[<<m, k>>] # "none" => tomb'[<<m, k>>] # "none"
  <2>1. \A m \in Msgs, k \in Kinds : <<m, k>> \in Paths
    BY PathFacts, Zenon
  <2> QED BY <1>5, <1>7, <2>1, Zenon
<1>9. ASSUME NEW u \in Msgs
      PROVE  AcceptInv(u)' /\ RowInv(u)' /\ ParseInv(u)' /\ DeadInv(u)'
  <2>1. AcceptInv(u) /\ RowInv(u) /\ ParseInv(u) /\ DeadInv(u)
    BY Zenon DEF IInv, MsgInv
  <2>2. AcceptInv(u)'
    BY <1>1, <2>1, Zenon DEF AcceptInv, On
  <2>3. CASE u \in orphans
    <3>1. row[u] # "none" /\ task[u] = "none" /\ Settled(u) /\ row'[u] = "none" /\ refs'[u] = {}
      BY <1>4, <1>7, <2>1, <2>3, Zenon DEF RowInv
    <3>2. RowInv(u)'
      BY <1>1, <1>6, <2>3, <3>1, Zenon DEF RowInv
    <3>3. ParseInv(u)'
      BY <1>1, <3>1, Zenon DEF ParseInv
    <3>4. Covered(u)' /\ Settled(u)'
      BY <1>1, <1>8, <2>3, <3>1, Zenon DEF Covered, Settled, Kinds
    <3>5. DeadInv(u)'
      BY <3>1, <3>4, Zenon DEF DeadInv
    <3> QED BY <2>2, <3>2, <3>3, <3>5, Zenon
  <2>4. CASE u \notin orphans
    <3>1. row'[u] = row[u] /\ refs'[u] = refs[u] /\ (u \in deleted' <=> u \in deleted)
      BY <1>1, <1>7, <2>4, Zenon
    <3>2. \A d \in Dlvs : dlv[u][d] = "none" => dlv'[u][d] = "none"
      BY <1>1, <1>6, Zenon
    <3>3. RowInv(u)'
      BY <1>1, <2>1, <3>1, <3>2, Zenon DEF RowInv, On, Settled
    <3>4. ParseInv(u)'
      BY <1>1, <2>1, <3>1, Zenon DEF ParseInv
    <3>5. DeadInv(u)'
      BY <1>1, <1>8, <2>1, <2>4, <3>1, PathFacts, Zenon DEF DeadInv, Settled, Covered, Buried, On
    <3> QED BY <2>2, <3>3, <3>4, <3>5, Zenon
  <2> QED BY <2>3, <2>4, Zenon
<1>10. \A m \in deleted' : m \in Msgs /\ Covered(m)'
  <2>1. \A m \in deleted : m \in Msgs /\ Covered(m)
    BY <1>1, DeletedCovered, Zenon
  <2>2. "manifest" \in Kinds
    BY Zenon DEF Kinds
  <2>3. \A m \in Msgs : (m \in orphans \/ Covered(m)) => Covered(m)'
    BY <1>1, <1>8, <2>2, Zenon DEF Covered, On
  <2> QED BY <1>1, <1>4, <2>1, <2>3, Zenon
<1>11. LockInv'
  BY <1>1, <1>10, NothingHeld, Zenon
<1>12. Typed'
  <2>1. Held'
    BY <1>1, Zenon DEF Held
  <2>2. deleted' \subseteq Msgs
    BY <1>10, Zenon
  <2> QED BY <1>1, <1>2, <1>6, <1>7, <2>1, <2>2, Zenon DEF Typed, Held
<1> QED BY <1>9, <1>11, <1>12, Zenon DEF IInv, MsgInv

\* Removing a file that no row names, of an accept that is over, harms no
\* message, if no parse has just written it.
LEMMA HarmlessUnlink ==
  ASSUME IInv, NEW p \in Paths,
         UNCHANGED <<acc, row, refs, dlv, tomb, task, gen, victims, deleted>>,
         files' \in {files, Removed({p})}, Settled(p[1]),
         \/ row[p[1]] = "none"
         \/ files[p] = "old" /\ p[2] \notin {"raw"} \cup refs[p[1]]
  PROVE  /\ MsgInv' /\ files' \in [Paths -> {"none", "young", "old"}]
         /\ \A q \in Paths : files'[q] \in {files[q], "none"}
<1>1. Typed
  BY Zenon DEF IInv
<1>2. /\ \A q \in Paths : files'[q] \in {files[q], "none"} /\ (q # p => files'[q] = files[q])
      /\ files' \in [Paths -> {"none", "young", "old"}]
  <2>1. CASE files' = files
    BY <1>1, <2>1, Zenon DEF Typed
  <2>2. CASE files' = Removed({p})
    BY <1>1, <2>2, FileEffects
  <2> QED BY <2>1, <2>2, Zenon
<1>3. ASSUME NEW u \in Msgs
      PROVE  AcceptInv(u)' /\ RowInv(u)' /\ ParseInv(u)' /\ DeadInv(u)'
  <2>1. AcceptInv(u) /\ RowInv(u) /\ ParseInv(u) /\ DeadInv(u)
    BY Zenon DEF IInv, MsgInv
  <2>2. /\ refs[u] \subseteq Kinds /\ gen[u] \subseteq Kinds
        /\ "raw" \in Kinds /\ "body" \in Kinds /\ "manifest" \in Kinds
    BY <1>1, KindsOf, Zenon
  <2>3. \A k \in Kinds : <<u, k>> \in Paths
    BY PathFacts, Zenon
  <2>4. CASE u # p[1]
    <3>1. \A k \in Kinds : <<u, k>> # p
      BY <2>4
    <3>2. Same(u)
      BY <1>2, <2>3, <3>1, Zenon DEF Same
    <3> QED BY <3>2, SameKeeps, Zenon
  <2>5. CASE u = p[1]
    <3>1. p = <<u, p[2]>>
      BY <2>5, PathFacts, Zenon
    <3>2. \A k \in Kinds : k # p[2] => files'[<<u, k>>] = files[<<u, k>>]
      BY <1>2, <2>3, <3>1 DEF Paths
    <3>3. AcceptInv(u)'
      BY <2>5, Zenon DEF AcceptInv, Settled
    <3>4. RowInv(u)'
      <4>1. row[u] # "none" => \A k \in {"raw"} \cup refs[u] : k \in Kinds /\ k # p[2]
        BY <2>2, <2>5, Zenon
      <4>2. row[u] # "none" => \A k \in {"raw"} \cup refs[u] : On(<<u, k>>)'
        BY <2>1, <3>2, <4>1, Zenon DEF RowInv, On
      <4> QED BY <2>1, <4>2, Zenon DEF RowInv, Settled
    <3>5. ParseInv(u)'
      <4>1. CASE row[u] = "none"
        BY <2>1, <4>1, Zenon DEF ParseInv
      <4>2. CASE files[p] = "old" /\ row[u] # "none"
        <5>1. task[u] = "wrote" => \A k \in {"body"} \cup gen[u] : files'[<<u, k>>] = "young"
          <6>1. SUFFICES ASSUME task[u] = "wrote", NEW k \in {"body"} \cup gen[u]
                         PROVE  files'[<<u, k>>] = "young"
            BY Zenon
          <6>2. files[<<u, k>>] = "young" /\ k \in Kinds
            BY <2>1, <2>2, <6>1, Zenon DEF ParseInv
          <6>3. k # p[2]
            BY <3>1, <4>2, <6>2, Zenon
          <6> QED BY <3>2, <6>2, <6>3, Zenon
        <5> QED BY <2>1, <5>1, Zenon DEF ParseInv
      <4> QED BY <2>5, <4>1, <4>2, Zenon
    <3>6. \A k \in Kinds : On(<<u, k>>)' => On(<<u, k>>)
      BY <1>2, <2>3, Zenon DEF On
    <3>7. DeadInv(u)'
      BY <2>1, <2>2, <3>6, Zenon DEF DeadInv, Buried, Covered, Settled
    <3> QED BY <3>3, <3>4, <3>5, <3>7, Zenon
  <2> QED BY <2>4, <2>5, Zenon
<1> QED BY <1>2, <1>3, Zenon DEF MsgInv

LEMMA CoveredUnlink ==
  ASSUME IInv, pc \notin {"clear_files", "clear_manifests"}, UNCHANGED <<tomb, deleted>>,
         \A q \in Paths : files'[q] \in {files[q], "none"}
  PROVE  \A m \in deleted' : Covered(m)'
<1>1. \A m \in deleted : m \in Msgs /\ Covered(m)
  BY DeletedCovered, Zenon
<1>2. \A m \in Msgs : On(<<m, "manifest">>)' => On(<<m, "manifest">>)
  BY PathFacts, Zenon DEF On, Kinds
<1> QED BY <1>1, <1>2, Zenon DEF Covered

LEMMA GcUnlinkStep ==
  ASSUME IInv, NEW p \in Paths, GcUnlink(p)
  PROVE  IInv'
<1>1. /\ pc = "unlink" /\ pc' = pc /\ p \in sel /\ sel' = sel \ {p} /\ batch' = batch
      /\ UNCHANGED <<acc, row, refs, dlv, tomb, task, gen, victims, gate, deleted>>
      /\ \/ files' = Removed({p}) /\ ok' = ok \cup {p} /\ bad' = bad
         \/ files' = files /\ bad' = bad \cup {p} /\ ok' = ok
  BY Zenon DEF GcUnlink, store, disk, parser
<1>2. /\ Typed /\ sel \subseteq Paths
      /\ (\A q \in sel \cup ok \cup bad : tomb[q] # "none") /\ \A q \in ok : ~On(q)
  BY <1>1, Zenon DEF IInv, Typed, LockInv, GcInv
<1>3. Settled(p[1]) /\ row[p[1]] = "none"
  <2>1. p[1] \in Msgs /\ p[2] \in Kinds /\ p = <<p[1], p[2]>> /\ tomb[p] # "none"
    BY <1>1, <1>2, PathFacts, Zenon
  <2>2. PICK m \in Msgs, k \in Kinds : m = p[1] /\ p = <<m, k>>
    BY <2>1, Zenon
  <2>3. DeadInv(m)
    BY Zenon DEF IInv, MsgInv
  <2> QED BY <2>1, <2>2, <2>3, Zenon DEF DeadInv, Buried
<1>4. /\ MsgInv' /\ files' \in [Paths -> {"none", "young", "old"}]
      /\ \A q \in Paths : files'[q] \in {files[q], "none"}
  BY <1>1, <1>3, HarmlessUnlink, Zenon
<1>5. \A m \in deleted' : Covered(m)'
  BY <1>1, <1>4, CoveredUnlink, Zenon
<1>6. Typed'
  <2>1. Held'
    BY <1>1, <1>2, Zenon DEF Held, Typed
  <2> QED BY <1>1, <1>2, <1>4, <2>1, Zenon DEF Typed, Held
<1>7. \A q \in ok' : ~On(q)'
  <2>1. \A q \in ok : ~On(q)'
    BY <1>2, <1>4, Zenon DEF On, Typed
  <2>2. files' = Removed({p}) => ~On(p)'
    BY <1>2, FileEffects DEF On
  <2> QED BY <1>1, <2>1, <2>2, Zenon
<1>8. \A q \in sel' \cup ok' \cup bad' : tomb'[q] # "none"
  BY <1>1, <1>2, Zenon
<1>9. LockInv'
  BY <1>1, <1>5, <1>7, <1>8, Zenon DEF LockInv, RecoverInv, RetainInv, GcInv, SweepInv, ClearInv
<1> QED BY <1>4, <1>6, <1>9, Zenon DEF IInv

\* apply_outcomes drops the tombstones of files that are gone.
LEMMA GcApplyStep ==
  ASSUME IInv, GcApply
  PROVE  IInv'
<1>1. /\ pc = "unlink" /\ pc' = "sweep" /\ sel' = {} /\ ok' = {} /\ bad' = {} /\ batch' = {}
      /\ tomb' = [p \in Paths |-> IF p \in ok THEN "none"
                                  ELSE IF p \in bad THEN "waiting" ELSE tomb[p]]
      /\ UNCHANGED <<acc, row, refs, dlv, files, task, gen, victims, gate, deleted>>
  BY Zenon DEF GcApply, Hold, disk, parser
<1>2. Typed /\ (\A q \in bad : tomb[q] # "none") /\ \A q \in ok : ~On(q)
  BY <1>1, Zenon DEF IInv, LockInv, GcInv
<1>3. /\ tomb' \in [Paths -> {"none", "new", "waiting", "due"}]
      /\ \A q \in Paths : /\ tomb'[q] # "none" => tomb[q] # "none"
                          /\ tomb'[q] = "none" => tomb[q] = "none" \/ ~On(q)
  BY <1>1, <1>2, Zenon DEF Typed
<1>4. \A m \in Msgs : (Buried(m)' => Buried(m)) /\ (Covered(m) => Covered(m)')
  <2>1. "manifest" \in Kinds /\ \A m \in Msgs, k \in Kinds : <<m, k>> \in Paths
    BY PathFacts, Zenon DEF Kinds
  <2> QED BY <1>1, <1>3, <2>1, Zenon DEF Buried, Covered, On
<1>5. ASSUME NEW u \in Msgs
      PROVE  AcceptInv(u)' /\ RowInv(u)' /\ ParseInv(u)' /\ DeadInv(u)'
  <2>1. AcceptInv(u) /\ RowInv(u) /\ ParseInv(u) /\ DeadInv(u)
    BY Zenon DEF IInv, MsgInv
  <2>2. AcceptInv(u)' /\ RowInv(u)' /\ ParseInv(u)'
    BY <1>1, <2>1, Zenon DEF AcceptInv, RowInv, ParseInv, On, Settled
  <2>3. DeadInv(u)'
    BY <1>1, <1>4, <2>1, Zenon DEF DeadInv, Settled
  <2> QED BY <2>2, <2>3, Zenon
<1>6. \A m \in deleted' : Covered(m)'
  <2>1. \A m \in deleted : m \in Msgs /\ Covered(m)
    BY <1>1, DeletedCovered, Zenon
  <2> QED BY <1>1, <1>4, <2>1, Zenon
<1>7. LockInv'
  BY <1>1, <1>6, NothingHeld, Zenon
<1>8. Typed'
  <2>1. Held'
    BY <1>1, Zenon DEF Held
  <2> QED BY <1>1, <1>2, <1>3, <2>1, Zenon DEF Typed, Held
<1> QED BY <1>5, <1>7, <1>8, Zenon DEF IInv, MsgInv

LEMMA SweepUnlinkStep ==
  ASSUME IInv, NEW p \in Paths, SweepUnlink(p)
  PROVE  IInv'
<1>1. /\ pc = "remove" /\ p \in sel /\ sel' = sel \ {p}
      /\ files' = IF files[p] = "old" THEN Removed({p}) ELSE files
      /\ UNCHANGED <<acc, row, refs, dlv, tomb, task, gen, victims, pc, ok, bad, batch, gate, deleted>>
  BY Zenon DEF SweepUnlink, store, parser
<1>2. /\ Typed /\ sel \subseteq Paths
      /\ \A q \in sel :
           /\ q[2] # "manifest" /\ Settled(q[1])
           /\ files[q] = "old" => row[q[1]] = "none" \/ q[2] \notin {"raw"} \cup refs[q[1]]
  BY <1>1, Zenon DEF IInv, Typed, LockInv, SweepInv
<1>3. /\ MsgInv' /\ files' \in [Paths -> {"none", "young", "old"}]
      /\ \A q \in Paths : files'[q] \in {files[q], "none"}
  <2>1. CASE files[p] = "old"
    <3>1. /\ files' \in {files, Removed({p})} /\ Settled(p[1])
          /\ row[p[1]] = "none" \/ p[2] \notin {"raw"} \cup refs[p[1]]
      BY <1>1, <1>2, <2>1, Zenon
    <3> QED BY <1>1, <2>1, <3>1, HarmlessUnlink, Zenon
  <2>2. CASE files[p] # "old"
    <3>1. files' = files
      BY <1>1, <2>2, Zenon
    <3>2. \A u \in Msgs : Same(u)
      BY <1>1, <3>1, Zenon DEF Same
    <3>3. MsgInv'
      BY <3>2, SameKeeps, Zenon DEF MsgInv
    <3> QED BY <1>2, <3>1, <3>3, Zenon DEF Typed
  <2> QED BY <2>1, <2>2, Zenon
<1>4. \A m \in deleted' : Covered(m)'
  BY <1>1, <1>3, CoveredUnlink, Zenon
<1>5. Typed'
  <2>1. sel' \subseteq Paths
    BY <1>1, <1>2, Zenon
  <2>2. Held'
    BY <1>1, <1>2, <2>1, Zenon DEF Held, Typed
  <2> QED BY <1>1, <1>2, <1>3, <2>2, Zenon DEF Typed, Held
<1>6. ASSUME NEW q \in sel'
      PROVE  /\ q[2] # "manifest" /\ Settled(q[1])'
             /\ files'[q] = "old" => row'[q[1]] = "none" \/ q[2] \notin {"raw"} \cup refs'[q[1]]
  <2>1. q \in sel /\ q \in Paths /\ (files'[q] = "old" => files[q] = "old")
    BY <1>1, <1>2, <1>3, <1>6, Zenon
  <2> QED BY <1>1, <1>2, <2>1, Zenon DEF Settled
<1>7. LockInv'
  BY <1>1, <1>4, <1>6, Zenon DEF LockInv, RecoverInv, RetainInv, GcInv, SweepInv, ClearInv
<1> QED BY <1>3, <1>5, <1>7, Zenon DEF IInv

\* _clear_mail_tables: the workers have stopped, so nothing is parsed.
LEMMA ClearTablesStep ==
  ASSUME IInv, ClearTables
  PROVE  IInv'
<1>1. /\ pc = "clear_tables" /\ pc' = "clear_files" /\ Working = {}
      /\ sel' = {} /\ ok' = {} /\ bad' = {} /\ batch' = {}
      /\ deleted' = deleted \cup {m \in Msgs : row[m] # "none"}
      /\ row' = [m \in Msgs |-> "none"] /\ refs' = [m \in Msgs |-> {}]
      /\ dlv' = [m \in Msgs |-> [d \in Dlvs |-> "none"]] /\ tomb' = [p \in Paths |-> "none"]
      /\ UNCHANGED <<acc, files, task, gen, victims, gate>>
  BY Zenon DEF ClearTables, Hold, disk, parser
<1>2. /\ Typed /\ gate /\ \A m \in Msgs : acc[m] = "idle" \/ Settled(m)
  BY <1>1, Zenon DEF IInv, LockInv, ClearInv
<1>3. /\ row' \in [Msgs -> {"none", "pending", "parsed", "failed"}]
      /\ refs' \in [Msgs -> SUBSET Derived]
      /\ dlv' \in [Msgs -> [Dlvs -> {"none", "live", "expired", "deleted"}]]
      /\ tomb' \in [Paths -> {"none", "new", "waiting", "due"}]
      /\ \A m \in Msgs : /\ row'[m] = "none" /\ refs'[m] = {}
                         /\ \A d \in Dlvs : dlv'[m][d] = "none"
      /\ \A p \in Paths : tomb'[p] = "none"
      /\ \A m \in Msgs : task[m] \in {"none", "queued"}
  BY <1>1, Zenon DEF Working
<1>4. ASSUME NEW u \in Msgs
      PROVE  AcceptInv(u)' /\ RowInv(u)' /\ ParseInv(u)' /\ DeadInv(u)'
  <2>1. AcceptInv(u) /\ RowInv(u) /\ ParseInv(u) /\ DeadInv(u)
    BY Zenon DEF IInv, MsgInv
  <2>2. AcceptInv(u)'
    BY <1>1, <2>1, Zenon DEF AcceptInv, On
  <2>3. RowInv(u)'
    BY <1>3, Zenon DEF RowInv
  <2>4. ParseInv(u)'
    BY <1>1, <1>3 DEF ParseInv
  <2>5. ~Buried(u)'
    BY <1>3, PathFacts, Zenon DEF Buried
  <2>6. u \in deleted' => Settled(u)'
    BY <1>1, <2>1, Zenon DEF RowInv, DeadInv, Settled
  <2>7. DeadInv(u)'
    BY <1>3, <2>5, <2>6, Zenon DEF DeadInv
  <2> QED BY <2>2, <2>3, <2>4, <2>7, Zenon
<1>5. \A m \in Msgs : acc'[m] = "idle" \/ Settled(m)'
  BY <1>1, <1>2, Zenon DEF Settled
<1>6. LockInv'
  BY <1>1, <1>2, <1>3, <1>5, Zenon DEF LockInv, RecoverInv, RetainInv, GcInv, SweepInv, ClearInv
<1>7. Typed'
  <2>1. Held'
    BY <1>1, Zenon DEF Held
  <2>2. deleted' \subseteq Msgs
    BY <1>1, <1>2, Zenon DEF Typed
  <2> QED BY <1>1, <1>2, <1>3, <2>1, <2>2, Zenon DEF Typed, Held
<1> QED BY <1>4, <1>6, <1>7, Zenon DEF IInv, MsgInv

\* With no row left, removing files harms no message.
LEMMA ClearFilesStep ==
  ASSUME IInv, ClearFiles \/ ClearManifests
  PROVE  IInv'
<1>1. /\ pc \in {"clear_files", "clear_manifests"}
      /\ sel' = {} /\ ok' = {} /\ bad' = {} /\ batch' = {}
      /\ \/ pc' = "clear_manifests" /\ gate' = gate
         \/ pc' = "free" /\ files' = Removed(Paths)
      /\ \E ps : files' = Removed(ps)
      /\ UNCHANGED <<acc, row, refs, dlv, tomb, task, gen, victims, deleted>>
  BY Zenon DEF ClearFiles, ClearManifests, Release, Hold, store, parser
<1>2. /\ Typed /\ gate /\ (\A m \in Msgs : acc[m] = "idle" \/ Settled(m))
      /\ \A m \in Msgs : row[m] = "none"
  BY <1>1, Zenon DEF IInv, LockInv, ClearInv
<1>3. /\ files' \in [Paths -> {"none", "young", "old"}]
      /\ \A p \in Paths : files'[p] \in {files[p], "none"}
  <2>1. PICK ps : files' = Removed(ps)
    BY <1>1, Zenon
  <2>2. /\ Removed(ps) \in [Paths -> {"none", "young", "old"}]
        /\ \A p \in Paths : /\ p \in ps => Removed(ps)[p] = "none"
                            /\ p \notin ps => Removed(ps)[p] = files[p]
    BY <1>2, FileEffects, Zenon
  <2> QED BY <2>1, <2>2, Zenon
<1>4. \A m \in Msgs, k \in Kinds : On(<<m, k>>)' => On(<<m, k>>)
  <2>1. \A m \in Msgs, k \in Kinds : <<m, k>> \in Paths
    BY PathFacts, Zenon
  <2> QED BY <1>3, <2>1, Zenon DEF On
<1>5. ASSUME NEW u \in Msgs
      PROVE  AcceptInv(u)' /\ RowInv(u)' /\ ParseInv(u)' /\ DeadInv(u)'
  <2>1. AcceptInv(u) /\ RowInv(u) /\ ParseInv(u) /\ DeadInv(u) /\ row[u] = "none"
    BY <1>2, Zenon DEF IInv, MsgInv
  <2>2. task[u] # "wrote" /\ acc[u] \notin {"raw", "manifest"}
    BY <1>2, <2>1, Zenon DEF ParseInv, Settled
  <2>3. AcceptInv(u)'
    BY <1>1, <1>4, <2>1, <2>2, Zenon DEF AcceptInv
  <2>4. RowInv(u)'
    BY <1>1, <2>1, Zenon DEF RowInv
  <2>5. ParseInv(u)'
    BY <1>1, <2>1, <2>2, Zenon DEF ParseInv
  <2>6. "manifest" \in Kinds
    BY Zenon DEF Kinds
  <2>7. DeadInv(u)'
    BY <1>1, <1>4, <2>1, <2>6, Zenon DEF DeadInv, Buried, Covered, Settled
  <2> QED BY <2>3, <2>4, <2>5, <2>7, Zenon
<1>6. LockInv'
  <2>1. CASE pc' = "clear_manifests" /\ gate' = gate
    <3>1. \A m \in Msgs : (acc'[m] = "idle" \/ Settled(m)') /\ row'[m] = "none"
      BY <1>1, <1>2, Zenon DEF Settled
    <3> QED BY <1>2, <2>1, <3>1, Zenon DEF LockInv, RecoverInv, RetainInv, GcInv, SweepInv, ClearInv
  <2>2. CASE pc' = "free" /\ files' = Removed(Paths)
    <3>1. \A p \in Paths : ~On(p)'
      BY <1>2, <2>2, FileEffects, Zenon DEF On
    <3>2. "manifest" \in Kinds
      BY Zenon DEF Kinds
    <3>3. \A m \in Msgs : <<m, "manifest">> \in Paths
      BY <3>2, PathFacts, Zenon
    <3>4. deleted' \subseteq Msgs
      BY <1>1, <1>2, Zenon DEF Typed
    <3>5. \A m \in deleted' : Covered(m)'
      BY <3>1, <3>3, <3>4, Zenon DEF Covered
    <3> QED BY <2>2, <3>5, NothingHeld, Zenon
  <2> QED BY <1>1, <2>1, <2>2, Zenon
<1>7. Typed'
  <2>1. Held'
    BY <1>1, Zenon DEF Held
  <2> QED BY <1>1, <1>2, <1>3, <2>1, Zenon DEF Typed, Held
<1> QED BY <1>5, <1>6, <1>7, Zenon DEF IInv, MsgInv

LEMMA CrashStep ==
  ASSUME IInv, Crash
  PROVE  IInv'
<1>1. /\ acc' = [m \in Msgs |-> IF m \in Accepting THEN "lost" ELSE acc[m]]
      /\ task' = [m \in Msgs |-> "none"]
      /\ gen' = [m \in Msgs |-> {}] /\ victims' = [m \in Msgs |-> {}]
      /\ pc' = "free" /\ sel' = {} /\ ok' = {} /\ bad' = {} /\ batch' = {}
      /\ deleted' = IF pc \in {"clear_files", "clear_manifests"} THEN {} ELSE deleted
      /\ UNCHANGED <<row, refs, dlv, tomb, files>>
  BY Zenon DEF Crash, Release, Hold, store, disk
<1>2. Typed
  BY Zenon DEF IInv
<1>3. /\ acc' \in [Msgs -> {"idle", "raw", "manifest", "refusing", "discarding",
                            "done", "refused", "lost"}]
      /\ \A m \in Msgs : /\ acc'[m] = "idle" <=> acc[m] = "idle"
                         /\ acc'[m] \notin {"raw", "manifest"}
                         /\ Settled(m) => Settled(m)'
  BY <1>1, <1>2, Zenon DEF Typed, Accepting, Settled
<1>4. /\ task' \in [Msgs -> {"none", "queued", "loaded", "wrote", "broken", "applied"}]
      /\ gen' \in [Msgs -> SUBSET Gens] /\ victims' \in [Msgs -> SUBSET Gens]
      /\ \A m \in Msgs : task'[m] = "none" /\ victims'[m] = {}
  BY <1>1, Zenon
<1>5. deleted' \subseteq deleted /\ \A m \in deleted' : m \in Msgs /\ Covered(m)'
  <2>1. CASE pc \in {"clear_files", "clear_manifests"}
    BY <1>1, <2>1, Zenon
  <2>2. CASE pc \notin {"clear_files", "clear_manifests"}
    <3>1. \A m \in deleted : m \in Msgs /\ Covered(m)
      BY <2>2, DeletedCovered, Zenon
    <3> QED BY <1>1, <2>2, <3>1, Zenon DEF Covered, On
  <2> QED BY <2>1, <2>2, Zenon
<1>6. ASSUME NEW u \in Msgs
      PROVE  AcceptInv(u)' /\ RowInv(u)' /\ ParseInv(u)' /\ DeadInv(u)'
  <2>1. AcceptInv(u) /\ RowInv(u) /\ ParseInv(u) /\ DeadInv(u)
    BY Zenon DEF IInv, MsgInv
  <2>2. AcceptInv(u)'
    BY <1>1, <1>3, <2>1, Zenon DEF AcceptInv, On
  <2>3. RowInv(u)'
    BY <1>1, <1>3, <2>1, Zenon DEF RowInv, On
  <2>4. ParseInv(u)'
    BY <1>4, Zenon DEF ParseInv
  <2>5. DeadInv(u)'
    BY <1>1, <1>3, <1>5, <2>1, Zenon DEF DeadInv, Buried, Covered, On
  <2> QED BY <2>2, <2>3, <2>4, <2>5, Zenon
<1>7. LockInv'
  BY <1>1, <1>5, NothingHeld, Zenon
<1>8. Typed'
  <2>1. Held'
    BY <1>1, Zenon DEF Held
  <2>2. deleted' \subseteq Msgs
    BY <1>5, Zenon
  <2> QED BY <1>1, <1>2, <1>3, <1>4, <2>1, <2>2, Zenon DEF Typed, Held
<1> QED BY <1>6, <1>7, <1>8, Zenon DEF IInv, MsgInv

-----------------------------------------------------------------------------
(* The induction. *)

LEMMA InitHolds == Init => IInv
<1> SUFFICES ASSUME Init PROVE IInv
  OBVIOUS
<1>1. Typed
  BY Zenon DEF Init, Typed
<1>2. /\ \A m \in Msgs : acc[m] = "idle" /\ row[m] = "none" /\ refs[m] = {} /\ task[m] = "none"
                         /\ victims[m] = {} /\ \A d \in Dlvs : dlv[m][d] = "none"
      /\ \A p \in Paths : ~On(p) /\ tomb[p] = "none"
      /\ pc = "free" /\ deleted = {}
  BY Zenon DEF Init, On
<1>3. \A m \in Msgs, k \in Kinds : <<m, k>> \in Paths
  BY PathFacts, Zenon
<1>4. ASSUME NEW m \in Msgs
      PROVE  AcceptInv(m) /\ RowInv(m) /\ ParseInv(m) /\ DeadInv(m)
  <2>1. /\ \A k \in Kinds : ~On(<<m, k>>) /\ tomb[<<m, k>>] = "none"
        /\ acc[m] = "idle" /\ row[m] = "none" /\ refs[m] = {} /\ task[m] = "none"
        /\ victims[m] = {} /\ m \notin deleted /\ \A d \in Dlvs : dlv[m][d] = "none"
    BY <1>2, <1>3, Zenon
  <2> QED BY <2>1, Zenon DEF AcceptInv, RowInv, ParseInv, DeadInv, Buried
<1>5. LockInv
  BY <1>2, Zenon DEF LockInv, RecoverInv, RetainInv, GcInv, SweepInv, ClearInv
<1> QED BY <1>1, <1>4, <1>5, Zenon DEF IInv, MsgInv

LEMMA NextKeeps ==
  ASSUME IInv, [Next]_vars
  PROVE  IInv'
<1>1. CASE \E m \in Msgs : Accept(m)
  BY <1>1, AcceptRawStep, AcceptFilesStep, AcceptCommitStep, Zenon DEF Accept
<1>2. CASE \E m \in Msgs : Parse(m)
  BY <1>2, ParseTaskStep, ParseWriteStep, ParseApplyStep, ParseCleanStep, Zenon DEF Parse
<1>3. CASE \E m \in Msgs : Api(m)
  BY <1>3, ReparseStep, DeliveryStep, Zenon DEF Api
<1>4. CASE PendingPage \/ Enqueue \/ RecoverRead \/ Recover
  BY <1>4, PageStep, QueueStep, RecoverReadStep, RecoverCheckStep, ReplayStep, Zenon DEF Recover
<1>5. CASE RetainSnapshot
  BY <1>5, RetainSnapshotStep, Zenon
<1>6. CASE Retain
  <2>1. CASE RetainDrop \/ RetainWait \/ RetainExpire \/ RetainEnd
    BY <2>1, QueueStep, RetainWaitStep, RetainExpireStep, PageStep, Zenon
  <2>2. CASE GcLoad \/ (\E p \in Paths : GcUnlink(p)) \/ GcApply
    BY <2>2, GcLoadStep, GcUnlinkStep, GcApplyStep, Zenon
  <2>3. CASE SweepSelect \/ SweepProtect \/ (\E p \in Paths : SweepUnlink(p))
    BY <2>3, SweepSelectStep, SweepProtectStep, SweepUnlinkStep, Zenon
  <2> QED BY <1>6, <2>1, <2>2, <2>3, Zenon DEF Retain
<1>7. CASE ClearGate \/ ClearStart \/ Clear
  BY <1>7, ClearGateStep, QueueStep, ClearTablesStep, ClearFilesStep, Zenon DEF Clear
<1>8. CASE (\E p \in Paths : BackoffEnds(p)) \/ Age \/ Crash
  BY <1>8, BackoffStep, AgeStep, CrashStep, Zenon
<1>9. CASE UNCHANGED vars
  <2>1. UNCHANGED Data /\ UNCHANGED <<pc, sel, ok, bad, batch, gate>>
    BY <1>9, Zenon DEF vars, store, disk, parser, owner, Data
  <2>2. Held'
    BY <2>1, Zenon DEF IInv, Typed, Held
  <2>3. \A u \in Msgs : Same(u)
    BY <2>1, Zenon DEF Same, Data
  <2>4. Rely
    BY <2>1, <2>3, SameRelies, Zenon DEF Rely, Data
  <2>5. LockInv'
    BY <2>4, RelyKeeps, Zenon
  <2> QED BY <2>1, <2>2, <2>5, OwnerStep, Zenon
<1> QED BY <1>1, <1>2, <1>3, <1>4, <1>5, <1>6, <1>7, <1>8, <1>9, Zenon DEF Next

-----------------------------------------------------------------------------
(* The results. *)

\* IInv holds of every reachable state, for any constants.
THEOREM StoreInvariant == Spec => []IInv
<1>1. Init => IInv
  BY InitHolds, Zenon
<1>2. IInv /\ [Next]_vars => IInv'
  BY NextKeeps, Zenon
<1> QED BY <1>1, <1>2, PTL DEF Spec

\* Every file a message's row names is on disk: no unlink of the sweep, the
\* outbox, a parse or a clear-all takes a file that a row still names.
THEOREM RowsHaveFilesAlways == Spec => []RowsHaveFiles
<1>1. IInv => RowsHaveFiles
  BY Zenon DEF IInv, MsgInv, RowInv, RowsHaveFiles
<1> QED BY <1>1, StoreInvariant, PTL

\* No worker parses a message whose row retention or clear-all removed.
THEOREM RetiredIsQuietAlways == Spec => []RetiredIsQuiet
<1>1. IInv => RetiredIsQuiet
  BY Zenon DEF IInv, MsgInv, ParseInv, RetiredIsQuiet, Working
<1> QED BY <1>1, StoreInvariant, PTL

\* Recovery brings no deleted message back, whatever part of its collection a
\* crash cuts.
THEOREM DeletedStaysDeletedAlways == Spec => []DeletedStaysDeleted
<1>1. IInv => DeletedStaysDeleted
  BY Zenon DEF IInv, Typed, MsgInv, DeadInv, DeletedStaysDeleted
<1> QED BY <1>1, StoreInvariant, PTL
=============================================================================
