------------------------------- MODULE MailStore -------------------------------
(***************************************************************************)
(* The Python runtime's custody of stored mail (runtime.py): a message is  *)
(* accepted, parsed by a worker, parsed again on request, rebuilt from its *)
(* manifest, expired delivery by delivery, and its files are removed       *)
(* through the file_gc_tasks outbox or by the orphan sweep.  Retention,    *)
(* recovery, reparse, the pending scan and clear-all run under             *)
(* _mail_store_lock; the parser workers, the accept path and the API do    *)
(* not.  The process may crash between any two steps.                      *)
(*                                                                         *)
(* All messages were received on one day, so their raw files share a       *)
(* directory and so do their manifests and bodies; attachments have a      *)
(* directory per message and a new name for every parse.                   *)
(***************************************************************************)
EXTENDS Integers, FiniteSets, FiniteSetsExt

CONSTANTS
  Msgs, Dlvs,      \* messages, and the deliveries of each
  Gens,            \* names the parses of a message give its attachment
  Workers,         \* PARSE_WORKERS
  MaxMessages,     \* budget of the parse queue
  CleanupBatch, GcBatch,  \* CLEANUP_BATCH_SIZE, FILE_GC_BATCH_SIZE
  Reparsable,      \* bound: messages the API reparses
  Expirable,       \* bound: messages whose deliveries expire or are deleted
  MaxClears,       \* bound: clear-all requests
  MaxFaults,       \* bound: failed unlinks, parses and transactions
  MaxCrashes       \* bound: crashes of the Python process

ASSUME StoreConstants ==
  /\ Reparsable \subseteq Msgs /\ Expirable \subseteq Msgs
  /\ Gens \cap {"body", "raw", "manifest"} = {}
  /\ {Workers, MaxMessages, CleanupBatch, GcBatch} \subseteq Nat \ {0}
  /\ {MaxClears, MaxFaults, MaxCrashes} \subseteq Nat

VARIABLES
  acc,           \* per message: step of accept_message
  row, refs,     \* messages.parse_status; its body and attachment columns
  dlv,           \* per message and delivery: status and expiry
  files, dirs,   \* files by age; the directories that exist
  tomb,          \* file_gc_tasks: new, waiting for its next attempt, or due
  task,          \* the parse queue: the reservation of a message, and its step
  gen, victims,  \* attachment a parse wrote; attachments its commit replaced
  pc, sel, ok, bad,  \* the owner of _mail_store_lock, its step and its work
  batch,         \* snapshot of due deliveries
  gate,          \* _mail_maintenance_active
  deleted,       \* history: messages retention or clear-all deleted, but none
                 \* of those from before a clear-all that a crash cut short
  reparses, clears, faults, crashes

store == <<row, refs, dlv, tomb>>
disk == <<files, dirs>>
parser == <<task, gen, victims>>
owner == <<pc, sel, ok, bad, batch>>
bounds == <<reparses, clears, faults, crashes>>
vars == <<acc, store, disk, parser, owner, gate, deleted, bounds>>

Derived == {"body"} \cup Gens
Paths == Msgs \X ({"manifest", "raw"} \cup Derived)
Dir(p) == IF p[2] \in Gens THEN <<"attachments", p[1]>> ELSE <<p[2]>>
On(p) == files[p] # "none"
Written(ps) == [p \in Paths |-> IF p \in ps THEN "young" ELSE files[p]]
Removed(ps) == [p \in Paths |-> IF p \in ps THEN "none" ELSE files[p]]
Reserved == {m \in Msgs : task[m] # "none"}
Working == {m \in Msgs : task[m] \notin {"none", "queued"}}
Accepting == {m \in Msgs : acc[m] \in {"raw", "manifest", "refusing", "discarding"}}
Fault == faults < MaxFaults /\ faults' = faults + 1

Init ==
  /\ acc = [m \in Msgs |-> "idle"]
  /\ row = [m \in Msgs |-> "none"] /\ refs = [m \in Msgs |-> {}]
  /\ dlv = [m \in Msgs |-> [d \in Dlvs |-> "none"]]
  /\ files = [p \in Paths |-> "none"] /\ dirs = {} /\ tomb = [p \in Paths |-> "none"]
  /\ task = [m \in Msgs |-> "none"]
  /\ gen = [m \in Msgs |-> {}] /\ victims = [m \in Msgs |-> {}]
  /\ pc = "free" /\ sel = {} /\ ok = {} /\ bad = {} /\ batch = {}
  /\ gate = FALSE /\ deleted = {}
  /\ reparses = {} /\ clears = 0 /\ faults = 0 /\ crashes = 0

-----------------------------------------------------------------------------
(* The parse queue's admission, and accept_message. *)

(* try_enqueue of several tasks: duplicates are refused, the rest fill the  *)
(* budget.                                                                  *)
TryEnqueue(ms) ==
  LET fresh == ms \ Reserved
      room == MaxMessages - Cardinality(Reserved)
  IN \E new \in kSubset(Min({room, Cardinality(fresh)}), fresh) :
       task' = [m \in Msgs |-> IF m \in new THEN "queued" ELSE task[m]]

(* _write_accept_artifacts: raw, then manifest.  A new id is active from    *)
(* here until accept_message returns; clear-all keeps it waiting.           *)
AcceptRaw(m) ==
  /\ acc[m] = "idle" /\ ~gate
  /\ acc' = [acc EXCEPT ![m] = "raw"]
  /\ files' = Written({<<m, "raw">>}) /\ dirs' = dirs \cup {Dir(<<m, "raw">>)}
  /\ UNCHANGED <<store, parser, owner, gate, deleted, bounds>>

AcceptManifest(m) ==
  /\ acc[m] = "raw"
  /\ acc' = [acc EXCEPT ![m] = "manifest"]
  /\ files' = Written({<<m, "manifest">>}) /\ dirs' = dirs \cup {Dir(<<m, "manifest">>)}
  /\ UNCHANGED <<store, parser, owner, gate, deleted, bounds>>

(* The metadata transaction and the enqueue: the callback that resumes      *)
(* accept_message is scheduled before that of any later transaction.        *)
AcceptCommit(m) ==
  /\ acc[m] = "manifest"
  /\ acc' = [acc EXCEPT ![m] = "done"]
  /\ row' = [row EXCEPT ![m] = "pending"]
  /\ dlv' = [dlv EXCEPT ![m] = [d \in Dlvs |-> "live"]]
  /\ TryEnqueue({m})
  /\ UNCHANGED <<refs, tomb, disk, gen, victims, owner, gate, deleted, bounds>>

(* The routing changed since RCPT: the artifacts go, manifest first, and    *)
(* the client is told 451.                                                  *)
AcceptRefuse(m) ==
  /\ acc[m] = "manifest"
  /\ acc' = [acc EXCEPT ![m] = "refusing"]
  /\ UNCHANGED <<store, disk, parser, owner, gate, deleted, bounds>>

DiscardArtifact(m) ==
  /\ \/ acc[m] = "refusing" /\ files' = Removed({<<m, "manifest">>})
        /\ acc' = [acc EXCEPT ![m] = "discarding"]
     \/ acc[m] = "discarding" /\ files' = Removed({<<m, "raw">>})
        /\ acc' = [acc EXCEPT ![m] = "refused"]
  /\ UNCHANGED <<store, dirs, parser, owner, gate, deleted, bounds>>

-----------------------------------------------------------------------------
(* A parser worker: _parse_message. *)

(* Bound: attachment names that are free, so that no name is used twice. *)
FreeNames(m) == {g \in Gens : ~On(<<m, g>>) /\ g \notin refs[m] /\ tomb[<<m, g>>] = "none"}

(* The row may have gone while the task was queued. *)
ParseStart(m) ==
  /\ task[m] = "queued" /\ Cardinality(Working) < Workers
  /\ Gens # {} => FreeNames(m) # {}
  /\ task' = [task EXCEPT ![m] = IF row[m] = "none" THEN "none" ELSE "loaded"]
  /\ UNCHANGED <<acc, store, disk, gen, victims, owner, gate, deleted, bounds>>

(* The body is replaced, an attachment gets a new name.  Nothing is written *)
(* when the raw file cannot be read; a parse may also fail half-way.        *)
ParseWrite(m) ==
  /\ task[m] = "loaded"
  /\ \/ /\ On(<<m, "raw">>)
        /\ \E g \in IF Gens = {} THEN {{}} ELSE {{x} : x \in FreeNames(m)} :
             /\ LET new == {<<m, k>> : k \in {"body"} \cup g}
                IN files' = Written(new) /\ dirs' = dirs \cup {Dir(p) : p \in new}
             /\ gen' = [gen EXCEPT ![m] = g]
             /\ \/ task' = [task EXCEPT ![m] = "wrote"] /\ UNCHANGED faults
                \/ task' = [task EXCEPT ![m] = "broken"] /\ Fault
     \/ /\ ~On(<<m, "raw">>)
        /\ task' = [task EXCEPT ![m] = "broken"]
        /\ UNCHANGED <<disk, gen, faults>>
  /\ UNCHANGED <<acc, store, victims, owner, gate, deleted, reparses, clears, crashes>>

(* _apply_parsed_message or _mark_message_parse_failed, one transaction.    *)
(* Neither creates a row; attachments of a missing row violate their        *)
(* foreign key, which ends the task like any other exception.               *)
ParseApply(m) ==
  /\ task[m] \in {"wrote", "broken"}
  /\ IF row[m] = "none" THEN UNCHANGED <<row, refs>> ELSE
       /\ row' = [row EXCEPT ![m] = IF task[m] = "wrote" THEN "parsed" ELSE "failed"]
       /\ refs' = [refs EXCEPT ![m] = IF task[m] = "wrote" THEN {"body"} \cup gen[m] ELSE {}]
  /\ victims' = [victims EXCEPT ![m] = refs[m] \cap Gens]
  /\ task' = [task EXCEPT ![m] = "applied"]
  /\ gen' = [gen EXCEPT ![m] = {}]
  /\ UNCHANGED <<acc, dlv, tomb, disk, owner, gate, deleted, bounds>>

(* The writer refuses the transaction; the row keeps its status. *)
ParseDies(m) ==
  /\ task[m] \in {"wrote", "broken"} /\ Fault
  /\ task' = [task EXCEPT ![m] = "none"] /\ gen' = [gen EXCEPT ![m] = {}]
  /\ UNCHANGED <<acc, store, disk, victims, owner, gate, deleted, reparses, clears, crashes>>

(* _delete_attachment_files, and the release of the reservation. *)
ParseClean(m) ==
  /\ task[m] = "applied"
  /\ files' = Removed({<<m, k>> : k \in victims[m]})
  /\ victims' = [victims EXCEPT ![m] = {}]
  /\ task' = [task EXCEPT ![m] = "none"]
  /\ UNCHANGED <<acc, store, dirs, gen, owner, gate, deleted, bounds>>

-----------------------------------------------------------------------------
(* The API and the clock. *)

(* A delivery's expires_at passes, or the API deletes it. *)
Expire(m, d) ==
  /\ m \in Expirable /\ dlv[m][d] = "live"
  /\ dlv' = [dlv EXCEPT ![m][d] = "expired"]
  /\ UNCHANGED <<acc, row, refs, tomb, disk, parser, owner, gate, deleted, bounds>>

DeleteDelivery(m, d) ==
  /\ m \in Expirable /\ dlv[m][d] \in {"live", "expired"}
  /\ dlv' = [dlv EXCEPT ![m][d] = "deleted"]
  /\ UNCHANGED <<acc, row, refs, tomb, disk, parser, owner, gate, deleted, bounds>>

BackoffEnds(p) ==
  /\ tomb[p] = "waiting"
  /\ tomb' = [tomb EXCEPT ![p] = "due"]
  /\ UNCHANGED <<acc, row, refs, dlv, disk, parser, owner, gate, deleted, bounds>>

(* ORPHAN_ARTIFACT_GRACE_SECONDS pass; no accept, parse or pass is that     *)
(* slow.                                                                    *)
Age ==
  /\ pc = "free" /\ Working = {} /\ Accepting = {} /\ \E p \in Paths : files[p] = "young"
  /\ files' = [p \in Paths |-> IF On(p) THEN "old" ELSE "none"]
  /\ UNCHANGED <<acc, store, dirs, parser, owner, gate, deleted, bounds>>

-----------------------------------------------------------------------------
(* Owners of _mail_store_lock that feed the parse queue. *)

Hold(step, work) ==
  /\ pc' = step /\ sel' = work
  /\ ok' = {} /\ bad' = {} /\ batch' = {}
Release == Hold("free", {})

(* reparse_message: the transaction, then the enqueue. *)
Reparse(m) ==
  /\ pc = "free" /\ m \in Reparsable \ reparses /\ row[m] # "none"
  /\ row' = [row EXCEPT ![m] = "pending"]
  /\ reparses' = reparses \cup {m}
  /\ Hold("enqueue", {m})
  /\ UNCHANGED <<acc, refs, dlv, tomb, disk, parser, gate, deleted, clears, faults, crashes>>

(* requeue_pending_messages_for_parse: a page of the durable pending set. *)
PendingPage ==
  /\ pc = "free" /\ \E m \in Msgs : row[m] = "pending" /\ task[m] = "none"
  /\ Hold("enqueue", {m \in Msgs : row[m] = "pending"})
  /\ UNCHANGED <<acc, store, disk, parser, gate, deleted, bounds>>

Enqueue ==
  /\ pc = "enqueue"
  /\ TryEnqueue(sel)
  /\ Release
  /\ UNCHANGED <<acc, store, disk, gen, victims, gate, deleted, bounds>>

-----------------------------------------------------------------------------
(* Faulty variant: the outbox is not asked. *)
RetiredNever(m) == FALSE

(* recover_missing_manifests: a message with file-GC tasks was deleted. *)
Retired(m) == tomb[<<m, "manifest">>] # "none" \/ tomb[<<m, "raw">>] # "none"

(* Manifests that no row and no tombstone covers are read ... *)
RecoverRead ==
  /\ pc = "free"
  /\ LET missing == {m \in Msgs : On(<<m, "manifest">>) /\ row[m] = "none" /\ ~Retired(m)}
     IN missing # {} /\ Hold("recover", missing)
  /\ UNCHANGED <<acc, store, disk, parser, gate, deleted, bounds>>

(* ... then the ids being accepted are left for later, and the ones whose   *)
(* raw file is missing quarantined.                                         *)
RecoverCheck ==
  /\ pc = "recover"
  /\ LET idle == sel \ Accepting
         damaged == {m \in idle : ~On(<<m, "raw">>)}
     IN /\ files' = Removed({<<m, "manifest">> : m \in damaged})
        /\ Hold("replay", idle \ damaged)
  /\ UNCHANGED <<acc, store, dirs, parser, gate, deleted, bounds>>

(* _apply_recovery_manifest asks for tombstones again; its inserts ignore   *)
(* rows that exist, and the message is parsed in either case.               *)
Replay(m) ==
  /\ pc = "replay" /\ m \in sel
  /\ IF Retired(m) THEN UNCHANGED <<row, dlv, task>> ELSE
       /\ row' = [row EXCEPT ![m] = IF @ = "none" THEN "pending" ELSE @]
       /\ dlv' = [dlv EXCEPT ![m] = IF row[m] = "none" THEN [d \in Dlvs |-> "live"] ELSE @]
       /\ TryEnqueue({m})
  /\ sel' = sel \ {m}
  /\ UNCHANGED <<acc, refs, tomb, disk, gen, victims, pc, ok, bad, batch, gate, deleted, bounds>>

RecoverEnd ==
  /\ pc = "replay" /\ sel = {}
  /\ Release
  /\ UNCHANGED <<acc, store, disk, parser, gate, deleted, bounds>>

-----------------------------------------------------------------------------
(* cleanup_expired_messages. *)

(* Due deliveries with the status they have now. *)
Due == {x \in Msgs \X Dlvs \X {"expired", "deleted"} : dlv[x[1]][x[2]] = x[3]}
(* Messages a batch can orphan. *)
FullyExpiring(b) ==
  {m \in Msgs : /\ \E x \in b : x[1] = m
                /\ \A d \in Dlvs : dlv[m][d] # "none" => \E x \in b : x[1] = m /\ x[2] = d}

(* _expiration_batch_snapshot. *)
RetainSnapshot ==
  /\ pc = "free"
  /\ \E b \in kSubset(Min({CleanupBatch, Cardinality(Due)}), Due) :
       /\ batch' = b /\ sel' = FullyExpiring(b)
       /\ pc' = "drop" /\ ok' = {} /\ bad' = {}
  /\ UNCHANGED <<acc, store, disk, parser, gate, deleted, bounds>>

(* remove_pending. *)
RetainDrop ==
  /\ pc = "drop"
  /\ task' = [m \in Msgs |-> IF m \in sel /\ task[m] = "queued" THEN "none" ELSE task[m]]
  /\ pc' = "wait"
  /\ UNCHANGED <<acc, store, disk, gen, victims, sel, ok, bad, batch, gate, deleted, bounds>>

(* Faulty variant: wait_until_not_active is not called. *)
RetainWaitNot ==
  /\ pc = "wait"
  /\ pc' = "expire"
  /\ UNCHANGED <<acc, store, disk, parser, sel, ok, bad, batch, gate, deleted, bounds>>

(* wait_until_not_active. *)
RetainWait ==
  /\ pc = "wait" /\ sel \cap Working = {}
  /\ pc' = "expire"
  /\ UNCHANGED <<acc, store, disk, parser, sel, ok, bad, batch, gate, deleted, bounds>>

(* What a message's row says of its files, and its manifest. *)
FilesOf(m) == {<<m, k>> : k \in {"raw", "manifest"} \cup refs[m]}

(* Only deliveries that still have the status of the snapshot go. *)
Expiring == {x \in batch : dlv[x[1]][x[2]] = x[3]}

(* _expire_delivery_batch: deliveries, the messages they orphan, and the    *)
(* tombstones of their files, in one transaction.                           *)
RetainExpire ==
  /\ pc = "expire"
  /\ LET gone == {<<x[1], x[2]>> : x \in Expiring}
         left == [m \in Msgs |-> [d \in Dlvs |-> IF <<m, d>> \in gone THEN "none" ELSE dlv[m][d]]]
         orphans == {m \in Msgs : /\ \E d \in Dlvs : <<m, d>> \in gone
                                  /\ \A d \in Dlvs : left[m][d] = "none"}
         paths == UNION {FilesOf(m) : m \in orphans}
     IN /\ dlv' = left
        /\ row' = [m \in Msgs |-> IF m \in orphans THEN "none" ELSE row[m]]
        /\ refs' = [m \in Msgs |-> IF m \in orphans THEN {} ELSE refs[m]]
        /\ tomb' = [p \in Paths |-> IF p \in paths /\ tomb[p] = "none" THEN "new" ELSE tomb[p]]
        /\ deleted' = deleted \cup orphans
  /\ Hold("gc", {})
  /\ UNCHANGED <<acc, disk, parser, gate, bounds>>

(* _load_due_file_gc_tasks: both streams, alternating, new ones first. *)
GcLoad ==
  /\ pc = "gc"
  /\ LET new == {p \in Paths : tomb[p] = "new"}
         due == {p \in Paths : tomb[p] = "due"}
         n == Min({Cardinality(new),
                   Max({GcBatch - GcBatch \div 2, GcBatch - Cardinality(due)})})
     IN \E a \in kSubset(n, new), b \in kSubset(Min({GcBatch - n, Cardinality(due)}), due) :
          Hold("unlink", a \cup b)
  /\ UNCHANGED <<acc, store, disk, parser, gate, deleted, bounds>>

(* _safe_unlink_gc_path: a missing file is fine, a missing directory an     *)
(* error; the last file of a directory takes the directory with it.         *)
GcUnlink(p) ==
  /\ pc = "unlink" /\ p \in sel
  /\ sel' = sel \ {p}
  /\ \/ /\ Dir(p) \in dirs
        /\ files' = Removed({p})
        /\ dirs' = IF On(p) /\ \A q \in Paths \ {p} : Dir(q) = Dir(p) => ~On(q)
                   THEN dirs \ {Dir(p)} ELSE dirs
        /\ ok' = ok \cup {p} /\ UNCHANGED <<bad, faults>>
     \/ /\ Dir(p) \notin dirs
        /\ bad' = bad \cup {p} /\ UNCHANGED <<disk, ok, faults>>
     \/ /\ On(p) /\ Fault
        /\ bad' = bad \cup {p} /\ UNCHANGED <<disk, ok>>
  /\ UNCHANGED <<acc, store, parser, pc, batch, gate, deleted, reparses, clears, crashes>>

(* apply_outcomes. *)
GcApply ==
  /\ pc = "unlink" /\ sel = {}
  /\ tomb' = [p \in Paths |-> IF p \in ok THEN "none"
                              ELSE IF p \in bad THEN "waiting" ELSE tomb[p]]
  /\ Hold("sweep", {})
  /\ UNCHANGED <<acc, row, refs, dlv, disk, parser, gate, deleted, bounds>>

(* _select_artifact_sweep_candidates; one batch covers the tree. *)
SweepSelect ==
  /\ pc = "sweep"
  /\ Hold("protect", {p \in Paths : files[p] = "old" /\ p[2] # "manifest"})
  /\ UNCHANGED <<acc, store, disk, parser, gate, deleted, bounds>>

(* Faulty variant: whatever belongs to a stored message is protected. *)
ProtectedByMessage(p) == row[p[1]] # "none" \/ tomb[p] # "none" \/ p[1] \in Accepting

(* _protected_artifact_paths; a manifest written by this process names its  *)
(* raw file only.                                                           *)
Protected(p) ==
  \/ row[p[1]] # "none" /\ p[2] \in {"raw"} \cup refs[p[1]]
  \/ tomb[p] # "none" \/ p[1] \in Accepting
  \/ On(<<p[1], "manifest">>) /\ p[2] = "raw"

SweepProtect ==
  /\ pc = "protect"
  /\ Hold("remove", {p \in sel : ~Protected(p)})
  /\ UNCHANGED <<acc, store, disk, parser, gate, deleted, bounds>>

(* _safe_unlink_sweep_candidate: a file rewritten since the selection has   *)
(* another signature.                                                       *)
SweepUnlink(p) ==
  /\ pc = "remove" /\ p \in sel
  /\ files' = IF files[p] = "old" THEN Removed({p}) ELSE files
  /\ sel' = sel \ {p}
  /\ UNCHANGED <<acc, store, dirs, parser, pc, ok, bad, batch, gate, deleted, bounds>>

RetainEnd ==
  /\ pc = "remove" /\ sel = {}
  /\ Release
  /\ UNCHANGED <<acc, store, disk, parser, gate, deleted, bounds>>

-----------------------------------------------------------------------------
(* clear_all_mail, after ingestd has drained. *)

(* _begin_mail_maintenance. *)
ClearGate ==
  /\ ~gate /\ clears < MaxClears
  /\ gate' = TRUE /\ clears' = clears + 1
  /\ UNCHANGED <<acc, store, disk, parser, owner, deleted, reparses, faults, crashes>>

(* Faulty variant: accepts in progress are not waited for. *)
ClearStartEarly ==
  /\ gate /\ pc = "free"
  /\ task' = [m \in Msgs |-> IF task[m] = "queued" THEN "none" ELSE task[m]]
  /\ Hold("clear_tables", {})
  /\ UNCHANGED <<acc, store, disk, gen, victims, gate, deleted, bounds>>

(* The lock, clear_pending, and ParseQueue.stop's sentinels. *)
ClearStart ==
  /\ gate /\ Accepting = {} /\ pc = "free"
  /\ task' = [m \in Msgs |-> IF task[m] = "queued" THEN "none" ELSE task[m]]
  /\ Hold("clear_tables", {})
  /\ UNCHANGED <<acc, store, disk, gen, victims, gate, deleted, bounds>>

(* _clear_mail_tables, once the workers have stopped. *)
ClearTables ==
  /\ pc = "clear_tables" /\ Working = {}
  /\ deleted' = deleted \cup {m \in Msgs : row[m] # "none"}
  /\ row' = [m \in Msgs |-> "none"] /\ refs' = [m \in Msgs |-> {}]
  /\ dlv' = [m \in Msgs |-> [d \in Dlvs |-> "none"]] /\ tomb' = [p \in Paths |-> "none"]
  /\ Hold("clear_files", {})
  /\ UNCHANGED <<acc, disk, parser, gate, bounds>>

(* clear_mail_data moves the directories, manifests after the mail. *)
ClearFiles ==
  /\ pc = "clear_files"
  /\ files' = Removed({p \in Paths : p[2] # "manifest"})
  /\ dirs' = dirs \ {Dir(p) : p \in {q \in Paths : q[2] # "manifest"}}
  /\ Hold("clear_manifests", {})
  /\ UNCHANGED <<acc, store, parser, gate, deleted, bounds>>

ClearManifests ==
  /\ pc = "clear_manifests"
  /\ files' = Removed(Paths) /\ dirs' = {}
  /\ Release /\ gate' = FALSE
  /\ UNCHANGED <<acc, store, parser, deleted, bounds>>

(* The process dies; what was only in memory is gone. *)
Crash ==
  /\ crashes < MaxCrashes
  /\ crashes' = crashes + 1
  /\ acc' = [m \in Msgs |-> IF m \in Accepting THEN "lost" ELSE acc[m]]
  /\ task' = [m \in Msgs |-> "none"]
  /\ gen' = [m \in Msgs |-> {}] /\ victims' = [m \in Msgs |-> {}]
  /\ Release /\ gate' = FALSE
  /\ deleted' = IF pc \in {"clear_files", "clear_manifests"} THEN {} ELSE deleted
  /\ UNCHANGED <<store, disk, reparses, clears, faults>>

Accept(m) == AcceptRaw(m) \/ AcceptManifest(m) \/ AcceptCommit(m) \/ AcceptRefuse(m)
             \/ DiscardArtifact(m)
Parse(m) == ParseStart(m) \/ ParseWrite(m) \/ ParseApply(m) \/ ParseDies(m) \/ ParseClean(m)
Api(m) == Reparse(m) \/ \E d \in Dlvs : Expire(m, d) \/ DeleteDelivery(m, d)
Recover == RecoverCheck \/ (\E m \in Msgs : Replay(m)) \/ RecoverEnd
Retain == RetainDrop \/ RetainWait \/ RetainExpire \/ GcLoad \/ (\E p \in Paths : GcUnlink(p))
          \/ GcApply \/ SweepSelect \/ SweepProtect \/ (\E p \in Paths : SweepUnlink(p)) \/ RetainEnd
Clear == ClearTables \/ ClearFiles \/ ClearManifests

Next ==
  \/ \E m \in Msgs : Accept(m) \/ Parse(m) \/ Api(m)
  \/ PendingPage \/ Enqueue \/ RecoverRead \/ Recover
  \/ RetainSnapshot \/ Retain
  \/ ClearGate \/ ClearStart \/ Clear
  \/ (\E p \in Paths : BackoffEnds(p)) \/ Age \/ Crash

Spec == Init /\ [][Next]_vars

(* Who holds the lock goes on and releases it; asyncio.Lock is granted in    *)
(* the order of requests, so each periodic loop gets it; a worker takes up   *)
(* what is queued, and time passes.                                         *)
Fairness ==
  /\ WF_vars(Enqueue \/ Recover \/ Retain \/ Clear)
  /\ SF_vars(RetainSnapshot) /\ SF_vars(PendingPage) /\ SF_vars(RecoverRead)
  /\ WF_vars(\E m \in Msgs : acc[m] # "idle" /\ Accept(m))
  /\ WF_vars(\E m \in Msgs : Parse(m))
  /\ (\A p \in Paths : WF_vars(BackoffEnds(p))) /\ SF_vars(Age)
FairSpec == Spec /\ Fairness

-----------------------------------------------------------------------------
(* Every variable has its type. *)
TypeOK ==
  /\ acc \in [Msgs -> {"idle", "raw", "manifest", "refusing", "discarding",
                       "done", "refused", "lost"}]
  /\ row \in [Msgs -> {"none", "pending", "parsed", "failed"}]
  /\ refs \in [Msgs -> SUBSET Derived]
  /\ dlv \in [Msgs -> [Dlvs -> {"none", "live", "expired", "deleted"}]]
  /\ files \in [Paths -> {"none", "young", "old"}] /\ dirs \subseteq {Dir(p) : p \in Paths}
  /\ tomb \in [Paths -> {"none", "new", "waiting", "due"}]
  /\ task \in [Msgs -> {"none", "queued", "loaded", "wrote", "broken", "applied"}]
  /\ Cardinality(Reserved) <= MaxMessages /\ Cardinality(Working) <= Workers
  /\ gen \in [Msgs -> SUBSET Gens] /\ victims \in [Msgs -> SUBSET Gens]
  /\ pc \in {"free", "enqueue", "recover", "replay", "drop", "wait", "expire", "gc", "unlink",
             "sweep", "protect", "remove", "clear_tables", "clear_files", "clear_manifests"}
  /\ sel \subseteq Msgs \cup Paths /\ ok \cup bad \subseteq Paths
  /\ batch \subseteq Msgs \X Dlvs \X {"expired", "deleted"}
  /\ gate \in BOOLEAN /\ deleted \subseteq Msgs /\ reparses \subseteq Reparsable
  /\ clears \in 0 .. MaxClears /\ faults \in 0 .. MaxFaults /\ crashes \in 0 .. MaxCrashes

(* Every file a message's row names is there, whatever parses, sweeps,      *)
(* collections and crashes ran meanwhile: no reader of a listed message     *)
(* finds its raw file, body or attachment missing.                          *)
RowsHaveFiles ==
  \A m \in Msgs : row[m] # "none" => \A k \in {"raw"} \cup refs[m] : On(<<m, k>>)

(* No worker is parsing a message whose row is gone: retention and          *)
(* clear-all drop the queued task and wait for the active one, and nothing  *)
(* brings the message back to the queue in between, so no body or           *)
(* attachment is written after its files were collected.                    *)
RetiredIsQuiet == \A m \in Working : row[m] # "none"

(* A deleted message does not come back: recovery finds the row, a          *)
(* tombstone or no manifest, whatever part of the collection a crash cuts.  *)
(* Only a clear-all cut short between its tables and its manifests leaves   *)
(* manifests without tombstones, from which recovery rebuilds the mail.     *)
DeletedStaysDeleted == \A m \in deleted : row[m] = "none"

Known(p) == row[p[1]] # "none" /\ p[2] \in {"manifest", "raw"} \cup refs[p[1]]
(* Disk space is reclaimed: a file no row names, left by a deletion, a      *)
(* refused or interrupted accept, a failed or repeated parse, is removed,   *)
(* unless its message is rebuilt from its manifest.                         *)
FilesReclaimed == \A p \in Paths : (On(p) /\ ~Known(p)) ~> (~On(p) \/ Known(p))

=============================================================================
