----------------------------- MODULE DurableIngest -----------------------------
(***************************************************************************)
(* The life of one accepted message: the raw file and the pending manifest *)
(* the SMTP session writes before its 250 (smtp_session.cpp,               *)
(* batch_writer.cpp), the worker that parses, rewrites the manifest and    *)
(* commits a batch, splitting it when the transaction fails                *)
(* (ingest_app.cpp), the Python scanner that replays manifests SQLite does *)
(* not know (recovery.py), and the deletion whose tombstones keep the      *)
(* scanner from replaying them.  ingestd may crash at any point; the       *)
(* scanner may be cut off at any point.                                    *)
(*                                                                         *)
(* A file appears atomically (temporary name, then rename).  Budgets,      *)
(* sizes and the maintenance lock belong to other modules; the content of  *)
(* a message is abstracted to whether its recipients still match a domain. *)
(***************************************************************************)
EXTENDS Integers, FiniteSets, Sequences

CONSTANTS
  Msgs,          \* messages clients try to deliver, one SMTP transaction each
  Workers,       \* writer threads
  BatchMax,      \* INGEST_BATCH_MAX_MESSAGES
  MaxAttempts,   \* INGEST_MAX_RETRIES + 1
  Conflicting,   \* messages whose domain was renamed or deleted after RCPT
  DurableAck,    \* INGEST_DURABLE_ACK
  MaxFaults,     \* bound: transient storage and SQLite failures
  MaxCrashes     \* bound: crashes of ingestd

ASSUME IngestConstants ==
  /\ BatchMax \in Nat \ {0} /\ MaxAttempts \in Nat \ {0}
  /\ Conflicting \subseteq Msgs /\ DurableAck \in BOOLEAN
  /\ MaxFaults \in Nat /\ MaxCrashes \in Nat

VARIABLES
  up, closed,    \* ingestd runs; its queue was closed by stop_and_drain
  sess,          \* per message: how far its SMTP transaction got
  acked,         \* messages whose client was told 250
  raw, man,      \* files: raw present, state of the manifest
  queue,         \* MailQueue, oldest first
  work,          \* per worker: stack of batches still to write
  stage,         \* per worker: "files" then "sqlite" of the top batch
  attempt,       \* per worker: failed attempts at a single message
  qrec,          \* messages with a quarantine record
  db,            \* messages with their rows in SQLite
  received,      \* per message: times the received metric counted it
  deleted,       \* messages a user or retention deleted
  tomb,          \* per message: artifacts with a row in file_gc_tasks
  scanning, sel, \* the scanner holds _mail_store_lock; receipts to replay
  faults, crashes

ingestd == <<up, closed, sess, queue, work, stage, attempt>>
files == <<raw, man, qrec>>
sqlite == <<db, received, deleted, tomb>>
scanner == <<scanning, sel>>
bounds == <<faults, crashes>>
vars == <<ingestd, acked, files, sqlite, scanner, bounds>>

Artifacts == {"raw", "manifest"}
Elems(q) == {q[i] : i \in 1 .. Len(q)}
Batches(bs) == UNION {Elems(bs[i]) : i \in 1 .. Len(bs)}
Undone(w) == Batches(work[w])
(* Messages queued or in a batch, and all that ingestd may still write. *)
Pipe == Elems(queue) \cup UNION {Undone(w) : w \in Workers}
Owned == {m \in Msgs : sess[m] \in {"reserved", "rawed", "persisted"} \/ m \in Pipe}

Init ==
  /\ up = TRUE /\ closed = FALSE
  /\ sess = [m \in Msgs |-> "idle"] /\ acked = {}
  /\ raw = {} /\ man = [m \in Msgs |-> "none"] /\ qrec = {}
  /\ queue = <<>>
  /\ work = [w \in Workers |-> <<>>] /\ stage = [w \in Workers |-> "files"]
  /\ attempt = [w \in Workers |-> 0]
  /\ db = {} /\ received = [m \in Msgs |-> 0]
  /\ deleted = {} /\ tomb = [m \in Msgs |-> {}]
  /\ scanning = FALSE /\ sel = {}
  /\ faults = 0 /\ crashes = 0

-----------------------------------------------------------------------------
(* The SMTP session. *)

Fault == faults < MaxFaults /\ faults' = faults + 1 /\ UNCHANGED crashes

(* DATA got its slot. *)
Reserve(m) ==
  /\ up /\ ~closed /\ sess[m] = "idle"
  /\ sess' = [sess EXCEPT ![m] = "reserved"]
  /\ UNCHANGED <<up, closed, queue, work, stage, attempt, acked, files, sqlite,
                 scanner, bounds>>

(* write_pending_artifacts, first file. *)
WriteRaw(m) ==
  /\ up /\ DurableAck /\ sess[m] = "reserved"
  /\ raw' = raw \cup {m}
  /\ sess' = [sess EXCEPT ![m] = "rawed"]
  /\ UNCHANGED <<up, closed, queue, work, stage, attempt, acked, man, qrec, sqlite,
                 scanner, bounds>>

(* write_pending_artifacts, second file. *)
WriteManifest(m) ==
  /\ up /\ sess[m] = "rawed"
  /\ man' = [man EXCEPT ![m] = "pending"]
  /\ sess' = [sess EXCEPT ![m] = "persisted"]
  /\ UNCHANGED <<up, closed, queue, work, stage, attempt, acked, raw, qrec, sqlite,
                 scanner, bounds>>

(* Either write throws: 451.  The file is there when the directory fsync   *)
(* after the rename is what failed.                                        *)
PersistFails(m) ==
  /\ up /\ Fault
  /\ \/ /\ DurableAck /\ sess[m] = "reserved"
        /\ raw' \in {raw, raw \cup {m}} /\ UNCHANGED man
     \/ /\ sess[m] = "rawed"
        /\ man' \in {man, [man EXCEPT ![m] = "pending"]} /\ UNCHANGED raw
  /\ sess' = [sess EXCEPT ![m] = "refused"]
  /\ UNCHANGED <<up, closed, queue, work, stage, attempt, acked, qrec, sqlite, scanner>>

(* Faulty variant: the 250 does not wait for the artifacts. *)
PushAckEarly(m) ==
  /\ up /\ sess[m] \in {"reserved", "persisted"}
  /\ sess' = [sess EXCEPT ![m] = "done"]
  /\ acked' = acked \cup {m}
  /\ queue' = IF closed THEN queue ELSE Append(queue, m)
  /\ UNCHANGED <<up, closed, work, stage, attempt, files, sqlite, scanner, bounds>>

(* push_reserved and the reply.  A closed queue refuses the job: with its   *)
(* artifacts on disk the reply is 250 all the same, else 451.               *)
PushAck(m) ==
  /\ up /\ sess[m] = IF DurableAck THEN "persisted" ELSE "reserved"
  /\ IF closed /\ ~DurableAck
     THEN sess' = [sess EXCEPT ![m] = "refused"] /\ UNCHANGED acked
     ELSE sess' = [sess EXCEPT ![m] = "done"] /\ acked' = acked \cup {m}
  /\ queue' = IF closed THEN queue ELSE Append(queue, m)
  /\ UNCHANGED <<up, closed, work, stage, attempt, files, sqlite, scanner, bounds>>

-----------------------------------------------------------------------------
(* The writer threads. *)

Top(w) == work[w][1]
Below(w) == Tail(work[w])

PopBatch(w) ==
  LET n == IF Len(queue) <= BatchMax THEN Len(queue) ELSE BatchMax
  IN /\ up /\ work[w] = <<>> /\ queue # <<>>
     /\ work' = [work EXCEPT ![w] = <<SubSeq(queue, 1, n)>>]
     /\ queue' = SubSeq(queue, n + 1, Len(queue))
     /\ stage' = [stage EXCEPT ![w] = "files"]
     /\ attempt' = [attempt EXCEPT ![w] = 0]
     /\ UNCHANGED <<up, closed, sess, acked, files, sqlite, scanner, bounds>>

(* write_storage_artifacts for the first k jobs of the batch: raw and       *)
(* pending manifest where the session did not write them, then the final    *)
(* manifest in place of whatever is there.                                  *)
FilesOf(S) ==
  /\ raw' = IF DurableAck THEN raw ELSE raw \cup S
  /\ man' = [m \in Msgs |-> IF m \in S THEN "final" ELSE man[m]]

(* The same cut off after k jobs, the next one perhaps begun. *)
FilesUpTo(b, k) ==
  LET done == {b[i] : i \in 1 .. k}
      next == b[k + 1]
  IN \/ FilesOf(done)
     \/ /\ ~DurableAck
        /\ raw' = raw \cup done \cup {next}
        /\ \E held \in {man[next], "pending"} :
             man' = [m \in Msgs |-> IF m \in done THEN "final"
                                    ELSE IF m = next THEN held ELSE man[m]]

WorkerFiles(w) ==
  /\ up /\ work[w] # <<>> /\ stage[w] = "files"
  /\ FilesOf(Elems(Top(w)))
  /\ stage' = [stage EXCEPT ![w] = "sqlite"]
  /\ UNCHANGED <<up, closed, sess, acked, queue, work, attempt, qrec, sqlite, scanner,
                 bounds>>

(* The next step of write_batch_with_isolation after a failed attempt:      *)
(* halves, another attempt, or the quarantine record of a single message,   *)
(* which may fail to be written too.                                        *)
Isolate(w) ==
  LET b == Top(w)
      half == Len(b) \div 2
  IN /\ stage' = [stage EXCEPT ![w] = "files"]
     /\ \/ /\ Len(b) > 1
           /\ work' = [work EXCEPT ![w] =
                <<SubSeq(b, 1, half), SubSeq(b, half + 1, Len(b))>> \o Below(w)]
           /\ attempt' = [attempt EXCEPT ![w] = 0]
           /\ UNCHANGED qrec
        \/ /\ Len(b) = 1 /\ attempt[w] + 1 < MaxAttempts
           /\ attempt' = [attempt EXCEPT ![w] = @ + 1]
           /\ UNCHANGED <<work, qrec>>
        \/ /\ Len(b) = 1 /\ attempt[w] + 1 >= MaxAttempts
           /\ work' = [work EXCEPT ![w] = Below(w)]
           /\ attempt' = [attempt EXCEPT ![w] = 0]
           /\ qrec' \in {qrec, qrec \cup Elems(b)}

WorkerFilesFail(w) ==
  /\ up /\ work[w] # <<>> /\ stage[w] = "files" /\ Fault
  /\ \E k \in 0 .. Len(Top(w)) - 1 : FilesUpTo(Top(w), k)
  /\ Isolate(w)
  /\ UNCHANGED <<up, closed, sess, acked, queue, sqlite, scanner>>

(* Rows of the batch SQLite does not have yet. *)
Missing(w) == Elems(Top(w)) \ db

(* Faulty variant: no select_message before the insert. *)
CommitAgain(w) ==
  /\ up /\ work[w] # <<>> /\ stage[w] = "sqlite"
  /\ Missing(w) \cap Conflicting = {}
  /\ db' = db \cup Elems(Top(w))
  /\ received' = [m \in Msgs |-> IF m \in Elems(Top(w)) THEN received[m] + 1 ELSE received[m]]
  /\ work' = [work EXCEPT ![w] = Below(w)]
  /\ stage' = [stage EXCEPT ![w] = "files"]
  /\ attempt' = [attempt EXCEPT ![w] = 0]
  /\ UNCHANGED <<up, closed, sess, acked, queue, files, deleted, tomb, scanner, bounds>>

(* write_sqlite_records: one transaction; a message that exists is skipped. *)
CommitBatch(w) ==
  /\ up /\ work[w] # <<>> /\ stage[w] = "sqlite"
  /\ Missing(w) \cap Conflicting = {}
  /\ db' = db \cup Elems(Top(w))
  /\ received' = [m \in Msgs |-> IF m \in Missing(w) THEN received[m] + 1 ELSE received[m]]
  /\ work' = [work EXCEPT ![w] = Below(w)]
  /\ stage' = [stage EXCEPT ![w] = "files"]
  /\ attempt' = [attempt EXCEPT ![w] = 0]
  /\ UNCHANGED <<up, closed, sess, acked, queue, files, deleted, tomb, scanner, bounds>>

(* Rolled back: a policy conflict always, anything else as a fault. *)
CommitFails(w) ==
  /\ up /\ work[w] # <<>> /\ stage[w] = "sqlite"
  /\ IF Missing(w) \cap Conflicting = {} THEN Fault ELSE UNCHANGED bounds
  /\ Isolate(w)
  /\ UNCHANGED <<up, closed, sess, acked, queue, raw, man, sqlite, scanner>>

-----------------------------------------------------------------------------
(* The process. *)

(* What the death of the process takes with it. *)
LoseMemory ==
  /\ up' = FALSE
  /\ queue' = <<>>
  /\ work' = [w \in Workers |-> <<>>]
  /\ stage' = [w \in Workers |-> "files"]
  /\ attempt' = [w \in Workers |-> 0]
  /\ sess' = [m \in Msgs |->
       IF sess[m] \in {"reserved", "rawed", "persisted"} THEN "refused" ELSE sess[m]]

Crash ==
  /\ up /\ crashes < MaxCrashes
  /\ crashes' = crashes + 1 /\ UNCHANGED faults
  /\ LoseMemory
  /\ UNCHANGED <<closed, acked, files, sqlite, scanner>>

Close ==
  /\ up /\ ~closed
  /\ closed' = TRUE
  /\ UNCHANGED <<up, sess, queue, work, stage, attempt, acked, files, sqlite, scanner,
                 bounds>>

(* stop_and_drain: workers joined, the last sessions gone. *)
Drained ==
  /\ up /\ closed /\ Owned = {}
  /\ LoseMemory
  /\ UNCHANGED <<closed, acked, files, sqlite, scanner, bounds>>

Restart ==
  /\ ~up
  /\ up' = TRUE /\ closed' = FALSE
  /\ UNCHANGED <<sess, queue, work, stage, attempt, acked, files, sqlite, scanner,
                 bounds>>

-----------------------------------------------------------------------------
(* The scanner, under _mail_store_lock. *)

(* Faulty variant: file_gc_tasks is not consulted. *)
ReplayableAnyway(m) == man[m] \in {"pending", "final"} /\ m \notin db /\ m \in raw

(* Faulty variant: only parsed receipts are taken up. *)
ReplayableFinalOnly(m) == man[m] = "final" /\ tomb[m] = {} /\ m \notin db /\ m \in raw

(* _scan_selected_manifest_files keeps it for replay. *)
Replayable(m) ==
  /\ man[m] \in {"pending", "final"}
  /\ tomb[m] = {}
  /\ m \notin db
  /\ m \in raw

(* A receipt without its raw file is quarantined by the scan itself. *)
Broken(m) == man[m] \in {"pending", "final"} /\ tomb[m] = {} /\ m \notin db /\ m \notin raw

(* Receipts ingestd still owns may be put off (busy status, young mtime)    *)
(* or not: the scan alone must be harmless to them.                         *)
ScanStart ==
  /\ ~scanning
  /\ \E m \in Msgs : Replayable(m) \/ Broken(m)
  /\ scanning' = TRUE
  /\ \E later \in SUBSET Owned : sel' = {m \in Msgs : Replayable(m)} \ later
  /\ man' = [m \in Msgs |-> IF Broken(m) THEN "quarantined" ELSE man[m]]
  /\ UNCHANGED <<ingestd, acked, raw, qrec, sqlite, bounds>>

(* recover_from_manifest: INSERT OR IGNORE, or the manifest moves to        *)
(* quarantine when its domain identity was retired.                         *)
Replay(m) ==
  /\ m \in sel
  /\ sel' = sel \ {m}
  /\ IF m \in Conflicting
     THEN /\ man' = [man EXCEPT ![m] = "quarantined"]
          /\ UNCHANGED <<db, received>>
     ELSE /\ db' = db \cup {m}
          /\ received' = [received EXCEPT ![m] = IF m \in db THEN @ ELSE @ + 1]
          /\ UNCHANGED man
  /\ UNCHANGED <<ingestd, acked, raw, qrec, deleted, tomb, scanning, bounds>>

ScanEnd ==
  /\ scanning /\ sel = {}
  /\ scanning' = FALSE
  /\ UNCHANGED <<ingestd, acked, files, sqlite, sel, bounds>>

(* An unexpected error, a cancellation or a crash of the Python process. *)
ScanAborted ==
  /\ scanning /\ sel # {} /\ Fault
  /\ scanning' = FALSE /\ sel' = {}
  /\ UNCHANGED <<ingestd, acked, files, sqlite>>

-----------------------------------------------------------------------------
(* Deletion and file collection, under the same lock. *)

(* The row and the tombstones of its artifacts in one transaction.  A       *)
(* message ingestd still owns is not deleted: see README, ownership.        *)
Delete(m) ==
  /\ m \in db /\ ~scanning /\ m \notin Owned
  /\ db' = db \ {m} /\ deleted' = deleted \cup {m}
  /\ tomb' = [tomb EXCEPT ![m] = Artifacts]
  /\ UNCHANGED <<ingestd, acked, files, received, scanner, bounds>>

Unlink(m, f) ==
  /\ f \in tomb[m] /\ ~scanning
  /\ raw' = IF f = "raw" THEN raw \ {m} ELSE raw
  /\ man' = IF f = "manifest" THEN [man EXCEPT ![m] = "none"] ELSE man
  /\ <<raw', man'>> # <<raw, man>>
  /\ UNCHANGED <<ingestd, acked, qrec, sqlite, scanner, bounds>>

Gone(m, f) == IF f = "raw" THEN m \notin raw ELSE man[m] = "none"

(* The task row is removed once its file is gone. *)
Forget(m, f) ==
  /\ f \in tomb[m] /\ ~scanning /\ Gone(m, f)
  /\ tomb' = [tomb EXCEPT ![m] = @ \ {f}]
  /\ UNCHANGED <<ingestd, acked, files, db, received, deleted, scanner, bounds>>

Next ==
  \/ \E m \in Msgs : \/ Reserve(m) \/ WriteRaw(m) \/ WriteManifest(m)
                     \/ PersistFails(m) \/ PushAck(m)
                     \/ Replay(m) \/ Delete(m)
                     \/ \E f \in Artifacts : Unlink(m, f) \/ Forget(m, f)
  \/ \E w \in Workers : \/ PopBatch(w) \/ WorkerFiles(w) \/ WorkerFilesFail(w)
                        \/ CommitBatch(w) \/ CommitFails(w)
  \/ Crash \/ Close \/ Drained \/ Restart
  \/ ScanStart \/ ScanEnd \/ ScanAborted

(* Threads run and the periodic scan repeats; clients, users, operators and *)
(* faults owe nothing.                                                      *)
WorkerStep(w) == WorkerFiles(w) \/ CommitBatch(w) \/ CommitFails(w)
Fairness ==
  /\ \A m \in Msgs : WF_vars(WriteManifest(m)) /\ WF_vars(PushAck(m)) /\ WF_vars(Replay(m))
  /\ \A w \in Workers : WF_vars(PopBatch(w)) /\ WF_vars(WorkerStep(w))
  /\ WF_vars(ScanStart) /\ WF_vars(ScanEnd)

Spec == Init /\ [][Next]_vars /\ Fairness

-----------------------------------------------------------------------------
(* Every variable has its type. *)
TypeOK ==
  /\ up \in BOOLEAN /\ closed \in BOOLEAN
  /\ sess \in [Msgs -> {"idle", "reserved", "rawed", "persisted", "done", "refused"}]
  /\ acked \subseteq Msgs /\ raw \subseteq Msgs /\ qrec \subseteq Msgs
  /\ man \in [Msgs -> {"none", "pending", "final", "quarantined"}]
  /\ queue \in Seq(Msgs)
  /\ work \in [Workers -> Seq(Seq(Msgs))]
  /\ stage \in [Workers -> {"files", "sqlite"}]
  /\ attempt \in [Workers -> Nat]
  /\ db \subseteq Msgs /\ received \in [Msgs -> Nat] /\ deleted \subseteq Msgs
  /\ tomb \in [Msgs -> SUBSET Artifacts]
  /\ scanning \in BOOLEAN /\ sel \subseteq Msgs
  /\ faults \in Nat /\ crashes \in Nat

(* "never a manifest that points at a missing raw message"                 *)
(* (write_pending_artifacts): unless a deletion is collecting the message, *)
(* its manifest is accompanied by its raw file.                            *)
ManifestHasRaw == \A m \in Msgs : man[m] # "none" /\ tomb[m] = {} => m \in raw

(* The durable ACK: whatever crashed since, a message the client was told  *)
(* is queued is indexed, was deleted on purpose, or is on disk with its    *)
(* raw file and a manifest, live or quarantined.                           *)
AckedDurable ==
  DurableAck => \A m \in acked : m \in db \cup deleted \/ (man[m] # "none" /\ m \in raw)

(* A message is inserted and counted at most once, however a worker and    *)
(* the scanner race for it (select_message in write_sqlite_records, INSERT *)
(* OR IGNORE in _apply_recovery_manifest).                                 *)
CountedOnce == \A m \in Msgs : received[m] <= 1

(* A deleted message never comes back: its tombstones outlive its manifest *)
(* (file_gc_tasks in the scan and in _apply_recovery_manifest).            *)
NoResurrection == deleted \cap db = {}

(* An indexed message has the raw file its row points to.                  *)
IndexedHasRaw == db \subseteq raw

(* Every acknowledged message settles: indexed, or its manifest set aside  *)
(* when its domain is gone, although workers fail, split and give up and   *)
(* ingestd crashes; the healthy peers of a conflicting message do not      *)
(* suffer from it.                                                         *)
AckedSettles ==
  \A m \in Msgs : m \in acked ~> (IF m \in Conflicting THEN man[m] = "quarantined"
                                                       ELSE m \in db \cup deleted)

(* The receipts the pipeline promises, read off files and rows.            *)
ReceiptState ==
  [m \in Msgs |-> IF m \in deleted THEN "deleted"
                  ELSE IF m \in db THEN "indexed"
                  ELSE IF man[m] = "quarantined" THEN "quarantined"
                  ELSE IF man[m] # "none" THEN "held" ELSE "none"]
R == INSTANCE Receipts WITH state <- ReceiptState, acknowledged <- acked

(* With a durable ACK the pipeline implements the receipts: every step of  *)
(* sessions, workers, scanner and collector is one of their arrows or      *)
(* invisible to them.                                                      *)
ImplementsReceipts == R!Spec

-----------------------------------------------------------------------------
(* The inductive invariant behind the safety properties.                    *)

(* A message of the queue or of a batch: its transaction is over, nobody    *)
(* deleted it, and with a durable ACK its files exist.                      *)
Live(m) ==
  /\ sess[m] = "done" /\ m \notin deleted
  /\ DurableAck => m \in raw /\ man[m] # "none"

PipeLive == \A m \in Pipe : Live(m)

(* A worker reaches SQLite with the files of its batch written.             *)
StagedFiles ==
  \A w \in Workers : stage[w] = "sqlite" /\ work[w] # <<>> =>
    \A m \in Elems(work[w][1]) : m \in raw /\ man[m] # "none"

(* What a session has on disk while it is in DATA.                          *)
SessionFiles ==
  \A m \in Msgs :
    /\ sess[m] \in {"idle", "reserved", "rawed"} => man[m] = "none" /\ m \notin db \cup deleted
    /\ sess[m] = "rawed" => m \in raw /\ DurableAck
    /\ sess[m] = "persisted" => m \in raw /\ man[m] # "none" /\ m \notin deleted

(* Rows, tombstones and files of one message agree.                         *)
RowsAndFiles ==
  \A m \in Msgs :
    /\ m \in db => m \in raw /\ m \notin deleted /\ m \notin Conflicting
    /\ tomb[m] # {} => m \in deleted
    /\ man[m] # "none" => IF m \in deleted THEN "manifest" \in tomb[m] ELSE m \in raw
    /\ man[m] = "quarantined" => m \in Conflicting
    /\ received[m] = IF m \in db \cup deleted THEN 1 ELSE 0
    /\ m \in acked => Live(m) \/ m \in deleted

(* Receipts in the scanner's hands are complete and nobody's to delete.     *)
Selected ==
  \A m \in sel : /\ scanning /\ m \in raw /\ m \notin deleted
                 /\ man[m] \in {"pending", "final"}

IInv ==
  TypeOK /\ PipeLive /\ StagedFiles /\ SessionFiles /\ RowsAndFiles /\ Selected
=============================================================================
