----------------------------- MODULE RecoveryScan -----------------------------
(***************************************************************************)
(* The cursor of the recovery scanner (recovery.py).  After one full scan  *)
(* a periodic pass looks only at manifests newer than a watermark on their *)
(* mtime, at paths of exactly that mtime it has not seen, and at a         *)
(* rotating list of retries; it takes a bounded batch of them, replays it  *)
(* and then advances the watermark.  ingestd writes manifests meanwhile:   *)
(* a manifest gets its mtime when its temporary file is written, appears   *)
(* with the rename, and is replaced once more when the message is parsed.  *)
(*                                                                         *)
(* All manifests lie in the partitions a periodic pass lists.  What a      *)
(* replay does to SQLite, tombstones and domains is DurableIngest's.       *)
(***************************************************************************)
EXTENDS Integers, FiniteSets, FiniteSetsExt, Sequences

CONSTANTS
  Paths,       \* manifest paths, numbered in the order of their names
  Size,        \* bytes of each manifest
  Bad,         \* manifests whose raw file does not match them
  Legacy,      \* manifests without a domain policy, their domain missing at first
  Batch,       \* PERIODIC_MANIFEST_SCAN_BATCH_SIZE
  RetryShare,  \* PERIODIC_MANIFEST_RETRY_SHARE
  BatchBytes,  \* MAX_RECOVERY_MANIFEST_BATCH_BYTES
  Stability,   \* MANIFEST_RECOVERY_STABILITY_SECONDS, in ticks
  Parsable,    \* bound: messages ingestd gets to parse before it loses them
  MaxTime,     \* bound: clock ticks
  MaxErrors,   \* bound: replays that raise something unexpected
  MaxRestarts  \* bound: restarts of the Python process

ASSUME ScanConstants ==
  /\ Paths \subseteq Nat /\ Size \in [Paths -> Nat \ {0}]
  /\ Bad \subseteq Paths /\ Legacy \subseteq Paths /\ Parsable \subseteq Paths
  /\ Batch \in Nat \ {0, 1} /\ {RetryShare, BatchBytes, Stability} \subseteq Nat \ {0}
  /\ {MaxTime, MaxErrors, MaxRestarts} \subseteq Nat

VARIABLES
  now,           \* the clock behind mtimes
  draft, mtime,  \* mtime of the temporary and of the visible manifest, -1: none
  parsed,        \* manifests ingestd has begun to replace by the final one
  st,            \* who has the message
  reported,      \* the last heartbeat of ingestd says it is busy
  unmapped,      \* legacy manifests whose domain is still missing
  pc, strict, listed,  \* the pass: its step, its age rule, the names found
  todo, marks,   \* receipts to replay; mtimes that may move the watermark
  watermark, seen, retries, startup,  \* _periodic_watermark_ns and its paths, ...
  raced,         \* history: written while a pass was running
  errors, restarts

clock == now
disk == <<draft, mtime, parsed>>
pass == <<pc, strict, listed, todo, marks>>
cursor == <<watermark, seen, retries, startup>>
bounds == <<errors, restarts>>
vars == <<clock, disk, st, reported, unmapped, pass, cursor, raced, bounds>>

Init ==
  /\ now = 0
  /\ draft = [p \in Paths |-> -1] /\ mtime = [p \in Paths |-> -1] /\ parsed = {}
  /\ st = [p \in Paths |-> "none"]
  /\ reported = FALSE /\ unmapped = Legacy
  /\ pc = "idle" /\ strict = FALSE /\ listed = {}
  /\ todo = <<>> /\ marks = {}
  /\ watermark = -1 /\ seen = {} /\ retries = <<>> /\ startup = FALSE
  /\ raced = {} /\ errors = 0 /\ restarts = 0

Tick ==
  /\ now < MaxTime /\ now' = now + 1
  /\ UNCHANGED <<disk, st, reported, unmapped, pass, cursor, raced, bounds>>

-----------------------------------------------------------------------------
(* ingestd. *)

Races(p) == IF pc = "idle" THEN raced ELSE raced \cup {p}

(* write_file_atomic up to the rename: the pending manifest, later the final. *)
WriteTemporary(p) ==
  /\ draft[p] = -1 /\ now + Stability <= MaxTime
  /\ \/ st[p] = "none" /\ UNCHANGED parsed
     \/ st[p] = "owned" /\ p \in Parsable \ parsed /\ parsed' = parsed \cup {p}
  /\ draft' = [draft EXCEPT ![p] = now]
  /\ raced' = Races(p)
  /\ UNCHANGED <<clock, mtime, st, reported, unmapped, pass, cursor, bounds>>

Rename(p) ==
  /\ draft[p] >= 0
  /\ mtime' = [mtime EXCEPT ![p] = draft[p]]
  /\ draft' = [draft EXCEPT ![p] = -1]
  /\ st' = [st EXCEPT ![p] = IF @ = "none" THEN "owned" ELSE @]
  /\ raced' = Races(p)
  /\ UNCHANGED <<clock, parsed, reported, unmapped, pass, cursor, bounds>>

(* The batch with this message is committed; a row the scanner inserted     *)
(* first is left alone.                                                     *)
Commit(p) ==
  /\ st[p] = "owned" /\ draft[p] = -1 /\ p \in parsed
  /\ st' = [st EXCEPT ![p] = "indexed"]
  /\ UNCHANGED <<clock, disk, reported, unmapped, pass, cursor, raced, bounds>>

(* ingestd died with the message, or gave it up after its last attempt. *)
Orphan(p) ==
  /\ st[p] = "owned"
  /\ st' = [st EXCEPT ![p] = "orphan"]
  /\ draft' = [draft EXCEPT ![p] = -1]
  /\ UNCHANGED <<clock, mtime, parsed, reported, unmapped, pass, cursor, raced, bounds>>

(* publish_ingest_status, or a status so old that the daemon counts as gone. *)
Heartbeat ==
  /\ reported' = \E p \in Paths : st[p] = "owned" \/ draft[p] >= 0
  /\ reported' # reported
  /\ UNCHANGED <<clock, disk, st, unmapped, pass, cursor, raced, bounds>>

-----------------------------------------------------------------------------
(* The scanner. *)

Retrying == Range(retries)
Visible == {p \in Paths : mtime[p] >= 0}
(* _schedule_periodic_retry: INSERT OR IGNORE. *)
Schedule(q, p) == IF p \in Range(q) THEN q ELSE Append(q, p)
(* The elements of a finite set from the first to the last. *)
Sorted(S, Before(_, _)) ==
  CHOOSE s \in [1 .. Cardinality(S) -> S] :
    Range(s) = S /\ \A i, j \in DOMAIN s : i < j => Before(s[i], s[j])
(* The part of q whose elements are in S, in the order of q. *)
Only(q, S) == LET at == Sorted({i \in DOMAIN q : q[i] \in S}, <) IN [k \in DOMAIN at |-> q[at[k]]]
Without(q, S) == Only(q, Range(q) \ S)
Idle == /\ pc' = "idle" /\ strict' = FALSE /\ listed' = {}
        /\ todo' = <<>> /\ marks' = {}

(* recover_missing_manifests up to the listing of the directories.  A       *)
(* periodic pass has the age rule always, a full one unless the daemon      *)
(* counts as offline.                                                       *)
ScanStart ==
  /\ pc = "idle" /\ ~reported
  /\ pc' = "listed"
  /\ strict' \in IF startup THEN {TRUE} ELSE BOOLEAN
  /\ listed' = Visible
  /\ raced' = raced \cup {p \in Paths : draft[p] >= 0}
  /\ UNCHANGED <<clock, disk, st, reported, unmapped, todo, marks, cursor, bounds>>

(* Faulty variant: a path at the watermark counts as seen. *)
PastWatermarkStrictly(p) == mtime[p] > watermark

(* A pass takes it up although it is not a retry. *)
PastWatermark(p) == mtime[p] > watermark \/ (mtime[p] = watermark /\ p \notin seen)

(* fresh_candidates. *)
Fresh == {p \in listed \cap Visible : p \notin Retrying /\ PastWatermark(p)}

Older(p, q) == mtime[p] < mtime[q] \/ (mtime[p] = mtime[q] /\ p < q)
OrderedFresh == Sorted(Fresh, Older)
FreshUpTo(n) == SubSeq(OrderedFresh, 1, Min({n, Cardinality(Fresh)}))

(* Faulty variant: a row leaves the table when it is taken. *)
TakeDropping(q, limit, exclude) ==
  LET found == Only(q, Visible \ exclude)
      n == IF limit < Len(found) THEN limit ELSE Len(found)
  IN [taken |-> SubSeq(found, 1, n), left |-> Without(q, Range(SubSeq(found, 1, n)))]

(* _take_periodic_retries: rows are inspected from the front until limit    *)
(* are found; a vanished file leaves the table, any other goes to the back. *)
Take(q, limit, exclude) ==
  LET found(n) == {i \in 1 .. n : mtime[q[i]] >= 0 /\ q[i] \notin exclude}
      full_at == {n \in 0 .. Len(q) : Cardinality(found(n)) = limit}
      inspected == IF full_at = {} THEN Len(q) ELSE Min(full_at)
      front == SubSeq(q, 1, inspected)
  IN [taken |-> Only(front, Visible \ exclude),
      left |-> SubSeq(q, inspected + 1, Len(q)) \o Only(front, Visible)]

Bytes(s) == SumFunction([i \in DOMAIN s |-> Size[s[i]]])

(* _bound_selected_paths_by_bytes: the first path, then while they fit. *)
Bounded(s) ==
  SubSeq(s, 1, Max({n \in 0 .. Len(s) : n <= 1 \/ Bytes(SubSeq(s, 1, n)) <= BatchBytes}))

(* Paths of the bounded batch that count for the watermark. *)
Marks(chosen, fresh) == {<<p, mtime[p]>> : p \in chosen \cap fresh}

(* Faulty variant: a receipt too young to replay is only passed over. *)
PutOffForgets(young, q) == Without(q, young)

(* retry_paths of the batch are pinned. *)
PutOff(young, q) == q \o Sorted(young \ Range(q), <)

(* _scan_selected_manifest_files on the chosen paths: complete ones leave   *)
(* the retry table, young ones enter it, a bad one goes to quarantine, the  *)
(* others are to be replayed, those with a domain policy first.             *)
Classify(chosen, left) ==
  LET sel == Range(chosen)
      done == {p \in sel : st[p] = "indexed"}
      young == {p \in sel \ done : strict /\ now - mtime[p] < Stability}
      bad == (sel \ (done \cup young)) \cap Bad
      live == Without(chosen, done \cup young \cup bad)
  IN /\ retries' = PutOff(young, Without(left, done))
     /\ mtime' = [p \in Paths |-> IF p \in bad THEN -1 ELSE mtime[p]]
     /\ st' = [p \in Paths |-> IF p \in bad THEN "quarantined" ELSE st[p]]
     /\ todo' = Without(live, Legacy) \o Only(live, Legacy)

RetryBudget == IF Fresh = {} THEN Batch ELSE Max({1, Batch \div RetryShare})

(* _scan_manifest_files, incremental.  _select_manifest_paths keeps a share *)
(* of the batch for retries and gives them what fresh paths leave over.     *)
ScanPeriodic ==
  /\ pc = "listed" /\ startup
  /\ \E one \in {Take(retries, RetryBudget, {})} :
     \E fresh \in {FreshUpTo(Batch - Len(one.taken))} :
     \E two \in {Take(one.left, Batch - Len(fresh) - Len(one.taken), Range(one.taken))} :
     \E chosen \in {Bounded(fresh \o one.taken \o two.taken)} :
       /\ Classify(chosen, two.left)
       /\ marks' = Marks(Range(chosen), Range(fresh))
  /\ pc' = "replay" /\ listed' = {}
  /\ UNCHANGED <<clock, draft, parsed, reported, unmapped, strict, watermark, seen,
                 startup, raced, bounds>>

(* _build_full_recovery_spool: everything found, in batches whose size is   *)
(* of no consequence here.                                                  *)
ScanFull ==
  /\ pc = "listed" /\ ~startup
  /\ \E chosen \in {Sorted(listed \cap Visible, <)} :
       /\ Classify(chosen, retries)
       /\ marks' = Marks(Range(chosen), Range(chosen))
  /\ pc' = "replay" /\ listed' = {}
  /\ UNCHANGED <<clock, draft, parsed, reported, unmapped, strict, watermark, seen,
                 startup, raced, bounds>>

(* recover_from_manifest for the next receipt. *)
Replay ==
  LET p == Head(todo)
  IN /\ pc = "replay" /\ todo # <<>>
     /\ todo' = Tail(todo)
     /\ IF p \in unmapped
        THEN retries' = Schedule(retries, p) /\ UNCHANGED st
        ELSE /\ retries' = Without(retries, {p})
             /\ st' = [st EXCEPT ![p] = "indexed"]
     /\ UNCHANGED <<clock, disk, reported, unmapped, pc, strict, listed, marks,
                    watermark, seen, startup, raced, bounds>>

(* Anything but a ValueError ends the pass, the watermark where it was. *)
ReplayFails ==
  /\ pc = "replay" /\ todo # <<>> /\ errors < MaxErrors
  /\ errors' = errors + 1
  /\ Idle
  /\ UNCHANGED <<clock, disk, st, reported, unmapped, cursor, raced, restarts>>

(* _advance_periodic_watermark and _advance_full_periodic_watermark. *)
Advance ==
  LET latest == Max({m[2] : m \in marks})
      there == {m[1] : m \in {k \in marks : k[2] = latest}}
  IN \/ ~startup /\ marks = {} /\ watermark' = -1 /\ seen' = {}
     \/ marks # {} /\ (startup => latest > watermark) /\ watermark' = latest /\ seen' = there
     \/ startup /\ marks # {} /\ latest = watermark /\ UNCHANGED watermark /\ seen' = seen \cup there
     \/ startup /\ (marks # {} => latest < watermark) /\ UNCHANGED <<watermark, seen>>

ScanEnd ==
  /\ pc = "replay" /\ todo = <<>>
  /\ Advance
  /\ startup' = TRUE
  /\ Idle
  /\ UNCHANGED <<clock, disk, st, reported, unmapped, retries, raced, bounds>>

(* The cursor lives in the memory of the process. *)
Restart ==
  /\ restarts < MaxRestarts /\ restarts' = restarts + 1
  /\ watermark' = -1 /\ seen' = {} /\ retries' = <<>> /\ startup' = FALSE
  /\ Idle
  /\ UNCHANGED <<clock, disk, st, reported, unmapped, raced, errors>>

(* An operator brings the missing domain back. *)
RepairDomain(p) ==
  /\ p \in unmapped /\ unmapped' = unmapped \ {p}
  /\ UNCHANGED <<clock, disk, st, reported, pass, cursor, raced, bounds>>

Next ==
  \/ Tick \/ Heartbeat
  \/ \E p \in Paths : \/ WriteTemporary(p) \/ Rename(p) \/ Commit(p) \/ Orphan(p)
                      \/ RepairDomain(p)
  \/ ScanStart \/ ScanPeriodic \/ ScanFull \/ Replay \/ ReplayFails \/ ScanEnd \/ Restart

(* Time passes, the daemon reports, the periodic task repeats and its       *)
(* passes end; what the daemon holds is renamed, then committed or given    *)
(* up.  Operators, restarts and errors owe nothing.                         *)
Fairness ==
  /\ WF_vars(Tick) /\ WF_vars(Heartbeat)
  /\ WF_vars(\E p \in Paths : Rename(p) \/ Commit(p) \/ Orphan(p))
  /\ WF_vars(ScanStart) /\ []<>(pc = "idle")

Spec == Init /\ [][Next]_vars
FairSpec == Spec /\ Fairness

-----------------------------------------------------------------------------
(* Every variable has its type. *)
TypeOK ==
  /\ now \in 0 .. MaxTime
  /\ draft \in [Paths -> -1 .. MaxTime] /\ mtime \in [Paths -> -1 .. MaxTime]
  /\ parsed \subseteq Paths /\ unmapped \subseteq Legacy /\ reported \in BOOLEAN
  /\ st \in [Paths -> {"none", "owned", "orphan", "indexed", "quarantined"}]
  /\ pc \in {"idle", "listed", "replay"} /\ strict \in BOOLEAN
  /\ listed \subseteq Paths /\ todo \in Seq(Paths)
  /\ marks \subseteq Paths \X (0 .. MaxTime)
  /\ watermark \in -1 .. MaxTime /\ seen \subseteq Paths
  /\ retries \in Seq(Paths) /\ Cardinality(Retrying) = Len(retries)
  /\ startup \in BOOLEAN /\ raced \subseteq Paths
  /\ errors \in 0 .. MaxErrors /\ restarts \in 0 .. MaxRestarts

Unsettled(p) == mtime[p] >= 0 /\ st[p] \in {"owned", "orphan"}

(* A pass that is still to come will look at this manifest. *)
Ahead(p) == ~startup \/ p \in Retrying \/ PastWatermark(p)

(* "the next pass cannot jump over an incompletely processed batch"        *)
(* (recovery.py:271): between passes, every manifest whose message is not  *)
(* settled is ahead of the cursor or pinned as a retry, unless its writing *)
(* overlapped a pass; whatever the batch size, equal mtimes, young         *)
(* receipts, failed replays and restarts.                                  *)
NothingSkipped == pc = "idle" => \A p \in Paths : Unsettled(p) => Ahead(p) \/ p \in raced

Recoverable(p) == st[p] = "orphan" /\ p \notin Bad \cup unmapped
Settled(p) == st[p] \in {"indexed", "quarantined"}

(* A message ingestd left behind is indexed by some later pass, if its     *)
(* manifest was not written during one.                                    *)
OrphansRecovered == \A p \in Paths : (Recoverable(p) /\ p \notin raced) ~> Settled(p)

(* "a permanently bad legacy receipt cannot monopolize every retry slot    *)
(* forever" (recovery.py:818): a recoverable message among the retries is  *)
(* reached.                                                                *)
RetriesServed == \A p \in Paths : (Recoverable(p) /\ p \in Retrying) ~> Settled(p)
=============================================================================
