---------------------- MODULE HandshakeAndWriterProofs ----------------------
(***************************************************************************)
(* Proofs about the maintenance handshake between Python processes and     *)
(* ingestd, and about the database writer.                                 *)
(*                                                                         *)
(* MaintenanceHandshake: the inductive invariant IInv holds for any number *)
(* of Python processes, transactions, tokens, instances and faults, and    *)
(* with it Exclusive, AckIsCurrent, OneOwner.  One lemma per action that   *)
(* disturbs several conjuncts, one per group of actions for the rest.      *)
(*                                                                         *)
(* DatabaseWriter, for any callers, capacity, number of waiters and        *)
(* failures of the worker: a request is in one place, and the counter of   *)
(* the slots is exact while the writer is open.                            *)
(***************************************************************************)
EXTENDS MaintenanceHandshake, DatabaseWriter,
        FiniteSetTheorems, WellFoundedInduction, TLAPS

-----------------------------------------------------------------------------
(* The steps of ingestd: process, monitor, reload thread, SMTP transactions *)
(* and workers.                                                            *)

(* Starting, listening, stopping and the reload thread's opening of SQLite  *)
(* do not touch what the invariant says of a running instance.             *)
LEMMA ProcessKeeps ==
  ASSUME IInv,
         \/ Start \/ Listen \/ Stop \/ StopWorkers \/ ReloadOpen
  PROVE  IInv'
  <1> USE HandshakeConstants
      DEF IInv, TypeOK, LockOwned, Instances, MonitorLocal, AckSound,
        ProbeSound, ClearSound, Untouched, Frozen, Drained,
        Holding, CountedStates, SessionStates, Tokens, NoToken, Unwritten,
        files, daemon, monitor, owner, bounds
  <1>1. CASE Start
    BY <1>1, SMTT(60) DEF Start
  <1>2. CASE Listen
    BY <1>2, SMTT(60) DEF Listen
  <1>3. CASE Stop
    BY <1>3, SMTT(60) DEF Stop
  <1>4. CASE StopWorkers
    BY <1>4, SMTT(60) DEF StopWorkers
  <1>5. CASE ReloadOpen
    BY <1>5, SMTT(60) DEF ReloadOpen
  <1> HIDE DEF IInv
  <1> QED
    BY <1>1, <1>2, <1>3, <1>4, <1>5, Zenon

(* The reload thread closes its connection.                                *)
LEMMA ReloadCloseKeeps ==
  ASSUME IInv, ReloadClose
  PROVE  IInv'
  <1> USE HandshakeConstants
      DEF IInv, TypeOK, LockOwned, Instances, MonitorLocal, AckSound,
        ProbeSound, ClearSound, Untouched, Frozen, Drained,
        Holding, CountedStates, SessionStates, Tokens, NoToken, Unwritten,
        files, daemon, monitor, owner, bounds, ReloadClose
  <1>0. paused' \in BOOLEAN /\ pending' \in BOOLEAN /\ handle' \in BOOLEAN /\ reading' \in BOOLEAN
    BY Zenon
  <1>1. TypeOK'
    BY <1>0, SMTT(30)
  <1>2. LockOwned'
    BY Zenon
  <1>3. Instances'
    BY Zenon
  <1>4. MonitorLocal'
    BY Zenon
  <1>5. AckSound'
    BY Zenon
  <1>6. ProbeSound'
    BY Zenon
  <1>7. ClearSound'
    BY Zenon
  <1> HIDE DEF TypeOK, LockOwned, Instances, MonitorLocal, AckSound, ProbeSound, ClearSound
  <1> QED
    BY <1>1, <1>2, <1>3, <1>4, <1>5, <1>6, <1>7, Zenon

(* A process that exits leaves an untouched one behind, and its status file *)
(* only if it is not its own.                                              *)
LEMMA ExitKeeps ==
  ASSUME IInv, Exit
  PROVE  IInv'
  <1> USE HandshakeConstants
      DEF IInv, TypeOK, LockOwned, Instances, MonitorLocal, AckSound,
        ProbeSound, ClearSound, Untouched, Frozen, Drained,
        Holding, CountedStates, SessionStates, Tokens, NoToken, Unwritten,
        files, daemon, monitor, owner, bounds, Exit, Die
  <1>0. paused' \in BOOLEAN /\ pending' \in BOOLEAN /\ handle' \in BOOLEAN /\ reading' \in BOOLEAN
    BY Zenon
  <1>1. TypeOK'
    BY <1>0, SMTT(30)
  <1>2. LockOwned'
    BY SMTT(30)
  <1>3. Instances'
    BY SMTT(30)
  <1>4. MonitorLocal'
    BY Zenon
  <1>5. AckSound'
    BY Zenon
  <1>6. ProbeSound'
    BY Zenon
  <1>7. ClearSound'
    BY Zenon
  <1> HIDE DEF TypeOK, LockOwned, Instances, MonitorLocal, AckSound, ProbeSound, ClearSound
  <1> QED
    BY <1>1, <1>2, <1>3, <1>4, <1>5, <1>6, <1>7, Zenon

(* So does one that crashes, with its status file as debris.               *)
LEMMA CrashKeeps ==
  ASSUME IInv, Crash
  PROVE  IInv'
  <1> USE HandshakeConstants
      DEF IInv, TypeOK, LockOwned, Instances, MonitorLocal, AckSound,
        ProbeSound, ClearSound, Untouched, Frozen, Drained,
        Holding, CountedStates, SessionStates, Tokens, NoToken, Unwritten,
        files, daemon, monitor, owner, bounds, Crash, Die, Fault, Up
  <1>0. paused' \in BOOLEAN /\ pending' \in BOOLEAN /\ handle' \in BOOLEAN /\ reading' \in BOOLEAN
    BY Zenon
  <1>1. TypeOK'
    BY <1>0, SMTT(30)
  <1>2. LockOwned'
    BY SMTT(30)
  <1>3. Instances'
    BY Zenon
  <1>4. MonitorLocal'
    BY Zenon
  <1>5. AckSound'
    BY Zenon
  <1>6. ProbeSound'
    BY Zenon
  <1>7. ClearSound'
    BY Zenon
  <1> HIDE DEF TypeOK, LockOwned, Instances, MonitorLocal, AckSound, ProbeSound, ClearSound
  <1> QED
    BY <1>1, <1>2, <1>3, <1>4, <1>5, <1>6, <1>7, Zenon

(* Reading the lock and pausing accordingly: with a lock standing, what is  *)
(* read is not NoToken.                                                    *)
LEMMA MonitorReadKeeps ==
  ASSUME IInv,
         \/ MonRead \/ MonApply
  PROVE  IInv'
  <1> USE HandshakeConstants
      DEF IInv, TypeOK, LockOwned, Instances, MonitorLocal, AckSound,
        ProbeSound, ClearSound, Untouched, Frozen, Drained,
        Holding, CountedStates, SessionStates, Tokens, NoToken, Unwritten,
        files, daemon, monitor, owner, bounds, MonRead, MonApply, Monitoring
  <1>1. CASE MonRead
    BY <1>1, SMTT(60) DEF MonRead
  <1>2. CASE MonApply
    <2>0. paused' \in BOOLEAN /\ (paused' <=> seen # NoToken)
      BY <1>2, Zenon
    <2>1. TypeOK'
      BY <1>2, <2>0, SMTT(30)
    <2>2. LockOwned'
      BY <1>2, <2>0, Zenon
    <2>3. Instances'
      BY <1>2, <2>0, Zenon
    <2>4. MonitorLocal'
      BY <1>2, <2>0, Zenon
    <2>5. AckSound'
      BY <1>2, <2>0, Zenon
    <2>6. ProbeSound'
      BY <1>2, <2>0, Zenon
    <2>7. ClearSound'
      BY <1>2, <2>0, Zenon
    <2> QED
      BY <2>1, <2>2, <2>3, <2>4, <2>5, <2>6, <2>7, Zenon
  <1> HIDE DEF IInv
  <1> QED
    BY <1>1, <1>2, Zenon

(* The decision to acknowledge is taken on a paused, empty queue.          *)
LEMMA MonDecideKeeps ==
  ASSUME IInv, MonDecide
  PROVE  IInv'
  <1> USE HandshakeConstants
      DEF IInv, TypeOK, LockOwned, Instances, MonitorLocal, AckSound,
        ProbeSound, ClearSound, Untouched, Frozen, Drained,
        Holding, CountedStates, SessionStates, Tokens, NoToken, Unwritten,
        files, daemon, monitor, owner, bounds, MonDecide, ShouldAck
  <1>0. paused' \in BOOLEAN /\ pending' \in BOOLEAN /\ handle' \in BOOLEAN /\ reading' \in BOOLEAN
    BY Zenon
  <1>1. TypeOK'
    BY <1>0, Zenon
  <1>2. LockOwned'
    BY Zenon
  <1>3. Instances'
    BY Zenon
  <1>4. MonitorLocal'
    <2>1. mon' = "ack" => ShouldAck
      BY SMT
    <2>2. ShouldAck => ~handle'
      BY Zenon DEF MonDecide
    <2>3. mon' \in {"ack", "publish"} /\ (paused' <=> seen' # NoToken)
      BY SMT
    <2> QED
      BY <2>1, <2>2, <2>3, SMT
  <1>5. AckSound'
    BY Zenon
  <1>6. ProbeSound'
    BY Zenon
  <1>7. ClearSound'
    BY Zenon
  <1> HIDE DEF TypeOK, LockOwned, Instances, MonitorLocal, AckSound, ProbeSound, ClearSound
  <1> QED
    BY <1>1, <1>2, <1>3, <1>4, <1>5, <1>6, <1>7, Zenon

(* The acknowledgement is written while the queue is frozen.               *)
LEMMA MonAckKeeps ==
  ASSUME IInv, MonAck
  PROVE  IInv'
  <1> USE HandshakeConstants
      DEF IInv, TypeOK, LockOwned, Instances, MonitorLocal, AckSound,
        ProbeSound, ClearSound, Untouched, Frozen, Drained,
        Holding, CountedStates, SessionStates, Tokens, NoToken, Unwritten,
        files, daemon, monitor, owner, bounds, MonAck
  <1>0. paused' \in BOOLEAN /\ pending' \in BOOLEAN /\ handle' \in BOOLEAN /\ reading' \in BOOLEAN
    BY Zenon
  <1>1. TypeOK'
    BY <1>0, Zenon
  <1>2. LockOwned'
    BY Zenon
  <1>3. Instances'
    BY Zenon
  <1>4. MonitorLocal'
    BY Zenon
  <1>5. AckSound'
    BY SMTT(30)
  <1>6. ProbeSound'
    BY Zenon
  <1>7. ClearSound'
    BY Zenon
  <1> HIDE DEF TypeOK, LockOwned, Instances, MonitorLocal, AckSound, ProbeSound, ClearSound
  <1> QED
    BY <1>1, <1>2, <1>3, <1>4, <1>5, <1>6, <1>7, Zenon

(* Publishing the status makes a starting instance a ready one.            *)
LEMMA MonPublishKeeps ==
  ASSUME IInv, MonPublish
  PROVE  IInv'
  <1> USE HandshakeConstants
      DEF IInv, TypeOK, LockOwned, Instances, MonitorLocal, AckSound,
        ProbeSound, ClearSound, Untouched, Frozen, Drained,
        Holding, CountedStates, SessionStates, Tokens, NoToken, Unwritten,
        files, daemon, monitor, owner, bounds, MonPublish
  <1>0. paused' \in BOOLEAN /\ pending' \in BOOLEAN /\ handle' \in BOOLEAN /\ reading' \in BOOLEAN
    BY Zenon
  <1>1. TypeOK'
    BY <1>0, Zenon
  <1>2. LockOwned'
    BY SMTT(30)
  <1>3. Instances'
    BY SMTT(30)
  <1>4. MonitorLocal'
    BY Zenon
  <1>5. AckSound'
    BY Zenon
  <1>6. ProbeSound'
    BY Zenon
  <1>7. ClearSound'
    BY Zenon
  <1> HIDE DEF TypeOK, LockOwned, Instances, MonitorLocal, AckSound, ProbeSound, ClearSound
  <1> QED
    BY <1>1, <1>2, <1>3, <1>4, <1>5, <1>6, <1>7, Zenon

(* A failed iteration changes no file.                                     *)
LEMMA MonFailsKeeps ==
  ASSUME IInv, MonFails
  PROVE  IInv'
  <1> USE HandshakeConstants
      DEF IInv, TypeOK, LockOwned, Instances, MonitorLocal, AckSound,
        ProbeSound, ClearSound, Untouched, Frozen, Drained,
        Holding, CountedStates, SessionStates, Tokens, NoToken, Unwritten,
        files, daemon, monitor, owner, bounds, MonFails, Fault
  <1>0. paused' \in BOOLEAN /\ pending' \in BOOLEAN /\ handle' \in BOOLEAN /\ reading' \in BOOLEAN
    BY Zenon
  <1>1. TypeOK'
    <2>1. phase' \in {"down", "starting", "ready", "serving", "stopping", "final", "gone"}
      BY SMT
    <2>2. mon' = "read" /\ seen' = NoToken /\ faults' \in Nat
      BY SMT
    <2>3. UNCHANGED <<lock, drained, status, inst, acked, tx, pc, tok, found, tokens>>
      BY Zenon
    <2> QED
      BY <1>0, <2>1, <2>2, <2>3, Zenon DEF TypeOK
  <1>2. LockOwned'
    BY SMTT(30)
  <1>3. Instances'
    BY Zenon
  <1>4. MonitorLocal'
    BY Zenon
  <1>5. AckSound'
    BY Zenon
  <1>6. ProbeSound'
    BY Zenon
  <1>7. ClearSound'
    BY Zenon
  <1> HIDE DEF TypeOK, LockOwned, Instances, MonitorLocal, AckSound, ProbeSound, ClearSound
  <1> QED
    BY <1>1, <1>2, <1>3, <1>4, <1>5, <1>6, <1>7, Zenon

(* SMTP transactions: no connection passes a standing lock, and a paused    *)
(* queue gives no reservation, so neither an untouched nor a frozen        *)
(* process changes its mind.                                               *)
LEMMA SessionKeeps ==
  ASSUME IInv, NEW s \in Slots,
         \/ Connect(s) \/ RejectRcpt(s) \/ DataCheck(s) \/ DataReserve(s) \/ FinishData(s) \/ Push(s) \/ GiveUp(s) \/ WorkerPop(s) \/ WorkerCommit(s) \/ WorkerComplete(s)
  PROVE  IInv'
  <1> USE HandshakeConstants
      DEF IInv, TypeOK, LockOwned, Instances, MonitorLocal, AckSound,
        ProbeSound, ClearSound, Untouched, Frozen, Drained,
        Holding, CountedStates, SessionStates, Tokens, NoToken, Unwritten,
        files, daemon, monitor, owner, bounds, TxMove, LockHeld
  <1>1. CASE Connect(s)
    BY <1>1, SMTT(60) DEF Connect
  <1>2. CASE RejectRcpt(s)
    BY <1>2, SMTT(60) DEF RejectRcpt
  <1>3. CASE DataCheck(s)
    BY <1>3, SMTT(60) DEF DataCheck
  <1>4. CASE DataReserve(s)
    BY <1>4, SMTT(60) DEF DataReserve
  <1>5. CASE FinishData(s)
    BY <1>5, SMTT(60) DEF FinishData
  <1>6. CASE Push(s)
    BY <1>6, SMTT(60) DEF Push
  <1>7. CASE GiveUp(s)
    BY <1>7, SMTT(60) DEF GiveUp
  <1>8. CASE WorkerPop(s)
    BY <1>8, SMTT(60) DEF WorkerPop
  <1>9. CASE WorkerCommit(s)
    BY <1>9, SMTT(60) DEF WorkerCommit
  <1>10. CASE WorkerComplete(s)
    BY <1>10, SMTT(60) DEF WorkerComplete
  <1> HIDE DEF IInv
  <1> QED
    BY <1>1, <1>2, <1>3, <1>4, <1>5, <1>6, <1>7, <1>8, <1>9, <1>10, Zenon

-----------------------------------------------------------------------------
(* The other side, and the theorems. *)

(* Initially no process runs and no file exists.                           *)
LEMMA InitInv == Init => IInv
  <1> SUFFICES ASSUME Init PROVE IInv
    OBVIOUS
  <1> USE HandshakeConstants DEF Init, NoToken, Unwritten, Tokens
  <1>1. paused \in BOOLEAN /\ pending \in BOOLEAN /\ handle \in BOOLEAN /\ reading \in BOOLEAN
    BY Zenon
  <1>2. TypeOK
    BY <1>1, SMTT(30) DEF TypeOK, SessionStates, CountedStates
  <1>3. LockOwned /\ AckSound /\ ProbeSound /\ ClearSound
    BY SMTT(30) DEF LockOwned, AckSound, ProbeSound, ClearSound, Holding
  <1>4. Untouched
    BY Zenon DEF Untouched
  <1>5. Instances /\ MonitorLocal
    BY <1>4, SMTT(30) DEF Instances, MonitorLocal
  <1> QED
    BY <1>2, <1>3, <1>5, Zenon DEF IInv

(* The clearing side: each of the three answers is sound when it is taken.  *)
LEMMA OwnerKeeps ==
  ASSUME IInv, NEW o \in Owners,
         \/ RemoveStaleAck(o) \/ AckSeen(o) \/ StatusAbsent(o) \/ StatusStale(o) \/ Probe(o) \/ BeginFails(o) \/ RemoveLock(o) \/ CheckOwnAck(o) \/ RemoveOwnAck(o) \/ OwnerCrash(o)
  PROVE  IInv'
  <1> USE HandshakeConstants
      DEF IInv, TypeOK, LockOwned, Instances, MonitorLocal, AckSound,
        ProbeSound, ClearSound, Untouched, Frozen, Drained,
        Holding, CountedStates, SessionStates, Tokens, NoToken, Unwritten,
        files, daemon, monitor, owner, bounds, OwnerMove, Fault, Up
  <1>1. CASE RemoveStaleAck(o)
    BY <1>1, SMTT(60) DEF RemoveStaleAck
  <1>2. CASE AckSeen(o)
    BY <1>2, SMTT(60) DEF AckSeen
  <1>3. CASE StatusAbsent(o)
    BY <1>3, SMTT(60) DEF StatusAbsent
  <1>4. CASE StatusStale(o)
    BY <1>4, SMTT(60) DEF StatusStale
  <1>5. CASE Probe(o)
    BY <1>5, SMTT(60) DEF Probe
  <1>6. CASE BeginFails(o)
    BY <1>6, SMTT(60) DEF BeginFails
  <1>7. CASE RemoveLock(o)
    BY <1>7, SMTT(60) DEF RemoveLock
  <1>8. CASE CheckOwnAck(o)
    BY <1>8, SMTT(60) DEF CheckOwnAck
  <1>9. CASE RemoveOwnAck(o)
    BY <1>9, SMTT(60) DEF RemoveOwnAck
  <1>10. CASE OwnerCrash(o)
    BY <1>10, SMTT(60) DEF OwnerCrash
  <1> HIDE DEF IInv
  <1> QED
    BY <1>1, <1>2, <1>3, <1>4, <1>5, <1>6, <1>7, <1>8, <1>9, <1>10, Zenon

(* A new lock comes with a token no file and no process has seen.          *)
LEMMA CreateLockKeeps ==
  ASSUME IInv, NEW o \in Owners, CreateLock(o)
  PROVE  IInv'
  <1> USE HandshakeConstants
      DEF IInv, TypeOK, LockOwned, Instances, MonitorLocal, AckSound,
        ProbeSound, ClearSound, Untouched, Frozen, Drained,
        Holding, CountedStates, SessionStates, Tokens, NoToken, Unwritten,
        files, daemon, monitor, owner, bounds, CreateLock, OwnerMove
  <1>1. TypeOK'
    BY SMTT(30)
  <1>2. LockOwned'
    BY SMTT(30)
  <1>3. Instances'
    BY Zenon
  <1>4. MonitorLocal'
    BY Zenon
  <1>5. AckSound'
    BY SMTT(30)
  <1>6. ProbeSound'
    BY Zenon
  <1>7. ClearSound'
    BY Zenon
  <1> HIDE DEF TypeOK, LockOwned, Instances, MonitorLocal, AckSound, ProbeSound, ClearSound
  <1> QED
    BY <1>1, <1>2, <1>3, <1>4, <1>5, <1>6, <1>7, Zenon

(* When the token appears nothing acknowledges it yet.                      *)
LEMMA PublishTokenKeeps ==
  ASSUME IInv, NEW o \in Owners, PublishToken(o)
  PROVE  IInv'
  <1> USE HandshakeConstants
      DEF IInv, TypeOK, LockOwned, Instances, MonitorLocal, AckSound,
        ProbeSound, ClearSound, Untouched, Frozen, Drained,
        Holding, CountedStates, SessionStates, Tokens, NoToken, Unwritten,
        files, daemon, monitor, owner, bounds, PublishToken, OwnerMove
  <1>1. TypeOK'
    BY SMTT(30)
  <1>2. LockOwned'
    BY SMTT(30)
  <1>3. Instances'
    BY Zenon
  <1>4. MonitorLocal'
    BY Zenon
  <1>5. AckSound'
    BY Zenon
  <1>6. ProbeSound'
    BY Zenon
  <1>7. ClearSound'
    BY Zenon
  <1> HIDE DEF TypeOK, LockOwned, Instances, MonitorLocal, AckSound, ProbeSound, ClearSound
  <1> QED
    BY <1>1, <1>2, <1>3, <1>4, <1>5, <1>6, <1>7, Zenon

(* An operator's removal finds nobody holding the lock.                    *)
LEMMA OperatorKeeps ==
  ASSUME IInv, OperatorUnlocks
  PROVE  IInv'
  <1> USE HandshakeConstants
      DEF IInv, TypeOK, LockOwned, Instances, MonitorLocal, AckSound,
        ProbeSound, ClearSound, Untouched, Frozen, Drained,
        Holding, CountedStates, SessionStates, Tokens, NoToken, Unwritten,
        files, daemon, monitor, owner, bounds, OperatorUnlocks, LockHeld, Up
  <1> QED
    BY SMTT(60)

(* The invariant is kept by every step.                                    *)
LEMMA StepInv ==
  ASSUME IInv, [Next]_vars
  PROVE  IInv'
  <1>1. CASE UNCHANGED vars
    BY <1>1, SMTT(60)
    DEF IInv, TypeOK, LockOwned, Instances, MonitorLocal, AckSound, ProbeSound, ClearSound,
        Untouched, Frozen, Drained, vars, files, daemon, monitor, owner, bounds
  <1>2. CASE Next
    BY <1>2, ProcessKeeps, ReloadCloseKeeps, ExitKeeps, CrashKeeps, MonitorReadKeeps,
       MonDecideKeeps, MonAckKeeps, MonPublishKeeps, MonFailsKeeps, SessionKeeps,
       OwnerKeeps, CreateLockKeeps, PublishTokenKeeps, OperatorKeeps, Zenon
    DEF Next
  <1> QED
    BY <1>1, <1>2, Zenon

(* Every reachable state of the handshake satisfies the inductive          *)
(* invariant.                                                              *)
THEOREM HandshakeInvariant == Spec => []IInv
  BY InitInv, StepInv, PTL DEF Spec

(* Every variable keeps its type.                                          *)
THEOREM HandshakeTypes == Spec => []TypeOK
  <1>1. IInv => TypeOK
    BY Zenon DEF IInv
  <1> QED
    BY <1>1, HandshakeInvariant, PTL

(* clear_all_mail mutates only while ingestd holds no reservation, queued   *)
(* or in-flight message and no open writer session, however the wait ended *)
(* and however often ingestd was replaced meanwhile.                       *)
THEOREM ClearIsExclusive == Spec => []Exclusive
  <1>1. IInv => Exclusive
    BY Zenon DEF IInv, ClearSound, Untouched, Frozen, Drained, Exclusive, CountedStates
  <1> QED
    BY <1>1, HandshakeInvariant, PTL

(* A drained acknowledgement with the published token is current.          *)
THEOREM AckNeverStale == Spec => []AckIsCurrent
  <1>1. IInv => AckIsCurrent
    BY Zenon DEF IInv, AckSound, AckIsCurrent
  <1> QED
    BY <1>1, HandshakeInvariant, PTL

(* Two processes never clear at once.                                      *)
THEOREM ClearIsSingle == Spec => []OneOwner
  <1>1. IInv => OneOwner
    BY Zenon DEF IInv, LockOwned, Holding, OneOwner
  <1> QED
    BY <1>1, HandshakeInvariant, PTL

-----------------------------------------------------------------------------
(* The database writer: its invariant. *)

Entered == {"waiting", "granted"}
WaiterStates == {"none", "waiting", "granted", "consumed", "cancelled", "rejected"}
CallerStates == {"idle", "waiting", "admitted", "queued", "ended"}

WriterTyped ==
  /\ waiters \in Seq(Callers) /\ wst \in [Callers -> WaiterStates]
  /\ caller \in [Callers -> CallerStates] /\ queue \in Seq(Callers \cup {STOP})

\* A request is at one position of the queue or with the worker, never in both.
At(q, c, i) == i \in 1 .. Len(q) /\ q[i] = c
Runs(c) == cur = c /\ worker \in {"run", "release"}
OnePlace ==
  /\ worker \in {"run", "release"} => cur \in Callers
  /\ \A c \in Callers : \A i, j \in Nat : At(queue, c, i) /\ At(queue, c, j) => i = j
  /\ \A c \in Callers : \A i \in Nat : At(queue, c, i) => ~Runs(c)

\* Who waits for a slot, or was granted one, has no request yet.
NoRequest(c) == ~InQueue(c) /\ ~Runs(c)
Staged ==
  \A c \in Callers :
    /\ caller[c] \in {"idle", "waiting", "admitted"} => NoRequest(c)
    /\ wst[c] \in Entered => caller[c] \in {"waiting", "ended"} /\ NoRequest(c)

\* The counter is exact while the writer is open; afterwards nobody is admitted.
Counted ==
  /\ Cardinality(SlotOwners) <= Capacity
  /\ state = "open" => out = Cardinality(SlotOwners) /\ worker \notin {"failing", "drain"}

WriterInv == WriterTyped /\ OnePlace /\ Staged /\ Counted

-----------------------------------------------------------------------------
(* Grants. *)

(* A set of naturals that is not empty has a least element. *)
LEMMA LeastNumber ==
  ASSUME NEW S, S \subseteq Nat, S # {}
  PROVE  \E x \in S : \A y \in S : x <= y
<1>1. PICK x \in S : \A y \in S : ~(<<y, x>> \in OpToRel(<, Nat))
  BY WFMin, NatLessThanWellFounded, Zenon
<1>2. \A y \in S : ~(y < x)
  BY <1>1, Zenon DEF OpToRel
<1>3. x \in Nat /\ \A y \in S : y \in Nat
  BY Zenon
<1> QED BY <1>2, <1>3

\* The number of waiting entries grows by at most one from entry to entry.
LEMMA WaitingGrows ==
  ASSUME NEW q, NEW w, NEW k \in Nat
  PROVE  /\ IsFiniteSet(Waiting(q, w, k)) /\ Cardinality(Waiting(q, w, k)) \in Nat
         /\ Cardinality(Waiting(q, w, 0)) = 0
         /\ Cardinality(Waiting(q, w, k + 1)) <= Cardinality(Waiting(q, w, k)) + 1
<1>1. \A n \in Nat : IsFiniteSet(Waiting(q, w, n)) /\ Cardinality(Waiting(q, w, n)) \in Nat
  <2> SUFFICES ASSUME NEW n \in Nat
               PROVE  IsFiniteSet(Waiting(q, w, n)) /\ Cardinality(Waiting(q, w, n)) \in Nat
    OBVIOUS
  <2>1. IsFiniteSet(1 .. n)
    BY FS_Interval
  <2>2. Waiting(q, w, n) \in SUBSET (1 .. n)
    BY Zenon DEF Waiting
  <2> QED BY <2>1, <2>2, FS_Subset, FS_CardinalityType, Zenon
<1>2. Waiting(q, w, 0) = {}
  BY DEF Waiting
<1>3. Waiting(q, w, k + 1) \in SUBSET (Waiting(q, w, k) \cup {k + 1})
  <2>1. \A i \in 1 .. k + 1 : i \in 1 .. k \/ i = k + 1
    OBVIOUS
  <2> QED BY <2>1, Zenon DEF Waiting
<1>4. k + 1 \in Nat
  OBVIOUS
<1> DEFINE X == Waiting(q, w, k)
           Y == X \cup {k + 1}
<1> HIDE DEF X
<1>5. IsFiniteSet(X) /\ Cardinality(X) \in Nat
  BY <1>1, Zenon DEF X
<1>6. IsFiniteSet(Y) /\ (Cardinality(Y) = Cardinality(X) + 1 \/ Cardinality(Y) = Cardinality(X))
  BY <1>5, FS_AddElement, Zenon
<1>7. Cardinality(Waiting(q, w, k + 1)) <= Cardinality(Y)
  BY <1>3, <1>6, FS_Subset, Zenon DEF X
<1>8. Cardinality(Waiting(q, w, k + 1)) \in Nat
  BY <1>1, <1>4, Zenon
<1>9. Cardinality(Waiting(q, w, k + 1)) <= Cardinality(X) + 1
  BY <1>5, <1>6, <1>7, <1>8
<1> QED BY <1>1, <1>2, <1>9, FS_EmptySet, Zenon DEF X

\* _grant_waiters_locked takes entries of the deque and grants no more than the
\* slots that are free.
LEMMA Granting ==
  ASSUME NEW S, NEW q \in Seq(S), NEW w, NEW free \in Nat
  PROVE  /\ Popped(q, w, free) \in 0 .. Len(q)
         /\ Cardinality(Waiting(q, w, Popped(q, w, free))) <= free
<1> DEFINE N(k) == Cardinality(Waiting(q, w, k))
           n == Len(q)
<1>1. n \in Nat
  OBVIOUS
<1> HIDE DEF n
<1>2. N(n) \in Nat
  BY <1>1, WaitingGrows, Zenon
<1>3. CASE N(n) < free
  <2>1. Popped(q, w, free) = n
    BY <1>3, Zenon DEF Popped, n
  <2> QED BY <1>1, <1>2, <1>3, <2>1 DEF n
<1>4. CASE ~(N(n) < free)
  <2> DEFINE A == {k \in 0 .. n : ~(N(k) < free)}
  <2>1. n \in A /\ A \subseteq Nat
    BY <1>1, <1>4
  <2>2. PICK k \in A : \A j \in A : k <= j
    <3> HIDE DEF A
    <3> QED BY <2>1, LeastNumber, Zenon
  <2>3. k \in 0 .. n /\ ~(N(k) < free) /\ k \in Nat
    BY <2>1, <2>2, Zenon
  <2>4. \A j \in 0 .. k - 1 : N(j) < free
    <3> SUFFICES ASSUME NEW j \in 0 .. k - 1, ~(N(j) < free) PROVE FALSE
      OBVIOUS
    <3>1. j \in 0 .. n /\ ~(k <= j)
      BY <1>1, <2>3
    <3>2. j \in A
      BY <3>1, Zenon
    <3> QED BY <2>2, <3>1, <3>2, Zenon
  <2>5. N(k) = free
    <3>1. CASE k = 0
      <4>1. N(k) = 0
        BY <3>1, WaitingGrows, <2>3, Zenon
      <4> QED BY <2>3, <4>1
    <3>2. CASE k # 0
      <4> DEFINE p == k - 1
      <4>1. p \in Nat /\ p + 1 = k /\ p \in 0 .. k - 1
        BY <2>3, <3>2
      <4> HIDE DEF p
      <4>2. N(p) \in Nat /\ N(p + 1) <= N(p) + 1
        BY <4>1, WaitingGrows, Zenon
      <4>3. N(p) < free
        BY <2>4, <4>1, Zenon
      <4>4. N(k) \in Nat
        BY <2>3, WaitingGrows, Zenon
      <4>5. N(k) <= N(p) + 1
        BY <4>1, <4>2, Zenon
      <4> HIDE DEF N
      <4> QED BY <2>3, <4>2, <4>3, <4>4, <4>5
    <3> QED BY <3>1, <3>2, Zenon
  <2>6. Popped(q, w, free) = CHOOSE x \in 0 .. n : N(x) = free /\ \A j \in 0 .. x - 1 : N(j) < free
    BY <1>4, Zenon DEF Popped, n
  <2>7. Popped(q, w, free) \in 0 .. n /\ N(Popped(q, w, free)) = free
    BY <2>3, <2>4, <2>5, <2>6, Zenon
  <2> QED BY <2>7 DEF n
<1> QED BY <1>3, <1>4, Zenon

\* _discard_inactive_waiters_locked leaves a tail of the deque.
LEMMA ActiveIsTail ==
  ASSUME NEW S, NEW q \in Seq(S), NEW w
  PROVE  Active(q, w) \in Seq(S)
<1> DEFINE n == Len(q)
           A == {k \in 0 .. n : k < n => w[q[k + 1]] = "waiting"}
           P(k) == (\A i \in 1 .. k : w[q[i]] # "waiting") /\ (k < n => w[q[k + 1]] = "waiting")
<1>1. n \in Nat /\ n \in A /\ A \subseteq Nat
  OBVIOUS
<1>2. PICK k \in A : \A j \in A : k <= j
  <2> HIDE DEF A
  <2> QED BY <1>1, LeastNumber, Zenon
<1>3. k \in 0 .. n /\ (k < n => w[q[k + 1]] = "waiting")
  BY <1>2, Zenon
<1>4. \A i \in 1 .. k : w[q[i]] # "waiting"
  <2> SUFFICES ASSUME NEW i \in 1 .. k, w[q[i]] = "waiting" PROVE FALSE
    OBVIOUS
  <2> DEFINE j == i - 1
  <2>1. j \in 0 .. n /\ j + 1 = i /\ ~(k <= j)
    BY <1>1, <1>3
  <2> HIDE DEF j
  <2>2. j \in A
    BY <2>1, Zenon
  <2> QED BY <1>2, <2>1, <2>2, Zenon
<1> HIDE DEF A
<1>5. \E x \in 0 .. n : P(x)
  BY <1>3, <1>4, Zenon
<1> DEFINE x == CHOOSE x \in 0 .. n : P(x)
<1>6. x \in 0 .. n
  BY <1>5, Zenon
<1>7. Active(q, w) = SubSeq(q, x + 1, n)
  BY Zenon DEF Active
<1> HIDE DEF x
<1> QED BY <1>1, <1>6, <1>7


\* Settle from o owned slots and waiters in states w grants to G.
Grants(G, o, w) ==
  /\ state = "open" => o + Cardinality(G) <= Capacity
  /\ state # "open" => G = {}
  /\ \A c \in G : w[c] = "waiting"
  /\ out' = o + Cardinality(G)
  /\ waiters' \in Seq(Callers)
  /\ wst' = [c \in Callers |-> IF c \in G THEN "granted" ELSE w[c]]

\* What _grant_waiters_locked does: the grants go to callers that wait and
\* never exceed the free slots.
LEMMA SettleEffect ==
  ASSUME NEW o, NEW w, NEW q \in Seq(Callers), NEW mail,
         state = "open" => o \in Nat /\ o <= Capacity, Settle(o, w, q, mail)
  PROVE  \E G \in SUBSET Callers : Grants(G, o, w)
<1> DEFINE k == IF state = "open" THEN Popped(q, w, Free(o)) ELSE 0
           I == Waiting(q, w, k)
           G == {q[i] : i \in I}
<1>1. /\ out' = o + Cardinality(G) /\ waiters' = SubSeq(q, k + 1, Len(q))
      /\ wst' = [c \in Callers |-> IF c \in G THEN "granted" ELSE w[c]]
  BY Zenon DEF Settle
<1>2. k \in 0 .. Len(q) /\ (state = "open" => Cardinality(I) <= Capacity - o)
  <2>1. CASE state = "open"
    <3>1. Capacity - o \in Nat
      BY <2>1, WriterConstants
    <3> QED BY <2>1, <3>1, Granting, Zenon DEF Free
  <2>2. CASE state # "open"
    <3>1. 0 \in 0 .. Len(q)
      OBVIOUS
    <3> QED BY <2>2, <3>1, Zenon
  <2> QED BY <2>1, <2>2, Zenon
<1>3. state # "open" => I = {}
  BY DEF Waiting
<1> HIDE DEF k
<1>4. k \in Nat /\ \A i \in I : i \in 1 .. Len(q) /\ w[q[i]] = "waiting"
  BY <1>2 DEF Waiting
<1>5. IsFiniteSet(I) /\ Cardinality(I) \in Nat
  BY <1>4, WaitingGrows, Zenon
<1> HIDE DEF I
<1>6. G \in SUBSET Callers /\ \A c \in G : w[c] = "waiting"
  BY <1>4
<1>7. IsFiniteSet(G) /\ Cardinality(G) <= Cardinality(I)
  <2> DEFINE f == [i \in I |-> q[i]]
  <2>1. f \in Surjection(I, G)
    BY DEF Surjection
  <2> HIDE DEF f, G
  <2> QED BY <1>5, <2>1, FS_Surjection, Zenon
<1>8. state # "open" => G = {}
  BY <1>3, Zenon
<1> HIDE DEF G
<1>9. Cardinality(G) \in Nat
  BY <1>7, FS_CardinalityType, Zenon
<1>10. state = "open" => o + Cardinality(G) <= Capacity
  BY <1>2, <1>5, <1>7, <1>9, WriterConstants
<1>11. waiters' \in Seq(Callers)
  BY <1>1, <1>2
<1> QED BY <1>1, <1>6, <1>8, <1>10, <1>11, Zenon DEF Grants

\* Sets of callers are finite.
LEMMA CallerSets ==
  ASSUME NEW S \in SUBSET Callers
  PROVE  IsFiniteSet(S) /\ Cardinality(S) \in Nat
BY WriterConstants, FS_Subset, FS_CardinalityType, Zenon

\* Owns with the waiters in states w.
OwnsIn(c, w) == caller[c] = "admitted" \/ w[c] = "granted" \/ ~NoRequest(c)

\* Who owns a slot, by the states of the waiters.
LEMMA OwnsParts == \A c : Owns(c) <=> OwnsIn(c, wst)
BY Zenon DEF Owns, OwnsIn, NoRequest, Runs

\* A step that ends with Settle: if o counts the slots owned before the grants,
\* the counter is exact after them.
LEMMA CountsAgain ==
  ASSUME NEW o, NEW w \in [Callers -> WaiterStates], NEW q \in Seq(Callers), NEW mail,
         NEW B \in SUBSET Callers, Settle(o, w, q, mail), state' = state,
         Cardinality(B) <= Capacity, state = "open" => o = Cardinality(B) /\ worker' \notin {"failing", "drain"},
         \A c \in Callers : c \in B <=> caller'[c] = "admitted" \/ w[c] = "granted" \/ ~NoRequest(c)',
         \A c \in Callers : w[c] = "waiting" => c \notin B
  PROVE  /\ Counted' /\ waiters' \in Seq(Callers) /\ wst' \in [Callers -> WaiterStates]
         /\ \A c \in Callers : wst'[c] = w[c] \/ (w[c] = "waiting" /\ wst'[c] = "granted")
<1>1. IsFiniteSet(B) /\ Cardinality(B) \in Nat
  BY CallerSets
<1>2. PICK G \in SUBSET Callers : Grants(G, o, w)
  <2>1. state = "open" => o \in Nat /\ o <= Capacity
    BY <1>1, Zenon
  <2> QED BY <2>1, SettleEffect, Zenon
<1>3. IsFiniteSet(G) /\ Cardinality(G) \in Nat
  BY CallerSets
<1>4. \A c \in Callers : wst'[c] = IF c \in G THEN "granted" ELSE w[c]
  BY <1>2, Zenon DEF Grants
<1>5. \A c \in G : w[c] = "waiting" /\ c \notin B
  BY <1>2, Zenon DEF Grants
<1>6. \A c \in Callers : Owns(c)' <=> caller'[c] = "admitted" \/ wst'[c] = "granted" \/ ~NoRequest(c)'
  BY Zenon DEF Owns, NoRequest, Runs
<1>7. SlotOwners' = B \cup G
  <2>1. \A c \in Callers : Owns(c)' <=> c \in B \/ c \in G
    BY <1>4, <1>5, <1>6, Zenon
  <2> QED BY <2>1, Zenon DEF SlotOwners
<1>8. B \cap G = {}
  BY <1>5, Zenon
<1>9. Cardinality(B \cup G) = Cardinality(B) + Cardinality(G)
  <2>1. Cardinality(B \cup G) = Cardinality(B) + Cardinality(G) - Cardinality(B \cap G)
    BY <1>1, <1>3, FS_Union, Zenon
  <2>2. Cardinality(B \cap G) = 0
    BY <1>8, FS_EmptySet, Zenon
  <2> QED BY <1>1, <1>3, <2>1, <2>2
<1>10. state = "open" => out' = Cardinality(SlotOwners') /\ Cardinality(SlotOwners') <= Capacity
  BY <1>2, <1>7, <1>9, Zenon DEF Grants
<1>11. state # "open" => Cardinality(SlotOwners') <= Capacity
  <2>1. state # "open" => B \cup G = B
    BY <1>2, Zenon DEF Grants
  <2> QED BY <1>7, <2>1, Zenon
<1>12. Counted'
  BY <1>10, <1>11, Zenon DEF Counted
<1>13. waiters' \in Seq(Callers)
  BY <1>2, Zenon DEF Grants
<1>14. wst' \in [Callers -> WaiterStates]
  <2>1. \A c \in Callers : (IF c \in G THEN "granted" ELSE w[c]) \in WaiterStates
    BY Zenon DEF WaiterStates
  <2> QED BY <1>2, <2>1, Zenon DEF Grants
<1>15. \A c \in Callers : wst'[c] = w[c] \/ (w[c] = "waiting" /\ wst'[c] = "granted")
  BY <1>4, <1>5, Zenon
<1> QED BY <1>12, <1>13, <1>14, <1>15, Zenon

\* A step after which the same callers own slots, or, once the writer is no
\* longer open, only some of them.
LEMMA CountedSame ==
  ASSUME Counted, \A c \in Callers : Owns(c)' => Owns(c),
         state' = "open" => /\ state = "open" /\ out' = out /\ worker' \notin {"failing", "drain"}
                            /\ \A c \in Callers : Owns(c) => Owns(c)'
  PROVE  Counted'
<1>1. SlotOwners' \in SUBSET SlotOwners /\ SlotOwners \in SUBSET Callers
  BY Zenon DEF SlotOwners
<1>2. /\ Cardinality(SlotOwners) \in Nat /\ Cardinality(SlotOwners') \in Nat
      /\ Cardinality(SlotOwners') <= Cardinality(SlotOwners)
  BY <1>1, CallerSets, FS_Subset, Zenon
<1>3. Cardinality(SlotOwners') <= Capacity
  BY <1>2, WriterConstants DEF Counted
<1>4. state' = "open" => SlotOwners' = SlotOwners
  BY <1>1, Zenon DEF SlotOwners
<1> QED BY <1>3, <1>4, Zenon DEF Counted

-----------------------------------------------------------------------------
(* The calls. *)

\* Requests stay where they are.
LEMMA PlacesKept ==
  ASSUME OnePlace, queue' = queue, cur' = cur, worker' = worker
  PROVE  OnePlace' /\ \A c : NoRequest(c)' <=> NoRequest(c)
BY Zenon DEF OnePlace, NoRequest, InQueue, Runs, At

\* A waiter in state v is one of states w, or was granted its slot.
LEMMA StagedKept ==
  ASSUME NEW w, \A c \in Callers : wst'[c] = w[c] \/ (w[c] = "waiting" /\ wst'[c] = "granted"),
         \A c \in Callers : caller'[c] \in {"idle", "waiting", "admitted"} => NoRequest(c)',
         \A c \in Callers : w[c] \in Entered => caller'[c] \in {"waiting", "ended"} /\ NoRequest(c)'
  PROVE  Staged'
<1>1. \A c \in Callers : wst'[c] \in Entered => w[c] \in Entered
  BY Zenon DEF Entered
<1> QED BY <1>1, Zenon DEF Staged

\* _cancel_admission: the waiter is cancelled and the slot it was granted, if
\* it was, goes to the next one.
LEMMA WithdrawStep ==
  ASSUME WriterInv, NEW c \in Callers, NEW mail, Withdraw(c, mail), state' = state,
         queue' = queue, cur' = cur, worker' = worker, caller[c] \in {"waiting", "ended"},
         caller' = caller \/ caller' = [caller EXCEPT ![c] = "ended"]
  PROVE  WriterInv'
<1> DEFINE g == wst[c] = "granted"
           o == IF g THEN out - 1 ELSE out
           w == [wst EXCEPT ![c] = IF @ \in {"waiting", "granted"} THEN "cancelled" ELSE @]
           B == IF g THEN SlotOwners \ {c} ELSE SlotOwners
<1>1. Settle(o, w, waiters, mail)
  BY Zenon DEF Withdraw
<1>2. wst \in [Callers -> WaiterStates] /\ caller \in [Callers -> CallerStates] /\ waiters \in Seq(Callers)
  BY Zenon DEF WriterInv, WriterTyped
<1>3. w \in [Callers -> WaiterStates]
  BY <1>2 DEF WaiterStates
<1>4. /\ \A d \in Callers : d # c => w[d] = wst[d]
      /\ w[c] \notin Entered
  BY <1>2 DEF Entered
<1>5. /\ caller' \in [Callers -> CallerStates]
      /\ \A d \in Callers : caller'[d] = caller[d] \/ (d = c /\ caller'[d] = "ended")
  BY <1>2 DEF CallerStates
<1>6. OnePlace' /\ \A d : NoRequest(d)' <=> NoRequest(d)
  BY PlacesKept, Zenon DEF WriterInv
<1> HIDE DEF w
<1>7. \A d \in Callers : Owns(d) <=> caller[d] = "admitted" \/ wst[d] = "granted" \/ ~NoRequest(d)
  BY OwnsParts, Zenon DEF OwnsIn
<1>8. /\ \A d \in Callers : caller'[d] = "admitted" <=> caller[d] = "admitted"
      /\ caller[c] # "admitted"
  BY <1>5, Zenon
<1>9. g => NoRequest(c)
  BY Zenon DEF WriterInv, Staged, Entered
<1>10. \A d \in Callers : d \in B <=> caller'[d] = "admitted" \/ w[d] = "granted" \/ ~NoRequest(d)'
  <2> SUFFICES ASSUME NEW d \in Callers
               PROVE  d \in B <=> caller'[d] = "admitted" \/ w[d] = "granted" \/ ~NoRequest(d)'
    OBVIOUS
  <2>1. d \in SlotOwners <=> caller[d] = "admitted" \/ wst[d] = "granted" \/ ~NoRequest(d)
    BY <1>7, Zenon DEF SlotOwners
  <2>2. CASE d = c
    <3>1. w[d] # "granted"
      BY <1>4, <2>2, Zenon DEF Entered
    <3>2. CASE g
      <4>1. d \notin B
        BY <2>2, <3>2, Zenon
      <4> QED BY <1>6, <1>8, <1>9, <2>2, <3>1, <3>2, <4>1, Zenon
    <3>3. CASE ~g
      <4>1. d \in B <=> d \in SlotOwners
        BY <3>3, Zenon
      <4> QED BY <1>6, <1>8, <2>1, <2>2, <3>1, <3>3, <4>1, Zenon
    <3> QED BY <3>2, <3>3, Zenon
  <2>3. CASE d # c
    <3>1. d \in B <=> d \in SlotOwners
      BY <2>3, Zenon
    <3> QED BY <1>4, <1>6, <1>8, <2>1, <2>3, <3>1, Zenon
  <2> QED BY <2>2, <2>3, Zenon
<1>11. \A d \in Callers : w[d] = "waiting" => d \notin B
  <2> SUFFICES ASSUME NEW d \in Callers, w[d] = "waiting" PROVE d \notin B
    OBVIOUS
  <2>1. d # c /\ wst[d] = "waiting"
    BY <1>4, Zenon DEF Entered
  <2>2. caller[d] \in {"waiting", "ended"} /\ NoRequest(d)
    BY <2>1, Zenon DEF WriterInv, Staged, Entered
  <2> QED BY <1>6, <1>8, <1>10, <2>2, Zenon
<1>12. SlotOwners \in SUBSET Callers /\ B \in SUBSET SlotOwners /\ B \in SUBSET Callers
  BY Zenon DEF SlotOwners
<1>13. IsFiniteSet(SlotOwners) /\ Cardinality(SlotOwners) \in Nat /\ Cardinality(B) \in Nat
  BY <1>12, CallerSets, Zenon
<1>14. Cardinality(B) <= Capacity
  <2>1. Cardinality(B) <= Cardinality(SlotOwners)
    BY <1>12, <1>13, FS_Subset, Zenon
  <2>2. Cardinality(SlotOwners) <= Capacity
    BY Zenon DEF WriterInv, Counted
  <2> QED BY <1>13, <2>1, <2>2, WriterConstants
<1>15. state = "open" => o = Cardinality(B) /\ worker' \notin {"failing", "drain"}
  <2>1. state = "open" => out = Cardinality(SlotOwners) /\ worker \notin {"failing", "drain"}
    BY Zenon DEF WriterInv, Counted
  <2>2. CASE g
    <3>1. c \in SlotOwners
      BY <1>7, <2>2, Zenon DEF SlotOwners
    <3>2. Cardinality(B) = Cardinality(SlotOwners) - 1
      BY <1>13, <2>2, <3>1, FS_RemoveElement, Zenon
    <3>3. o = out - 1
      BY <2>2, Zenon
    <3> QED BY <2>1, <3>2, <3>3, Zenon
  <2>3. CASE ~g
    BY <2>1, <2>3, Zenon
  <2> QED BY <2>2, <2>3, Zenon
<1> HIDE DEF B, o
<1>16. /\ Counted' /\ waiters' \in Seq(Callers) /\ wst' \in [Callers -> WaiterStates]
       /\ \A d \in Callers : wst'[d] = w[d] \/ (w[d] = "waiting" /\ wst'[d] = "granted")
  BY <1>1, <1>2, <1>3, <1>10, <1>11, <1>12, <1>14, <1>15, CountsAgain, Zenon
<1>17. WriterTyped'
  BY <1>5, <1>16, Zenon DEF WriterInv, WriterTyped
<1>18. Staged'
  <2>1. \A d \in Callers : caller'[d] \in {"idle", "waiting", "admitted"} => NoRequest(d)'
    BY <1>5, <1>6, Zenon DEF WriterInv, Staged
  <2>2. \A d \in Callers : w[d] \in Entered => caller'[d] \in {"waiting", "ended"} /\ NoRequest(d)'
    <3> SUFFICES ASSUME NEW d \in Callers, w[d] \in Entered PROVE caller'[d] \in {"waiting", "ended"} /\ NoRequest(d)'
      OBVIOUS
    <3>1. d # c /\ wst[d] \in Entered
      BY <1>4, Zenon
    <3>2. caller[d] \in {"waiting", "ended"} /\ NoRequest(d)
      BY <3>1, Zenon DEF WriterInv, Staged
    <3> QED BY <1>5, <1>6, <3>1, <3>2, Zenon
  <2> QED BY <1>16, <2>1, <2>2, StagedKept, Zenon
<1> QED BY <1>6, <1>16, <1>17, <1>18, Zenon DEF WriterInv

\* A call ends that owned no slot, or whose request goes on without it: it is
\* refused, gets its result, is abandoned, or its loop is closed.
LEMMA EndsStep ==
  ASSUME WriterInv, NEW c \in Callers, caller[c] # "admitted", caller' = [caller EXCEPT ![c] = "ended"],
         wst' = wst, waiters' \in Seq(Callers), queue' = queue, cur' = cur, worker' = worker,
         state' = "open" => state = "open" /\ out' = out
  PROVE  WriterInv'
<1>1. caller \in [Callers -> CallerStates]
  BY Zenon DEF WriterInv, WriterTyped
<1>2. /\ caller' \in [Callers -> CallerStates]
      /\ \A d \in Callers : caller'[d] = caller[d] \/ (d = c /\ caller'[d] = "ended")
      /\ caller'[c] = "ended"
  BY <1>1 DEF CallerStates
<1>3. WriterTyped'
  BY <1>2, Zenon DEF WriterInv, WriterTyped
<1>4. OnePlace' /\ \A d : NoRequest(d)' <=> NoRequest(d)
  BY PlacesKept, Zenon DEF WriterInv
<1>5. Staged'
  BY <1>2, <1>4, Zenon DEF WriterInv, Staged
<1>6. \A d \in Callers : Owns(d)' <=> Owns(d)
  <2>1. \A d \in Callers : caller'[d] = "admitted" <=> caller[d] = "admitted"
    BY <1>2, Zenon
  <2> QED BY <2>1, Zenon DEF Owns, InQueue
<1>7. state' = "open" => worker' \notin {"failing", "drain"}
  BY Zenon DEF WriterInv, Counted
<1>8. Counted'
  BY <1>6, <1>7, CountedSame, Zenon DEF WriterInv
<1> QED BY <1>3, <1>4, <1>5, <1>8, Zenon DEF WriterInv

\* execute is admitted at once: a free slot and nobody who waits.
LEMMA DirectStep ==
  ASSUME WriterInv, NEW c \in Callers, caller[c] = "idle", state = "open", out < Capacity,
         state' = state, out' = out + 1, waiters' \in Seq(Callers), wst' = wst,
         caller' = [caller EXCEPT ![c] = "admitted"], queue' = queue, cur' = cur,
         worker' = IF worker = "none" THEN "get" ELSE worker
  PROVE  WriterInv'
<1>1. caller \in [Callers -> CallerStates]
  BY Zenon DEF WriterInv, WriterTyped
<1>2. /\ caller' \in [Callers -> CallerStates] /\ caller'[c] = "admitted"
      /\ \A d \in Callers : d # c => caller'[d] = caller[d]
  BY <1>1 DEF CallerStates
<1>3. WriterTyped'
  BY <1>2, Zenon DEF WriterInv, WriterTyped
<1>4. \A d : Runs(d)' <=> Runs(d)
  BY Zenon DEF Runs
<1>5. OnePlace'
  <2>1. worker' \in {"run", "release"} <=> worker \in {"run", "release"}
    BY Zenon
  <2> QED BY <1>4, <2>1, Zenon DEF WriterInv, OnePlace
<1>6. \A d : NoRequest(d)' <=> NoRequest(d)
  BY <1>4, Zenon DEF NoRequest, InQueue
<1>7. NoRequest(c) /\ wst[c] \notin Entered
  BY Zenon DEF WriterInv, Staged
<1>8. Staged'
  <2> SUFFICES ASSUME NEW d \in Callers
               PROVE  /\ caller'[d] \in {"idle", "waiting", "admitted"} => NoRequest(d)'
                      /\ wst'[d] \in Entered => caller'[d] \in {"waiting", "ended"} /\ NoRequest(d)'
    BY Zenon DEF Staged
  <2>1. CASE d = c
    BY <1>6, <1>7, <2>1, Zenon
  <2>2. CASE d # c
    BY <1>2, <1>6, <2>2, Zenon DEF WriterInv, Staged
  <2> QED BY <2>1, <2>2, Zenon
<1>9. SlotOwners' = SlotOwners \cup {c} /\ c \notin SlotOwners
  <2>1. \A d \in Callers : Owns(d) <=> caller[d] = "admitted" \/ wst[d] = "granted" \/ ~NoRequest(d)
    BY OwnsParts, Zenon DEF OwnsIn
  <2>2. \A d \in Callers : Owns(d)' <=> caller'[d] = "admitted" \/ wst'[d] = "granted" \/ ~NoRequest(d)'
    BY Zenon DEF Owns, NoRequest, Runs
  <2>3. ~Owns(c)
    BY <1>7, <2>1, Zenon DEF Entered
  <2>4. \A d \in Callers : Owns(d)' <=> Owns(d) \/ d = c
    BY <1>2, <1>6, <2>1, <2>2, Zenon
  <2> QED BY <2>3, <2>4, Zenon DEF SlotOwners
<1>10. SlotOwners \in SUBSET Callers
  BY Zenon DEF SlotOwners
<1>11. IsFiniteSet(SlotOwners) /\ Cardinality(SlotOwners) \in Nat
  BY <1>10, CallerSets, Zenon
<1>12. Cardinality(SlotOwners') = Cardinality(SlotOwners) + 1
  BY <1>9, <1>11, FS_AddElement, Zenon
<1>13. out = Cardinality(SlotOwners) /\ worker \notin {"failing", "drain"}
  BY Zenon DEF WriterInv, Counted
<1>14. Cardinality(SlotOwners') <= Capacity /\ out' = Cardinality(SlotOwners')
  BY <1>11, <1>12, <1>13, WriterConstants
<1>15. worker' \notin {"failing", "drain"}
  BY <1>13, Zenon
<1>16. Counted'
  BY <1>14, <1>15, Zenon DEF Counted
<1> QED BY <1>3, <1>5, <1>8, <1>16, Zenon DEF WriterInv

\* The sets that CountsAgain asks for when the owners stay the same.
LEMMA OwnersFacts ==
  ASSUME WriterInv
  PROVE  /\ SlotOwners \in SUBSET Callers /\ IsFiniteSet(SlotOwners) /\ Cardinality(SlotOwners) \in Nat
         /\ Cardinality(SlotOwners) <= Capacity
         /\ state = "open" => out = Cardinality(SlotOwners) /\ worker \notin {"failing", "drain"}
         /\ \A d \in Callers : d \in SlotOwners <=> caller[d] = "admitted" \/ wst[d] = "granted" \/ ~NoRequest(d)
         /\ \A d \in Callers : wst[d] = "waiting" => d \notin SlotOwners
<1>1. SlotOwners \in SUBSET Callers
  BY Zenon DEF SlotOwners
<1>2. IsFiniteSet(SlotOwners) /\ Cardinality(SlotOwners) \in Nat
  BY <1>1, CallerSets, Zenon
<1>3. /\ Cardinality(SlotOwners) <= Capacity
      /\ state = "open" => out = Cardinality(SlotOwners) /\ worker \notin {"failing", "drain"}
  BY Zenon DEF WriterInv, Counted
<1>4. \A d \in Callers : d \in SlotOwners <=> caller[d] = "admitted" \/ wst[d] = "granted" \/ ~NoRequest(d)
  BY OwnsParts, Zenon DEF OwnsIn, SlotOwners
<1>5. \A d \in Callers : wst[d] = "waiting" => caller[d] # "admitted" /\ NoRequest(d)
  BY Zenon DEF WriterInv, Staged, Entered
<1> QED BY <1>1, <1>2, <1>3, <1>4, <1>5, Zenon

\* execute becomes a waiter and may be granted a slot in the same step.
LEMMA EnterStep ==
  ASSUME WriterInv, NEW c \in Callers, NEW q \in Seq(Callers), caller[c] = "idle", state' = state,
         Settle(out, [wst EXCEPT ![c] = "waiting"], q, posted),
         caller' = [caller EXCEPT ![c] = "waiting"], queue' = queue, cur' = cur, worker' = worker
  PROVE  WriterInv'
<1> DEFINE w == [wst EXCEPT ![c] = "waiting"]
<1>1. caller \in [Callers -> CallerStates] /\ wst \in [Callers -> WaiterStates]
  BY Zenon DEF WriterInv, WriterTyped
<1>2. /\ caller' \in [Callers -> CallerStates] /\ caller'[c] = "waiting"
      /\ \A d \in Callers : d # c => caller'[d] = caller[d]
  BY <1>1 DEF CallerStates
<1>3. /\ w \in [Callers -> WaiterStates] /\ w[c] = "waiting"
      /\ \A d \in Callers : d # c => w[d] = wst[d]
  BY <1>1 DEF WaiterStates
<1>4. Settle(out, w, q, posted)
  BY Zenon
<1> HIDE DEF w
<1>5. OnePlace' /\ \A d : NoRequest(d)' <=> NoRequest(d)
  BY PlacesKept, Zenon DEF WriterInv
<1>6. NoRequest(c) /\ wst[c] \notin Entered
  BY Zenon DEF WriterInv, Staged
<1>7. \A d \in Callers : d \in SlotOwners <=> caller'[d] = "admitted" \/ w[d] = "granted" \/ ~NoRequest(d)'
  <2> SUFFICES ASSUME NEW d \in Callers
               PROVE  d \in SlotOwners <=> caller'[d] = "admitted" \/ w[d] = "granted" \/ ~NoRequest(d)'
    OBVIOUS
  <2>1. d \in SlotOwners <=> caller[d] = "admitted" \/ wst[d] = "granted" \/ ~NoRequest(d)
    BY OwnersFacts, Zenon
  <2>2. CASE d = c
    BY <1>2, <1>3, <1>5, <1>6, <2>1, <2>2, Zenon DEF Entered
  <2>3. CASE d # c
    BY <1>2, <1>3, <1>5, <2>1, <2>3, Zenon
  <2> QED BY <2>2, <2>3, Zenon
<1>8. \A d \in Callers : w[d] = "waiting" => d \notin SlotOwners
  <2> SUFFICES ASSUME NEW d \in Callers, w[d] = "waiting" PROVE d \notin SlotOwners
    OBVIOUS
  <2>1. CASE d = c
    BY <1>2, <1>3, <1>5, <1>6, <1>7, <2>1, Zenon
  <2>2. CASE d # c
    BY <1>3, <2>2, OwnersFacts, Zenon
  <2> QED BY <2>1, <2>2, Zenon
<1>9. /\ SlotOwners \in SUBSET Callers /\ Cardinality(SlotOwners) <= Capacity
      /\ state = "open" => out = Cardinality(SlotOwners) /\ worker' \notin {"failing", "drain"}
  BY OwnersFacts, Zenon
<1>10. /\ Counted' /\ waiters' \in Seq(Callers) /\ wst' \in [Callers -> WaiterStates]
       /\ \A d \in Callers : wst'[d] = w[d] \/ (w[d] = "waiting" /\ wst'[d] = "granted")
  BY <1>3, <1>4, <1>7, <1>8, <1>9, CountsAgain, Zenon
<1>11. WriterTyped'
  BY <1>2, <1>10, Zenon DEF WriterInv, WriterTyped
<1>12. Staged'
  <2>1. ASSUME NEW d \in Callers
        PROVE  /\ caller'[d] \in {"idle", "waiting", "admitted"} => NoRequest(d)'
               /\ w[d] \in Entered => caller'[d] \in {"waiting", "ended"} /\ NoRequest(d)'
    <3>1. CASE d = c
      BY <1>2, <1>5, <1>6, <3>1, Zenon
    <3>2. CASE d # c
      BY <1>2, <1>3, <1>5, <3>2, Zenon DEF WriterInv, Staged
    <3> QED BY <3>1, <3>2, Zenon
  <2> QED BY <1>10, <2>1, StagedKept, Zenon
<1> QED BY <1>5, <1>10, <1>11, <1>12, Zenon DEF WriterInv

\* A caller asks for a slot: it gets one, waits or is refused.
LEMMA AcquireStep == ASSUME WriterInv, NEW c \in Callers, Acquire(c) PROVE WriterInv'
<1> USE DEF Refuse, admission
<1>1. waiters \in Seq(Callers) /\ Discarded \in Seq(Callers)
  <2>1. waiters \in Seq(Callers)
    BY Zenon DEF WriterInv, WriterTyped
  <2> QED BY <2>1, ActiveIsTail, Zenon DEF Discarded
<1>2. caller[c] = "idle" /\ state' = state /\ queue' = queue /\ cur' = cur
  BY Zenon DEF Acquire
<1>3. CASE state # "open" /\ Refuse(c) /\ UNCHANGED <<admission, fut, worker>>
  BY <1>1, <1>2, <1>3, EndsStep, Zenon
<1>4. CASE /\ state = "open" /\ Direct(Discarded) /\ worker' = IF worker = "none" THEN "get" ELSE worker
           /\ out' = out + 1 /\ waiters' = Discarded
           /\ caller' = [caller EXCEPT ![c] = "admitted"] /\ UNCHANGED <<wst, posted, stopSet, stopPut, fut>>
  <2>1. out < Capacity
    BY <1>4, Zenon DEF Direct
  <2> QED BY <1>1, <1>2, <1>4, <2>1, DirectStep, Zenon
<1>5. CASE /\ state = "open" /\ UNCHANGED worker
           /\ Refuse(c) /\ waiters' = Discarded /\ UNCHANGED <<out, wst, posted, stopSet, stopPut, fut>>
  BY <1>1, <1>2, <1>5, EndsStep, Zenon
<1>6. CASE /\ state = "open" /\ UNCHANGED worker /\ caller' = [caller EXCEPT ![c] = "waiting"]
           /\ Settle(out, [wst EXCEPT ![c] = "waiting"], Append(Discarded, c), posted)
  <2>1. Append(Discarded, c) \in Seq(Callers)
    BY <1>1
  <2> QED BY <1>2, <1>6, <2>1, EnterStep, Zenon
<1> QED BY <1>3, <1>4, <1>5, <1>6, Zenon DEF Acquire

\* The awakened task takes the slot it was granted.
LEMMA ConsumeStep ==
  ASSUME WriterInv, NEW c \in Callers, caller[c] = "waiting", wst[c] = "granted", state' = state,
         caller' = [caller EXCEPT ![c] = "admitted"], wst' = [wst EXCEPT ![c] = "consumed"], out' = out,
         waiters' = waiters, queue' = queue, cur' = cur, worker' = worker
  PROVE  WriterInv'
<1>1. caller \in [Callers -> CallerStates] /\ wst \in [Callers -> WaiterStates]
  BY Zenon DEF WriterInv, WriterTyped
<1>2. /\ caller' \in [Callers -> CallerStates] /\ caller'[c] = "admitted"
      /\ \A d \in Callers : d # c => caller'[d] = caller[d]
  BY <1>1 DEF CallerStates
<1>3. /\ wst' \in [Callers -> WaiterStates] /\ wst'[c] = "consumed"
      /\ \A d \in Callers : d # c => wst'[d] = wst[d]
  BY <1>1 DEF WaiterStates
<1>4. WriterTyped'
  BY <1>2, <1>3, Zenon DEF WriterInv, WriterTyped
<1>5. OnePlace' /\ \A d : NoRequest(d)' <=> NoRequest(d)
  BY PlacesKept, Zenon DEF WriterInv
<1>6. NoRequest(c)
  BY Zenon DEF WriterInv, Staged
<1>7. Staged'
  <2> SUFFICES ASSUME NEW d \in Callers
               PROVE  /\ caller'[d] \in {"idle", "waiting", "admitted"} => NoRequest(d)'
                      /\ wst'[d] \in Entered => caller'[d] \in {"waiting", "ended"} /\ NoRequest(d)'
    BY Zenon DEF Staged
  <2>1. CASE d = c
    BY <1>3, <1>5, <1>6, <2>1, Zenon DEF Entered
  <2>2. CASE d # c
    BY <1>2, <1>3, <1>5, <2>2, Zenon DEF WriterInv, Staged
  <2> QED BY <2>1, <2>2, Zenon
<1>8. \A d \in Callers : Owns(d)' <=> Owns(d)
  <2> SUFFICES ASSUME NEW d \in Callers PROVE Owns(d)' <=> Owns(d)
    OBVIOUS
  <2>1. CASE d = c
    BY <1>2, <2>1, Zenon DEF Owns
  <2>2. CASE d # c
    BY <1>2, <1>3, <2>2, Zenon DEF Owns, InQueue
  <2> QED BY <2>1, <2>2, Zenon
<1>9. Counted'
  BY <1>8, CountedSame, Zenon DEF WriterInv, Counted
<1> QED BY <1>4, <1>5, <1>7, <1>9, Zenon DEF WriterInv

\* A caller goes on with its grant, or returns it.
LEMMA ResumeStep == ASSUME WriterInv, NEW c \in Callers, Resume(c) PROVE WriterInv'
<1>1. /\ caller[c] = "waiting" /\ state' = state
      /\ queue' = queue /\ cur' = cur /\ worker' = worker
  BY Zenon DEF Resume, workerVars
<1>2. CASE /\ wst[c] = "granted" /\ caller' = [caller EXCEPT ![c] = "admitted"]
           /\ wst' = [wst EXCEPT ![c] = "consumed"] /\ UNCHANGED <<out, waiters, posted, stopSet, stopPut>>
  BY <1>1, <1>2, ConsumeStep, Zenon
<1>3. CASE Refuse(c) /\ Withdraw(c, posted)
  BY <1>1, <1>3, WithdrawStep, Zenon DEF Refuse
<1> QED BY <1>2, <1>3, Zenon DEF Resume

\* A step that gives slots back and grants them again; B are the owners in
\* between.
LEMMA FreeStep ==
  ASSUME WriterInv, NEW o, NEW B \in SUBSET SlotOwners, Settle(o, wst, waiters, posted), state' = state,
         state = "open" => o = Cardinality(B) /\ worker' \notin {"failing", "drain"},
         caller' \in [Callers -> CallerStates], \A d \in Callers : caller'[d] = caller[d] \/ caller'[d] = "ended",
         \A d \in Callers : d \in B <=> caller'[d] = "admitted" \/ wst[d] = "granted" \/ ~NoRequest(d)',
         queue' \in Seq(Callers \cup {STOP}), OnePlace', \A d \in Callers : NoRequest(d) => NoRequest(d)'
  PROVE  WriterInv'
<1>1. wst \in [Callers -> WaiterStates] /\ waiters \in Seq(Callers)
  BY Zenon DEF WriterInv, WriterTyped
<1>2. B \in SUBSET Callers /\ \A d \in Callers : wst[d] = "waiting" => d \notin B
  BY OwnersFacts, Zenon
<1>3. Cardinality(B) <= Capacity
  <2>1. Cardinality(B) <= Cardinality(SlotOwners) /\ Cardinality(SlotOwners) <= Capacity
    BY OwnersFacts, FS_Subset, Zenon
  <2>2. Cardinality(B) \in Nat /\ Cardinality(SlotOwners) \in Nat
    BY <1>2, OwnersFacts, CallerSets, Zenon
  <2> QED BY <2>1, <2>2, WriterConstants
<1>4. /\ Counted' /\ waiters' \in Seq(Callers) /\ wst' \in [Callers -> WaiterStates]
      /\ \A d \in Callers : wst'[d] = wst[d] \/ (wst[d] = "waiting" /\ wst'[d] = "granted")
  BY <1>1, <1>2, <1>3, CountsAgain, Zenon
<1>5. WriterTyped'
  BY <1>4, Zenon DEF WriterTyped
<1>6. Staged'
  <2>1. ASSUME NEW d \in Callers
        PROVE  /\ caller'[d] \in {"idle", "waiting", "admitted"} => NoRequest(d)'
               /\ wst[d] \in Entered => caller'[d] \in {"waiting", "ended"} /\ NoRequest(d)'
    <3>1. /\ caller[d] \in {"idle", "waiting", "admitted"} => NoRequest(d)
          /\ wst[d] \in Entered => caller[d] \in {"waiting", "ended"} /\ NoRequest(d)
      BY Zenon DEF WriterInv, Staged
    <3>2. caller'[d] = caller[d] \/ caller'[d] = "ended"
      OBVIOUS
    <3>3. NoRequest(d) => NoRequest(d)'
      OBVIOUS
    <3> QED BY <3>1, <3>2, <3>3, Zenon
  <2> QED BY <1>4, <2>1, StagedKept, Zenon
<1> QED BY <1>4, <1>5, <1>6, Zenon DEF WriterInv

\* A slot goes back: its owner c owns nothing afterwards, the others what they
\* did before.
LEMMA GiveBack ==
  ASSUME WriterInv, NEW c \in Callers, Owns(c), wst[c] # "granted", Settle(out - 1, wst, waiters, posted),
         state' = state, state = "open" => worker' \notin {"failing", "drain"},
         caller' \in [Callers -> CallerStates], \A d \in Callers : caller'[d] = caller[d] \/ (d = c /\ caller'[d] = "ended"),
         caller'[c] # "admitted", NoRequest(c)', \A d \in Callers : d # c => (NoRequest(d) <=> NoRequest(d)'),
         queue' \in Seq(Callers \cup {STOP}), OnePlace'
  PROVE  WriterInv'
<1> DEFINE B == SlotOwners \ {c}
<1>1. B \in SUBSET SlotOwners /\ c \in SlotOwners
  BY Zenon DEF SlotOwners
<1>2. state = "open" => out - 1 = Cardinality(B)
  <2>1. Cardinality(B) = Cardinality(SlotOwners) - 1
    BY <1>1, OwnersFacts, FS_RemoveElement, Zenon
  <2> QED BY <2>1, OwnersFacts, Zenon
<1>3. \A d \in Callers : d \in B <=> caller'[d] = "admitted" \/ wst[d] = "granted" \/ ~NoRequest(d)'
  <2> SUFFICES ASSUME NEW d \in Callers
               PROVE  d \in B <=> caller'[d] = "admitted" \/ wst[d] = "granted" \/ ~NoRequest(d)'
    OBVIOUS
  <2>1. CASE d = c
    BY <2>1, Zenon
  <2>2. CASE d # c
    <3>1. d \in SlotOwners <=> caller[d] = "admitted" \/ wst[d] = "granted" \/ ~NoRequest(d)
      BY OwnersFacts, Zenon
    <3>2. caller'[d] = caller[d] /\ (NoRequest(d) <=> NoRequest(d)')
      BY <2>2, Zenon
    <3>3. d \in B <=> d \in SlotOwners
      BY <2>2, Zenon
    <3> QED BY <3>1, <3>2, <3>3, Zenon
  <2> QED BY <2>1, <2>2, Zenon
<1>4. \A d \in Callers : NoRequest(d) => NoRequest(d)'
  BY Zenon
<1>5. \A d \in Callers : caller'[d] = caller[d] \/ caller'[d] = "ended"
  OBVIOUS
<1> HIDE DEF B
<1> QED BY <1>1, <1>2, <1>3, <1>4, <1>5, FreeStep, Zenon

-----------------------------------------------------------------------------
(* The request queue. *)

Items == Callers \cup {STOP}

\* A queued request is at some position.
LEMMA QueuedAt == \A c : InQueue(c) <=> \E i \in Nat : At(queue, c, i)
BY DEF InQueue, At

\* The positions in a queue with one more request.
LEMMA AppendAt ==
  ASSUME NEW q \in Seq(Items), NEW x \in Items, NEW c, NEW i \in Nat
  PROVE  At(Append(q, x), c, i) <=> At(q, c, i) \/ (x = c /\ i = Len(q) + 1)
BY DEF At

\* The positions in a queue without its head.
LEMMA TailAt ==
  ASSUME NEW q \in Seq(Items), q # <<>>, NEW c
  PROVE  /\ Tail(q) \in Seq(Items) /\ Head(q) \in Items /\ At(q, Head(q), 1)
         /\ \A i \in Nat : At(Tail(q), c, i) => At(q, c, i + 1) /\ i \in Nat \ {0}
         /\ \A i \in Nat : At(q, c, i) => i = 1 \/ At(Tail(q), c, i - 1)
BY DEF At

\* A request enters the queue at one place.
LEMMA AppendPlaces ==
  ASSUME WriterInv, NEW x \in Items, x \in Callers => NoRequest(x), queue' = Append(queue, x),
         cur' = cur, worker' = worker
  PROVE  /\ queue' \in Seq(Items) /\ OnePlace' /\ \A c \in Callers : c # x => (NoRequest(c)' <=> NoRequest(c))
         /\ x \in Callers => ~NoRequest(x)'
<1>1. queue \in Seq(Items)
  BY Zenon DEF WriterInv, WriterTyped, Items
<1>2. queue' \in Seq(Items) /\ Len(queue) + 1 \in Nat
  BY <1>1
<1>3. \A c : \A i \in Nat : At(queue', c, i) <=> At(queue, c, i) \/ (x = c /\ i = Len(queue) + 1)
  BY <1>1, AppendAt, Zenon
<1>4. x \in Callers => ~Runs(x) /\ \A i \in Nat : ~At(queue, x, i)
  BY QueuedAt, Zenon DEF NoRequest
<1>5. \A c : Runs(c)' <=> Runs(c)
  BY Zenon DEF Runs
<1>6. \A c \in Callers : \A i, j \in Nat : At(queue', c, i) /\ At(queue', c, j) => i = j
  <2> SUFFICES ASSUME NEW c \in Callers, NEW i \in Nat, NEW j \in Nat, At(queue', c, i), At(queue', c, j)
               PROVE  i = j
    OBVIOUS
  <2>1. At(queue, c, i) \/ (x = c /\ i = Len(queue) + 1)
    BY <1>3, Zenon
  <2>2. At(queue, c, j) \/ (x = c /\ j = Len(queue) + 1)
    BY <1>3, Zenon
  <2>3. At(queue, c, i) /\ At(queue, c, j) => i = j
    BY Zenon DEF WriterInv, OnePlace
  <2> QED BY <1>4, <2>1, <2>2, <2>3, Zenon
<1>7. \A c \in Callers : \A i \in Nat : At(queue', c, i) => ~Runs(c)'
  BY <1>3, <1>4, <1>5, Zenon DEF WriterInv, OnePlace
<1>8. OnePlace'
  BY <1>6, <1>7, Zenon DEF WriterInv, OnePlace
<1>9. InQueue(x)' /\ \A c : c # x => (InQueue(c)' <=> InQueue(c))
  <2>1. \A c : InQueue(c)' <=> \E i \in Nat : At(queue', c, i)
    BY DEF InQueue, At
  <2> QED BY <1>2, <1>3, <2>1, QueuedAt, Zenon
<1> QED BY <1>2, <1>5, <1>8, <1>9, Zenon DEF NoRequest

\* The head leaves the queue; the worker may run it from now on.
LEMMA TakePlaces ==
  ASSUME WriterInv, queue # <<>>, queue' = Tail(queue), NEW x \in Items, x = Head(queue),
         worker \notin {"run", "release"},
         worker' \in {"run", "release"} => cur' = x /\ x \in Callers
  PROVE  /\ queue' \in Seq(Items) /\ OnePlace' /\ \A c \in Callers : c # x => (NoRequest(c)' <=> NoRequest(c))
         /\ x \in Callers => ~NoRequest(x) /\ ~InQueue(x)' /\ InQueue(x)
<1>1. queue \in Seq(Items)
  BY Zenon DEF WriterInv, WriterTyped, Items
<1>2. /\ queue' \in Seq(Items) /\ At(queue, x, 1)
      /\ \A c : \A i \in Nat : At(queue', c, i) => At(queue, c, i + 1) /\ i \in Nat \ {0}
      /\ \A c : \A i \in Nat : At(queue, c, i) => i = 1 \/ At(queue', c, i - 1)
  BY <1>1, TailAt, Zenon
<1>3. /\ 1 \in Nat /\ \A i \in Nat : i + 1 \in Nat /\ (i \in Nat \ {0} => i + 1 # 1)
      /\ \A i, j \in Nat : i + 1 = j + 1 => i = j
      /\ \A i \in Nat : i = 0 \/ i - 1 \in Nat
  OBVIOUS
<1>4. \A c \in Callers : \A i, j \in Nat : At(queue, c, i) /\ At(queue, c, j) => i = j
  BY Zenon DEF WriterInv, OnePlace
<1>5. \A c \in Callers : \A i, j \in Nat : At(queue', c, i) /\ At(queue', c, j) => i = j
  <2> SUFFICES ASSUME NEW c \in Callers, NEW i \in Nat, NEW j \in Nat, At(queue', c, i), At(queue', c, j)
               PROVE  i = j
    OBVIOUS
  <2>1. At(queue, c, i + 1) /\ At(queue, c, j + 1)
    BY <1>2, Zenon
  <2>2. i + 1 = j + 1
    BY <1>3, <1>4, <2>1, Zenon
  <2> QED BY <1>3, <2>2, Zenon
<1>6. \A c : \A i \in Nat : At(queue, c, i) => i \in Nat \ {0}
  BY DEF At
<1>7. \A c \in Callers : c # x => (InQueue(c)' <=> InQueue(c))
  <2> SUFFICES ASSUME NEW c \in Callers, c # x PROVE InQueue(c)' <=> InQueue(c)
    OBVIOUS
  <2>1. InQueue(c)' <=> \E i \in Nat : At(queue', c, i)
    BY DEF InQueue, At
  <2>2. ~At(queue, c, 1)
    BY <1>2, Zenon DEF At
  <2>3. ASSUME NEW i \in Nat, At(queue, c, i) PROVE \E j \in Nat : At(queue', c, j)
    BY <1>2, <1>3, <1>6, <2>2, <2>3, Zenon
  <2> QED BY <1>2, <1>3, <2>1, <2>3, QueuedAt, Zenon
<1>8. x \in Callers => ~InQueue(x)' /\ InQueue(x)
  <2> SUFFICES ASSUME x \in Callers PROVE ~InQueue(x)' /\ InQueue(x)
    OBVIOUS
  <2>1. InQueue(x)' <=> \E i \in Nat : At(queue', x, i)
    BY DEF InQueue, At
  <2>2. ASSUME NEW i \in Nat, At(queue', x, i) PROVE FALSE
    <3>1. At(queue, x, i + 1) /\ i \in Nat \ {0}
      BY <1>2, <2>2, Zenon
    <3>2. i + 1 = 1
      BY <1>2, <1>3, <1>4, <3>1, Zenon
    <3> QED BY <1>3, <3>1, <3>2, Zenon
  <2> QED BY <1>2, <1>3, <2>1, <2>2, QueuedAt, Zenon
<1>9. /\ \A c : ~Runs(c)
      /\ \A c : Runs(c)' => c = x /\ x \in Callers
  BY Zenon DEF Runs
<1>10. \A c \in Callers : \A i \in Nat : At(queue', c, i) => ~Runs(c)'
  <2>1. \A c \in Callers : (\E i \in Nat : At(queue', c, i)) => InQueue(c)'
    BY DEF InQueue, At
  <2> QED BY <1>8, <1>9, <2>1, Zenon
<1>11. OnePlace'
  BY <1>5, <1>10, Zenon DEF OnePlace
<1> QED BY <1>2, <1>7, <1>8, <1>9, <1>11, Zenon DEF NoRequest

\* An admitted caller queues its request.
LEMMA EnqueueStep == ASSUME WriterInv, NEW c \in Callers, Enqueue(c) PROVE WriterInv'
<1> USE DEF Refuse, admission
<1>1. caller[c] = "admitted" /\ state' = state /\ cur' = cur /\ worker' = worker
  BY Zenon DEF Enqueue
<1>2. caller \in [Callers -> CallerStates] /\ wst \in [Callers -> WaiterStates] /\ waiters \in Seq(Callers)
  BY Zenon DEF WriterInv, WriterTyped
<1>3. NoRequest(c) /\ wst[c] \notin Entered /\ Owns(c) /\ c \in Items
  <2>1. NoRequest(c) /\ wst[c] \notin Entered
    BY <1>1, Zenon DEF WriterInv, Staged
  <2> QED BY <1>1, <2>1, Zenon DEF Owns, Items
<1>4. CASE /\ state = "open" /\ queue' = Append(queue, c)
           /\ caller' = [caller EXCEPT ![c] = "queued"] /\ UNCHANGED admission
  <2>1. /\ caller' \in [Callers -> CallerStates] /\ caller'[c] = "queued"
        /\ \A d \in Callers : d # c => caller'[d] = caller[d]
    BY <1>2, <1>4 DEF CallerStates
  <2>2. wst' = wst /\ waiters' = waiters /\ out' = out
    BY <1>4, Zenon
  <2>3. /\ queue' \in Seq(Items) /\ OnePlace' /\ \A d \in Callers : d # c => (NoRequest(d)' <=> NoRequest(d))
        /\ ~NoRequest(c)'
    BY <1>1, <1>3, <1>4, AppendPlaces, Zenon
  <2>4. WriterTyped'
    BY <1>2, <2>1, <2>2, <2>3, Zenon DEF WriterTyped, Items
  <2>5. Staged'
    <3> SUFFICES ASSUME NEW d \in Callers
                 PROVE  /\ caller'[d] \in {"idle", "waiting", "admitted"} => NoRequest(d)'
                        /\ wst'[d] \in Entered => caller'[d] \in {"waiting", "ended"} /\ NoRequest(d)'
      BY Zenon DEF Staged
    <3>1. CASE d = c
      BY <1>3, <2>1, <2>2, <3>1, Zenon
    <3>2. CASE d # c
      BY <2>1, <2>2, <2>3, <3>2, Zenon DEF WriterInv, Staged
    <3> QED BY <3>1, <3>2, Zenon
  <2>6. \A d \in Callers : Owns(d)' <=> Owns(d)
    <3> SUFFICES ASSUME NEW d \in Callers PROVE Owns(d)' <=> Owns(d)
      OBVIOUS
    <3>1. Owns(d)' <=> caller'[d] = "admitted" \/ wst'[d] = "granted" \/ ~NoRequest(d)'
      BY Zenon DEF Owns, NoRequest, Runs
    <3>2. Owns(d) <=> caller[d] = "admitted" \/ wst[d] = "granted" \/ ~NoRequest(d)
      BY OwnsParts, Zenon DEF OwnsIn
    <3>3. CASE d = c
      BY <1>3, <2>3, <3>1, <3>3, Zenon
    <3>4. CASE d # c
      BY <2>1, <2>2, <2>3, <3>1, <3>2, <3>4, Zenon
    <3> QED BY <3>3, <3>4, Zenon
  <2>7. Counted'
    <3>1. state' = "open" => worker' \notin {"failing", "drain"}
      BY <1>1, Zenon DEF WriterInv, Counted
    <3> QED BY <1>1, <2>2, <2>6, <3>1, CountedSame, Zenon DEF WriterInv
  <2> QED BY <2>3, <2>4, <2>5, <2>7, Zenon DEF WriterInv
<1>5. ASSUME Refuse(c), queue' = queue, state # "open"
      PROVE  /\ caller' \in [Callers -> CallerStates] /\ caller'[c] = "ended"
             /\ \A d \in Callers : d # c => caller'[d] = caller[d]
             /\ queue' \in Seq(Items) /\ OnePlace' /\ \A d : NoRequest(d)' <=> NoRequest(d)
  <2>1. /\ caller' \in [Callers -> CallerStates] /\ caller'[c] = "ended"
        /\ \A d \in Callers : d # c => caller'[d] = caller[d]
    BY <1>2, <1>5 DEF CallerStates
  <2>2. OnePlace' /\ \A d : NoRequest(d)' <=> NoRequest(d)
    BY <1>1, <1>5, PlacesKept, Zenon DEF WriterInv
  <2>3. queue' \in Seq(Items)
    BY <1>5, Zenon DEF WriterInv, WriterTyped, Items
  <2> QED BY <2>1, <2>2, <2>3, Zenon
<1>6. CASE state # "open" /\ Refuse(c) /\ Settle(out - 1, wst, waiters, posted) /\ UNCHANGED queue
  <2>1. wst[c] # "granted"
    BY <1>3, Zenon DEF Entered
  <2>2. /\ caller' \in [Callers -> CallerStates] /\ caller'[c] = "ended"
        /\ \A d \in Callers : d # c => caller'[d] = caller[d]
        /\ queue' \in Seq(Items) /\ OnePlace' /\ \A d : NoRequest(d)' <=> NoRequest(d)
    BY <1>5, <1>6, Zenon
  <2>3. /\ \A d \in Callers : caller'[d] = caller[d] \/ (d = c /\ caller'[d] = "ended")
        /\ caller'[c] # "admitted" /\ NoRequest(c)'
        /\ \A d \in Callers : d # c => (NoRequest(d) <=> NoRequest(d)')
    BY <1>3, <2>2, Zenon
  <2> QED BY <1>1, <1>3, <1>6, <2>1, <2>2, <2>3, GiveBack, Zenon DEF Items
<1>7. CASE state # "open" /\ Refuse(c) /\ UNCHANGED <<admission, queue>>
  <2>1. /\ caller' \in [Callers -> CallerStates] /\ caller'[c] = "ended"
        /\ \A d \in Callers : d # c => caller'[d] = caller[d]
        /\ queue' \in Seq(Items) /\ OnePlace' /\ \A d : NoRequest(d)' <=> NoRequest(d)
    BY <1>5, <1>7, Zenon
  <2>2. wst' = wst /\ waiters' = waiters
    BY <1>7, Zenon
  <2>3. WriterTyped'
    BY <1>2, <2>1, <2>2, Zenon DEF WriterTyped, Items
  <2>4. Staged'
    <3> SUFFICES ASSUME NEW d \in Callers
                 PROVE  /\ caller'[d] \in {"idle", "waiting", "admitted"} => NoRequest(d)'
                        /\ wst'[d] \in Entered => caller'[d] \in {"waiting", "ended"} /\ NoRequest(d)'
      BY Zenon DEF Staged
    <3>1. CASE d = c
      BY <1>3, <2>1, <2>2, <3>1, Zenon
    <3>2. CASE d # c
      BY <2>1, <2>2, <3>2, Zenon DEF WriterInv, Staged
    <3> QED BY <3>1, <3>2, Zenon
  <2>5. \A d \in Callers : Owns(d)' => Owns(d)
    <3>1. \A d \in Callers : Owns(d)' <=> caller'[d] = "admitted" \/ wst'[d] = "granted" \/ ~NoRequest(d)'
      BY Zenon DEF Owns, NoRequest, Runs
    <3>2. \A d \in Callers : Owns(d) <=> caller[d] = "admitted" \/ wst[d] = "granted" \/ ~NoRequest(d)
      BY OwnsParts, Zenon DEF OwnsIn
    <3>3. \A d \in Callers : caller'[d] = "admitted" => caller[d] = "admitted"
      BY <1>1, <2>1, Zenon
    <3> QED BY <2>1, <2>2, <3>1, <3>2, <3>3, Zenon
  <2>6. Counted'
    <3>1. state' # "open"
      BY <1>1, <1>7, Zenon
    <3> QED BY <2>5, <3>1, CountedSame, Zenon DEF WriterInv
  <2> QED BY <2>1, <2>3, <2>4, <2>6, Zenon DEF WriterInv
<1> QED BY <1>4, <1>6, <1>7, Zenon DEF Enqueue

\* A step that admits nobody: waiters may be rejected, requests may move or,
\* once the writer is no longer open, go.
LEMMA QuietWriterStep ==
  ASSUME WriterInv, caller' = caller, waiters' \in Seq(Callers), wst' \in [Callers -> WaiterStates],
         \A d \in Callers : wst'[d] = wst[d] \/ (wst[d] = "waiting" /\ wst'[d] = "rejected"),
         queue' \in Seq(Items), OnePlace', \A d \in Callers : NoRequest(d) => NoRequest(d)',
         state' = "open" => /\ state = "open" /\ out' = out /\ worker' \notin {"failing", "drain"}
                            /\ \A d \in Callers : NoRequest(d)' => NoRequest(d)
  PROVE  WriterInv'
<1>1. WriterTyped'
  BY Zenon DEF WriterInv, WriterTyped, Items
<1>2. \A d \in Callers : wst'[d] \in Entered => wst[d] \in Entered
  BY Zenon DEF Entered
<1>3. Staged'
  BY <1>2, Zenon DEF WriterInv, Staged
<1>4. \A d \in Callers : wst'[d] = "granted" <=> wst[d] = "granted"
  BY Zenon
<1>5. \A d \in Callers : Owns(d)' <=> caller[d] = "admitted" \/ wst[d] = "granted" \/ ~NoRequest(d)'
  BY <1>4, Zenon DEF Owns, NoRequest, Runs
<1>6. \A d \in Callers : Owns(d) <=> caller[d] = "admitted" \/ wst[d] = "granted" \/ ~NoRequest(d)
  BY OwnsParts, Zenon DEF OwnsIn
<1>7. \A d \in Callers : Owns(d)' => Owns(d)
  BY <1>5, <1>6, Zenon
<1>8. state' = "open" => \A d \in Callers : Owns(d) => Owns(d)'
  BY <1>5, <1>6, Zenon
<1>9. Counted'
  BY <1>7, <1>8, CountedSame, Zenon DEF WriterInv
<1> QED BY <1>1, <1>3, <1>9, Zenon DEF WriterInv

\* ... and one that leaves waiters and requests alone.
LEMMA StillStep ==
  ASSUME WriterInv, caller' = caller, waiters' = waiters, wst' = wst, queue' = queue, cur' = cur, worker' = worker,
         state' = "open" => state = "open" /\ out' = out
  PROVE  WriterInv'
<1>1. OnePlace' /\ \A d : NoRequest(d)' <=> NoRequest(d)
  BY PlacesKept, Zenon DEF WriterInv
<1>2. waiters' \in Seq(Callers) /\ wst' \in [Callers -> WaiterStates] /\ queue' \in Seq(Items)
  BY Zenon DEF WriterInv, WriterTyped, Items
<1>3. state' = "open" => worker' \notin {"failing", "drain"}
  BY Zenon DEF WriterInv, Counted
<1> QED BY <1>1, <1>2, <1>3, QuietWriterStep, Zenon

\* _reject_waiters_locked.
LEMMA RejectEffect ==
  ASSUME WriterInv, RejectWaiters
  PROVE  /\ waiters' \in Seq(Callers) /\ wst' \in [Callers -> WaiterStates]
         /\ \A d \in Callers : wst'[d] = wst[d] \/ (wst[d] = "waiting" /\ wst'[d] = "rejected")
<1>1. waiters' = <<>> /\ wst' = [c \in Callers |-> IF c \in Refused THEN "rejected" ELSE wst[c]]
  BY Zenon DEF RejectWaiters
<1>2. waiters' \in Seq(Callers)
  BY <1>1
<1>3. \A c \in Callers : c \in Refused => wst[c] = "waiting"
  BY Zenon DEF Refused
<1>4. \A c \in Callers : wst[c] \in WaiterStates /\ "rejected" \in WaiterStates
  BY Zenon DEF WriterInv, WriterTyped, WaiterStates
<1>5. wst' \in [Callers -> WaiterStates]
  BY <1>1, <1>4, Zenon
<1> QED BY <1>1, <1>2, <1>3, <1>5, Zenon

\* close rejects those who wait.
LEMMA CloseStep == ASSUME WriterInv, Close PROVE WriterInv'
<1>1. /\ caller' = caller /\ queue' = queue /\ cur' = cur /\ worker' = worker /\ RejectWaiters
      /\ state' \in {"closed", "closing"}
  BY Zenon DEF Close, callVars
<1>2. OnePlace' /\ \A d : NoRequest(d)' <=> NoRequest(d)
  BY <1>1, PlacesKept, Zenon DEF WriterInv
<1>3. queue' \in Seq(Items) /\ state' # "open"
  BY <1>1, Zenon DEF WriterInv, WriterTyped, Items
<1> QED BY <1>1, <1>2, <1>3, RejectEffect, QuietWriterStep, Zenon

\* The STOP request is queued.
LEMMA PutStopStep == ASSUME WriterInv, PutStop PROVE WriterInv'
<1>1. /\ caller' = caller /\ waiters' = waiters /\ wst' = wst /\ cur' = cur /\ worker' = worker
      /\ state' = state /\ out' = out /\ queue' = Append(queue, STOP)
  BY Zenon DEF PutStop, callVars
<1>2. STOP \in Items /\ \A c \in Callers : c # STOP
  BY WriterConstants, Zenon DEF Items
<1>3. queue' \in Seq(Items) /\ OnePlace' /\ \A c \in Callers : NoRequest(c)' <=> NoRequest(c)
  BY <1>1, <1>2, AppendPlaces, Zenon
<1>4. waiters' \in Seq(Callers) /\ wst' \in [Callers -> WaiterStates]
  BY <1>1, Zenon DEF WriterInv, WriterTyped
<1>5. state' = "open" => worker' \notin {"failing", "drain"}
  BY <1>1, Zenon DEF WriterInv, Counted
<1> QED BY <1>1, <1>3, <1>4, <1>5, QuietWriterStep, Zenon

-----------------------------------------------------------------------------
(* The writer thread. *)

\* The worker takes a request.
LEMMA GetStep == ASSUME WriterInv, Get PROVE WriterInv'
<1>1. /\ worker = "get" /\ queue # <<>> /\ queue' = Tail(queue) /\ cur' = Head(queue)
      /\ worker' = IF Head(queue) = STOP THEN "exit" ELSE "run"
      /\ caller' = caller /\ waiters' = waiters /\ wst' = wst /\ state' = state /\ out' = out
  BY Zenon DEF Get, callVars, admission
<1>2. PICK x \in Items : x = Head(queue)
  <2>1. queue \in Seq(Items)
    BY Zenon DEF WriterInv, WriterTyped, Items
  <2> QED BY <1>1, <2>1, TailAt, Zenon
<1>3. /\ worker \notin {"run", "release"}
      /\ worker' \in {"run", "release"} => cur' = x /\ x \in Callers
      /\ worker' \notin {"failing", "drain"}
  BY <1>1, <1>2, Zenon DEF Items
<1>4. /\ queue' \in Seq(Items) /\ OnePlace' /\ \A c \in Callers : c # x => (NoRequest(c)' <=> NoRequest(c))
      /\ x \in Callers => ~NoRequest(x)
  BY <1>1, <1>2, <1>3, TakePlaces, Zenon
<1>5. x \in Callers => ~NoRequest(x)'
  <2>1. x \in Callers => x # STOP
    BY WriterConstants, Zenon
  <2> QED BY <1>1, <1>2, <2>1, Zenon DEF NoRequest, Runs
<1>6. \A c \in Callers : NoRequest(c)' <=> NoRequest(c)
  BY <1>4, <1>5, Zenon
<1>7. waiters' \in Seq(Callers) /\ wst' \in [Callers -> WaiterStates]
  BY <1>1, Zenon DEF WriterInv, WriterTyped
<1> QED BY <1>1, <1>3, <1>4, <1>6, <1>7, QuietWriterStep, Zenon

\* The worker goes on without a change to what is queued or running.
LEMMA WorkerMoves ==
  ASSUME WriterInv, queue' = queue,
         \/ cur' = cur /\ worker \in {"run", "release"} /\ worker' \in {"run", "release"}
         \/ worker \notin {"run", "release"} /\ worker' \notin {"run", "release"}
  PROVE  OnePlace' /\ queue' \in Seq(Items) /\ \A c : NoRequest(c)' <=> NoRequest(c)
<1>1. \A c : Runs(c)' <=> Runs(c)
  BY Zenon DEF Runs
<1>2. worker' \in {"run", "release"} => cur' \in Callers
  BY Zenon DEF WriterInv, OnePlace
<1>3. OnePlace'
  BY <1>1, <1>2, Zenon DEF WriterInv, OnePlace, At
<1>4. queue' \in Seq(Items)
  BY Zenon DEF WriterInv, WriterTyped, Items
<1> QED BY <1>1, <1>3, <1>4, Zenon DEF NoRequest, InQueue

\* The worker runs it.
LEMMA RunStep == ASSUME WriterInv, Run PROVE WriterInv'
<1>1. /\ worker = "run" /\ worker' = "release" /\ cur' = cur /\ queue' = queue
      /\ caller' = caller /\ waiters' = waiters /\ wst' = wst /\ state' = state /\ out' = out
  BY Zenon DEF Run, callVars, admission
<1>2. OnePlace' /\ queue' \in Seq(Items) /\ \A c : NoRequest(c)' <=> NoRequest(c)
  BY <1>1, WorkerMoves, Zenon
<1>3. waiters' \in Seq(Callers) /\ wst' \in [Callers -> WaiterStates]
  BY <1>1, Zenon DEF WriterInv, WriterTyped
<1>4. worker' \notin {"failing", "drain"}
  BY <1>1, Zenon
<1> QED BY <1>1, <1>2, <1>3, <1>4, QuietWriterStep, Zenon

\* The worker gives the slot of its request back: _run_request ends.
LEMMA ReleaseStep ==
  ASSUME WriterInv, worker \in {"run", "release"}, worker' \notin {"run", "release", "failing", "drain"},
         Settle(out - 1, wst, waiters, posted), queue' = queue, caller' = caller, state' = state
  PROVE  WriterInv'
<1>0. PICK c \in Callers : c = cur
  BY Zenon DEF WriterInv, OnePlace
<1>1. ~NoRequest(c)
  BY <1>0, Zenon DEF NoRequest, Runs
<1>2. Owns(c) /\ wst[c] # "granted" /\ caller[c] # "admitted"
  <2>1. wst[c] \notin Entered /\ caller[c] # "admitted"
    BY <1>1, Zenon DEF WriterInv, Staged
  <2>2. Owns(c)
    BY <1>0, Zenon DEF Owns
  <2> QED BY <2>1, <2>2, Zenon DEF Entered
<1>3. \A d : ~Runs(d)'
  BY Zenon DEF Runs
<1>4. \A d : Runs(d) => d = c
  BY <1>0, Zenon DEF Runs
<1>5. ~InQueue(c)
  <2>1. Runs(c)
    BY <1>0, Zenon DEF Runs
  <2> QED BY <1>1, <2>1, QueuedAt, Zenon DEF WriterInv, OnePlace
<1>6. OnePlace'
  BY <1>3, Zenon DEF WriterInv, OnePlace, At
<1>7. NoRequest(c)'
  BY <1>3, <1>5, Zenon DEF NoRequest, InQueue
<1>8. \A d \in Callers : d # c => (NoRequest(d) <=> NoRequest(d)')
  BY <1>3, <1>4, Zenon DEF NoRequest, InQueue
<1>9. queue' \in Seq(Callers \cup {STOP}) /\ caller' \in [Callers -> CallerStates]
  BY Zenon DEF WriterInv, WriterTyped
<1>10. worker' \notin {"failing", "drain"}
  BY Zenon
<1>11. caller'[c] # "admitted" /\ \A d \in Callers : caller'[d] = caller[d]
  BY <1>2, Zenon
<1> QED BY <1>1, <1>2, <1>6, <1>7, <1>8, <1>9, <1>10, <1>11, GiveBack, Zenon

\* The steps of the clean-up after the worker failed, which the writer only
\* reaches closing.
LEMMA BeginFatalStep == ASSUME WriterInv, BeginFatalShutdown PROVE WriterInv'
<1>1. /\ worker = "fatal" /\ worker' = "failing" /\ queue' = queue /\ caller' = caller
      /\ RejectWaiters /\ state' = "closing"
  BY Zenon DEF BeginFatalShutdown, callVars
<1>2. OnePlace' /\ queue' \in Seq(Items) /\ \A c : NoRequest(c)' <=> NoRequest(c)
  BY <1>1, WorkerMoves, Zenon
<1>3. state' # "open"
  BY <1>1, Zenon
<1> QED BY <1>1, <1>2, <1>3, RejectEffect, QuietWriterStep, Zenon

\* The worker leaves, and the writer is closed.
LEMMA ExitStep == ASSUME WriterInv, WorkerExit PROVE WriterInv'
<1>1. /\ worker = "exit" /\ worker' = "dead" /\ queue' = queue /\ caller' = caller
      /\ waiters' = waiters /\ wst' = wst /\ state' = "closed"
  BY Zenon DEF WorkerExit, callVars, admission
<1>2. OnePlace' /\ queue' \in Seq(Items) /\ \A c : NoRequest(c)' <=> NoRequest(c)
  BY <1>1, WorkerMoves, Zenon
<1>3. waiters' \in Seq(Callers) /\ wst' \in [Callers -> WaiterStates] /\ state' # "open"
  BY <1>1, Zenon DEF WriterInv, WriterTyped
<1> QED BY <1>1, <1>2, <1>3, QuietWriterStep, Zenon

\* The worker dies and fails the request in its hand ...
LEMMA FailActiveStep == ASSUME WriterInv, FailActive PROVE WriterInv'
<1>1. /\ worker = "failing" /\ queue' = queue /\ caller' = caller /\ state' = state
      /\ \/ worker' = "drain" /\ Settle(out - 1, wst, waiters, posted)
         \/ worker' = "exit" /\ waiters' = waiters /\ wst' = wst
  BY Zenon DEF FailActive, FailAndRelease, callVars, admission
<1>2. OnePlace' /\ queue' \in Seq(Items) /\ \A c : NoRequest(c)' <=> NoRequest(c)
  <2>1. worker' \notin {"run", "release"} /\ worker \notin {"run", "release"}
    BY <1>1, Zenon
  <2> QED BY <1>1, <2>1, WorkerMoves, Zenon
<1>3. state # "open"
  BY <1>1, Zenon DEF WriterInv, Counted
<1>4. caller \in [Callers -> CallerStates] /\ waiters \in Seq(Callers) /\ wst \in [Callers -> WaiterStates]
  BY Zenon DEF WriterInv, WriterTyped
<1>5. CASE worker' = "drain" /\ Settle(out - 1, wst, waiters, posted)
  <2>1. \A d \in Callers : d \in SlotOwners <=> caller'[d] = "admitted" \/ wst[d] = "granted" \/ ~NoRequest(d)'
    BY <1>1, <1>2, OwnersFacts, Zenon
  <2>2. /\ SlotOwners \in SUBSET SlotOwners /\ caller' \in [Callers -> CallerStates]
        /\ \A d \in Callers : caller'[d] = caller[d] \/ caller'[d] = "ended"
        /\ queue' \in Seq(Callers \cup {STOP})
    BY <1>1, <1>2, <1>4, Zenon DEF Items
  <2> QED BY <1>1, <1>2, <1>3, <1>5, <2>1, <2>2, FreeStep, Zenon
<1>6. CASE worker' = "exit" /\ waiters' = waiters /\ wst' = wst
  <2>1. waiters' \in Seq(Callers) /\ wst' \in [Callers -> WaiterStates] /\ state' # "open"
    BY <1>1, <1>3, <1>4, <1>6, Zenon
  <2> QED BY <1>1, <1>2, <1>6, <2>1, QuietWriterStep, Zenon
<1> QED BY <1>1, <1>5, <1>6, Zenon

\* ... and those in the queue.
LEMMA FailOwnedStep == ASSUME WriterInv, FailOwned PROVE WriterInv'
<1>1. /\ worker = "drain" /\ caller' = caller /\ state' = state /\ cur' = cur
      /\ worker \notin {"run", "release"}
  BY Zenon DEF FailOwned, callVars
<1>2. state # "open"
  BY <1>1, Zenon DEF WriterInv, Counted
<1>3. caller \in [Callers -> CallerStates] /\ waiters \in Seq(Callers) /\ wst \in [Callers -> WaiterStates]
  BY Zenon DEF WriterInv, WriterTyped
<1>4. CASE queue = <<>>
  <2>1. worker' = "exit" /\ queue' = queue /\ waiters' = waiters /\ wst' = wst
    BY <1>4, Zenon DEF FailOwned, admission
  <2>2. OnePlace' /\ queue' \in Seq(Items) /\ \A c : NoRequest(c)' <=> NoRequest(c)
    BY <1>1, <2>1, WorkerMoves, Zenon
  <2>3. waiters' \in Seq(Callers) /\ wst' \in [Callers -> WaiterStates] /\ state' # "open"
    BY <1>1, <1>2, <1>3, <2>1, Zenon
  <2> QED BY <1>1, <2>1, <2>2, <2>3, QuietWriterStep, Zenon
<1>5. CASE queue # <<>>
  <2>1. PICK x \in Items : x = Head(queue)
    <3>1. queue \in Seq(Items)
      BY Zenon DEF WriterInv, WriterTyped, Items
    <3> QED BY <1>5, <3>1, TailAt, Zenon
  <2>2. /\ queue' = Tail(queue)
        /\ IF x = STOP THEN worker' = worker /\ waiters' = waiters /\ wst' = wst
                       ELSE FailAndRelease(x, "drain")
    BY <1>5, <2>1, Zenon DEF FailOwned, admission
  <2>3. worker' \notin {"run", "release"}
    BY <1>1, <2>2, Zenon DEF FailAndRelease
  <2>4. /\ queue' \in Seq(Items) /\ OnePlace' /\ \A c \in Callers : c # x => (NoRequest(c)' <=> NoRequest(c))
        /\ x \in Callers => ~NoRequest(x) /\ ~InQueue(x)' /\ InQueue(x)
    BY <1>1, <1>5, <2>1, <2>2, <2>3, TakePlaces, Zenon
  <2>5. x \in Callers => NoRequest(x)'
    BY <2>3, <2>4, Zenon DEF NoRequest, Runs
  <2>6. CASE waiters' = waiters /\ wst' = wst
    <3>1. \A c \in Callers : NoRequest(c) => NoRequest(c)'
      BY <2>4, Zenon
    <3>2. waiters' \in Seq(Callers) /\ wst' \in [Callers -> WaiterStates] /\ state' # "open"
      BY <1>1, <1>2, <1>3, <2>6, Zenon
    <3> QED BY <1>1, <2>4, <2>6, <3>1, <3>2, QuietWriterStep, Zenon
  <2>7. CASE x # STOP /\ Settle(out - 1, wst, waiters, posted)
    <3>1. x \in Callers
      BY <2>7, Zenon DEF Items
    <3>2. Owns(x) /\ wst[x] # "granted" /\ caller[x] # "admitted"
      <4>1. wst[x] \notin Entered /\ caller[x] # "admitted"
        BY <2>4, <3>1, Zenon DEF WriterInv, Staged
      <4> QED BY <2>4, <3>1, <4>1, Zenon DEF Entered, Owns
    <3>3. /\ caller' \in [Callers -> CallerStates] /\ \A d \in Callers : caller'[d] = caller[d]
          /\ caller'[x] # "admitted" /\ queue' \in Seq(Callers \cup {STOP})
      BY <1>1, <1>3, <2>4, <3>2, Zenon DEF Items
    <3>4. NoRequest(x)' /\ \A d \in Callers : d # x => (NoRequest(d) <=> NoRequest(d)')
      BY <2>4, <2>5, <3>1, Zenon
    <3> QED BY <1>1, <1>2, <2>4, <2>7, <3>1, <3>2, <3>3, <3>4, GiveBack, Zenon
  <2> QED BY <2>2, <2>6, <2>7, Zenon DEF FailAndRelease, admission
<1> QED BY <1>4, <1>5, Zenon

-----------------------------------------------------------------------------
(* The specification. *)

\* A grant reaches the event loop of its caller.
LEMMA DeliverStep == ASSUME WriterInv, NEW c \in Callers, DeliverGrant(c) PROVE WriterInv'
<1>1. /\ state' = state /\ caller' = caller /\ queue' = queue /\ cur' = cur /\ worker' = worker
      /\ \/ wst[c] = "granted" /\ \E mail : Withdraw(c, mail)
         \/ out' = out /\ waiters' = waiters /\ wst' = wst
  BY Zenon DEF DeliverGrant, workerVars
<1>2. CASE wst[c] = "granted" /\ \E mail : Withdraw(c, mail)
  <2>1. caller[c] \in {"waiting", "ended"}
    BY <1>2, Zenon DEF WriterInv, Staged, Entered
  <2> QED BY <1>1, <1>2, <2>1, WithdrawStep, Zenon
<1>3. CASE out' = out /\ waiters' = waiters /\ wst' = wst
  BY <1>1, <1>3, StillStep, Zenon
<1> QED BY <1>1, <1>2, <1>3, Zenon

\* Every step of a caller keeps the invariant.
LEMMA CallerStep ==
  ASSUME WriterInv, NEW c \in Callers,
         \/ Acquire(c) \/ StartFails(c) \/ CancelTask(c) \/ LoopCloses(c) \/ Abandon(c)
         \/ DeliverGrant(c) \/ DeliverRejection(c) \/ Resume(c) \/ Enqueue(c) \/ Receive(c)
         \/ GrantToClosedLoop(c)
  PROVE  WriterInv'
<1> USE DEF admission, callVars, workerVars, Refuse
<1>0. waiters \in Seq(Callers)
  BY Zenon DEF WriterInv, WriterTyped
<1>1. CASE Acquire(c)
  BY <1>1, AcquireStep, Zenon
<1>2. CASE StartFails(c)
  <2>1. /\ caller[c] # "admitted" /\ caller' = [caller EXCEPT ![c] = "ended"] /\ wst' = wst /\ waiters' = waiters
        /\ queue' = queue /\ cur' = cur /\ worker' = worker /\ state' # "open"
    BY <1>2, Zenon DEF StartFails
  <2> QED BY <1>0, <2>1, EndsStep, Zenon
<1>3. CASE CancelTask(c)
  <2>1. /\ caller' = caller /\ wst' = wst /\ waiters' = waiters /\ out' = out
        /\ queue' = queue /\ cur' = cur /\ worker' = worker /\ state' = state
    BY <1>3, Zenon DEF CancelTask
  <2> QED BY <2>1, StillStep, Zenon
<1>4. CASE LoopCloses(c) \/ Abandon(c) \/ Receive(c)
  <2>1. /\ caller[c] # "admitted" /\ caller' = [caller EXCEPT ![c] = "ended"] /\ wst' = wst /\ waiters' = waiters
        /\ queue' = queue /\ cur' = cur /\ worker' = worker /\ state' = state /\ out' = out
    BY <1>4, Zenon DEF LoopCloses, Abandon, Receive
  <2> QED BY <1>0, <2>1, EndsStep, Zenon
<1>5. CASE DeliverGrant(c)
  BY <1>5, DeliverStep, Zenon
<1>6. CASE DeliverRejection(c)
  <2>1. /\ caller' = caller /\ wst' = wst /\ waiters' = waiters /\ out' = out
        /\ queue' = queue /\ cur' = cur /\ worker' = worker /\ state' = state
    BY <1>6, Zenon DEF DeliverRejection
  <2> QED BY <2>1, StillStep, Zenon
<1>7. CASE Resume(c)
  BY <1>7, ResumeStep, Zenon
<1>8. CASE Enqueue(c)
  BY <1>8, EnqueueStep, Zenon
<1>9. CASE GrantToClosedLoop(c)
  <2>1. /\ caller[c] = "ended" /\ caller' = caller /\ state' = state /\ queue' = queue /\ cur' = cur
        /\ worker' = worker /\ \E mail : Withdraw(c, mail)
    BY <1>9, Zenon DEF GrantToClosedLoop
  <2> QED BY <2>1, WithdrawStep, Zenon
<1> QED BY <1>1, <1>2, <1>3, <1>4, <1>5, <1>6, <1>7, <1>8, <1>9, Zenon

\* Every step of the worker keeps the invariant.
LEMMA WriterStep == ASSUME WriterInv, ThreadStep PROVE WriterInv'
<1>1. CASE Get
  BY <1>1, GetStep, Zenon
<1>2. CASE Run
  BY <1>2, RunStep, Zenon
<1>3. CASE Release
  <2>1. /\ worker = "release" /\ worker' = "get" /\ Settle(out - 1, wst, waiters, posted)
        /\ queue' = queue /\ caller' = caller /\ state' = state
    BY <1>3, Zenon DEF Release, callVars
  <2> QED BY <2>1, ReleaseStep, Zenon
<1>4. CASE RunFatal
  <2>1. /\ worker = "run" /\ worker' = "fatal" /\ Settle(out - 1, wst, waiters, posted)
        /\ queue' = queue /\ caller' = caller /\ state' = state
    BY <1>4, Zenon DEF RunFatal, callVars
  <2> QED BY <2>1, ReleaseStep, Zenon
<1>5. CASE BeginFatalShutdown
  BY <1>5, BeginFatalStep, Zenon
<1>6. CASE FailActive
  BY <1>6, FailActiveStep, Zenon
<1>7. CASE FailOwned
  BY <1>7, FailOwnedStep, Zenon
<1>8. CASE WorkerExit
  BY <1>8, ExitStep, Zenon
<1> QED BY <1>1, <1>2, <1>3, <1>4, <1>5, <1>6, <1>7, <1>8, Zenon DEF ThreadStep

\* A new writer owes nobody a slot.
LEMMA WriterInitInv == WriterInit => WriterInv
<1> SUFFICES ASSUME WriterInit PROVE WriterInv
  OBVIOUS
<1>1. WriterTyped
  BY DEF WriterInit, WriterTyped, WaiterStates, CallerStates
<1>2. \A c, i : ~At(queue, c, i)
  BY DEF WriterInit, At
<1>3. worker \notin {"run", "release", "failing", "drain"}
  BY Zenon DEF WriterInit
<1>4. OnePlace
  BY <1>2, <1>3, Zenon DEF OnePlace
<1>5. \A c : NoRequest(c)
  BY <1>2, <1>3, QueuedAt, Zenon DEF NoRequest, Runs
<1>6. \A c \in Callers : caller[c] = "idle" /\ wst[c] = "none"
  BY Zenon DEF WriterInit
<1>7. Staged
  BY <1>5, <1>6, Zenon DEF Staged, Entered
<1>8. SlotOwners = {}
  BY <1>5, <1>6, OwnsParts, Zenon DEF SlotOwners, OwnsIn
<1>9. Cardinality(SlotOwners) = 0 /\ out = 0
  BY <1>8, FS_EmptySet, Zenon DEF WriterInit
<1>10. Counted
  <2>1. 0 <= Capacity
    BY WriterConstants
  <2> QED BY <1>3, <1>9, <2>1, Zenon DEF Counted
<1> QED BY <1>1, <1>4, <1>7, <1>10, Zenon DEF WriterInv

\* Every step keeps the invariant.
LEMMA WriterNextInv == WriterInv /\ [WriterNext]_writerVars => WriterInv'
<1> SUFFICES ASSUME WriterInv, [WriterNext]_writerVars PROVE WriterInv'
  OBVIOUS
<1>1. CASE UNCHANGED writerVars
  <2>1. /\ caller' = caller /\ wst' = wst /\ waiters' = waiters /\ out' = out
        /\ queue' = queue /\ cur' = cur /\ worker' = worker /\ state' = state
    BY <1>1, Zenon DEF writerVars, admission, callVars, workerVars
  <2> QED BY <2>1, StillStep, Zenon
<1>2. CASE Close
  BY <1>2, CloseStep, Zenon
<1>3. CASE PutStop
  BY <1>3, PutStopStep, Zenon
<1>4. CASE ThreadStep
  BY <1>4, WriterStep, Zenon
<1>5. ASSUME NEW c \in Callers,
             \/ Acquire(c) \/ StartFails(c) \/ CancelTask(c) \/ LoopCloses(c) \/ Abandon(c)
             \/ DeliverGrant(c) \/ DeliverRejection(c) \/ Resume(c) \/ Enqueue(c) \/ Receive(c)
             \/ GrantToClosedLoop(c)
      PROVE  WriterInv'
  BY <1>5, CallerStep, Zenon
<1> QED BY <1>1, <1>2, <1>3, <1>4, <1>5, Zenon DEF WriterNext, ThreadStep

(* Every reachable state of the writer satisfies the inductive invariant: a *)
(* request is in one place, who waits or was granted a slot has no request, *)
(* and the counter is exact while the writer is open.                       *)
THEOREM WriterInvariant == WriterSpec => []WriterInv
BY WriterInitInv, WriterNextInv, PTL DEF WriterSpec

(* _outstanding counts the slots really owned for as long as the writer     *)
(* admits anybody, and no more than queue_capacity are ever owned.          *)
THEOREM SlotsAccountedAlways == WriterSpec => []SlotsAccounted
<1>1. WriterInv => SlotsAccounted
  BY Zenon DEF WriterInv, Counted, SlotsAccounted
<1> QED BY <1>1, WriterInvariant, PTL
=============================================================================
