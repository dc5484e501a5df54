-------------------------- MODULE MaintenanceHandshake --------------------------
(***************************************************************************)
(* "Clear all mail": a Python process takes .maintenance.lock (storage.py, *)
(* runtime.py), waits until ingestd has drained, and only then empties     *)
(* tables and directories.  ingestd (ingest_app.cpp) polls the lock,       *)
(* pauses its queue, and writes .maintenance.drained.json with the token   *)
(* it saw once nothing is reserved, queued or in flight.  Both sides may   *)
(* crash, the waiting side may time out, ingestd may be replaced at any    *)
(* moment, and a second Python process may try the same.                   *)
(*                                                                         *)
(* A token is a number; the three files are lock, drained and status.  One *)
(* slot of tx is one SMTP transaction, from connection to commit.          *)
(***************************************************************************)
EXTENDS Integers

CONSTANTS
  Owners,      \* Python processes that run clear-all
  Slots,       \* SMTP transactions at a time
  MaxTokens,   \* bound: clear-all runs
  MaxInst,     \* bound: starts of ingestd
  MaxFaults    \* bound: crashes of either side and failed status iterations

ASSUME HandshakeConstants ==
  MaxTokens \in Nat \ {0} /\ MaxInst \in Nat \ {0} /\ MaxFaults \in Nat

VARIABLES
  lock,        \* .maintenance.lock: NoToken, Unwritten, or a token
  drained,     \* .maintenance.drained.json: NoToken or the token it carries
  status,      \* .ingestd.status.json: 0 or the instance that wrote it
  inst, phase, \* running instance of ingestd and how far it is
  mon, seen,   \* the status thread: its next step; the lock as it read it
  paused,      \* MailQueue reservations_paused_
  acked,       \* acknowledged_maintenance_token_
  pending,     \* rejected_recipients_pending is not zero
  handle,      \* the writer's SQLite session is open
  reading,     \* the reload thread has SQLite open
  tx,          \* the SMTP transactions
  pc, tok,     \* per owner: where it is; its token
  found,       \* per owner: instance in the status file it read
  tokens, faults

files == <<lock, drained, status>>
monitor == <<mon, seen, paused, acked>>
daemon == <<inst, phase, monitor, pending, handle, reading, tx>>
owner == <<pc, tok, found>>
bounds == <<tokens, faults>>
vars == <<files, daemon, owner, bounds>>

NoToken == 0
Unwritten == -1
Tokens == 1 .. MaxTokens

(* What total_messages counts: reserved, queued, in flight. *)
CountedStates == {"held", "writing", "queued", "popped", "committed"}
(* Transactions a connection still drives. *)
SessionStates == {"open", "checked", "held", "writing"}
Drained == \A s \in Slots : tx[s] \notin CountedStates

Up == phase # "down"
LockHeld == lock # NoToken

Init ==
  /\ lock = NoToken /\ drained = NoToken /\ status = 0
  /\ inst = 0 /\ phase = "down"
  /\ mon = "read" /\ seen = NoToken /\ paused = FALSE /\ acked = NoToken
  /\ pending = FALSE /\ handle = FALSE /\ reading = FALSE
  /\ tx = [s \in Slots |-> "none"]
  /\ pc = [o \in Owners |-> "idle"] /\ tok = [o \in Owners |-> NoToken]
  /\ found = [o \in Owners |-> 0]
  /\ tokens = 0 /\ faults = 0

Fault == faults < MaxFaults /\ faults' = faults + 1 /\ UNCHANGED tokens

-----------------------------------------------------------------------------
(* ingestd: the process. *)

(* start_writer, up to its first look at the lock. *)
Start ==
  /\ phase = "down" /\ inst < MaxInst
  /\ inst' = inst + 1 /\ phase' = "starting"
  /\ mon' = "read"
  /\ UNCHANGED <<files, seen, paused, acked, pending, handle, reading, tx, owner, bounds>>

Listen ==
  /\ phase = "ready"
  /\ phase' = "serving"
  /\ UNCHANGED <<files, inst, monitor, pending, handle, reading, tx, owner, bounds>>

(* SmtpServer::stop: no new connection; the sockets are shut down. *)
Stop ==
  /\ phase \in {"ready", "serving"}
  /\ phase' = "stopping"
  /\ UNCHANGED <<files, inst, monitor, pending, handle, reading, tx, owner, bounds>>

(* stop_and_drain: sessions gone, workers done, then the status thread is  *)
(* joined between two iterations and the final status is published.        *)
StopWorkers ==
  /\ phase = "stopping" /\ Drained /\ ~reading /\ mon = "read"
  /\ \A s \in Slots : tx[s] \notin SessionStates
  /\ phase' = "final"
  /\ UNCHANGED <<files, inst, monitor, pending, handle, reading, tx, owner, bounds>>

(* What the death of the process takes with it. *)
Die ==
  /\ phase' = "down" /\ mon' = "read" /\ seen' = NoToken
  /\ paused' = FALSE /\ acked' = NoToken
  /\ pending' = FALSE /\ handle' = FALSE /\ reading' = FALSE
  /\ tx' = [s \in Slots |-> "none"]
  /\ UNCHANGED inst

(* remove_ingest_status and the end of the process. *)
Exit ==
  /\ phase = "gone"
  /\ status' = IF status = inst THEN 0 ELSE status
  /\ Die
  /\ UNCHANGED <<lock, drained, owner, bounds>>

Crash ==
  /\ Up /\ Fault
  /\ Die
  /\ UNCHANGED <<files, owner>>

-----------------------------------------------------------------------------
(* ingestd: one iteration of the status thread, and the same sequence at    *)
(* the start (phase "starting") and at the end ("final") of the process.    *)

Monitoring == phase \in {"starting", "ready", "serving", "stopping", "final"}

MonRead ==
  /\ Monitoring /\ mon = "read"
  /\ seen' = lock /\ mon' = "apply"
  /\ UNCHANGED <<files, inst, phase, paused, acked, pending, handle, reading, tx, owner,
                 bounds>>

(* Faulty variant: a pause is never lifted. *)
MonApplySticky ==
  /\ mon = "apply"
  /\ paused' = (paused \/ seen # NoToken) /\ mon' = "decide"
  /\ UNCHANGED <<files, inst, phase, seen, acked, pending, handle, reading, tx, owner, bounds>>

(* apply_maintenance_state: a lock without a readable token pauses as well. *)
MonApply ==
  /\ mon = "apply"
  /\ paused' = (seen # NoToken) /\ mon' = "decide"
  /\ UNCHANGED <<files, inst, phase, seen, acked, pending, handle, reading, tx, owner, bounds>>

(* Faulty variant: the acknowledgement does not wait for the queue. *)
ShouldAckAnyway == seen \in Tokens /\ acked # seen

ShouldAck == seen \in Tokens /\ Drained /\ acked # seen

(* flush_rejected_metrics and, at the drain boundary, the release of the    *)
(* SQLite session.                                                          *)
MonDecide ==
  /\ mon = "decide"
  /\ IF seen = NoToken \/ ShouldAck
     THEN pending' = FALSE /\ handle' = (~ShouldAck /\ (handle \/ pending))
     ELSE UNCHANGED <<pending, handle>>
  /\ acked' = IF seen \in Tokens THEN acked ELSE NoToken
  /\ mon' = IF ShouldAck THEN "ack" ELSE "publish"
  /\ UNCHANGED <<files, inst, phase, seen, paused, reading, tx, owner, bounds>>

(* write_maintenance_drained. *)
MonAck ==
  /\ mon = "ack"
  /\ drained' = seen /\ acked' = seen
  /\ mon' = "publish"
  /\ UNCHANGED <<lock, status, inst, phase, seen, paused, pending, handle, reading, tx, owner,
                 bounds>>

MonPublish ==
  /\ mon = "publish"
  /\ status' = inst
  /\ phase' = CASE phase = "starting" -> "ready" [] phase = "final" -> "gone"
                [] OTHER -> phase
  /\ mon' = "read" /\ seen' = NoToken
  /\ UNCHANGED <<lock, drained, inst, paused, acked, pending, handle, reading, tx, owner,
                 bounds>>

(* SQLite or the disk fails: the iteration is abandoned, and so is a start. *)
MonFails ==
  /\ mon \in {"decide", "ack", "publish"} /\ Fault
  /\ handle' = IF mon = "decide" THEN FALSE ELSE handle
  /\ phase' = IF phase \in {"starting", "final"} THEN "gone" ELSE phase
  /\ mon' = "read" /\ seen' = NoToken
  /\ UNCHANGED <<files, inst, paused, acked, pending, reading, tx, owner>>

(* domain_reload_loop: a connection of its own, whatever the lock says. *)
ReloadOpen ==
  /\ phase \in {"ready", "serving", "stopping"} /\ ~reading
  /\ reading' = TRUE
  /\ UNCHANGED <<files, inst, phase, monitor, pending, handle, tx, owner, bounds>>

ReloadClose ==
  /\ reading
  /\ reading' = FALSE
  /\ UNCHANGED <<files, inst, phase, monitor, pending, handle, tx, owner, bounds>>

-----------------------------------------------------------------------------
(* ingestd: SMTP transactions and workers. *)

TxMove(s, from, to) ==
  /\ tx[s] = from
  /\ tx' = [tx EXCEPT ![s] = to]
  /\ UNCHANGED <<files, inst, phase, monitor, reading, owner, bounds>>

(* handle_client: 421 under maintenance. *)
Connect(s) ==
  /\ phase = "serving" /\ ~LockHeld
  /\ TxMove(s, "none", "open") /\ UNCHANGED <<pending, handle>>

(* RCPT refused. *)
RejectRcpt(s) ==
  /\ tx[s] = "open" /\ ~pending
  /\ pending' = TRUE
  /\ UNCHANGED <<files, inst, phase, monitor, handle, reading, tx, owner, bounds>>

(* DATA: the lock is looked at, then the slot is asked for. *)
DataCheck(s) ==
  /\ ~LockHeld
  /\ TxMove(s, "open", "checked") /\ UNCHANGED <<pending, handle>>

DataReserve(s) ==
  /\ TxMove(s, "checked", IF paused THEN "open" ELSE "held")
  /\ UNCHANGED <<pending, handle>>

(* finish_data: 451 under maintenance, else artifacts and push. *)
FinishData(s) ==
  /\ TxMove(s, "held", IF LockHeld THEN "open" ELSE "writing")
  /\ UNCHANGED <<pending, handle>>

Push(s) == TxMove(s, "writing", "queued") /\ UNCHANGED <<pending, handle>>

(* Any refusal of the message (451, 552), RSET, or a lost connection. *)
GiveUp(s) ==
  /\ tx[s] \in SessionStates
  /\ \E to \in {"open", "none"} : tx[s] # to /\ TxMove(s, tx[s], to)
  /\ UNCHANGED <<pending, handle>>

WorkerPop(s) == TxMove(s, "queued", "popped") /\ UNCHANGED <<pending, handle>>

(* Committed, or rolled back and quarantined. *)
WorkerCommit(s) ==
  /\ TxMove(s, "popped", "committed")
  /\ handle' \in BOOLEAN /\ UNCHANGED pending

(* complete_batch. *)
WorkerComplete(s) == TxMove(s, "committed", "none") /\ UNCHANGED <<pending, handle>>

-----------------------------------------------------------------------------
(* Python: clear-all. *)

OwnerMove(o, from, to) ==
  /\ pc[o] = from
  /\ pc' = [pc EXCEPT ![o] = to]
  /\ UNCHANGED <<status, daemon>>

(* Faulty variant: the token is visible before the old acknowledgement is   *)
(* removed.                                                                  *)
CreateLockWritten(o) ==
  /\ lock = NoToken /\ tokens < MaxTokens
  /\ lock' = tokens + 1
  /\ tokens' = tokens + 1
  /\ tok' = [tok EXCEPT ![o] = tokens + 1]
  /\ OwnerMove(o, "idle", "created")
  /\ UNCHANGED <<drained, found, faults>>

(* begin_maintenance: O_CREAT | O_EXCL, then the stale acknowledgement is   *)
(* removed, then the token is written.                                      *)
CreateLock(o) ==
  /\ lock = NoToken /\ tokens < MaxTokens
  /\ lock' = Unwritten
  /\ tokens' = tokens + 1
  /\ tok' = [tok EXCEPT ![o] = tokens + 1]
  /\ OwnerMove(o, "idle", "created")
  /\ UNCHANGED <<drained, found, faults>>

RemoveStaleAck(o) ==
  /\ OwnerMove(o, "created", "cleared")
  /\ drained' = NoToken
  /\ UNCHANGED <<lock, tok, found, bounds>>

PublishToken(o) ==
  /\ OwnerMove(o, "cleared", "waiting")
  /\ lock' = tok[o]
  /\ UNCHANGED <<drained, tok, found, bounds>>

(* wait_for_ingestd_drain: the three ways to be sure. *)
AckSeen(o) ==
  /\ drained = tok[o]
  /\ OwnerMove(o, "waiting", "mutating")
  /\ UNCHANGED <<lock, drained, tok, found, bounds>>

StatusAbsent(o) ==
  /\ status = 0
  /\ OwnerMove(o, "waiting", "mutating")
  /\ UNCHANGED <<lock, drained, tok, found, bounds>>

(* The heartbeat is older than INGEST_STATUS_FRESH_SECONDS; a live process  *)
(* may be that slow too.                                                    *)
StatusStale(o) ==
  /\ status # 0
  /\ found' = [found EXCEPT ![o] = status]
  /\ OwnerMove(o, "waiting", "probing")
  /\ UNCHANGED <<lock, drained, tok, bounds>>

(* Faulty variant: a stale heartbeat is taken for a dead process. *)
ProbeNot(o) ==
  /\ OwnerMove(o, "probing", "mutating")
  /\ found' = [found EXCEPT ![o] = 0]
  /\ UNCHANGED <<lock, drained, tok, bounds>>

(* _status_process_is_alive. *)
Probe(o) ==
  /\ OwnerMove(o, "probing", IF Up /\ found[o] = inst THEN "waiting" ELSE "mutating")
  /\ found' = [found EXCEPT ![o] = 0]
  /\ UNCHANGED <<lock, drained, tok, bounds>>

(* Removing the old acknowledgement or writing the token fails. *)
BeginFails(o) ==
  /\ pc[o] \in {"created", "cleared"} /\ Fault
  /\ OwnerMove(o, pc[o], "idle")
  /\ lock' = NoToken
  /\ UNCHANGED <<drained, tok, found>>

(* Tables, directories and compaction are done or failed, or the wait timed  *)
(* out: end_maintenance.                                                     *)
RemoveLock(o) ==
  /\ pc[o] \in {"waiting", "mutating"}
  /\ OwnerMove(o, pc[o], "unlocked")
  /\ lock' = NoToken
  /\ UNCHANGED <<drained, tok, found, bounds>>

CheckOwnAck(o) ==
  /\ OwnerMove(o, "unlocked", IF drained = tok[o] THEN "unlinking" ELSE "idle")
  /\ UNCHANGED <<lock, drained, tok, found, bounds>>

RemoveOwnAck(o) ==
  /\ OwnerMove(o, "unlinking", "idle")
  /\ drained' = NoToken
  /\ UNCHANGED <<lock, tok, found, bounds>>

(* The process dies and is started again; its lock stays. *)
OwnerCrash(o) ==
  /\ pc[o] # "idle" /\ Fault
  /\ OwnerMove(o, pc[o], "idle")
  /\ UNCHANGED <<lock, drained, tok, found>>

(* The documented repair: with every process stopped an operator removes a  *)
(* lock nobody owns.                                                         *)
OperatorUnlocks ==
  /\ LockHeld /\ ~Up /\ \A o \in Owners : pc[o] = "idle"
  /\ lock' = NoToken
  /\ UNCHANGED <<drained, status, daemon, owner, bounds>>

MonitorStep == MonRead \/ MonApply \/ MonDecide \/ MonAck \/ MonPublish
SessionStep(s) == FinishData(s) \/ Push(s) \/ DataReserve(s)
WorkerStep(s) == WorkerPop(s) \/ WorkerCommit(s) \/ WorkerComplete(s)

Next ==
  \/ Start \/ Listen \/ Stop \/ StopWorkers \/ Exit \/ Crash
  \/ MonRead \/ MonApply \/ MonDecide \/ MonAck \/ MonPublish \/ MonFails
  \/ ReloadOpen \/ ReloadClose \/ OperatorUnlocks
  \/ \E s \in Slots : \/ Connect(s) \/ RejectRcpt(s) \/ DataCheck(s) \/ DataReserve(s)
                      \/ FinishData(s) \/ Push(s) \/ GiveUp(s)
                      \/ WorkerPop(s) \/ WorkerCommit(s) \/ WorkerComplete(s)
  \/ \E o \in Owners : \/ CreateLock(o) \/ RemoveStaleAck(o) \/ PublishToken(o)
                       \/ AckSeen(o) \/ StatusAbsent(o) \/ StatusStale(o) \/ Probe(o)
                       \/ RemoveLock(o) \/ CheckOwnAck(o) \/ RemoveOwnAck(o)
                       \/ BeginFails(o) \/ OwnerCrash(o)

(* ingestd's threads run; a session moves on because every receive ends     *)
(* within the idle timeout.  Python polls: each turn of its loop looks at   *)
(* the acknowledgement and the status file, and the heartbeat of a dead     *)
(* process is stale in the end.  Nobody owes a start, a stop, a client, a   *)
(* timeout or a fault.                                                      *)
Fairness ==
  /\ WF_vars(MonitorStep) /\ WF_vars(Exit) /\ WF_vars(StopWorkers) /\ WF_vars(ReloadClose)
  /\ \A s \in Slots : WF_vars(SessionStep(s)) /\ WF_vars(WorkerStep(s))
  /\ \A o \in Owners : /\ SF_vars(AckSeen(o)) /\ SF_vars(StatusAbsent(o))
                       /\ SF_vars(StatusStale(o) /\ (Up => status # inst)) /\ WF_vars(Probe(o))

Spec == Init /\ [][Next]_vars /\ Fairness

-----------------------------------------------------------------------------
(* Every variable has its type. *)
TypeOK ==
  /\ lock \in Tokens \cup {NoToken, Unwritten} /\ drained \in Tokens \cup {NoToken}
  /\ status \in 0 .. MaxInst /\ inst \in 0 .. MaxInst
  /\ phase \in {"down", "starting", "ready", "serving", "stopping", "final", "gone"}
  /\ mon \in {"read", "apply", "decide", "ack", "publish"}
  /\ seen \in Tokens \cup {NoToken, Unwritten} /\ acked \in Tokens \cup {NoToken}
  /\ paused \in BOOLEAN /\ pending \in BOOLEAN /\ handle \in BOOLEAN /\ reading \in BOOLEAN
  /\ tx \in [Slots -> SessionStates \cup CountedStates \cup {"none"}]
  /\ pc \in [Owners -> {"idle", "created", "cleared", "waiting", "probing", "mutating",
                        "unlocked", "unlinking"}]
  /\ tok \in [Owners -> Tokens \cup {NoToken}] /\ found \in [Owners -> 0 .. MaxInst]
  /\ tokens \in 0 .. MaxTokens /\ faults \in Nat

(* The point of the handshake: while clear-all empties tables and           *)
(* directories, ingestd holds no reservation, writes no artifact, has no    *)
(* message queued or in flight and no SQLite session of its writer open,    *)
(* whichever of the three answers ended the wait.                           *)
Exclusive == (\E o \in Owners : pc[o] = "mutating") => Drained /\ ~handle

(* "the clear-all owner's permission to mutate SQLite" (start_writer): an   *)
(* acknowledgement that carries the published token is only there while     *)
(* nothing is counted and every ingestd that has published its status       *)
(* refuses reservations, the replacement of the one that wrote it included. *)
AckIsCurrent ==
  lock \in Tokens /\ drained = lock =>
    Drained /\ (phase \in {"ready", "serving", "stopping"} => paused)

(* Two Python processes never clear at the same time, although a crashed    *)
(* one leaves its lock behind and an operator may remove it.                *)
OneOwner ==
  \A o, p \in Owners : pc[o] = "mutating" /\ pc[p] \in {"waiting", "probing", "mutating"} => o = p

(* Once no lock is left, a serving ingestd takes mail again.                *)
MailResumes == <>[](lock = NoToken /\ phase = "serving") => <>[](~paused)

(* A waiting owner gets its answer without having to time out: ingestd      *)
(* drains and acknowledges, exits, or is found dead.  This is for the only  *)
(* process that clears: a second one may be caught by its predecessor       *)
(* between end_maintenance's look at the acknowledgement and its removal,   *)
(* and lose the new one, which ingestd does not write twice.                *)
WaitEnds ==
  \A o \in Owners :
    pc[o] = "waiting" /\ (\A p \in Owners \ {o} : tok[p] = NoToken)
      ~> pc[o] \notin {"waiting", "probing"}

-----------------------------------------------------------------------------
(* The inductive invariant behind Exclusive, AckIsCurrent and OneOwner.     *)

Holding == {"created", "cleared", "waiting", "probing", "mutating"}

(* Who holds the lock, and that its token is nowhere before it is written.  *)
LockOwned ==
  /\ \A o, p \in Owners : pc[o] \in Holding /\ pc[p] \in Holding => o = p
  /\ \A o \in Owners :
       /\ pc[o] \in {"created", "cleared"} =>
            lock = Unwritten /\ tok[o] \in Tokens /\ seen # tok[o] /\ drained # tok[o]
       /\ pc[o] \in {"waiting", "probing", "mutating"} => lock = tok[o] /\ tok[o] \in Tokens
       /\ tok[o] <= tokens
  /\ lock <= tokens /\ seen <= tokens /\ drained <= tokens

(* A process that has not accepted anything, and, while a lock stands,      *)
(* never will.                                                              *)
Untouched == (\A s \in Slots : tx[s] = "none") /\ ~handle /\ ~pending

(* A process that has seen the lock, is empty and takes nothing in.         *)
Frozen == Drained /\ ~handle /\ paused /\ (mon # "read" => seen # NoToken)

(* How far an instance is, and what its status file says.                   *)
Instances ==
  /\ phase \in {"down", "starting", "ready"} => Untouched
  /\ phase = "gone" /\ status # inst => Untouched
  /\ phase \in {"ready", "serving", "stopping", "final"} => status = inst
  /\ phase # "down" => inst # 0
  /\ status <= inst /\ \A o \in Owners : found[o] <= inst

(* The status thread between its steps.                                     *)
MonitorLocal ==
  /\ mon \in {"decide", "ack", "publish"} => (paused <=> seen # NoToken)
  /\ mon = "ack" => seen \in Tokens /\ Drained /\ ~handle

(* What each of the three answers is worth.                                 *)
AckSound ==
  lock \in Tokens /\ drained = lock =>
    /\ Drained /\ ~handle /\ (mon # "read" => seen # NoToken)
    /\ phase \notin {"down", "starting"} => paused
ProbeSound == \A o \in Owners : pc[o] = "probing" /\ found[o] # inst => Untouched
ClearSound == \A o \in Owners : pc[o] = "mutating" => Untouched \/ Frozen

(* All of it: what every reachable state satisfies and every step keeps.    *)
IInv ==
  /\ TypeOK /\ LockOwned /\ Instances /\ MonitorLocal
  /\ AckSound /\ ProbeSound /\ ClearSound
=============================================================================
