------------------------------ MODULE MailQueue ------------------------------
(***************************************************************************)
(* The bounded in-memory queue between the SMTP sessions of ingestd and    *)
(* its batch workers (cpp/ingestd/src/mail_queue.cpp), driven by the DATA  *)
(* phase of smtp_session.cpp and the worker loop of ingest_app.cpp.        *)
(*                                                                         *)
(* A message occupies one slot and some bytes of the budget from the       *)
(* moment its session reserves (DATA) until the worker that wrote it       *)
(* completes the batch.  Every operation of the queue runs under its       *)
(* mutex, so one operation is one step.  A job is represented by the size  *)
(* of its raw content: nothing else of it matters to the queue.            *)
(***************************************************************************)
EXTENDS Integers, FiniteSets, Sequences, Functions

CONSTANTS
  Sessions,      \* SMTP connections
  Workers,       \* writer threads (INGEST_WORKER_COUNT)
  CapMessages,   \* INGEST_QUEUE_MAX_MESSAGES
  CapBytes,      \* INGEST_QUEUE_MAX_BYTES
  MaxMessage,    \* effective_message_size_bytes_ of a transaction
  Chunk,         \* INGEST_RESERVATION_CHUNK_BYTES
  BatchMax,      \* INGEST_BATCH_MAX_MESSAGES
  LineSizes      \* octets one DATA line adds, its CRLF included

ASSUME QueueConstants ==
  /\ IsFiniteSet(Sessions) /\ IsFiniteSet(Workers) /\ Workers # {}
  /\ CapMessages \in Nat /\ CapBytes \in Nat
  /\ MaxMessage \in Nat /\ MaxMessage <= CapBytes
  /\ Chunk \in Nat \ {0} /\ BatchMax \in Nat \ {0}
  /\ LineSizes \subseteq Nat /\ \A n \in LineSizes : n >= 2

VARIABLES
  queue,         \* queue_: sizes of the queued jobs, oldest first
  queueBytes,    \* queue_bytes_: queued plus in-flight bytes
  reservedMsgs,  \* reserved_messages_
  reservedBytes, \* reserved_bytes_
  inFlight,      \* in_flight_messages_
  paused,        \* reservations_paused_
  closed,        \* closed_
  mode,          \* per session: "command" outside DATA, else how DATA stands
  holds,         \* per session: queue_reservation_active_
  grant,         \* per session: queue_reservation_bytes_
  octets,        \* per session: data_octets_received_
  batch,         \* per worker: sizes of the jobs it popped
  running,       \* IngestApp::running_
  exited         \* workers that left writer_loop

queueVars == <<queue, queueBytes, reservedMsgs, reservedBytes, inFlight>>
sessionVars == <<mode, holds, grant, octets>>
workerVars == <<batch, running, exited>>
vars == <<queueVars, paused, closed, sessionVars, workerVars>>

Total == Len(queue) + reservedMsgs + inFlight
TotalBytes == queueBytes + reservedBytes
Smaller(a, b) == IF a <= b THEN a ELSE b
Larger(a, b) == IF a >= b THEN a ELSE b

Init ==
  /\ queue = <<>> /\ queueBytes = 0
  /\ reservedMsgs = 0 /\ reservedBytes = 0 /\ inFlight = 0
  /\ paused = FALSE /\ closed = FALSE
  /\ mode = [s \in Sessions |-> "command"]
  /\ holds = [s \in Sessions |-> FALSE]
  /\ grant = [s \in Sessions |-> 0]
  /\ octets = [s \in Sessions |-> 0]
  /\ batch = [w \in Workers |-> <<>>]
  /\ running = TRUE /\ exited = {}

-----------------------------------------------------------------------------
(* Queue operations as relations; each is one critical section. *)

HasCapacity(b) ==
  /\ ~paused
  /\ Total < CapMessages
  /\ b <= CapBytes /\ queueBytes <= CapBytes - b
  /\ reservedBytes <= CapBytes - b - queueBytes

CanReserve(b) == ~closed /\ HasCapacity(b)

TryReserve(b) ==
  /\ reservedMsgs' = reservedMsgs + 1
  /\ reservedBytes' = reservedBytes + b
  /\ UNCHANGED <<queue, queueBytes, inFlight>>

(* What try_grow_reservation adds; a pause does not stop it. *)
Growth(least, preferred) ==
  IF \/ least = 0 \/ preferred < least
     \/ closed \/ reservedMsgs = 0
     \/ queueBytes > CapBytes \/ reservedBytes > CapBytes - queueBytes
     \/ CapBytes - queueBytes - reservedBytes < least
  THEN 0
  ELSE Smaller(preferred, CapBytes - queueBytes - reservedBytes)

Releasable(b) == reservedMsgs # 0 /\ reservedBytes >= b

PushReserved(size, b) ==
  IF ~Releasable(b) THEN UNCHANGED queueVars
  ELSE /\ reservedMsgs' = reservedMsgs - 1
       /\ reservedBytes' = reservedBytes - b
       /\ UNCHANGED inFlight
       /\ IF closed \/ size > b
          THEN UNCHANGED <<queue, queueBytes>>
          ELSE /\ queue' = Append(queue, size)
               /\ queueBytes' = queueBytes + size

(* Faulty variant: the slot of a cancelled reservation is never returned. *)
CancelLosesSlot(b) ==
  IF ~Releasable(b) THEN UNCHANGED queueVars
  ELSE /\ reservedBytes' = reservedBytes - b
       /\ UNCHANGED <<queue, queueBytes, reservedMsgs, inFlight>>

CancelReservation(b) ==
  IF ~Releasable(b) THEN UNCHANGED queueVars
  ELSE /\ reservedMsgs' = reservedMsgs - 1
       /\ reservedBytes' = reservedBytes - b
       /\ UNCHANGED <<queue, queueBytes, inFlight>>

-----------------------------------------------------------------------------
(* The session's DATA phase. *)

(* release_queue_reservation: give back what the session holds, if anything. *)
ReleaseReservation(s) ==
  /\ IF holds[s] THEN CancelReservation(grant[s]) ELSE UNCHANGED queueVars
  /\ holds' = [holds EXCEPT ![s] = FALSE]
  /\ grant' = [grant EXCEPT ![s] = 0]

(* clear_transaction_state; a new transaction starts from here. *)
ClearTransaction(s) ==
  /\ ReleaseReservation(s)
  /\ mode' = [mode EXCEPT ![s] = "command"]
  /\ octets' = [octets EXCEPT ![s] = 0]

(* DATA after a valid RCPT: 451 without a slot, else 354. *)
DataCommand(s) ==
  /\ mode[s] = "command"
  /\ CanReserve(0)
  /\ TryReserve(0)
  /\ mode' = [mode EXCEPT ![s] = "data"]
  /\ holds' = [holds EXCEPT ![s] = TRUE]
  /\ grant' = [grant EXCEPT ![s] = 0]
  /\ octets' = [octets EXCEPT ![s] = 0]
  /\ UNCHANGED <<paused, closed, workerVars>>

(* ensure_data_reservation: the chunk-rounded growth to ask for. *)
RoundedUp(n) == ((n + Chunk - 1) \div Chunk) * Chunk
PreferredTarget(required) == Larger(Smaller(RoundedUp(required), MaxMessage), required)
Added(s, required) == Growth(required - grant[s], PreferredTarget(required) - grant[s])

TooLarge(s, n) == octets[s] + n > MaxMessage

MarkTooLarge(s) ==
  /\ mode' = [mode EXCEPT ![s] = "too_large"]
  /\ ReleaseReservation(s)

(* One line of the body, the four outcomes of handle_line. *)
DataLineTooLarge(s, n) ==
  /\ mode[s] \in {"data", "queue_full"}
  /\ TooLarge(s, n)
  /\ MarkTooLarge(s)
  /\ UNCHANGED <<octets, paused, closed, workerVars>>

DataLineAfterFull(s, n) ==
  /\ mode[s] = "queue_full"
  /\ ~TooLarge(s, n)
  /\ octets' = [octets EXCEPT ![s] = @ + n]
  /\ UNCHANGED <<queueVars, mode, holds, grant, paused, closed, workerVars>>

DataLineStored(s, n) ==
  LET required == octets[s] + n
      added == Added(s, required)
  IN /\ mode[s] = "data"
     /\ ~TooLarge(s, n)
     /\ holds[s]
     /\ required <= grant[s] \/ added # 0
     /\ octets' = [octets EXCEPT ![s] = required]
     /\ LET more == IF required <= grant[s] THEN 0 ELSE added
        IN /\ grant' = [grant EXCEPT ![s] = @ + more]
           /\ reservedBytes' = reservedBytes + more
     /\ UNCHANGED <<queue, queueBytes, reservedMsgs, inFlight, mode, holds,
                    paused, closed, workerVars>>

DataLineQueueFull(s, n) ==
  LET required == octets[s] + n
  IN /\ mode[s] = "data"
     /\ ~TooLarge(s, n)
     /\ ~holds[s] \/ (required > grant[s] /\ Added(s, required) = 0)
     /\ octets' = [octets EXCEPT ![s] = required]
     /\ mode' = [mode EXCEPT ![s] = "queue_full"]
     /\ ReleaseReservation(s)
     /\ UNCHANGED <<paused, closed, workerVars>>

(* A line longer than SMTP_MAX_LINE_LENGTH inside DATA. *)
RejectOverlongDataLine(s) ==
  /\ mode[s] \in {"data", "queue_full"}
  /\ MarkTooLarge(s)
  /\ UNCHANGED <<octets, paused, closed, workerVars>>

(* The terminating dot. *)
FinishRefused(s) ==
  /\ mode[s] \in {"too_large", "queue_full"}
  /\ ClearTransaction(s)
  /\ UNCHANGED <<paused, closed, workerVars>>

FinishData(s) ==
  /\ mode[s] = "data"
  /\ IF ~holds[s] \/ octets[s] > grant[s]
     THEN ClearTransaction(s)
     ELSE /\ PushReserved(octets[s], grant[s])
          /\ mode' = [mode EXCEPT ![s] = "command"]
          /\ holds' = [holds EXCEPT ![s] = FALSE]
          /\ grant' = [grant EXCEPT ![s] = 0]
          /\ octets' = [octets EXCEPT ![s] = 0]
  /\ UNCHANGED <<paused, closed, workerVars>>

(* finish_data under maintenance, or the artifacts could not be written.    *)
(* This module knows neither, so both may happen to any message.            *)
FinishAborted(s) ==
  /\ mode[s] = "data"
  /\ ClearTransaction(s)
  /\ UNCHANGED <<paused, closed, workerVars>>

(* The peer leaves, times out or the server stops: the destructor releases. *)
Disconnect(s) ==
  /\ mode[s] # "command"
  /\ ClearTransaction(s)
  /\ UNCHANGED <<paused, closed, workerVars>>

SessionStep(s) ==
  \/ \E n \in LineSizes : \/ DataLineTooLarge(s, n) \/ DataLineAfterFull(s, n)
                          \/ DataLineStored(s, n) \/ DataLineQueueFull(s, n)
  \/ RejectOverlongDataLine(s)
  \/ FinishRefused(s)
  \/ FinishData(s)
  \/ FinishAborted(s)
  \/ Disconnect(s)

-----------------------------------------------------------------------------
(* The worker side. *)

(* Faulty variant: a partial batch waits for more without a deadline. *)
PopBatchFullOnly(w) ==
  LET n == Smaller(Len(queue), BatchMax)
  IN /\ w \notin exited /\ batch[w] = <<>> /\ Len(queue) >= BatchMax
     /\ batch' = [batch EXCEPT ![w] = SubSeq(queue, 1, n)]
     /\ queue' = SubSeq(queue, n + 1, Len(queue))
     /\ inFlight' = inFlight + n
     /\ UNCHANGED <<queueBytes, reservedMsgs, reservedBytes, paused, closed,
                    sessionVars, running, exited>>

PopBatch(w) ==
  LET n == Smaller(Len(queue), BatchMax)
  IN /\ w \notin exited /\ batch[w] = <<>> /\ queue # <<>>
     /\ batch' = [batch EXCEPT ![w] = SubSeq(queue, 1, n)]
     /\ queue' = SubSeq(queue, n + 1, Len(queue))
     /\ inFlight' = inFlight + n
     /\ UNCHANGED <<queueBytes, reservedMsgs, reservedBytes, paused, closed,
                    sessionVars, running, exited>>

(* Written, split, quarantined or abandoned: the loop always completes it. *)
CompleteBatch(w) ==
  LET n == Len(batch[w])
      b == SumFunction(batch[w])
  IN /\ batch[w] # <<>>
     /\ batch' = [batch EXCEPT ![w] = <<>>]
     /\ IF n > inFlight \/ b > queueBytes
        THEN UNCHANGED <<inFlight, queueBytes>>
        ELSE /\ inFlight' = inFlight - n
             /\ queueBytes' = queueBytes - b
     /\ UNCHANGED <<queue, reservedMsgs, reservedBytes, paused, closed,
                    sessionVars, running, exited>>

WorkerExit(w) ==
  /\ w \notin exited /\ batch[w] = <<>>
  /\ ~running /\ queue = <<>>
  /\ exited' = exited \cup {w}
  /\ UNCHANGED <<queueVars, paused, closed, sessionVars, batch, running>>

SetReservationsPaused(p) ==
  /\ paused # p
  /\ paused' = p
  /\ UNCHANGED <<queueVars, closed, sessionVars, workerVars>>

(* stop_and_drain: the queue is closed first, then the workers are told. *)
Close ==
  /\ ~closed
  /\ closed' = TRUE
  /\ UNCHANGED <<queueVars, paused, sessionVars, workerVars>>

(* Faulty variant: the workers are told before the queue is closed. *)
StopEarly ==
  /\ running
  /\ running' = FALSE
  /\ UNCHANGED <<queueVars, paused, closed, sessionVars, batch, exited>>

StopRunning ==
  /\ closed /\ running
  /\ running' = FALSE
  /\ UNCHANGED <<queueVars, paused, closed, sessionVars, batch, exited>>

Next ==
  \/ \E s \in Sessions : DataCommand(s) \/ SessionStep(s)
  \/ \E w \in Workers : PopBatch(w) \/ CompleteBatch(w) \/ WorkerExit(w)
  \/ \E p \in BOOLEAN : SetReservationsPaused(p)
  \/ Close
  \/ StopRunning

(* Workers are threads that poll; a session in DATA gets a line or its     *)
(* idle timeout (SMTP_IDLE_TIMEOUT_SECONDS) ends it.  No client is assumed *)
(* to start a transaction and no operator to pause or close.               *)
Fairness ==
  /\ \A s \in Sessions : WF_vars(SessionStep(s))
  /\ \A w \in Workers : /\ WF_vars(PopBatch(w)) /\ WF_vars(CompleteBatch(w))
                        /\ WF_vars(WorkerExit(w))
  /\ WF_vars(StopRunning)

Spec == Init /\ [][Next]_vars /\ Fairness

-----------------------------------------------------------------------------
Modes == {"command", "data", "too_large", "queue_full"}
Holders == {s \in Sessions : holds[s]}

(* Every variable has its type. *)
TypeOK ==
  /\ queue \in Seq(Nat) /\ queueBytes \in Nat
  /\ reservedMsgs \in Nat /\ reservedBytes \in Nat /\ inFlight \in Nat
  /\ paused \in BOOLEAN /\ closed \in BOOLEAN
  /\ mode \in [Sessions -> Modes]
  /\ holds \in [Sessions -> BOOLEAN]
  /\ grant \in [Sessions -> Nat]
  /\ octets \in [Sessions -> Nat]
  /\ batch \in [Workers -> Seq(Nat)]
  /\ running \in BOOLEAN /\ exited \subseteq Workers

(* Reserved, queued and in-flight messages never exceed the configured     *)
(* message and byte budgets, whatever the sessions and workers do          *)
(* (has_capacity_unlocked and try_grow_reservation against push_reserved   *)
(* and complete_batch).                                                    *)
WithinBudget == Total <= CapMessages /\ TotalBytes <= CapBytes

(* The slot counter is exactly the number of sessions that hold a          *)
(* reservation: none is leaked or released twice on any path out of DATA   *)
(* (finish, 451, 552, overlong line, disconnect, closed queue).            *)
SlotsAccounted == reservedMsgs = Cardinality(Holders)

(* The other counters are exactly what the parties hold: reserved bytes    *)
(* belong to sessions, queued and in-flight bytes and messages to the      *)
(* queue and the workers' batches, so complete_batch never takes its       *)
(* early return.                                                           *)
WorkAccounted ==
  /\ reservedBytes = SumFunction(grant)
  /\ queueBytes = SumFunction(queue) + SumFunction([w \in Workers |-> SumFunction(batch[w])])
  /\ inFlight = SumFunction([w \in Workers |-> Len(batch[w])])

(* A session that is still storing its body holds a reservation that       *)
(* covers it, so finish_data never refuses for a missing or small          *)
(* reservation; every other session holds nothing.                         *)
ReservationCovers ==
  \A s \in Sessions : /\ mode[s] = "data" => holds[s] /\ octets[s] <= grant[s]
                      /\ mode[s] # "data" => ~holds[s] /\ grant[s] = 0

(* When the last worker has left its loop nothing is queued or in a batch:  *)
(* the close in stop_and_drain comes before running_ is cleared, so no     *)
(* session can push behind the workers' back.                              *)
NothingStranded ==
  exited = Workers => queue = <<>> /\ \A w \in Workers : batch[w] = <<>>

(* What makes the invariants above inductive: the order of the shutdown,   *)
(* and that a worker that left holds nothing.                              *)
ShutdownOrder ==
  /\ ~running => closed
  /\ exited # {} => ~running /\ queue = <<>>
  /\ \A w \in exited : batch[w] = <<>>

IInv == /\ TypeOK /\ WithinBudget /\ SlotsAccounted /\ WorkAccounted
        /\ ReservationCovers /\ ShutdownOrder

(* Pausing is the linearization point of maintenance draining: while       *)
(* reservations stay paused the number of owned messages never grows.      *)
PauseOnlyDrains == [][paused /\ paused' => Total' <= Total]_vars

(* A pause that lasts drains the queue: every reservation is used or       *)
(* released and every queued message is completed.                         *)
PauseDrains == paused ~> (Total = 0 \/ ~paused)

(* Shutdown finishes: once the queue is closed every worker leaves.        *)
CloseDrains == closed ~> (exited = Workers)
=============================================================================
