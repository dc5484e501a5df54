---------------------------- MODULE DatabaseWriter ----------------------------
(***************************************************************************)
(* The single writer actor of the Python process (app/db/writer.py): calls *)
(* to execute on any event loop, the bounded admission with its queue of   *)
(* waiters, the writer thread with its request queue, orderly close and    *)
(* the shutdown of a worker that died.                                     *)
(*                                                                         *)
(* One caller makes one call.  A block under _state_lock is one step; what *)
(* the code does after releasing the lock (posting a callback to an event  *)
(* loop, putting the stop sentinel) is a step of its own.  Transactions    *)
(* are abstracted to whether they succeed.                                 *)
(***************************************************************************)
EXTENDS AdmissionQueue

CONSTANTS
  Callers,      \* calls to execute
  Capacity,     \* queue_capacity
  MaxWaiters,   \* max_waiters
  STOP,         \* the sentinel
  MaxFatal      \* bound: failures of the worker itself

ASSUME WriterConstants ==
  /\ Capacity \in Nat \ {0} /\ MaxWaiters \in Nat \ {0} /\ MaxFatal \in Nat
  /\ STOP \notin Callers /\ IsFiniteSet(Callers)

VARIABLES
  state,        \* _state: "open", "closing", "closed"
  out,          \* _outstanding
  waiters,      \* _admission_waiters, oldest first
  wst,          \* per caller: _AdmissionWaiter.state, "none" without a waiter
  fut,          \* per caller: the waiter's asyncio future
  posted,       \* callbacks posted to event loops, not yet run
  caller,       \* per caller: "idle", "waiting", "admitted", "queued", "ended"
  cancel,       \* callers whose task was cancelled while waiting
  queue,        \* _queue
  stopSet,      \* _stop_enqueued
  stopPut,      \* a thread still has to put the sentinel
  worker,       \* the writer thread: "none" before it starts
  cur,          \* its active_request, or STOP for none
  result,       \* per caller: the request's result future
  closed,       \* _closed: "pending", "ok", "error"
  fatals

admission == <<out, waiters, wst, posted, stopSet, stopPut>>
callVars == <<fut, caller, cancel>>
workerVars == <<queue, worker, cur, result, closed, fatals>>
writerVars == <<state, admission, callVars, workerVars>>

WriterInit ==
  /\ state = "open" /\ out = 0 /\ waiters = <<>>
  /\ wst = [c \in Callers |-> "none"] /\ fut = [c \in Callers |-> "none"]
  /\ posted = {} /\ caller = [c \in Callers |-> "idle"] /\ cancel = {}
  /\ queue = <<>> /\ stopSet = FALSE /\ stopPut = FALSE
  /\ worker = "none" /\ cur = STOP /\ result = [c \in Callers |-> "none"]
  /\ closed = "pending" /\ fatals = 0

-----------------------------------------------------------------------------
(* Admission. *)

Free(o) == Capacity - o

(* _prepare_stop_locked. *)
Stops(o) == state = "closing" /\ o = 0 /\ ~stopSet

(* With o outstanding, waiter states w and the deque q: grant what fits,    *)
(* post the grants, and stop the worker when nothing is owned any more.     *)
Settle(o, w, q, mail) ==
  LET k == IF state = "open" THEN Popped(q, w, Free(o)) ELSE 0
      G == {q[i] : i \in Waiting(q, w, k)}
  IN /\ out' = o + Cardinality(G)
     /\ waiters' = SubSeq(q, k + 1, Len(q))
     /\ wst' = [c \in Callers |-> IF c \in G THEN "granted" ELSE w[c]]
     /\ posted' = mail \cup {<<"grant", c>> : c \in G}
     /\ stopSet' = (stopSet \/ Stops(o))
     /\ stopPut' = (stopPut \/ Stops(o))

Discarded == Active(waiters, wst)

Refuse(c) == caller' = [caller EXCEPT ![c] = "ended"]

Direct(q) == out < Capacity /\ q = <<>>

(* execute up to the first await: refused when closing or overloaded,       *)
(* admitted at once, or a waiter.  The first call starts the thread.        *)
Acquire(c) ==
  /\ caller[c] = "idle"
  /\ \/ /\ state # "open" /\ Refuse(c)
        /\ UNCHANGED <<admission, fut, worker>>
     \/ /\ state = "open" /\ Direct(Discarded)
        /\ worker' = IF worker = "none" THEN "get" ELSE worker
        /\ out' = out + 1 /\ waiters' = Discarded
        /\ caller' = [caller EXCEPT ![c] = "admitted"]
        /\ UNCHANGED <<wst, posted, stopSet, stopPut, fut>>
     \/ /\ state = "open" /\ ~Direct(Discarded)
        /\ UNCHANGED worker
        /\ IF Cardinality(Waiting(Discarded, wst, Len(Discarded))) >= MaxWaiters
           THEN /\ Refuse(c) /\ waiters' = Discarded
                /\ UNCHANGED <<out, wst, posted, stopSet, stopPut, fut>>
           ELSE /\ caller' = [caller EXCEPT ![c] = "waiting"]
                /\ fut' = [fut EXCEPT ![c] = "pending"]
                /\ Settle(out, [wst EXCEPT ![c] = "waiting"], Append(Discarded, c), posted)
  /\ UNCHANGED <<state, cancel, queue, cur, result, closed, fatals>>

(* The thread cannot be started: the writer is closed for good. *)
StartFails(c) ==
  /\ caller[c] = "idle" /\ state = "open" /\ worker = "none" /\ fatals < MaxFatal
  /\ fatals' = fatals + 1
  /\ state' = "closed" /\ closed' = "error" /\ Refuse(c)
  /\ UNCHANGED <<admission, fut, cancel, queue, worker, cur, result>>

(* The slot of waiter c, if it has one, is given back. *)
Withdraw(c, mail) ==
  Settle(IF wst[c] = "granted" THEN out - 1 ELSE out,
         [wst EXCEPT ![c] = IF @ \in {"waiting", "granted"} THEN "cancelled" ELSE @],
         waiters, mail)

(* Faulty variant: a cancelled waiter keeps the slot it was granted. *)
DeliverGrantKeeps(c) ==
  /\ <<"grant", c>> \in posted
  /\ posted' = posted \ {<<"grant", c>>}
  /\ fut' = [fut EXCEPT ![c] = IF @ = "pending" THEN "set" ELSE @]
  /\ wst' = [wst EXCEPT ![c] = IF fut[c] = "pending" THEN @ ELSE "cancelled"]
  /\ UNCHANGED <<out, waiters, stopSet, stopPut, state, caller, cancel, workerVars>>

(* _deliver_admission_grant on the caller's loop. *)
DeliverGrant(c) ==
  /\ <<"grant", c>> \in posted
  /\ LET mail == posted \ {<<"grant", c>>}
     IN IF wst[c] = "granted" /\ fut[c] # "pending"
        THEN Withdraw(c, mail) /\ UNCHANGED fut
        ELSE /\ posted' = mail
             /\ fut' = [fut EXCEPT ![c] = IF wst[c] = "granted" THEN "set" ELSE @]
             /\ UNCHANGED <<out, waiters, wst, stopSet, stopPut>>
  /\ UNCHANGED <<state, caller, cancel, workerVars>>

DeliverRejection(c) ==
  /\ <<"reject", c>> \in posted
  /\ posted' = posted \ {<<"reject", c>>}
  /\ fut' = [fut EXCEPT ![c] = IF @ = "pending" THEN "error" ELSE @]
  /\ UNCHANGED <<state, out, waiters, wst, stopSet, stopPut, caller, cancel, workerVars>>

(* The awaiting task is cancelled; the task itself runs later. *)
CancelTask(c) ==
  /\ caller[c] = "waiting" /\ c \notin cancel
  /\ cancel' = cancel \cup {c}
  /\ fut' = [fut EXCEPT ![c] = IF @ = "pending" THEN "cancelled" ELSE @]
  /\ UNCHANGED <<state, admission, caller, workerVars>>

(* The task runs again: it consumes its grant or unwinds through            *)
(* _cancel_admission.                                                       *)
Resume(c) ==
  /\ caller[c] = "waiting" /\ fut[c] # "pending"
  /\ IF fut[c] = "set" /\ c \notin cancel /\ wst[c] = "granted"
     THEN /\ caller' = [caller EXCEPT ![c] = "admitted"]
          /\ wst' = [wst EXCEPT ![c] = "consumed"]
          /\ UNCHANGED <<out, waiters, posted, stopSet, stopPut>>
     ELSE Refuse(c) /\ Withdraw(c, posted)
  /\ UNCHANGED <<state, fut, cancel, workerVars>>

(* The loop of a waiting caller is closed: its callbacks never run. *)
LoopCloses(c) ==
  /\ caller[c] = "waiting"
  /\ Refuse(c)
  /\ posted' = posted \ {<<"grant", c>>, <<"reject", c>>}
  /\ UNCHANGED <<state, out, waiters, wst, stopSet, stopPut, fut, cancel, workerVars>>

(* Posting a grant to it raises, or the orphaned coroutine is finalised:    *)
(* both end in _cancel_admission.                                           *)
GrantToClosedLoop(c) ==
  /\ caller[c] = "ended" /\ wst[c] = "granted"
  /\ Withdraw(c, posted \ {<<"grant", c>>})
  /\ UNCHANGED <<state, callVars, workerVars>>

(* _submit with its slot: enqueued, or refused when the writer closed       *)
(* meanwhile (after a worker failure its slot may be gone already).         *)
Enqueue(c) ==
  /\ caller[c] = "admitted"
  /\ \/ /\ state = "open"
        /\ queue' = Append(queue, c)
        /\ caller' = [caller EXCEPT ![c] = "queued"]
        /\ UNCHANGED admission
     \/ /\ state # "open" /\ out > 0
        /\ Refuse(c) /\ Settle(out - 1, wst, waiters, posted)
        /\ UNCHANGED queue
     \/ /\ state # "open" /\ out <= 0
        /\ Refuse(c) /\ UNCHANGED <<admission, queue>>
  /\ UNCHANGED <<state, fut, cancel, worker, cur, result, closed, fatals>>

(* The caller gets its result, or is cancelled and leaves the request to    *)
(* the writer (asyncio.shield).                                             *)
Receive(c) ==
  /\ caller[c] = "queued" /\ result[c] # "none" /\ Refuse(c)
  /\ UNCHANGED <<state, admission, fut, cancel, workerVars>>

Abandon(c) ==
  /\ caller[c] = "queued" /\ result[c] = "none" /\ Refuse(c)
  /\ UNCHANGED <<state, admission, fut, cancel, workerVars>>

(* Whoever saw the last request go puts the sentinel. *)
PutStop ==
  /\ stopPut
  /\ stopPut' = FALSE /\ queue' = Append(queue, STOP)
  /\ UNCHANGED <<state, out, waiters, wst, posted, stopSet, callVars, worker, cur, result,
                 closed, fatals>>

-----------------------------------------------------------------------------
(* Shutdown. *)

Refused == {c \in Callers : \E i \in 1 .. Len(waiters) : waiters[i] = c /\ wst[c] = "waiting"}

(* Faulty variant: the waiters are dropped without being told. *)
RejectSilently ==
  /\ waiters' = <<>>
  /\ wst' = [c \in Callers |-> IF c \in Refused THEN "rejected" ELSE wst[c]]
  /\ UNCHANGED posted

(* Every waiting waiter is rejected and will be told on its loop. *)
RejectWaiters ==
  /\ waiters' = <<>>
  /\ wst' = [c \in Callers |-> IF c \in Refused THEN "rejected" ELSE wst[c]]
  /\ posted' = posted \cup {<<"reject", c>> : c \in {d \in Refused : caller[d] = "waiting"}}

(* close: later calls only await _closed. *)
Close ==
  /\ state = "open"
  /\ RejectWaiters
  /\ IF out = 0 /\ ~stopSet /\ worker = "none"
     THEN state' = "closed" /\ closed' = "ok" /\ UNCHANGED <<stopSet, stopPut>>
     ELSE /\ state' = "closing" /\ UNCHANGED closed
          /\ stopSet' = (stopSet \/ out = 0)
          /\ stopPut' = (stopPut \/ (out = 0 /\ ~stopSet))
  /\ UNCHANGED <<out, callVars, queue, worker, cur, result, fatals>>

-----------------------------------------------------------------------------
(* The writer thread. *)

Get ==
  /\ worker = "get" /\ queue # <<>>
  /\ queue' = Tail(queue) /\ cur' = Head(queue)
  /\ worker' = IF Head(queue) = STOP THEN "exit" ELSE "run"
  /\ UNCHANGED <<state, admission, callVars, result, closed, fatals>>

(* The transaction commits or rolls back, or no connection can be opened. *)
Run ==
  /\ worker = "run"
  /\ \E r \in {"ok", "failed"} : result' = [result EXCEPT ![cur] = r]
  /\ worker' = "release"
  /\ UNCHANGED <<state, admission, callVars, queue, cur, closed, fatals>>

(* The finally of _run_request. *)
Release ==
  /\ worker = "release"
  /\ worker' = "get" /\ cur' = STOP
  /\ Settle(out - 1, wst, waiters, posted)
  /\ UNCHANGED <<state, callVars, queue, result, closed, fatals>>

(* The rollback itself raises something other than sqlite3.Error: the       *)
(* finally gives the slot back, the exception ends the loop.                *)
RunFatal ==
  /\ worker = "run" /\ fatals < MaxFatal
  /\ fatals' = fatals + 1 /\ worker' = "fatal"
  /\ Settle(out - 1, wst, waiters, posted)
  /\ UNCHANGED <<state, callVars, queue, cur, result, closed>>

(* The finally of _run_request put its sentinel first, if it had to. *)
BeginFatalShutdown ==
  /\ worker = "fatal" /\ ~stopPut
  /\ state' = "closing" /\ stopSet' = TRUE
  /\ RejectWaiters
  /\ worker' = "failing"
  /\ UNCHANGED <<out, stopPut, callVars, queue, cur, result, closed, fatals>>

(* set_exception, then _release_capacity, which raises on underflow and     *)
(* ends the clean-up.                                                       *)
FailAndRelease(c, next) ==
  /\ result' = [result EXCEPT ![c] = "failed"]
  /\ IF out > 0
     THEN worker' = next /\ Settle(out - 1, wst, waiters, posted)
     ELSE worker' = "exit" /\ UNCHANGED admission

(* The active request was released by RunFatal already, and is again. *)
FailActive ==
  /\ worker = "failing"
  /\ FailAndRelease(cur, "drain")
  /\ UNCHANGED <<state, callVars, queue, cur, closed, fatals>>

(* _fail_owned_requests, one item a step. *)
FailOwned ==
  /\ worker = "drain"
  /\ IF queue = <<>>
     THEN worker' = "exit" /\ UNCHANGED <<admission, queue, result>>
     ELSE /\ queue' = Tail(queue)
          /\ IF Head(queue) = STOP THEN UNCHANGED <<admission, worker, result>>
             ELSE FailAndRelease(Head(queue), "drain")
  /\ UNCHANGED <<state, callVars, cur, closed, fatals>>

WorkerExit ==
  /\ worker = "exit"
  /\ worker' = "dead" /\ state' = "closed"
  /\ closed' = IF cur = STOP THEN "ok" ELSE "error"
  /\ UNCHANGED <<admission, callVars, queue, cur, result, fatals>>

ThreadStep ==
  \/ Get \/ Run \/ Release \/ RunFatal \/ BeginFatalShutdown \/ FailActive \/ FailOwned \/ WorkerExit

WriterNext ==
  \/ \E c \in Callers :
       \/ Acquire(c) \/ StartFails(c) \/ CancelTask(c) \/ LoopCloses(c) \/ Abandon(c)
       \/ DeliverGrant(c) \/ DeliverRejection(c) \/ Resume(c) \/ Enqueue(c) \/ Receive(c)
       \/ GrantToClosedLoop(c)
  \/ Close \/ PutStop
  \/ Get \/ Run \/ Release \/ RunFatal \/ BeginFatalShutdown \/ FailActive \/ FailOwned \/ WorkerExit

(* Event loops run their callbacks and tasks, threads run, transactions     *)
(* end.  Nobody has to call, cancel or close.                               *)
WriterFairness ==
  /\ \A c \in Callers :
       /\ WF_writerVars(DeliverGrant(c)) /\ WF_writerVars(DeliverRejection(c)) /\ WF_writerVars(Resume(c))
       /\ WF_writerVars(Enqueue(c)) /\ WF_writerVars(Receive(c)) /\ WF_writerVars(GrantToClosedLoop(c))
  /\ WF_writerVars(PutStop) /\ WF_writerVars(ThreadStep)

WriterSpec == WriterInit /\ [][WriterNext]_writerVars /\ WriterFairness

-----------------------------------------------------------------------------
InQueue(c) == \E i \in 1 .. Len(queue) : queue[i] = c
(* Callers that own a slot: granted, between admission and enqueue, queued, *)
(* or running, whether or not anybody still awaits them.                    *)
Owns(c) ==
  \/ caller[c] = "admitted" \/ wst[c] = "granted" \/ InQueue(c)
  \/ cur = c /\ worker \in {"run", "release"}
SlotOwners == {c \in Callers : Owns(c)}

(* Every variable has its type. *)
WriterTypeOK ==
  /\ state \in {"open", "closing", "closed"} /\ out \in Int /\ out <= Capacity
  /\ waiters \in Seq(Callers) /\ posted \subseteq {"grant", "reject"} \X Callers
  /\ wst \in [Callers -> {"none", "waiting", "granted", "consumed", "cancelled", "rejected"}]
  /\ fut \in [Callers -> {"none", "pending", "set", "error", "cancelled"}]
  /\ caller \in [Callers -> {"idle", "waiting", "admitted", "queued", "ended"}]
  /\ cancel \subseteq Callers /\ queue \in Seq(Callers \cup {STOP})
  /\ stopSet \in BOOLEAN /\ stopPut \in BOOLEAN
  /\ worker \in {"none", "get", "run", "release", "fatal", "failing", "drain", "exit", "dead"}
  /\ cur \in Callers \cup {STOP} /\ result \in [Callers -> {"none", "ok", "failed"}]
  /\ closed \in {"pending", "ok", "error"} /\ fatals \in 0 .. MaxFatal

(* _outstanding is the number of slots really owned for as long as the     *)
(* writer admits anybody, through cancellations that race grants and       *)
(* loops that close with a grant on its way; no more than queue_capacity   *)
(* are ever owned.                                                         *)
SlotsAccounted ==
  /\ state = "open" => out = Cardinality(SlotOwners)
  /\ Cardinality(SlotOwners) <= Capacity

(* Every call to execute ends: with a result, an error or a cancellation,  *)
(* through overload, close and the death of the worker.                    *)
CallsEnd == \A c \in Callers : caller[c] # "idle" ~> caller[c] = "ended"

=============================================================================
