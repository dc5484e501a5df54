------------------------------- MODULE ReadPool -------------------------------
(***************************************************************************)
(* The read actors of the Python process (app/db/read_pool.py): admission  *)
(* with a deadline, round-robin dispatch to fixed workers that each own a  *)
(* connection, the pause that gives maintenance the database file, close,  *)
(* and the failure of one worker.                                          *)
(*                                                                         *)
(* One caller makes one read.  A block under _state_lock is one step.      *)
(* The database file is a generation number: a replacement of the file     *)
(* raises it, a connection remembers the one it opened.  Time is           *)
(* abstracted: a deadline may pass whenever the code looks at it.          *)
(***************************************************************************)
EXTENDS AdmissionQueue

CONSTANTS
  Callers,          \* calls to fetch_all and fetch_one
  MaxConnections,   \* max_connections
  Capacities,       \* values of queue_capacity to consider
  MaxWaiters,       \* max_waiters
  NoCall,           \* no request
  MaxPauses, MaxReplaced, MaxFatal   \* bounds: pauses, file replacements, failures

ASSUME PoolConstants ==
  /\ MaxConnections \in Nat \ {0}
  /\ Capacities # {} /\ \A n \in Capacities : n \in Nat /\ n >= MaxConnections
  /\ MaxWaiters \in Nat \ {0} /\ NoCall \notin Callers
  /\ Callers \cap {"PAUSE", "STOP"} = {}
  /\ MaxPauses \in Nat /\ MaxReplaced \in Nat /\ MaxFatal \in Nat

VARIABLES
  state,        \* _state
  out,          \* _outstanding
  waiters,      \* _admission_waiters
  wst, fut,     \* per caller: state of its waiter and of the waiter's future
  posted,       \* callbacks posted to event loops
  pc,           \* per caller: "idle", "waiting", "admitted", "queued", "ended"
  left,         \* callers whose request has its cancelled event set
  queue,        \* per worker: its queue of callers and controls
  pauseSet,     \* _pause_controls_enqueued
  stopSet,      \* _stop_enqueued
  acks,         \* _pause_ack_count
  pauseFut,       \* _pause_complete: "none", "pending", "ok", "error"
  next,         \* _next_worker
  wpc, cur,     \* per worker: where its thread is, its active request
  tries,        \* per worker: attempts at the request so far
  conn,         \* per worker: generation its connection opened, 0 for none
  result,       \* per caller: the request's result future
  fatal,        \* _fatal_error is set
  closed,       \* _closed: "pending", "ok", "error"
  file,         \* generation of the database file
  capacity,     \* queue_capacity, which never changes
  pauses, fatals

Workers == 0 .. MaxConnections - 1
admission == <<out, waiters, wst, posted, queue, pauseSet, stopSet>>
callVars == <<fut, pc, left>>
actors == <<wpc, cur, tries, conn, result>>
world == <<file, capacity>>
bounds == <<pauses, fatals>>
vars == <<state, admission, callVars, acks, pauseFut, next, actors, fatal, closed, world, bounds>>

Init ==
  /\ state = "new" /\ out = 0 /\ waiters = <<>>
  /\ wst = [c \in Callers |-> "none"] /\ fut = [c \in Callers |-> "none"]
  /\ posted = {} /\ pc = [c \in Callers |-> "idle"] /\ left = {}
  /\ queue = [w \in Workers |-> <<>>]
  /\ pauseSet = FALSE /\ stopSet = FALSE /\ acks = 0 /\ pauseFut = "none" /\ next = 0
  /\ wpc = [w \in Workers |-> "off"] /\ cur = [w \in Workers |-> NoCall]
  /\ tries = [w \in Workers |-> 0] /\ conn = [w \in Workers |-> 0]
  /\ result = [c \in Callers |-> "none"] /\ fatal = FALSE /\ closed = "pending"
  /\ file = 1 /\ capacity \in Capacities /\ pauses = 0 /\ fatals = 0

-----------------------------------------------------------------------------
(* Admission. *)

ToAll(qs, control) == [w \in Workers |-> Append(qs[w], control)]

(* Faulty variant: the controls do not wait for owned reads. *)
AdvanceEarly(st, o, qs) ==
  LET pause == st = "pausing" /\ ~pauseSet
      stop == o = 0 /\ st = "closing" /\ ~stopSet
  IN /\ pauseSet' = (pauseSet \/ pause) /\ stopSet' = (stopSet \/ stop)
     /\ queue' = IF pause THEN ToAll(qs, "PAUSE") ELSE IF stop THEN ToAll(qs, "STOP") ELSE qs

(* _advance_lifecycle_locked in state st with o outstanding. *)
Advance(st, o, qs) ==
  LET pause == o = 0 /\ st = "pausing" /\ ~pauseSet
      stop == o = 0 /\ st = "closing" /\ ~stopSet
  IN /\ pauseSet' = (pauseSet \/ pause) /\ stopSet' = (stopSet \/ stop)
     /\ queue' = IF pause THEN ToAll(qs, "PAUSE") ELSE IF stop THEN ToAll(qs, "STOP") ELSE qs

(* Grant what fits, post the grants, then advance a pause or a close. *)
Settle(o, w, q, mail, qs) ==
  LET k == IF state = "open" THEN Popped(q, w, capacity - o) ELSE 0
      G == {q[i] : i \in Waiting(q, w, k)}
  IN /\ out' = o + Cardinality(G)
     /\ waiters' = SubSeq(q, k + 1, Len(q))
     /\ wst' = [c \in Callers |-> IF c \in G THEN "granted" ELSE w[c]]
     /\ posted' = mail \cup {<<"grant", c>> : c \in G}
     /\ Advance(state, o + Cardinality(G), qs)

End(c) == pc' = [pc EXCEPT ![c] = "ended"]

(* fetch_all or fetch_one up to its first await. *)
Acquire(c) ==
  LET q == Active(waiters, wst)
      direct == out < capacity /\ q = <<>>
  IN /\ pc[c] = "idle"
     /\ \/ /\ state # "open" /\ End(c) /\ UNCHANGED <<admission, fut>>
        \/ /\ state = "open" /\ direct
           /\ out' = out + 1 /\ waiters' = q
           /\ pc' = [pc EXCEPT ![c] = "admitted"]
           /\ UNCHANGED <<wst, posted, queue, pauseSet, stopSet, fut>>
        \/ /\ state = "open" /\ ~direct
           /\ IF Cardinality(Waiting(q, wst, Len(q))) >= MaxWaiters
              THEN /\ End(c) /\ waiters' = q
                   /\ UNCHANGED <<out, wst, posted, queue, pauseSet, stopSet, fut>>
              ELSE /\ pc' = [pc EXCEPT ![c] = "waiting"]
                   /\ fut' = [fut EXCEPT ![c] = "pending"]
                   /\ Settle(out, [wst EXCEPT ![c] = "waiting"], Append(q, c), posted, queue)
     /\ UNCHANGED <<state, left, acks, pauseFut, next, actors, fatal, closed, world, bounds>>

(* _cancel_admission. *)
Withdraw(c, mail) ==
  Settle(IF wst[c] = "granted" THEN out - 1 ELSE out,
         [wst EXCEPT ![c] = IF @ \in {"waiting", "granted"} THEN "cancelled" ELSE @],
         waiters, mail, queue)

(* The deadline passes or the task is cancelled while it waits. *)
LeavesWaiting(c) ==
  /\ pc[c] = "waiting" /\ End(c)
  /\ fut' = [fut EXCEPT ![c] = IF @ = "pending" THEN "cancelled" ELSE @]
  /\ Withdraw(c, posted)
  /\ UNCHANGED <<state, left, acks, pauseFut, next, actors, fatal, closed, world, bounds>>

(* The task runs after its grant or rejection was delivered. *)
Resume(c) ==
  /\ pc[c] = "waiting" /\ fut[c] # "pending"
  /\ IF fut[c] = "set" /\ wst[c] = "granted"
     THEN /\ pc' = [pc EXCEPT ![c] = "admitted"]
          /\ wst' = [wst EXCEPT ![c] = "consumed"]
          /\ UNCHANGED <<out, waiters, posted, queue, pauseSet, stopSet>>
     ELSE End(c) /\ Withdraw(c, posted)
  /\ UNCHANGED <<state, fut, left, acks, pauseFut, next, actors, fatal, closed, world, bounds>>

DeliverGrant(c) ==
  /\ <<"grant", c>> \in posted
  /\ LET mail == posted \ {<<"grant", c>>}
     IN IF wst[c] = "granted" /\ fut[c] # "pending"
        THEN Withdraw(c, mail) /\ UNCHANGED fut
        ELSE /\ posted' = mail
             /\ fut' = [fut EXCEPT ![c] = IF wst[c] = "granted" THEN "set" ELSE @]
             /\ UNCHANGED <<out, waiters, wst, queue, pauseSet, stopSet>>
  /\ UNCHANGED <<state, pc, left, acks, pauseFut, next, actors, fatal, closed, world, bounds>>

DeliverRejection(c) ==
  /\ <<"reject", c>> \in posted
  /\ posted' = posted \ {<<"reject", c>>}
  /\ fut' = [fut EXCEPT ![c] = IF @ = "pending" THEN "error" ELSE @]
  /\ UNCHANGED <<state, out, waiters, wst, queue, pauseSet, stopSet, pc, left, acks, pauseFut,
                 next, actors, fatal, closed, world, bounds>>

(* The loop of a waiting caller is closed; a grant posted to it raises. *)
LoopCloses(c) ==
  /\ pc[c] = "waiting" /\ End(c)
  /\ posted' = posted \ {<<"grant", c>>, <<"reject", c>>}
  /\ UNCHANGED <<state, out, waiters, wst, queue, pauseSet, stopSet, fut, left, acks, pauseFut,
                 next, actors, fatal, closed, world, bounds>>

GrantToClosedLoop(c) ==
  /\ pc[c] = "ended" /\ wst[c] = "granted"
  /\ Withdraw(c, posted \ {<<"grant", c>>})
  /\ UNCHANGED <<state, callVars, acks, pauseFut, next, actors, fatal, closed, world, bounds>>

(* _submit with its slot: to the next worker, also while pausing or         *)
(* closing, unless an actor failed.                                         *)
Dispatch(c) ==
  /\ pc[c] = "admitted"
  /\ \/ /\ fatal \/ state = "closed"
        /\ End(c) /\ Settle(out - 1, wst, waiters, posted, queue)
        /\ UNCHANGED next
     \/ /\ ~fatal /\ state # "closed"
        /\ queue' = [queue EXCEPT ![next] = Append(@, c)]
        /\ next' = (next + 1) % MaxConnections
        /\ pc' = [pc EXCEPT ![c] = "queued"]
        /\ UNCHANGED <<out, waiters, wst, posted, pauseSet, stopSet>>
  /\ UNCHANGED <<state, fut, left, acks, pauseFut, actors, fatal, closed, world, bounds>>

Receive(c) ==
  /\ pc[c] = "queued" /\ result[c] # "none" /\ End(c)
  /\ UNCHANGED <<state, admission, fut, left, acks, pauseFut, next, actors, fatal, closed, world,
                 bounds>>

(* The caller is cancelled: the request stays, flagged. *)
Abandon(c) ==
  /\ pc[c] = "queued" /\ result[c] = "none" /\ End(c)
  /\ left' = left \cup {c}
  /\ UNCHANGED <<state, admission, fut, acks, pauseFut, next, actors, fatal, closed, world, bounds>>

-----------------------------------------------------------------------------
(* Lifecycle. *)

Start ==
  /\ state = "new"
  /\ state' = "open" /\ wpc' = [w \in Workers |-> "get"]
  /\ UNCHANGED <<admission, callVars, acks, pauseFut, next, cur, tries, conn, result, fatal,
                 closed, world, bounds>>

(* A thread does not start: those that did are stopped and joined. *)
StartFails ==
  /\ state = "new" /\ fatals < MaxFatal
  /\ fatals' = fatals + 1
  /\ state' = "closed" /\ fatal' = TRUE /\ closed' = "error"
  /\ UNCHANGED <<admission, callVars, acks, pauseFut, next, actors, world, pauses>>

Refused == {c \in Callers : \E i \in 1 .. Len(waiters) : waiters[i] = c /\ wst[c] = "waiting"}

(* Faulty variant: the waiters are dropped without being told. *)
RejectSilently ==
  /\ waiters' = <<>>
  /\ wst' = [c \in Callers |-> IF c \in Refused THEN "rejected" ELSE wst[c]]
  /\ UNCHANGED posted

RejectWaiters ==
  /\ waiters' = <<>>
  /\ wst' = [c \in Callers |-> IF c \in Refused THEN "rejected" ELSE wst[c]]
  /\ posted' = posted \cup {<<"reject", c>> : c \in {d \in Refused : pc[d] = "waiting"}}

(* pause_and_drain of a pool that is open; in other states it only awaits,  *)
(* returns or raises.                                                       *)
PauseAndDrain ==
  /\ state = "open" /\ pauses < MaxPauses
  /\ pauses' = pauses + 1
  /\ state' = "pausing" /\ pauseFut' = "pending"
  /\ RejectWaiters /\ Advance("pausing", out, queue)
  /\ UNCHANGED <<out, callVars, acks, next, actors, fatal, closed, world, fatals>>

(* Faulty variant: the acknowledgements of this pause count for the next. *)
ResumePoolKeepsAcks ==
  /\ state = "paused"
  /\ state' = "open" /\ pauseSet' = FALSE /\ pauseFut' = "none"
  /\ UNCHANGED <<out, waiters, wst, posted, queue, stopSet, callVars, acks, next, actors,
                 fatal, closed, world, bounds>>

(* resume. *)
ResumePool ==
  /\ state = "paused"
  /\ state' = "open" /\ pauseSet' = FALSE /\ acks' = 0 /\ pauseFut' = "none"
  /\ UNCHANGED <<out, waiters, wst, posted, queue, stopSet, callVars, next, actors, fatal,
                 closed, world, bounds>>

Fails(f) == IF f = "pending" THEN "error" ELSE f

Close ==
  \/ /\ state = "new" /\ state' = "closed" /\ closed' = "ok"
     /\ UNCHANGED <<admission, callVars, acks, pauseFut, next, actors, fatal, world, bounds>>
  \/ /\ state \in {"open", "pausing", "paused"}
     /\ state' = "closing" /\ pauseFut' = Fails(pauseFut)
     /\ RejectWaiters /\ Advance("closing", out, queue)
     /\ UNCHANGED <<out, callVars, acks, next, actors, fatal, closed, world, bounds>>

(* The database file is replaced under the pool. *)
Replace ==
  /\ file <= MaxReplaced /\ file' = file + 1
  /\ UNCHANGED <<capacity, state, admission, callVars, acks, pauseFut, next, actors, fatal, closed, bounds>>

-----------------------------------------------------------------------------
(* The workers. *)

Item(w) == Head(queue[w])
Pops(w) == wpc[w] = "get" /\ queue[w] # <<>> /\ queue' = [queue EXCEPT ![w] = Tail(@)]

GetStop(w) ==
  /\ Pops(w) /\ Item(w) = "STOP"
  /\ wpc' = [wpc EXCEPT ![w] = "exit"]
  /\ UNCHANGED <<state, out, waiters, wst, posted, pauseSet, stopSet, callVars, acks, pauseFut,
                 next, cur, tries, conn, result, fatal, closed, world, bounds>>

(* The connection is closed, then the pause acknowledged. *)
GetPause(w) ==
  /\ Pops(w) /\ Item(w) = "PAUSE"
  /\ conn' = [conn EXCEPT ![w] = 0]
  /\ acks' = acks + 1
  /\ IF acks + 1 = MaxConnections /\ state = "pausing"
     THEN state' = "paused" /\ pauseFut' = IF pauseFut = "pending" THEN "ok" ELSE pauseFut
     ELSE UNCHANGED <<state, pauseFut>>
  /\ UNCHANGED <<out, waiters, wst, posted, pauseSet, stopSet, callVars, next, wpc, cur, tries,
                 result, fatal, closed, world, bounds>>

GetRequest(w) ==
  /\ Pops(w) /\ Item(w) \in Callers
  /\ wpc' = [wpc EXCEPT ![w] = "begin"] /\ cur' = [cur EXCEPT ![w] = Item(w)]
  /\ UNCHANGED <<state, out, waiters, wst, posted, pauseSet, stopSet, callVars, acks, pauseFut,
                 next, tries, conn, result, fatal, closed, world, bounds>>

Answer(w, r) ==
  /\ result' = [result EXCEPT ![cur[w]] = r]
  /\ wpc' = [wpc EXCEPT ![w] = "release"]

(* A sqlite3.Error that is no interruption: the connection goes, and the    *)
(* request is tried once more.                                              *)
SqliteError(w) ==
  /\ conn' = [conn EXCEPT ![w] = 0]
  /\ IF tries[w] = 1
     THEN Answer(w, "failed") /\ UNCHANGED tries
     ELSE /\ wpc' = [wpc EXCEPT ![w] = "begin"] /\ tries' = [tries EXCEPT ![w] = 1]
          /\ UNCHANGED result

(* _run_request until the operation runs: given up when the caller left or  *)
(* the deadline passed, else a connection to the current file.              *)
Begin(w) ==
  /\ wpc[w] = "begin"
  /\ \/ cur[w] \in left /\ Answer(w, "cancelled") /\ UNCHANGED <<tries, conn>>
     \/ cur[w] \notin left /\ Answer(w, "timeout") /\ UNCHANGED <<tries, conn>>
     \/ cur[w] \notin left /\ SqliteError(w)
     \/ /\ cur[w] \notin left
        /\ conn' = [conn EXCEPT ![w] = file] /\ wpc' = [wpc EXCEPT ![w] = "read"]
        /\ UNCHANGED <<tries, result>>
  /\ UNCHANGED <<state, admission, callVars, acks, pauseFut, next, cur, fatal, closed, world,
                 bounds>>

(* Faulty variant: the file is not looked at after the read. *)
FinishStale(w) ==
  /\ wpc[w] = "read"
  /\ Answer(w, "ok") /\ UNCHANGED <<tries, conn>>
  /\ UNCHANGED <<state, admission, callVars, acks, pauseFut, next, cur, fatal, closed, world,
                 bounds>>

(* The operation ends: a result read from the current file, an error, or    *)
(* the progress handler cut it off.  A rollback that fails costs the        *)
(* connection.                                                              *)
Finish(w) ==
  /\ wpc[w] = "read"
  /\ \/ conn[w] = file /\ Answer(w, "ok") /\ UNCHANGED <<tries, conn>>
     \/ SqliteError(w)
     \/ /\ \E r \in {"timeout", "failed"} \cup (IF cur[w] \in left THEN {"cancelled"} ELSE {}) :
             Answer(w, r)
        /\ conn' \in {conn, [conn EXCEPT ![w] = 0]} /\ UNCHANGED tries
  /\ UNCHANGED <<state, admission, callVars, acks, pauseFut, next, cur, fatal, closed, world,
                 bounds>>

Release(w) ==
  /\ wpc[w] = "release"
  /\ wpc' = [wpc EXCEPT ![w] = "get"] /\ cur' = [cur EXCEPT ![w] = NoCall]
  /\ tries' = [tries EXCEPT ![w] = 0]
  /\ Settle(out - 1, wst, waiters, posted, queue)
  /\ UNCHANGED <<state, callVars, acks, pauseFut, next, conn, result, fatal, closed, world,
                 bounds>>

(* The actor itself fails with a request in its hands. *)
Fatal(w) ==
  /\ wpc[w] \in {"begin", "read"} /\ fatals < MaxFatal
  /\ fatals' = fatals + 1
  /\ wpc' = [wpc EXCEPT ![w] = "fatal"]
  /\ UNCHANGED <<state, admission, callVars, acks, pauseFut, next, cur, tries, conn, result,
                 fatal, closed, world, pauses>>

(* _begin_worker_failure: the first failure closes the pool and stops the   *)
(* other workers behind what they have queued.                              *)
BeginWorkerFailure(w) ==
  /\ wpc[w] = "fatal"
  /\ wpc' = [wpc EXCEPT ![w] = "failing"]
  /\ IF fatal
     THEN UNCHANGED <<state, fatal, waiters, wst, posted, pauseFut, stopSet, queue>>
     ELSE /\ fatal' = TRUE /\ state' = "closing" /\ RejectWaiters
          /\ pauseFut' = Fails(pauseFut) /\ stopSet' = TRUE
          /\ queue' = IF stopSet THEN queue
                      ELSE [v \in Workers |-> IF v = w THEN queue[v] ELSE Append(queue[v], "STOP")]
  /\ UNCHANGED <<out, pauseSet, callVars, acks, next, cur, tries, conn, result, closed, world,
                 bounds>>

FailActive(w) ==
  /\ wpc[w] = "failing"
  /\ wpc' = [wpc EXCEPT ![w] = "drain"]
  /\ result' = [result EXCEPT ![cur[w]] = "failed"] /\ cur' = [cur EXCEPT ![w] = NoCall]
  /\ Settle(out - 1, wst, waiters, posted, queue)
  /\ UNCHANGED <<state, callVars, acks, pauseFut, next, tries, conn, fatal, closed, world, bounds>>

(* _fail_worker_queue, one item a step. *)
FailQueued(w) ==
  /\ wpc[w] = "drain" /\ queue[w] # <<>>
  /\ LET rest == [queue EXCEPT ![w] = Tail(@)]
     IN IF Item(w) \in Callers
        THEN /\ result' = [result EXCEPT ![Item(w)] = "failed"]
             /\ Settle(out - 1, wst, waiters, posted, rest)
        ELSE queue' = rest /\ UNCHANGED <<out, waiters, wst, posted, pauseSet, stopSet, result>>
  /\ UNCHANGED <<state, callVars, acks, pauseFut, next, wpc, cur, tries, conn, fatal, closed,
                 world, bounds>>

Drained(w) ==
  /\ wpc[w] = "drain" /\ queue[w] = <<>>
  /\ wpc' = [wpc EXCEPT ![w] = "exit"]
  /\ UNCHANGED <<state, admission, callVars, acks, pauseFut, next, cur, tries, conn, result,
                 fatal, closed, world, bounds>>

(* _worker_stopped: the last one closes the pool. *)
Stopped(w) ==
  /\ wpc[w] = "exit"
  /\ wpc' = [wpc EXCEPT ![w] = "dead"] /\ conn' = [conn EXCEPT ![w] = 0]
  /\ IF \A v \in Workers \ {w} : wpc[v] = "dead"
     THEN state' = "closed" /\ closed' = IF fatal THEN "error" ELSE "ok"
     ELSE UNCHANGED <<state, closed>>
  /\ UNCHANGED <<admission, callVars, acks, pauseFut, next, cur, tries, result, fatal, world,
                 bounds>>

WorkerStep(w) ==
  \/ GetStop(w) \/ GetPause(w) \/ GetRequest(w) \/ Begin(w) \/ Finish(w) \/ Release(w)
  \/ BeginWorkerFailure(w) \/ FailActive(w) \/ FailQueued(w) \/ Drained(w) \/ Stopped(w)

Next ==
  \/ \E c \in Callers :
       \/ Acquire(c) \/ LeavesWaiting(c) \/ Resume(c) \/ DeliverGrant(c) \/ DeliverRejection(c)
       \/ LoopCloses(c) \/ GrantToClosedLoop(c) \/ Dispatch(c) \/ Receive(c) \/ Abandon(c)
  \/ Start \/ StartFails \/ PauseAndDrain \/ ResumePool \/ Close \/ Replace
  \/ \E w \in Workers :
       \/ GetStop(w) \/ GetPause(w) \/ GetRequest(w) \/ Begin(w) \/ Finish(w) \/ Release(w)
       \/ Fatal(w) \/ BeginWorkerFailure(w) \/ FailActive(w) \/ FailQueued(w) \/ Drained(w)
       \/ Stopped(w)

(* Event loops run their callbacks and tasks, threads run, reads end at the *)
(* latest with their deadline.                                              *)
Fairness ==
  /\ \A c \in Callers :
       /\ WF_vars(DeliverGrant(c)) /\ WF_vars(DeliverRejection(c)) /\ WF_vars(Resume(c))
       /\ WF_vars(Dispatch(c)) /\ WF_vars(Receive(c)) /\ WF_vars(GrantToClosedLoop(c))
  /\ \A w \in Workers : WF_vars(WorkerStep(w))

Spec == Init /\ [][Next]_vars /\ Fairness

-----------------------------------------------------------------------------
InQueue(c) == \E w \in Workers : \E i \in 1 .. Len(queue[w]) : queue[w][i] = c
Running(c) == \E w \in Workers : cur[w] = c
Owners == {c \in Callers : pc[c] = "admitted" \/ wst[c] = "granted" \/ InQueue(c) \/ Running(c)}

(* Every variable has its type, the counter within its limit. *)
TypeOK ==
  /\ state \in {"new", "open", "pausing", "paused", "closing", "closed"}
  /\ out \in 0 .. capacity
  /\ waiters \in Seq(Callers) /\ posted \subseteq {"grant", "reject"} \X Callers
  /\ wst \in [Callers -> {"none", "waiting", "granted", "consumed", "cancelled", "rejected"}]
  /\ fut \in [Callers -> {"none", "pending", "set", "error", "cancelled"}]
  /\ pc \in [Callers -> {"idle", "waiting", "admitted", "queued", "ended"}] /\ left \subseteq Callers
  /\ queue \in [Workers -> Seq(Callers \cup {"PAUSE", "STOP"})]
  /\ pauseSet \in BOOLEAN /\ stopSet \in BOOLEAN /\ fatal \in BOOLEAN
  /\ acks \in 0 .. MaxConnections /\ pauseFut \in {"none", "pending", "ok", "error"}
  /\ next \in Workers /\ cur \in [Workers -> Callers \cup {NoCall}]
  /\ wpc \in [Workers -> {"off", "get", "begin", "read", "release", "fatal", "failing", "drain",
                          "exit", "dead"}]
  /\ tries \in [Workers -> 0 .. 1] /\ conn \in [Workers -> Nat]
  /\ result \in [Callers -> {"none", "ok", "failed", "timeout", "cancelled"}]
  /\ closed \in {"pending", "ok", "error"} /\ file \in Nat /\ capacity \in Capacities

(* Maintenance that awaited pause_and_drain has the file to itself: no     *)
(* worker holds a connection and no read is owned until resume.            *)
PausedIsQuiet ==
  state = "paused" => Owners = {} /\ \A w \in Workers : conn[w] = 0 /\ queue[w] = <<>>

(* A read answers from the file that is in place when it ends, never from  *)
(* one that was replaced while it ran.                                     *)
AnswersCurrent ==
  [][\A w \in Workers : cur[w] # NoCall /\ result[cur[w]] = "none" /\ result'[cur[w]] = "ok"
       => conn[w] = file]_vars

(* Every read ends, at the latest by its deadline or with the pool.        *)
CallsEnd == \A c \in Callers : pc[c] # "idle" ~> pc[c] = "ended"

(* pause_and_drain, which its caller cannot cancel, completes or fails.    *)
PauseEnds == pauseFut = "pending" ~> pauseFut # "pending"

=============================================================================
