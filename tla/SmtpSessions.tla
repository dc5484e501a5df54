---------------------------- MODULE SmtpSessions ----------------------------
(***************************************************************************)
(* SMTP connections of the Python server: the handlers of                  *)
(* src/app/smtp/handler.py, connection_lost of server.py, and the session  *)
(* bookkeeping of runtime.py.                                              *)
(*                                                                         *)
(* A connection takes one of the slots that bound concurrent connections   *)
(* and has a row in smtp_sessions.  A handler runs until it waits for one  *)
(* of its writes; the loss of the connection cancels it there, but not the *)
(* write, which the database writer still performs in its turn.  The loss  *)
(* is handled by a task of its own.                                        *)
(*                                                                         *)
(*   slots     _active_smtp_connections                                    *)
(*   conn[c]   where the handler of the connection stands                  *)
(*   row[c]    "none", or the status of its row: open, closed, error       *)
(*   ops[c]    its writes that have not been performed, in order           *)
(*   reply[c]  the outcome of the write the handler waits for              *)
(*   unclosed  connections whose closing write failed                      *)
(*   inputs    what came from outside so far (commands, failed writes, and *)
(*             in LiveEvents mail and operators), bounded by MaxInputs     *)
(*                                                                         *)
(* External (aiosmtpd): commands come one at a time, connection_lost       *)
(* cancels the handler, and after an error reply the session goes on.      *)
(* Abstracted: whether the per-address rate limit refuses a connection is  *)
(* a free choice; the counters of a row; which command it is.              *)
(***************************************************************************)
EXTENDS LiveState, FiniteSets

CONSTANTS Conns, SlotLimit, MaxInputs

VARIABLES slots, conn, row, ops, reply, unclosed, inputs

sessionVars == <<slots, conn, row, ops, reply, unclosed>>
smtpVars == <<sessionVars, inputs>>

Input == inputs < MaxInputs /\ inputs' = inputs + 1

SessionEvent == [kind |-> "session"]

Await(c, pc, op) ==
  /\ conn' = [conn EXCEPT ![c] = pc]
  /\ ops' = [ops EXCEPT ![c] = Append(@, op)]
  /\ reply' = [reply EXCEPT ![c] = "none"]

Step(c, pc) == conn' = [conn EXCEPT ![c] = pc] /\ reply' = [reply EXCEPT ![c] = "none"]

-----------------------------------------------------------------------------
\* handle_CONNECT, handle_RCPT and handle_DATA up to ensure_smtp_session:
\* register_smtp_connection, which a command repeats, refuses (421) or takes a
\* slot unless the connection has one.
Command(c, rateAllows) ==
  /\ conn[c] \in {"new", "open"} /\ Input
  /\ IF c \in slots \/ (Cardinality(slots) < SlotLimit /\ rateAllows)
       THEN slots' = slots \cup {c} /\ Await(c, "ensure", "ensure")
       ELSE Step(c, "open") /\ UNCHANGED <<slots, ops>>
  /\ UNCHANGED <<row, unclosed, ringVars>>

\* The rest of a command: it ends, most ways with an event ...
CommandDone(c) ==
  /\ conn[c] = "ensure" /\ reply[c] = "ok"
  /\ Step(c, "open")
  /\ Publish(<<SessionEvent>>) \/ UNCHANGED ringVars
  /\ UNCHANGED <<slots, row, ops, unclosed, inputs>>

\* ... or it raises, and the session is closed as an error.
CommandRaises(c) ==
  /\ conn[c] = "ensure" /\ reply[c] = "ok"
  /\ Await(c, "erring", "error")
  /\ UNCHANGED <<slots, row, unclosed, inputs, ringVars>>

\* ensure_smtp_session failed: nothing is done about it.
EnsureFailed(c) ==
  /\ conn[c] = "ensure" /\ reply[c] = "failed"
  /\ Step(c, "open")
  /\ UNCHANGED <<slots, row, ops, unclosed, inputs, ringVars>>

\* handle_QUIT.
Quit(c) ==
  /\ conn[c] = "open"
  /\ Await(c, "quitting", "quit")
  /\ UNCHANGED <<slots, row, unclosed, inputs, ringVars>>

\* close_smtp_session after its write: the slot is released unless the write
\* failed, which both of its callers ignore.  Only handle_QUIT publishes.
CloseDone(c) ==
  /\ conn[c] \in {"erring", "quitting"} /\ reply[c] # "none"
  /\ slots' = IF reply[c] = "ok" THEN slots \ {c} ELSE slots
  /\ Step(c, IF conn[c] = "quitting" THEN "bye" ELSE "open")
  /\ IF conn[c] = "quitting" /\ reply[c] = "ok" THEN Publish(<<SessionEvent>>)
                                               ELSE UNCHANGED ringVars
  /\ UNCHANGED <<row, ops, unclosed, inputs>>

-----------------------------------------------------------------------------
\* connection_lost: the handler is cancelled where it waits.  A connection
\* without a session has nothing to end.
Lost(c) ==
  /\ conn[c] \notin {"new", "lost", "closing", "gone"}
  /\ Step(c, "lost")
  /\ UNCHANGED <<slots, row, ops, unclosed, inputs, ringVars>>

\* Faulty variant: the slot is only released with the closing write.
DisconnectKeeping(c) ==
  /\ conn[c] = "lost"
  /\ Await(c, "closing", IF c \in slots THEN "upsert" ELSE "mark")
  /\ UNCHANGED <<slots, row, unclosed, inputs, ringVars>>

\* handle_DISCONNECT and close_lost_smtp_session: the slot is released first;
\* without one only a row that still is open is closed.
Disconnect(c) ==
  /\ conn[c] = "lost"
  /\ slots' = slots \ {c}
  /\ Await(c, "closing", IF c \in slots THEN "upsert" ELSE "mark")
  /\ UNCHANGED <<row, unclosed, inputs, ringVars>>

\* The end of handle_DISCONNECT; the event is published if a row was closed.
DisconnectDone(c) ==
  /\ conn[c] = "closing" /\ reply[c] # "none"
  /\ Step(c, "gone")
  /\ IF reply[c] = "ok" THEN Publish(<<SessionEvent>>) ELSE UNCHANGED ringVars
  /\ UNCHANGED <<slots, row, ops, unclosed, inputs>>

-----------------------------------------------------------------------------
\* The status an operation leaves: ensure_smtp_session inserts or leaves the
\* status alone; the updates need a row; close_lost_smtp_session inserts.
Written(op, status) ==
  CASE op = "ensure" -> IF status = "none" THEN "open" ELSE status
    [] op = "error" -> IF status = "none" THEN "none" ELSE "error"
    [] op = "quit" -> IF status = "none" THEN "none" ELSE "closed"
    [] op = "upsert" -> "closed"
    [] op = "mark" -> IF status = "open" THEN "closed" ELSE status

\* The writer performs the next write of a connection, or it fails.  The one
\* who waits is told; an earlier write was left by a cancelled handler.
Write(c, ok) ==
  /\ ops[c] # <<>>
  /\ ok \/ inputs < MaxInputs
  /\ LET op == Head(ops[c])
         waiting == Len(ops[c]) = 1 /\ conn[c] \in {"ensure", "erring", "quitting", "closing"}
         changed == op # "mark" \/ row[c] = "open" IN
     /\ row' = IF ok THEN [row EXCEPT ![c] = Written(op, @)] ELSE row
     /\ ops' = [ops EXCEPT ![c] = Tail(@)]
     /\ reply' = IF waiting THEN [reply EXCEPT ![c] = IF ok /\ changed THEN "ok" ELSE "failed"]
                            ELSE reply
     /\ unclosed' = IF ~ok /\ op \in {"upsert", "mark"} THEN unclosed \cup {c} ELSE unclosed
     /\ inputs' = IF ok THEN inputs ELSE inputs + 1
  /\ UNCHANGED <<slots, conn, ringVars>>

\* The process dies and starts again: connections and pending writes are lost,
\* and _mark_orphaned_smtp_sessions_closed closes the rows left open.
RestartSmtp ==
  /\ slots' = {}
  /\ conn' = [c \in Conns |-> IF conn[c] = "new" THEN "new" ELSE "gone"]
  /\ row' = [c \in Conns |-> IF row[c] = "open" THEN "error" ELSE row[c]]
  /\ ops' = [c \in Conns |-> <<>>]
  /\ reply' = [c \in Conns |-> "none"]
  /\ UNCHANGED unclosed

SmtpInit ==
  /\ slots = {} /\ unclosed = {} /\ inputs = 0
  /\ conn = [c \in Conns |-> "new"]
  /\ row = [c \in Conns |-> "none"]
  /\ ops = [c \in Conns |-> <<>>]
  /\ reply = [c \in Conns |-> "none"]

\* What the server and the database writer do by themselves ...
SmtpRuns(c) ==
  \/ CommandDone(c) \/ CommandRaises(c) \/ EnsureFailed(c) \/ CloseDone(c)
  \/ Disconnect(c) \/ DisconnectDone(c)
  \/ \E ok \in BOOLEAN : Write(c, ok)

\* ... and what the clients do.
SmtpClient(c) ==
  \/ \E rateAllows \in BOOLEAN : Command(c, rateAllows)
  \/ Quit(c)
  \/ Lost(c)

-----------------------------------------------------------------------------
\* A connection that is gone holds no slot, so failed or cancelled bookkeeping
\* never eats up the concurrency limit, and its row does not stay open unless
\* the write that closes it failed (release_smtp_connection against the order
\* of the writes of cancelled handlers).
SessionsEnd ==
  \A c \in Conns : conn[c] = "gone" =>
    /\ c \notin slots
    /\ row[c] = "open" => c \in unclosed
=============================================================================
