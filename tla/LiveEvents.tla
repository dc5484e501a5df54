----------------------------- MODULE LiveEvents -----------------------------
(***************************************************************************)
(* The live mailbox page: deliveries committed to the database reach the   *)
(* browser through the outbox table mailbox_live_events, the tailer of     *)
(* src/app/runtime.py, the ring of LiveState, which the SMTP sessions of   *)
(* SmtpSessions publish into as well, and the web socket of                *)
(* src/app/http/public_views.py.                                           *)
(*                                                                         *)
(*   mail[d]   [status, parsed] of one delivery; "none" before and "gone"  *)
(*             after it is in the database                                 *)
(*   outbox    rows [id, d, type] that the triggers of the schema write    *)
(*   lastId    sqlite_sequence of the outbox: identifiers are never reused *)
(*   file      the identity (inode) of the database file                   *)
(*   unseen    the contents changed in place, and the tailer has not       *)
(*             noticed                                                     *)
(*   cursor, ident  the tailer's last published id and its file            *)
(*   poll      where the tailer's poll stands and the page it has loaded   *)
(*   clear     the progress of clear-all                                   *)
(*   view      the browser: step, its cursor, the rows it shows; and the   *)
(*             server's end of its web socket: last_seq and the events     *)
(*             still to be sent                                            *)
(*                                                                         *)
(* One mailbox and one viewer: viewers share nothing but the ring, and     *)
(* events of other mailboxes are skipped like those of SMTP sessions.      *)
(* External: the triggers (sqlite_schema.sql) and the script of the page.  *)
(***************************************************************************)
EXTENDS SmtpSessions, FiniteSetsExt

CONSTANTS Deliveries, BatchSize

VARIABLES mail, outbox, lastId, file, unseen, cursor, ident, poll, clear, view

dbVars == <<mail, outbox, lastId, file, unseen>>
tailVars == <<cursor, ident, poll>>
liveVars == <<dbVars, tailVars, clear, view>>
allVars == <<liveVars, smtpVars, ringVars>>

Idle == [pc |-> "idle"]
Row(status, parsed) == [status |-> status, parsed |-> parsed]
Active(d) == mail[d].status = "active"

-----------------------------------------------------------------------------
(* The database.                                                           *)

\* The triggers: a row of the outbox for an active delivery, which replaces the
\* one of the same type.
Emitted(d, type) ==
  {e \in outbox : e.d # d \/ e.type # type} \cup {[id |-> lastId + 1, d |-> d, type |-> type]}

Deliver(d) ==
  /\ clear = "no" /\ mail[d].status = "none"
  /\ mail' = [mail EXCEPT ![d] = Row("active", FALSE)]
  /\ outbox' = Emitted(d, "new")
  /\ lastId' = lastId + 1
  /\ UNCHANGED <<file, unseen>>

\* The parser stores its result, or a reparse resets it.
SetParsed(d) ==
  /\ clear = "no" /\ Active(d)
  /\ mail' = [mail EXCEPT ![d].parsed = ~@]
  /\ outbox' = Emitted(d, "updated")
  /\ lastId' = lastId + 1
  /\ UNCHANGED <<file, unseen>>

\* soft_delete leaves the outbox alone; when retention removes the row, its
\* events go with it.
SoftDelete(d) ==
  /\ clear = "no" /\ Active(d)
  /\ mail' = [mail EXCEPT ![d].status = "deleted"]
  /\ UNCHANGED <<outbox, lastId, file, unseen>>

Expire(d) ==
  /\ clear = "no" /\ mail[d].status = "deleted"
  /\ mail' = [mail EXCEPT ![d] = Row("gone", FALSE)]
  /\ outbox' = {e \in outbox : e.d # d}
  /\ UNCHANGED <<lastId, file, unseen>>

\* An operator restores the database: a copy of the present contents or a fresh
\* database in a new file, or a fresh one in the old file.
Restore(fresh, inPlace) ==
  /\ clear = "no" /\ (fresh \/ ~inPlace)
  /\ mail' = [d \in Deliveries |-> IF fresh THEN Row("none", FALSE) ELSE mail[d]]
  /\ outbox' = IF fresh THEN {} ELSE outbox
  /\ lastId' = IF fresh THEN 0 ELSE lastId
  /\ file' = IF inPlace THEN file ELSE file + 1
  /\ unseen' = (unseen \/ inPlace)

Database(d) ==
  \/ (Deliver(d) \/ SetParsed(d) \/ SoftDelete(d)) /\ Input
  \/ Expire(d) /\ UNCHANGED inputs

-----------------------------------------------------------------------------
(* The tailer: _publish_pending_mailbox_live_events.                       *)

\* _reset_mailbox_live_event_stream.
Reset(identity) == ident' = identity /\ cursor' = 0 /\ ClearRing

\* _load_mailbox_live_event_page: the next rows with what their deliveries are
\* at that moment, and the last identifier given.
Page(after) ==
  LET rows == {e \in outbox : e.id > after}
      nth(k) == CHOOSE e \in rows : Cardinality({o \in rows : o.id <= e.id}) = k
  IN [k \in 1 .. Min({BatchSize, Cardinality(rows)}) |->
        [id |-> nth(k).id, d |-> nth(k).d, type |-> nth(k).type, active |-> Active(nth(k).d),
         pending |-> ~mail[nth(k).d].parsed]]

\* The identity is compared and a page is loaded.  What happens in between
\* looks as if it had happened before, or, if it replaces the file, is discarded
\* with the page.  A poll that finds nothing to do is left out.
PollLoad ==
  /\ clear = "no" /\ poll = Idle
  /\ file # ident \/ lastId < cursor \/ \E e \in outbox : e.id > cursor
  /\ IF file # ident THEN Reset(file) /\ unseen' = FALSE
                     ELSE UNCHANGED <<ident, cursor, unseen, ringVars>>
  /\ poll' = [pc |-> "apply", before |-> file, rows |-> Page(cursor'), high |-> lastId]
  /\ UNCHANGED <<mail, outbox, lastId, file, clear, view, smtpVars>>

\* Faulty variant: a page of events of deliveries that are all inactive stalls the tailer.
PollApplyStalling ==
  LET shown == SelectSeq(poll.rows, LAMBDA r : r.active) IN
  /\ poll.pc = "apply"
  /\ poll' = Idle
  /\ IF file # poll.before \/ poll.high < cursor
       THEN Reset(file) /\ unseen' = FALSE
       ELSE /\ Publish([i \in DOMAIN shown |-> [kind |-> "mail", d |-> shown[i].d,
                          type |-> shown[i].type, pending |-> shown[i].pending]])
            /\ cursor' = IF shown = <<>> THEN cursor ELSE LastOf(shown).id
            /\ UNCHANGED <<ident, unseen>>
  /\ UNCHANGED <<mail, outbox, lastId, file, clear, view, smtpVars>>

\* After the load: the file was replaced, or the outbox is behind the cursor,
\* and the stream starts again; otherwise the events of active deliveries are
\* published and the cursor moves past every row.
PollApply ==
  LET shown == SelectSeq(poll.rows, LAMBDA r : r.active) IN
  /\ poll.pc = "apply"
  /\ poll' = Idle
  /\ IF file # poll.before \/ poll.high < cursor
       THEN Reset(file) /\ unseen' = FALSE
       ELSE /\ Publish([i \in DOMAIN shown |-> [kind |-> "mail", d |-> shown[i].d,
                          type |-> shown[i].type, pending |-> shown[i].pending]])
            /\ cursor' = IF poll.rows = <<>> THEN cursor ELSE LastOf(poll.rows).id
            /\ UNCHANGED <<ident, unseen>>
  /\ UNCHANGED <<mail, outbox, lastId, file, clear, view, smtpVars>>

-----------------------------------------------------------------------------
(* clear-all and restart.                                                  *)

\* _clear_all_mail_operation: the tailer is stopped where it waits ...
ClearBegin ==
  /\ clear = "no"
  /\ clear' = "stopped"
  /\ poll' = Idle
  /\ UNCHANGED <<dbVars, cursor, ident, view, sessionVars, ringVars>>

\* ... _clear_mail_tables empties the tables but keeps the outbox's sequence ...
ClearTables ==
  /\ clear = "stopped"
  /\ clear' = "emptied"
  /\ mail' = [d \in Deliveries |-> IF mail[d].status = "none" THEN mail[d] ELSE Row("gone", FALSE)]
  /\ outbox' = {}
  /\ row' = [c \in Conns |-> "none"]
  /\ UNCHANGED <<lastId, file, unseen, tailVars, view, ringVars,
                 slots, conn, ops, reply, unclosed, inputs>>

\* ... the ring and the cursor start again and the tailer with them.
ClearEnd ==
  /\ clear = "emptied"
  /\ clear' = "no"
  /\ ClearRing
  /\ cursor' = 0 /\ unseen' = FALSE
  /\ UNCHANGED <<mail, outbox, lastId, file, ident, poll, view, smtpVars>>

\* A step fails: the tailer is only started again.
ClearFails ==
  /\ clear # "no"
  /\ clear' = "no"
  /\ UNCHANGED <<dbVars, tailVars, view, smtpVars, ringVars>>

\* The process dies and starts: a new ring, and start() sets the cursor to the
\* last identifier in the outbox.
RestartApp ==
  /\ ClearRing
  /\ RestartSmtp
  /\ cursor' = Max({0} \cup {e.id : e \in outbox})
  /\ ident' = file /\ poll' = Idle /\ clear' = "no" /\ unseen' = FALSE
  /\ view' = CASE view.pc = "stream" -> [view EXCEPT !.pc = "closed", !.todo = <<>>]
               [] view.pc = "page" -> [view EXCEPT !.pc = "away"]
               [] OTHER -> view
  /\ UNCHANGED <<mail, outbox, lastId, file>>

-----------------------------------------------------------------------------
(* The viewer: mailbox_page, mailbox_websocket and the page's script.      *)

Shows(d) == IF ~Active(d) THEN "no" ELSE IF mail[d].parsed THEN "parsed" ELSE "pending"

Away == [pc |-> "away", cur |-> [gen |-> 0, seq |-> 0], shown |-> [d \in Deliveries |-> "no"],
         pos |-> 0, todo |-> <<>>]

\* mailbox_page takes the cursor ...
ViewOpen ==
  /\ view.pc = "away"
  /\ view' = [view EXCEPT !.pc = "page", !.cur = SnapshotCursor]

\* ... before it reads the mailbox; reads wait while clear-all holds the pool.
ViewRead ==
  /\ view.pc = "page" /\ clear # "emptied"
  /\ view' = [view EXCEPT !.pc = "closed", !.shown = [d \in Deliveries |-> Shows(d)]]

\* Faulty variant: the web socket would start at the present end of the ring.
ViewConnectNow ==
  /\ view.pc = "closed"
  /\ view' = [view EXCEPT !.pc = "stream", !.cur = SnapshotCursor, !.pos = SnapshotCursor.seq]

\* The page opens, or after a loss opens again, its web socket with the cursor
\* it has.
ViewConnect ==
  /\ view.pc = "closed"
  /\ view' = [view EXCEPT !.pc = "stream", !.pos = view.cur.seq]

Position == [gen |-> view.cur.gen, seq |-> view.pos]

\* One turn of mailbox_websocket: on a gap the page is told to load again;
\* otherwise there are events to send.
ViewWindow ==
  /\ view.pc = "stream" /\ view.todo = <<>>
  /\ \/ Gap(Position) /\ view' = Away
     \/ /\ ~Gap(Position) /\ Window(Position) # <<>>
        /\ view' = [view EXCEPT !.todo = Window(Position)]

\* The next event: those of no interest and of deliveries that are gone are
\* skipped; the first event of a delivery shows the state it was loaded with if
\* that was pending, any other the state the database has now.
ViewSend ==
  LET next == Head(view.todo)
      e == next.event
      skip == e.kind = "session" \/ ~Active(e.d)
      state == IF e.type = "new" /\ e.pending THEN "pending" ELSE Shows(e.d)
      step == [view EXCEPT !.todo = Tail(@), !.pos = next.seq] IN
  /\ view.pc = "stream" /\ view.todo # <<>> /\ clear # "emptied"
  /\ view' = IF skip THEN step
             ELSE [step EXCEPT !.shown[e.d] = state, !.cur.seq = next.seq]

\* The web socket breaks.
ViewLost ==
  /\ view.pc = "stream"
  /\ view' = [view EXCEPT !.pc = "closed", !.todo = <<>>]

Viewer ==
  /\ ViewOpen \/ ViewRead \/ ViewConnect \/ ViewWindow \/ ViewSend
  /\ UNCHANGED <<dbVars, tailVars, clear, smtpVars, ringVars>>

-----------------------------------------------------------------------------
LiveInit ==
  /\ ring = <<>> /\ nextSeq = 1 /\ gen = 1
  /\ SmtpInit
  /\ mail = [d \in Deliveries |-> Row("none", FALSE)]
  /\ outbox = {} /\ lastId = 0 /\ file = 1 /\ unseen = FALSE
  /\ cursor = 0 /\ ident = 1 /\ poll = Idle
  /\ clear = "no" /\ view = Away

Tailer == PollLoad \/ PollApply

Clearing == ClearTables \/ ClearEnd \/ ClearFails

Upset ==
  /\ Input
  /\ \/ ClearBegin
     \/ RestartApp
     \/ /\ \E fresh, inPlace \in BOOLEAN : Restore(fresh, inPlace)
        /\ UNCHANGED <<tailVars, clear, view, sessionVars, ringVars>>
     \/ ViewLost /\ UNCHANGED <<dbVars, tailVars, clear, sessionVars, ringVars>>

LiveNext ==
  \/ \E d \in Deliveries :
       Database(d) /\ UNCHANGED <<tailVars, clear, view, sessionVars, ringVars>>
  \/ Tailer
  \/ Viewer
  \/ Clearing
  \/ Upset
  \/ \E c \in Conns : (SmtpRuns(c) \/ SmtpClient(c)) /\ UNCHANGED liveVars

\* The tailer polls periodically, the page's requests and web socket are
\* served, and clear-all goes on: all are tasks of the event loop that only
\* wait for the database.  Nothing is assumed of mail, clients and operators.
LiveSpec == LiveInit /\ [][LiveNext]_allVars /\ WF_allVars(Tailer) /\ WF_allVars(Viewer) /\ WF_allVars(Clearing)

-----------------------------------------------------------------------------
\* The cursor the next window is taken with.
NextCursor ==
  IF view.pc # "stream" THEN view.cur
  ELSE IF view.todo = <<>> THEN Position
  ELSE [Position EXCEPT !.seq = LastOf(view.todo).seq]

\* What the page will show of d once everything on its way has arrived: the
\* last event in the outbox (read anew, or as the tailer has loaded it), else
\* in the ring or the web socket, else what it shows now.
Arriving(d) ==
  LET published == view.todo \o Window(NextCursor)
      ofD == SelectSeq(published, LAMBDA e : e.event.kind = "mail" /\ e.event.d = d)
      fixed(type, pending) == IF type = "new" /\ pending THEN "pending" ELSE Shows(d)
      loaded == IF poll.pc = "apply" THEN SelectSeq(poll.rows, LAMBDA r : r.d = d) ELSE <<>>
      top == Max({0} \cup {loaded[i].id : i \in DOMAIN loaded})
  IN IF \E e \in outbox : e.d = d /\ e.id > cursor /\ e.id > top THEN Shows(d)
     ELSE IF loaded # <<>> THEN fixed(LastOf(loaded).type, LastOf(loaded).pending)
     ELSE IF ofD # <<>> THEN fixed(LastOf(ofD).event.type, LastOf(ofD).event.pending)
     ELSE view.shown[d]

\* The page will be told to load again, or the tailer is to start the stream
\* again.
ReloadDue ==
  \/ Gap(NextCursor)
  \/ file # ident
  \/ poll # Idle /\ poll.before # file
  \/ clear = "emptied"

\* No delivery is lost between the page and the stream: every active delivery
\* the page does not show as the database has it is still on its way to it, in
\* the order that ends with the right state, or the page is to be loaded again
\* (the cursor of mailbox_page is older than its rows, the tailer never skips a
\* row, and every jump of the ring is noticed).  A database replaced in place
\* is noticed only while its outbox is shorter than the cursor, so nothing is
\* claimed from then until the stream starts again.
ViewerCurrent ==
  view.pc \in {"closed", "stream"} /\ ~unseen /\ ~ReloadDue =>
    \A d \in Deliveries : Active(d) => Arriving(d) = Shows(d)

\* Once the database no longer changes, an open page ends up showing every
\* delivery as it is, through restarts, restores and broken web sockets.
ViewerShows ==
  <>[](unseen \/ \A d \in Deliveries : Active(d) => view.shown[d] = Shows(d))
=============================================================================
