----------------------------- MODULE BulkDelete -----------------------------
(***************************************************************************)
(* Emptying a mailbox.  The request only commits a job: the mailbox's      *)
(* deletion generation and the largest rowid of its active deliveries are  *)
(* frozen, the mailbox goes to the next generation, and pages of the old   *)
(* generation are marked deleted one short transaction at a time, by a     *)
(* background task that may fail, be stopped, or die with the process and  *)
(* be resumed by the next start.  Meanwhile mail arrives, retention        *)
(* removes rows (and SQLite hands their rowids out again), deliveries are  *)
(* deleted singly, and promotions merge one mailbox into another.          *)
(***************************************************************************)
EXTENDS Integers, FiniteSets, FiniteSetsExt, Functions

CONSTANTS Messages, Boxes,
          PageSize,  \* deliveries per page (MAILBOX_BULK_DELETE_BATCH_SIZE)
          MaxMail,   \* bound: deliveries made
          MaxJobs,   \* bound: generations of a mailbox
          MaxStops,  \* bound: stops and crashes of the process
          MaxFails   \* bound: failing page transactions

ASSUME BulkDeleteAssumption ==
  /\ IsFiniteSet(Messages) /\ IsFiniteSet(Boxes)
  /\ PageSize \in Nat \ {0}
  /\ MaxMail \in Nat /\ MaxJobs \in Nat /\ MaxStops \in Nat /\ MaxFails \in Nat

VARIABLES rows,   \* rowid -> [msg, box, gen, st]
          gen,    \* mailbox -> bulk_delete_generation, for the mailboxes that exist
          count,  \* mailbox -> message_count, the derived summary
          job,    \* mailbox -> its job; scope, the messages the request covered,
                  \* is a history variable
          task,   \* the mailboxes whose job has a background task
          proc,   \* "down", "starting", "up" or "closing"
          resume, \* the jobs the start has still to resume
          lost,   \* history: the jobs whose task failed since the start
          sent,   \* history: the deliveries made, each at most once
          stops, fails

bulkVars == <<rows, gen, count, job, task, proc, resume, lost, sent, stops, fails>>

Incomplete(b) == b \in DOMAIN job /\ job[b].st # "succeeded"

ActiveIn(rs, b) == {r \in DOMAIN rs : rs[r].box = b /\ rs[r].st = "active"}

(* _refresh_mailbox_summary_after_message_delete and its kin *)
Refreshed(rs, b) == Cardinality(ActiveIn(rs, b))

BulkInit ==
  /\ rows = <<>>
  /\ gen = [b \in Boxes |-> 0]
  /\ count = [b \in Boxes |-> 0]
  /\ job = <<>>
  /\ task = {} /\ resume = {} /\ lost = {} /\ sent = {}
  /\ proc = "up"
  /\ stops = 0 /\ fails = 0
-----------------------------------------------------------------------------
(* A delivery is inserted by either process; the rowid is one more than the
   largest in use, so the rowid of a removed last row comes back. *)
Deliver(m, b) ==
  LET r == Max({0} \cup DOMAIN rows) + 1
  IN /\ b \in DOMAIN gen
     /\ \A q \in DOMAIN rows : rows[q].msg # m \/ rows[q].box # b
     /\ <<m, b>> \notin sent /\ Cardinality(sent) < MaxMail
     /\ sent' = sent \cup {<<m, b>>}
     /\ rows' = [q \in DOMAIN rows \cup {r} |->
                   IF q = r THEN [msg |-> m, box |-> b, gen |-> gen[b], st |-> "active"]
                   ELSE rows[q]]
     /\ count' = [count EXCEPT ![b] = @ + 1]
     /\ UNCHANGED <<gen, job, task, proc, resume, lost, stops, fails>>

(* retention: an expired delivery (a deleted one expires at once) is removed *)
Expire(r) ==
  /\ proc = "up"
  /\ r \in DOMAIN rows
  /\ rows' = Restrict(rows, DOMAIN rows \ {r})
  /\ count' = [count EXCEPT ![rows[r].box] = Refreshed(rows', rows[r].box)]
  /\ UNCHANGED <<sent, gen, job, task, proc, resume, lost, stops, fails>>

DeleteOne(r) ==
  /\ proc = "up"
  /\ r \in DOMAIN rows /\ rows[r].st = "active"
  /\ rows' = [rows EXCEPT ![r].st = "deleted"]
  /\ count' = [count EXCEPT ![rows[r].box] = Refreshed(rows', rows[r].box)]
  /\ UNCHANGED <<sent, gen, job, task, proc, resume, lost, stops, fails>>

(* a delivery that changes its mailbox takes the target's generation *)
Moved(r, s, t) == [rows[r] EXCEPT !.box = t, !.gen = gen[t]]

(* promote_mailbox_ownership, merge_mailbox_into: deliveries move to the target;
   of two deliveries of one message the target's row stays, active if either
   was; the source row goes, and its job with it (ON DELETE CASCADE) *)
Merge(s, t) ==
  LET twin(r) == {q \in DOMAIN rows : rows[q].box = s /\ rows[q].msg = rows[r].msg}
      dups == {r \in DOMAIN rows : rows[r].box = s /\
                 \E q \in DOMAIN rows : rows[q].box = t /\ rows[q].msg = rows[r].msg}
      kept(r) == [rows[r] EXCEPT !.gen = gen[t],
                    !.st = IF \E q \in twin(r) : rows[q].st = "active" THEN "active" ELSE @]
  IN /\ s # t /\ {s, t} \subseteq DOMAIN gen
     /\ rows' = [r \in DOMAIN rows \ dups |->
                   IF rows[r].box = s THEN Moved(r, s, t)
                   ELSE IF rows[r].box = t /\ twin(r) # {} THEN kept(r) ELSE rows[r]]
     /\ gen' = Restrict(gen, DOMAIN gen \ {s})
     /\ count' = [Restrict(count, DOMAIN count \ {s}) EXCEPT ![t] = Refreshed(rows', t)]
     /\ job' = Restrict(job, DOMAIN job \ {s})
     /\ UNCHANGED <<sent, task, proc, resume, lost, stops, fails>>
-----------------------------------------------------------------------------
(* _create_or_resume_bulk_delete_job, for a mailbox without an incomplete job *)
FreshJob(b) ==
  LET inScope == {r \in ActiveIn(rows, b) : rows[r].gen = gen[b]}
  IN [st |-> "pending", cursor |-> 0, max |-> Max({0} \cup inScope), gen |-> gen[b],
      scope |-> {rows[r].msg : r \in ActiveIn(rows, b)}]

(* the request: an incomplete job is resumed as it is; either way the service
   makes sure that the job has a task, unless it is closing *)
Request(b) ==
  /\ proc \in {"up", "closing"} /\ b \in DOMAIN gen
  /\ IF Incomplete(b) THEN UNCHANGED <<job, gen>>
     ELSE /\ gen[b] < MaxJobs
          /\ job' = [c \in DOMAIN job \cup {b} |-> IF c = b THEN FreshJob(b) ELSE job[c]]
          /\ gen' = [gen EXCEPT ![b] = @ + 1]
  /\ task' = IF proc = "up" THEN task \cup {b} ELSE task
  /\ lost' = IF proc = "up" THEN lost \ {b} ELSE lost
  /\ UNCHANGED <<sent, rows, count, proc, resume, stops, fails>>

(* mutant: the page is cut out of the rowid range alone *)
InRange(b, r) ==
  /\ rows[r].box = b /\ rows[r].st = "active"
  /\ job[b].cursor < r /\ r <= job[b].max

InPage(b, r) ==
  /\ rows[r].box = b /\ rows[r].st = "active" /\ rows[r].gen = job[b].gen
  /\ job[b].cursor < r /\ r <= job[b].max

Page(b) ==
  LET all == {r \in DOMAIN rows : InPage(b, r)}
  IN {r \in all : Cardinality({q \in all : q < r}) < PageSize}

(* mutant: a page that is full is taken for the last one *)
LastPageFull(page, next, b) == Cardinality(page) <= PageSize

LastPage(page, next, b) == Cardinality(page) < PageSize \/ next >= job[b].max

(* mutant: the summary is left to the next delivery *)
SummaryKept(rs, b) == count

SummaryAfter(rs, b) == [count EXCEPT ![b] = Refreshed(rs, b)]

(* _process_bulk_delete_job_batch and the turn of the loop around it: a job
   that is gone, or finished, ends the task, and so does a closing service *)
RunPage(b) ==
  /\ b \in task /\ proc # "down" /\ Incomplete(b)
  /\ LET page == Page(b)
         next == IF page = {} THEN job[b].max ELSE Max(page)
         last == LastPage(page, next, b)
     IN /\ rows' = [r \in DOMAIN rows |-> IF r \in page THEN [rows[r] EXCEPT !.st = "deleted"] ELSE rows[r]]
        /\ count' = IF last THEN SummaryAfter(rows', b) ELSE count
        /\ job' = [job EXCEPT ![b].cursor = next, ![b].st = IF last THEN "succeeded" ELSE "running"]
        /\ task' = IF last \/ proc = "closing" THEN task \ {b} ELSE task
  /\ UNCHANGED <<sent, gen, proc, resume, lost, stops, fails>>

(* the loop is entered with the service closing *)
PauseTask(b) ==
  /\ b \in task /\ proc = "closing"
  /\ task' = task \ {b}
  /\ UNCHANGED <<sent, rows, gen, count, job, proc, resume, lost, stops, fails>>

(* the page transaction is rolled back; the failure is recorded, unless that
   fails as well.  A job that fails while the process starts fails the start. *)
FailPage(b) ==
  /\ b \in task /\ proc # "down" /\ b \in DOMAIN job /\ fails < MaxFails
  /\ fails' = fails + 1
  /\ \E recorded \in BOOLEAN :
       job' = IF recorded /\ Incomplete(b) THEN [job EXCEPT ![b].st = "failed"] ELSE job
  /\ task' = IF proc = "starting" THEN {} ELSE task \ {b}
  /\ proc' = IF proc = "starting" THEN "down" ELSE proc
  /\ resume' = IF proc = "starting" THEN {} ELSE resume
  /\ lost' = lost \cup {b}
  /\ UNCHANGED <<sent, rows, gen, count, stops>>

(* a task whose job was removed with its mailbox, or had succeeded before *)
EndTask(b) ==
  /\ b \in task /\ ~Incomplete(b) /\ proc # "down"
  /\ task' = task \ {b}
  /\ IF b \notin DOMAIN job /\ proc = "starting"
     THEN proc' = "down" /\ resume' = {}
     ELSE UNCHANGED <<proc, resume>>
  /\ UNCHANGED <<sent, rows, gen, count, job, lost, stops, fails>>
-----------------------------------------------------------------------------
(* close() waits until every task has ended its page *)
Stop ==
  /\ proc = "up" /\ stops < MaxStops
  /\ proc' = "closing" /\ stops' = stops + 1
  /\ UNCHANGED <<sent, rows, gen, count, job, task, resume, lost, fails>>

Stopped ==
  /\ proc = "closing" /\ task = {}
  /\ proc' = "down"
  /\ UNCHANGED <<sent, rows, gen, count, job, task, resume, lost, stops, fails>>

Crash ==
  /\ proc # "down" /\ stops < MaxStops
  /\ proc' = "down" /\ stops' = stops + 1
  /\ task' = {} /\ resume' = {}
  /\ UNCHANGED <<sent, rows, gen, count, job, lost, fails>>

(* mutant: the start looks for the jobs that were not tried yet *)
PendingJobs == {b \in DOMAIN job : job[b].st = "pending"}

(* _incomplete_bulk_delete_job_ids *)
IncompleteJobs == {b \in DOMAIN job : job[b].st \in {"pending", "running", "failed"}}

Start ==
  /\ proc = "down"
  /\ proc' = "starting"
  /\ resume' = IncompleteJobs
  /\ lost' = {}
  /\ UNCHANGED <<sent, rows, gen, count, job, task, stops, fails>>

(* resume_incomplete_bulk_delete_jobs: one job after the other *)
ResumeNext(b) ==
  /\ proc = "starting" /\ task = {} /\ b \in resume
  /\ task' = {b} /\ resume' = resume \ {b}
  /\ UNCHANGED <<sent, rows, gen, count, job, proc, lost, stops, fails>>

Started ==
  /\ proc = "starting" /\ task = {} /\ resume = {}
  /\ proc' = "up"
  /\ UNCHANGED <<sent, rows, gen, count, job, task, resume, lost, stops, fails>>

BulkNext ==
  \/ \E b \in Boxes : \/ \E m \in Messages : Deliver(m, b)
                      \/ Request(b) \/ RunPage(b) \/ PauseTask(b) \/ FailPage(b)
                      \/ EndTask(b) \/ ResumeNext(b)
                      \/ \E t \in Boxes : Merge(b, t)
  \/ \E r \in DOMAIN rows : Expire(r) \/ DeleteOne(r)
  \/ Stop \/ Stopped \/ Crash \/ Start \/ Started

BulkSpec == BulkInit /\ [][BulkNext]_bulkVars

(* Tasks run while the process is up; a stopped process is started again by
   its service manager. *)
FairSpec ==
  /\ BulkSpec
  /\ \A b \in Boxes : WF_bulkVars(RunPage(b)) /\ WF_bulkVars(PauseTask(b)) /\ WF_bulkVars(EndTask(b)) /\ WF_bulkVars(ResumeNext(b))
  /\ WF_bulkVars(Stopped) /\ WF_bulkVars(Start) /\ WF_bulkVars(Started)
-----------------------------------------------------------------------------
JobStates == {"pending", "running", "failed", "succeeded"}

(* Types, and that a delivery never is of a later generation than its mailbox. *)
BulkTypeOK ==
  /\ DOMAIN gen \subseteq Boxes /\ DOMAIN count = DOMAIN gen
  /\ DOMAIN job \subseteq DOMAIN gen /\ task \subseteq Boxes /\ resume \subseteq Boxes
  /\ \A b \in DOMAIN gen : gen[b] \in 0 .. MaxJobs
  /\ \A b \in DOMAIN job : /\ job[b].st \in JobStates
                           /\ job[b].cursor \in 0 .. job[b].max
                           /\ job[b].gen < gen[b]
  /\ \A r \in DOMAIN rows : /\ rows[r].msg \in Messages
                            /\ rows[r].box \in DOMAIN gen
                            /\ rows[r].gen \in 0 .. gen[rows[r].box]
                            /\ rows[r].st \in {"active", "deleted"}
  /\ proc \in {"down", "starting", "up", "closing"}

(* A page of a job deletes only deliveries that were in the mailbox when the
   job was committed: neither mail that came later, not even under the rowid
   of a removed delivery, nor deliveries merged in from another mailbox. *)
NewMailSpared ==
  [][\A r \in DOMAIN rows \cap DOMAIN rows' :
       /\ job' # job
       /\ rows[r].st = "active" /\ rows'[r].st = "deleted"
       => rows[r].msg \in job[rows[r].box].scope]_bulkVars

(* When a job is recorded as succeeded, no delivery that was active in the
   mailbox when the job was committed is active there, unless a later merge
   brought it (then it has a later generation), whatever pages, failures,
   restarts, single deletes and removals there were in between. *)
ScopeSwept ==
  \A b \in DOMAIN job : job[b].st = "succeeded" =>
    \A r \in ActiveIn(rows, b) : rows[r].msg \in job[b].scope => rows[r].gen > job[b].gen

(* The derived message_count, which a job refreshes once at its end, is the
   number of active deliveries whenever no job of the mailbox is incomplete. *)
SummaryExact ==
  \A b \in DOMAIN gen : ~Incomplete(b) => count[b] = Cardinality(ActiveIn(rows, b))

(* A committed job is finished, across stops and crashes, unless its mailbox
   is merged away or its task fails: then it waits for the next start or the
   next request. *)
JobsFinish == \A b \in Boxes : Incomplete(b) ~> (~Incomplete(b) \/ b \in lost)
=============================================================================
