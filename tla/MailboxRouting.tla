--------------------------- MODULE MailboxRouting ---------------------------
(***************************************************************************)
(* Which mailbox a message ends up in, and who owns that mailbox, while    *)
(* the routing rules change underneath.  RCPT resolves every recipient     *)
(* from a cached snapshot of the rules; the message is written later, by   *)
(* one of three writers that each look at the rules again in their own way *)
(* (the Python SMTP path, ingestd's batch writer, the replay of a receipt);*)
(* and every edit of a rule commits a persistent job that walks the        *)
(* existing mailboxes in pages and promotes them to the new winner.        *)
(*                                                                         *)
(* The rules that can match the modelled addresses form a chain of roots,  *)
(* each a suffix of the next: 0 is the catch-all "*", a larger number is a *)
(* longer, more specific root.  A mailbox is owned by the rule of a root.  *)
(* "tag" is a plus-address of "base": a rule that strips tags canonicalises*)
(* it to "base".                                                           *)
(***************************************************************************)
EXTENDS Integers, FiniteSets, FiniteSetsExt, Folds, Sequences

CONSTANTS Messages,   \* the messages that may arrive
          TopRoot,    \* the most specific root of the chain
          Writers,    \* the writers of this instance: "smtp", "ingestd", "recovery"
          RuleStates, \* the values of a managed rule's flags: see RuleState
          Page,       \* mailboxes per page of a rehome job
          MaxRcpt,    \* bound: recipients of a message
          MaxEdits,   \* bound: edits of the routing rules
          MaxBox      \* bound: mailboxes ever created

Roots == 0 .. TopRoot
Addresses == {"base", "tag"}

(* "off": is_active = 0; "deaf": active, but accept_exact and
   accept_subdomains exclude the modelled addresses; "on": it matches them *)
RuleState == {"off", "deaf", "on"}

ASSUME RoutingAssumption ==
  /\ TopRoot \in Nat \ {0}
  /\ Writers \subseteq {"smtp", "ingestd", "recovery"}
  /\ RuleStates \subseteq RuleState
  /\ Page \in Nat \ {0}
  /\ MaxRcpt \in Nat /\ MaxEdits \in Nat /\ MaxBox \in Nat

VARIABLES rule,    \* root -> [ver, there, on, strip]; ver is the row id of the rule
          box,     \* mailbox id -> [addr, owner]
          lastBox, \* the AUTOINCREMENT counter of the mailboxes
          mail,    \* the deliveries: pairs of a message and a mailbox id
          rcpt,    \* message -> the accepted recipients, with the match RCPT saw
          stage,   \* message -> "open", "stored" or "refused"
          jobs,    \* the rehome jobs, in order of creation
          missed   \* history: mailboxes left for no job to look at (see MailSettled)

vars == <<rule, box, lastBox, mail, rcpt, stage, jobs, missed>>

db == [box |-> box, last |-> lastBox, mail |-> mail]

Match == [root : Roots, ver : Nat, addr : Addresses]
NoMatch == [root |-> -1, ver |-> 0, addr |-> "base"]

(* DomainMatcher.match_address over the active rules: the most specific root
   decides, also when its flags exclude the address, and its plus-addressing
   mode gives the canonical address *)
MatchAddress(a) ==
  LET active == {r \in Roots : rule[r].there /\ rule[r].on # "off"}
      top == Max(active)
  IN IF active = {} THEN NoMatch
     ELSE IF rule[top].on = "deaf" THEN NoMatch
     ELSE [root |-> top, ver |-> rule[top].ver,
           addr |-> IF rule[top].strip THEN "base" ELSE a]

BoxAt(d, a) == {b \in DOMAIN d.box : d.box[b].addr = a}

(* a match that improves on the mailbox: never towards "*" or a shorter root *)
NeedsPromotion(x, mt) ==
  /\ mt.root > 0
  /\ x.owner < mt.root \/ (x.owner = mt.root /\ x.addr # mt.addr)

(* the mailbox is due for a promotion by the present rules *)
Due(b) == NeedsPromotion(box[b], MatchAddress(box[b].addr))

(* mutant: the deliveries go with the source row *)
MergeDropping(d, S, t) ==
  [d EXCEPT !.box = [b \in DOMAIN d.box \ S |-> d.box[b]],
            !.mail = {p \in d.mail : p[2] \notin S}]

(* fold mailboxes into another: deliveries move, a message that was in several
   keeps one delivery, the source rows go *)
MergeInto(d, S, t) ==
  [d EXCEPT !.box = [b \in DOMAIN d.box \ S |-> d.box[b]],
            !.mail = {<<p[1], IF p[2] \in S THEN t ELSE p[2]>> : p \in d.mail}]

(* mutant: the mailbox is renamed without a look at the canonical address *)
PromoteRename(d, b, mt) ==
  IF b \notin DOMAIN d.box THEN d
  ELSE IF ~NeedsPromotion(d.box[b], mt) THEN d
  ELSE [d EXCEPT !.box[b] = [addr |-> mt.addr, owner |-> mt.root]]

(* the mailbox takes the address and the owner of the match, or is folded into
   the mailbox that has the address already *)
PromoteOwnership(d, b, mt) ==
  IF b \notin DOMAIN d.box THEN d
  ELSE IF ~NeedsPromotion(d.box[b], mt) THEN d
  ELSE LET others == BoxAt(d, mt.addr) \ {b}
       IN IF others = {}
          THEN [d EXCEPT !.box[b] = [addr |-> mt.addr, owner |-> mt.root]]
          ELSE LET t == CHOOSE x \in others : TRUE
                   up == NeedsPromotion(d.box[t], mt)
               IN MergeInto([d EXCEPT !.box[t].owner = IF up THEN mt.root ELSE @], {b}, t)

InsertMailbox(d, mt) ==
  [d EXCEPT !.last = @ + 1,
            !.box = [b \in DOMAIN @ \cup {d.last + 1} |->
                       IF b = d.last + 1 THEN [addr |-> mt.addr, owner |-> mt.root]
                                         ELSE d.box[b]]]

(* the mailbox at an address, after a write that made sure there is one *)
TheBox(d, a) == CHOOSE b \in BoxAt(d, a) : TRUE

Deliver(d, m, b) == [d EXCEPT !.mail = @ \cup {<<m, b>>}]

(* the steps for the numbers in S, the smallest first *)
InOrder(Step(_, _), d, S) == MapThenFoldSet(LAMBDA n, e : Step(e, n), d, LAMBDA n : n, Max, S)
-----------------------------------------------------------------------------
Init ==
  /\ rule = [r \in Roots |-> [ver |-> IF r = TopRoot /\ TopRoot > 1 THEN 0 ELSE 1,
                              there |-> ~(r = TopRoot /\ TopRoot > 1),
                              on |-> "on", strip |-> FALSE]]
  /\ box = <<>>
  /\ lastBox = 0
  /\ mail = {}
  /\ rcpt = [m \in Messages |-> <<>>]
  /\ stage = [m \in Messages |-> "open"]
  /\ jobs = <<>>
  /\ missed = {}

(* RCPT TO: the recipient is matched against the routing snapshot, and one
   whose canonical address is already on the envelope is not added again.
   The snapshot is the rules of an earlier moment; as the message is written
   at any later moment, resolving with the present rules loses nothing. *)
Rcpt(m, a) ==
  LET mt == MatchAddress(a)
  IN /\ stage[m] = "open"
     /\ mt # NoMatch /\ Len(rcpt[m]) < MaxRcpt
     /\ \A i \in DOMAIN rcpt[m] : rcpt[m][i].match.addr # mt.addr
     /\ rcpt' = [rcpt EXCEPT ![m] = Append(@, [to |-> a, match |-> mt])]
     /\ UNCHANGED <<rule, box, lastBox, mail, stage, jobs, missed>>

Room(n) == lastBox + n <= MaxBox

(* what a writer's transaction leaves when it commits *)
Commit(m, d) ==
  /\ box' = d.box /\ lastBox' = d.last /\ mail' = d.mail
  /\ stage' = [stage EXCEPT ![m] = "stored"]
  /\ UNCHANGED <<rule, rcpt, jobs>>
-----------------------------------------------------------------------------
(* The Python SMTP path. *)

SameRule(mt) == rule[mt.root].there /\ rule[mt.root].ver = mt.ver

CanAdvance(old, new) ==
  \/ old.root = new.root /\ old.ver = new.ver
  \/ new.root > old.root

(* the rematch of one recipient in the write transaction *)
SmtpRecheck(rc) ==
  LET now == MatchAddress(rc.to)
  IN SameRule(rc.match) /\ rule[rc.match.root].on # "off" /\ now # NoMatch
       /\ CanAdvance(rc.match, now)

UpsertMailbox(d, mt) ==
  IF BoxAt(d, mt.addr) = {} THEN InsertMailbox(d, mt)
  ELSE PromoteOwnership(d, TheBox(d, mt.addr), mt)

(* mutant: the match RCPT saw is used *)
SmtpDeliverCached(m, d, rc) ==
  LET e == UpsertMailbox(d, rc.match)
  IN Deliver(e, m, TheBox(e, rc.match.addr))

SmtpDeliver(m, d, rc) ==
  LET mt == MatchAddress(rc.to)
      e == UpsertMailbox(d, mt)
  IN Deliver(e, m, TheBox(e, mt.addr))

SmtpCommit(m) ==
  /\ "smtp" \in Writers
  /\ stage[m] = "open" /\ rcpt[m] # <<>> /\ Room(Len(rcpt[m]))
  /\ \E fits \in BOOLEAN :  \* the size limit of the rules of now
     IF fits /\ \A i \in DOMAIN rcpt[m] : SmtpRecheck(rcpt[m][i])
     THEN /\ Commit(m, InOrder(LAMBDA d, i : SmtpDeliver(m, d, rcpt[m][i]), db, DOMAIN rcpt[m]))
          /\ UNCHANGED missed
     ELSE /\ stage' = [stage EXCEPT ![m] = "refused"]
          /\ UNCHANGED <<rule, box, lastBox, mail, rcpt, jobs, missed>>
-----------------------------------------------------------------------------
(* ingestd's batch writer. *)

(* the match the writer uses for one recipient; the rule it was accepted under
   still exists.  An inactive rule keeps its in-flight mail. *)
CurrentDomainMatch(rc) ==
  LET now == MatchAddress(rc.to)
  IN IF rule[rc.match.root].on # "off" /\ now # NoMatch /\ CanAdvance(rc.match, now)
     THEN now ELSE rc.match

(* a catch-all mailbox that holds this recipient's mail under the address the
   catch-all rule gave it *)
CatchAllSources(d, rc, mt) ==
  LET old == IF rc.match.root = 0 THEN {rc.match.addr}
             ELSE IF rule[0].on = "on" THEN {rc.to} ELSE {}
  IN {b \in DOMAIN d.box : /\ mt.root > 0
                           /\ d.box[b].owner = 0
                           /\ d.box[b].addr \in old \ {mt.addr}}

(* the mailbox takes the identity of the match: always for a managed match *)
TakeIdentity(d, b, mt) ==
  IF d.box[b].owner = mt.root \/ mt.root > 0
  THEN [d EXCEPT !.box[b] = [addr |-> mt.addr, owner |-> mt.root]]
  ELSE d

IngestMailbox(d, rc, mt) ==
  LET exact == BoxAt(d, mt.addr)
      sources == CatchAllSources(d, rc, mt)
      target == IF exact # {} THEN exact ELSE sources
      t == CHOOSE b \in target : TRUE
  IN IF target = {} THEN InsertMailbox(d, mt)
     ELSE MergeInto(TakeIdentity(d, t, mt), sources \ {t}, t)

(* one recipient of the job: a mailbox key seen before is skipped; a second
   delivery of the message to one mailbox breaks the table's UNIQUE rule *)
IngestDeliver(m, acc, rc) ==
  LET mt == CurrentDomainMatch(rc)
      key == <<mt.root, mt.ver, mt.addr>>
      d == IngestMailbox(acc.d, rc, mt)
      b == TheBox(d, mt.addr)
  IN IF ~acc.ok \/ key \in acc.keys THEN acc
     ELSE [ok |-> <<m, b>> \notin d.mail, keys |-> acc.keys \cup {key},
           d |-> Deliver(d, m, b)]

IngestResult(m) ==
  InOrder(LAMBDA acc, i : IngestDeliver(m, acc, rcpt[m][i]),
          [ok |-> \A i \in DOMAIN rcpt[m] : SameRule(rcpt[m][i].match), keys |-> {}, d |-> db],
          DOMAIN rcpt[m])

(* a job whose transaction fails is rolled back; its receipt stays for recovery *)
IngestCommit(m) ==
  /\ "ingestd" \in Writers
  /\ stage[m] = "open" /\ rcpt[m] # <<>> /\ Room(Len(rcpt[m]))
  /\ IngestResult(m).ok
  /\ Commit(m, IngestResult(m).d)
  /\ missed' = IF \E i \in DOMAIN rcpt[m] : rule[rcpt[m][i].match.root].on = "off"
             THEN missed \cup {b \in DOMAIN box' : <<m, b>> \in mail'} ELSE missed
-----------------------------------------------------------------------------
(* The replay of a receipt by Python recovery. *)

RecoveryMatch(rc) ==
  LET now == MatchAddress(rc.to)
  IN IF now # NoMatch /\ (now.root > 0 \/ rc.match.root = 0) THEN now ELSE rc.match

(* the mailboxes at the current and at the accepted address are tried in this
   order; the first that is promoted settles the matter *)
RecoveryMailbox(d, rc, mt) ==
  LET first == BoxAt(d, mt.addr)
      second == BoxAt(d, rc.match.addr)
      one == CHOOSE b \in first : TRUE
      two == CHOOSE b \in second : TRUE
      up(S, b) == S # {} /\ NeedsPromotion(d.box[b], mt)
  IN IF up(first, one) THEN PromoteOwnership(d, one, mt)
     ELSE IF up(second, two) THEN PromoteOwnership(d, two, mt)
     ELSE IF first # {} THEN d
     ELSE InsertMailbox(d, mt)

RecoveryDeliver(m, d, rc) ==
  LET mt == RecoveryMatch(rc)
      e == RecoveryMailbox(d, rc, mt)
  IN Deliver(e, m, TheBox(e, mt.addr))

(* a recipient whose rule was deleted (its tombstone) holds the receipt back *)
Replay(m) ==
  /\ "recovery" \in Writers
  /\ stage[m] = "open" /\ rcpt[m] # <<>> /\ Room(Len(rcpt[m]))
  /\ \A i \in DOMAIN rcpt[m] : SameRule(rcpt[m][i].match)
  /\ Commit(m, InOrder(LAMBDA d, i : RecoveryDeliver(m, d, rcpt[m][i]), db, DOMAIN rcpt[m]))
  /\ UNCHANGED missed
-----------------------------------------------------------------------------
(* The routing rules and the rehome jobs their edits commit. *)

(* _create_rehome_job_in_connection: the frontier is the largest mailbox id *)
NewJob(r) == [root |-> r, cursor |-> 0, max |-> Max({0} \cup DOMAIN box), done |-> FALSE]

(* update_domain, create_domain, delete_domain, sync_catch_all_policy *)
UpdateRule(r, s, k) ==
  /\ r > 0 /\ rule[r].there /\ Len(jobs) < MaxEdits
  /\ <<s, k>> # <<rule[r].on, rule[r].strip>>
  /\ rule' = [rule EXCEPT ![r].on = s, ![r].strip = k]
  /\ jobs' = Append(jobs, NewJob(r))
  /\ UNCHANGED <<box, lastBox, mail, rcpt, stage, missed>>

CreateRule(r, s, k) ==
  /\ r > 0 /\ ~rule[r].there /\ Len(jobs) < MaxEdits /\ rule[r].ver < MaxEdits
  /\ rule' = [rule EXCEPT ![r] = [ver |-> @.ver + 1, there |-> TRUE, on |-> s, strip |-> k]]
  /\ jobs' = IF s = "off" THEN jobs ELSE Append(jobs, NewJob(r))
  /\ UNCHANGED <<box, lastBox, mail, rcpt, stage, missed>>

(* the row is referenced by the mailboxes it owns (ON DELETE RESTRICT); the rule
   it hid decides from now on, but no job is committed *)
DeleteRule(r) ==
  /\ r > 0 /\ rule[r].there
  /\ \A b \in DOMAIN box : box[b].owner # r
  /\ rule' = [rule EXCEPT ![r].there = FALSE]
  /\ UNCHANGED <<box, lastBox, mail, rcpt, stage, jobs>>
  /\ missed' = missed \cup {b \in DOMAIN box : Due(b)' /\ ~Due(b)}

CatchAll(s) ==
  /\ s # rule[0].on
  /\ rule' = [rule EXCEPT ![0].on = s]
  /\ UNCHANGED <<box, lastBox, mail, rcpt, stage, jobs, missed>>

(* _process_rehome_job_batch: one page of mailboxes in id order; a mailbox
   owned by a root that cannot be promoted to the job's root is passed over, and
   one that comes after Page others is left for a later page *)
JobPage(j) ==
  LET ids == {b \in DOMAIN box : jobs[j].cursor < b /\ b <= jobs[j].max}
  IN {b \in ids : ~\E others \in SUBSET {c \in ids : c < b} : Cardinality(others) = Page}

RehomeOne(j, d, b) ==
  LET mt == MatchAddress(box[b].addr)
  IN IF box[b].owner <= jobs[j].root /\ mt.root > 0 THEN PromoteOwnership(d, b, mt) ELSE d

RehomePage(j) ==
  /\ j \in DOMAIN jobs /\ ~jobs[j].done
  /\ LET next == IF JobPage(j) = {} THEN jobs[j].max ELSE Max(JobPage(j))
         d == InOrder(LAMBDA e, b : RehomeOne(j, e, b), db, JobPage(j))
     IN /\ box' = d.box /\ mail' = d.mail
        /\ jobs' = [jobs EXCEPT ![j].cursor = next, ![j].done = next >= jobs[j].max]
  /\ UNCHANGED <<rule, lastBox, rcpt, stage, missed>>

Next ==
  \/ \E m \in Messages : \/ \E a \in Addresses : Rcpt(m, a)
                         \/ SmtpCommit(m)
                         \/ IngestCommit(m)
                         \/ Replay(m)
  \/ \E r \in Roots : \/ \E s \in RuleStates, k \in BOOLEAN : UpdateRule(r, s, k)
                      \/ \E s \in RuleStates, k \in BOOLEAN : CreateRule(r, s, k)
                      \/ DeleteRule(r)
  \/ \E s \in {"on", "off"} : CatchAll(s)
  \/ \E j \in 1 .. MaxEdits : RehomePage(j)

Spec == Init /\ [][Next]_vars
-----------------------------------------------------------------------------
TypeOK ==
  /\ rule \in [Roots -> [ver : 0 .. MaxEdits + 1, there : BOOLEAN, on : RuleState, strip : BOOLEAN]]
  /\ DOMAIN box \subseteq 1 .. lastBox
  /\ \A b \in DOMAIN box : box[b] \in [addr : Addresses, owner : Roots]
  /\ lastBox \in 0 .. MaxBox
  /\ mail \subseteq Messages \X DOMAIN box
  /\ stage \in [Messages -> {"open", "stored", "refused"}]
  /\ \A m \in Messages : rcpt[m] \in Seq([to : Addresses, match : Match])
  /\ jobs \in Seq([root : Roots, cursor : 0 .. MaxBox, max : 0 .. MaxBox, done : BOOLEAN])
  /\ missed \subseteq 1 .. MaxBox

(* No promotion, merge or insert gives two mailboxes one canonical address: a
   write that did would be aborted by the UNIQUE column, and so would the
   message or the page of the job it belongs to. *)
AddressesUnique ==
  \A b, c \in DOMAIN box : box[b].addr = box[c].addr => b = c

(* When every rehome job has run, no mailbox that holds mail still waits for a
   promotion the present rules call for: the rematch of the writers and the
   frontier of the jobs leave no mailbox between them.  There are two exceptions
   no job looks at: a mailbox to which ingestd delivered what was accepted under
   a rule that had been switched off since, and one that the deletion of a rule
   left to a rule it had hidden. *)
MailSettled ==
  (\A j \in DOMAIN jobs : jobs[j].done) => \A p \in mail : p[2] \in missed \/ ~Due(p[2])

(* A stored message always keeps a delivery, and every delivery its mailbox:
   no sequence of merges, whoever runs it, drops the last copy or leaves one
   in a mailbox that is gone. *)
MailKept ==
  /\ \A m \in Messages : stage[m] = "stored" => \E p \in mail : p[1] = m
  /\ \A p \in mail : p[2] \in DOMAIN box

(* A stored message keeps a delivery for each of its recipients: in the mailbox
   of that address or of its canonical form, whatever was merged since. *)
NoMailLost ==
  \A m \in Messages : stage[m] = "stored" =>
    \A i \in DOMAIN rcpt[m] :
      \E p \in mail : p[1] = m /\ box[p[2]].addr \in {rcpt[m][i].to, "base"}
=============================================================================
