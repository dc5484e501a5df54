------------------------------- MODULE Access -------------------------------
(***************************************************************************)
(* The management of accounts and API keys by browsers and API clients     *)
(* (the handlers of src/app/http/api_v2.py, admin_api.py and               *)
(* admin_views.py over sessions.py and api_keys.py).                       *)
(*                                                                         *)
(* A request is authenticated, its handler checks the principal it was     *)
(* given, and the change is queued for the database writer.  By the time   *)
(* its transaction runs, the principal may have been revoked, narrowed,    *)
(* deactivated or deleted: the transaction loads it again.                 *)
(*                                                                         *)
(* A task passes through                                                   *)
(*   verify, finalize, open          a login                               *)
(*   prove, change                   a change of the own password          *)
(*   row, grants, store, usage,                                            *)
(*   load_usage, store_usage         the authentication of an API key      *)
(*   ready, queued, invalidate       a management call                     *)
(*                                                                         *)
(* Not modelled: the legacy administrator token, which is exempt from all  *)
(* these checks; renames; a request cancelled between the commit of a key  *)
(* change and its invalidation, after which an entry is stale until it     *)
(* expires.                                                                *)
(***************************************************************************)
EXTENDS ApiKeys

CONSTANTS Roles, Kind, Domains, FirstAdmin, FirstSession, FirstKey,
          FirstPolicy,        \* the policy of the key that exists at first
          MaxRequests         \* requests in a behaviour

VARIABLE requests

vars == <<accountVars, task, keyVars, cacheVars, now, requests>>

Refused == Absent

-----------------------------------------------------------------------------
\* What the columns of a key and its grants, of an account and of a session
\* hold.
Rules == Policies \cup {FirstPolicy}
PolicyRecords ==
  [scopes : SUBSET AdminScopes, mode : {"none", "selected", "all"}, domains : SUBSET Domains,
   patterns : SUBSET UNION {p.patterns : p \in Rules}, rate : Nat,
   networks : SUBSET UNION {p.networks : p \in Rules}, expires : Nat \cup {Never},
   transports : SUBSET {"header", "query"}]
KeyRows == [kind : {"public", "service", "admin"}, pol : PolicyRecords,
            status : {"active", "disabled", "revoked"}, secret : Nat]
AdminRows == [role : Roles, active : BOOLEAN, hash : Nat]
SessionRows == [admin : Admins, live : BOOLEAN, proof : Nat]

\* Grants of domains come with the mode "selected" only, as
\* _validate_domain_grants has it; the two markers are neither rows nor a status.
ASSUME AccessConstants ==
  /\ FirstAdmin \in Admins /\ FirstSession \in Sessions /\ FirstKey \in Keys
  /\ "superadmin" \in Roles /\ Kind \in {"public", "service", "admin"}
  /\ Rules \subseteq PolicyRecords
  /\ \A p \in Rules : p.mode # "selected" => p.domains = {}
  /\ Absent # Gone /\ Absent \notin {"active", "disabled", "revoked"}
  /\ {Absent, Gone} \cap (KeyRows \cup AdminRows \cup SessionRows) = {}

-----------------------------------------------------------------------------
\* Faulty variant: the policy of the actor is loaded again, but not whether it
\* still is live.
LoadedPolicy(actor) ==
  IF actor.kind = "key"
    THEN IF Row(key[actor.id]) THEN key[actor.id].pol ELSE Refused
    ELSE IF Row(session[actor.id]) THEN RolePolicy(admin[session[actor.id].admin].role)
         ELSE Refused

\* transaction_authorization_principal and _transaction_admin_principal: the
\* policy an actor has now.
CurrentPolicy(actor) ==
  IF actor.kind = "key"
    THEN LET row == key[actor.id] IN
         IF Row(row) /\ row.status = "active" /\ ~Due(row.pol) THEN row.pol ELSE Refused
    ELSE IF SessionLive(actor.id) THEN RolePolicy(admin[session[actor.id].admin].role)
         ELSE Refused

KeyOps == {"create_key", "update_key", "rotate_key", "revoke_key", "delete_key"}

Required(op) ==
  CASE op \in KeyOps -> Writes({"api_keys"})
    [] op = "create_admin" -> Writes({"admins", "admins.credentials"})
    [] op \in {"update_admin", "delete_admin"} -> Writes({"admins"})
    [] op = "reset_password" -> Writes({"admins.credentials"})
    [] op = "revoke_sessions" -> Writes({"admins.sessions"})

\* The payloads of the management endpoints.
Calls ==
  [op : {"create_key"}, pol : Policies]
    \cup [op : {"update_key"}, key : Keys, pol : Policies, status : {"active", "disabled"}]
    \cup [op : {"rotate_key", "revoke_key", "delete_key"}, key : Keys]
    \cup [op : {"create_admin"}, role : Roles]
    \cup [op : {"update_admin"}, admin : Admins, role : Roles, active : BOOLEAN]
    \cup [op : {"delete_admin", "reset_password", "revoke_sessions"}, admin : Admins]

\* A call names a row that exists or existed.
Known(c) ==
  /\ c.op \in KeyOps \ {"create_key"} => key[c.key] # Absent
  /\ c.op \notin KeyOps \cup {"create_admin"} => admin[c.admin] # Absent

\* What a transaction finds in the database before it changes anything (that
\* an identifier is left for a new row is a bound).
Possible(c) ==
  CASE c.op = "create_key" -> /\ ValidForKind(Kind, c.pol.scopes)
                              /\ \E k \in Keys : key[k] = Absent
    [] c.op = "update_key" -> Row(key[c.key]) /\ ValidForKind(key[c.key].kind, c.pol.scopes)
    [] c.op = "rotate_key" -> /\ Row(key[c.key])
                              /\ key[c.key].status = "active" /\ ~Due(key[c.key].pol)
    [] c.op = "revoke_key" -> Row(key[c.key])
    [] c.op = "delete_key" -> Row(key[c.key]) /\ key[c.key].status = "revoked"
    [] c.op = "create_admin" -> \E a \in Admins : admin[a] = Absent
    [] c.op = "update_admin" -> /\ Row(admin[c.admin])
                                /\ RootRemains(c.admin, [admin[c.admin] EXCEPT !.role = c.role,
                                                                              !.active = c.active])
    [] c.op = "delete_admin" -> Row(admin[c.admin]) /\ RootRemains(c.admin, Gone)
    [] OTHER -> Row(admin[c.admin])

\* The target, before and after the change, is within the authority of p.
TargetWithin(p, c) ==
  /\ c.op \in KeyOps \ {"create_key"} => KeyWithin(p, key[c.key].pol)
  /\ c.op \in {"create_key", "update_key"} => KeyWithin(p, c.pol)
  /\ c.op \in {"create_admin", "update_admin"} => RoleWithin(p, c.role)
  /\ c.op \notin KeyOps \cup {"create_admin"} => RoleWithin(p, admin[c.admin].role)

\* The checks of a transaction with the policy p of its actor.
Authorized(p, c) ==
  p # Refused /\ Required(c.op) \subseteq p.scopes /\ p.mode = "all"

-----------------------------------------------------------------------------
\* What the forms of admin_views.py check: _require_admin the scope of the path,
\* and the update of a key that the key exists.  Targets are left to the
\* transaction, and no form revokes sessions.
CreateKeyForm(p, c) == c.op = "create_key" /\ Writes({"api_keys"}) \subseteq p.scopes
UpdateKeyForm(p, c) ==
  c.op = "update_key" /\ Writes({"api_keys"}) \subseteq p.scopes /\ Row(key[c.key])
KeyActionForm(p, c) ==
  /\ c.op \in {"rotate_key", "revoke_key", "delete_key"}
  /\ Writes({"api_keys"}) \subseteq p.scopes
AdminForm(p, c) ==
  c.op \notin KeyOps \cup {"revoke_sessions"} /\ Writes({"admins"}) \subseteq p.scopes

Form(p, c) == CreateKeyForm(p, c) \/ UpdateKeyForm(p, c) \/ KeyActionForm(p, c) \/ AdminForm(p, c)

\* A form is posted with a session.
BrowserRequest(t, s, c) ==
  /\ task[t] = Idle
  /\ SessionLive(s)
  /\ Form(RolePolicy(admin[session[s].admin].role), c)
  /\ Goto(t, [pc |-> "queued", actor |-> [kind |-> "session", id |-> s], call |-> c])
  /\ UNCHANGED <<accountVars, keyVars, cacheVars, now>>

\* What the handlers of api_v2.py check with the principal of the request: its
\* scopes, its domain grant and, for keys, the target as read now and as it is
\* to become.
Scoped(p, c) == Required(c.op) \subseteq p.scopes
CreateKeyV2(p, c) ==
  c.op = "create_key" /\ Scoped(p, c) /\ p.mode = "all" /\ TargetWithin(p, c)
ExistingKeyV2(p, c) ==
  /\ c.op \in KeyOps \ {"create_key"} /\ Scoped(p, c) /\ p.mode = "all"
  /\ Row(key[c.key]) /\ TargetWithin(p, c)
AdminV2(p, c) == c.op \notin KeyOps /\ Scoped(p, c) /\ p.mode = "all"

\* Those of admin_api.py leave the domain grant of key calls to the transaction.
CreateKeyV1(p, c) == c.op = "create_key" /\ Scoped(p, c) /\ TargetWithin(p, c)
ExistingKeyV1(p, c) ==
  /\ c.op \in KeyOps \ {"create_key"} /\ Scoped(p, c)
  /\ Row(key[c.key]) /\ TargetWithin(p, c)
AdminV1(p, c) == c.op \notin KeyOps /\ Scoped(p, c) /\ p.mode = "all"

\* A handler of one of the two APIs.
Handle(t, c) ==
  /\ task[t].pc = "ready"
  /\ LET p == task[t].pol
         v1 == CreateKeyV1(p, c) \/ ExistingKeyV1(p, c) \/ AdminV1(p, c)
         v2 == CreateKeyV2(p, c) \/ ExistingKeyV2(p, c) \/ AdminV2(p, c) IN
     \E passes \in {v1, v2} :
       IF passes THEN Goto(t, [pc |-> "queued", actor |-> task[t].actor, call |-> c])
                 ELSE Finish(t)
  /\ UNCHANGED <<accountVars, keyVars, cacheVars, now>>

\* The transactions, by operation.
ApplyKey(c) ==
  /\ \/ c.op = "create_key" /\ \E k \in Keys : key[k] = Absent /\ CreateKey(k, Kind, c.pol)
     \/ c.op = "update_key" /\ UpdateKey(c.key, c.pol, c.status)
     \/ c.op = "rotate_key" /\ RotateKey(c.key)
     \/ c.op = "revoke_key" /\ RevokeKey(c.key)
     \/ c.op = "delete_key" /\ DeleteKey(c.key)
  /\ UNCHANGED accountVars

ApplyAdmin(c) ==
  /\ \/ /\ c.op = "create_admin"
        /\ \E a \in Admins : admin[a] = Absent /\ CreateAdmin(a, c.role, TRUE)
     \/ c.op = "update_admin" /\ UpdateAdmin(c.admin, c.role, c.active)
     \/ c.op = "delete_admin" /\ DeleteAdmin(c.admin)
     \/ c.op = "reset_password" /\ ResetPassword(c.admin)
     \/ c.op = "revoke_sessions" /\ RevokeSessions(c.admin)
  /\ UNCHANGED keyVars

\* The transaction of a queued call.  A change of an existing key is followed
\* by the invalidation of its cache entries.
Commit(t) ==
  /\ task[t].pc = "queued"
  /\ LET c == task[t].call
         p == CurrentPolicy(task[t].actor) IN
     IF Authorized(p, c) /\ Possible(c) /\ TargetWithin(p, c)
       THEN /\ ApplyKey(c) \/ ApplyAdmin(c)
            /\ IF c.op \in KeyOps \ {"create_key"}
                 THEN Goto(t, [pc |-> "invalidate", key |-> c.key])
                 ELSE Finish(t)
       ELSE Finish(t) /\ UNCHANGED <<accountVars, keyVars>>
  /\ UNCHANGED <<cacheVars, now>>

-----------------------------------------------------------------------------
\* The bootstrap administrator of ensure_bootstrap_admin is logged in, a key
\* exists already, and perhaps another superadmin.
Init ==
  /\ LET root == [role |-> "superadmin", active |-> TRUE, hash |-> 1] IN
     \E other \in {Absent, root} :
       admin = [a \in Admins |-> IF a = FirstAdmin THEN root ELSE other]
  /\ session = [s \in Sessions |-> IF s = FirstSession
                                     THEN [admin |-> FirstAdmin, live |-> TRUE, proof |-> 1]
                                     ELSE Absent]
  /\ key = [k \in Keys |-> IF k = FirstKey THEN [kind |-> Kind, pol |-> FirstPolicy,
                                                 status |-> "active", secret |-> 1]
                                           ELSE Absent]
  /\ requests = 0
  /\ hashes = 1 /\ secrets = 1
  /\ task = [t \in Tasks |-> Idle]
  /\ cache = {} /\ usage = [k \in Keys |-> Absent] /\ epoch = 0
  /\ now = 0

\* A request arrives.
Begin(t) ==
  \/ /\ UNCHANGED <<keyVars, cacheVars, now>>
     /\ \/ \E a \in Admins : StartLogin(t, a)
        \/ \E s \in Sessions : StartChange(t, s)
  \/ \E n \in 1..secrets : Present(t, n)
  \/ \E s \in Sessions, c \in Calls : Known(c) /\ BrowserRequest(t, s, c)

\* A request goes on.
Continue(t) ==
  \/ /\ UNCHANGED <<keyVars, cacheVars, now>>
     /\ \/ \E right \in BOOLEAN : VerifyLogin(t, right) \/ ProveChange(t, right)
        \/ FinalizeLogin(t)
        \/ OpenSession(t)
        \/ CommitChange(t)
  \/ LoadRow(t)
  \/ LoadGrants(t)
  \/ Store(t)
  \/ \E allowed \in BOOLEAN : RecordUsage(t, allowed) \/ StoreUsage(t, allowed)
  \/ LoadUsage(t)
  \/ \E c \in Calls : Known(c) /\ Handle(t, c)
  \/ Commit(t)
  \/ Invalidate(t)

\* What happens without a request.
Outside ==
  \/ UNCHANGED <<keyVars, cacheVars, now>> /\ \E s \in Sessions : EndSession(s)
  \/ \E d \in Domains : DropDomain(d)
  \/ CacheExpires
  \/ Tick

\* After the last request of a behaviour those under way come to an end.
Next ==
  \/ UNCHANGED requests /\ \E t \in Tasks : Continue(t)
  \/ /\ requests < MaxRequests
     /\ \/ requests' = requests + 1 /\ \E t \in Tasks : Begin(t)
        \/ UNCHANGED requests /\ Outside

Spec == Init /\ [][Next]_vars
-----------------------------------------------------------------------------
\* A management change only commits for an actor that is live at that moment
\* and whose authority of that moment, not of the request, has the scopes of
\* the operation, all domains, and covers every key, account and owner of a
\* session that the change touches, as it was and as it becomes
\* (transaction_authorization_principal against the checks of the handlers).
Changed(f, g) == {x \in DOMAIN f : f[x] # g[x]}

CoveredChange(actor, op) ==
  LET live == IF actor.kind = "key"
                THEN Row(key[actor.id]) /\ key[actor.id].status = "active"
                ELSE SessionLive(actor.id)
      p == IF actor.kind = "key" THEN key[actor.id].pol
           ELSE RolePolicy(admin[session[actor.id].admin].role) IN
  /\ live
  /\ p.expires = Never \/ now < p.expires
  /\ p.mode = "all" /\ Required(op) \subseteq p.scopes
  /\ \A k \in Changed(key, key') : /\ Row(key[k]) => KeyWithin(p, key[k].pol)
                                   /\ Row(key'[k]) => KeyWithin(p, key'[k].pol)
  /\ \A a \in Changed(admin, admin') : /\ Row(admin[a]) => RoleWithin(p, admin[a].role)
                                       /\ Row(admin'[a]) => RoleWithin(p, admin'[a].role)
  /\ \A s \in Changed(session, session') : RoleWithin(p, admin[session[s].admin].role)

ActorCurrent ==
  [][\A t \in Tasks :
       task[t].pc = "queued" /\ task'[t].pc # "queued"
         /\ <<accountVars, keyVars>>' # <<accountVars, keyVars>>
       => CoveredChange(task[t].actor, task[t].call.op)]_vars

\* Some active superadmin is left, whatever sequence of demotions,
\* deactivations and deletions is requested and however they interleave
\* (_ensure_active_superadmin_remains).
SuperadminRemains == \E a \in Admins : IsRoot(admin[a])

\* A session that can be used belongs to an administrator who showed the
\* password that is stored now: a reset or change that overtakes a login or
\* another change leaves no session of the former password (create_session,
\* change_admin_password, reset_admin_password).
SessionsProven ==
  \A s \in Sessions : SessionLive(s) => session[s].proof = admin[session[s].admin].hash

\* A session that cannot be used any more never becomes usable again, not even
\* when its deactivated account is activated again (update_admin).
EndedStaysEnded ==
  [][\A s \in Sessions : Row(session[s]) /\ ~SessionLive(s) => ~SessionLive(s)']_vars

\* What the two caches answer is what the database says, except while the
\* request that changed the key is between its commit and its invalidation:
\* no load that overlapped the change is left behind (_auth_cache_epoch), and
\* nothing that changes outside ApiKeyService is cached.
CacheFresh ==
  \A k \in Keys :
    (\A t \in Tasks : task[t].pc = "invalidate" => task[t].key # k) =>
      /\ \A c \in cache : c.key = k => c.row = key[k]
      /\ usage[k] # Absent => Row(key[k]) /\ usage[k] = key[k].status
=============================================================================
