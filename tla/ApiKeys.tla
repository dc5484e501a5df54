------------------------------- MODULE ApiKeys ------------------------------
(***************************************************************************)
(* API keys and the two in-memory caches in front of them                  *)
(* (src/app/auth/api_keys.py).                                             *)
(*                                                                         *)
(* A key is authenticated from a cache entry or, on a worker thread, from  *)
(* the database; rows and grants are separate reads.  Every change of a    *)
(* key commits in the database writer and only then, in a later step,      *)
(* raises the cache epoch and drops the entries of the key.                *)
(*                                                                         *)
(*   key[k]    [kind, pol, status, secret]: a row of api_keys with its     *)
(*             grants, or Absent, or Gone                                  *)
(*   secrets   secrets issued; a rotation issues another                   *)
(*   cache     entries [key, row] of _auth_cache, found by the secret      *)
(*   usage[k]  the status in _usage_policy_cache, or Absent                *)
(*   epoch     _auth_cache_epoch                                           *)
(*   now       the time that expiry is compared with                       *)
(*                                                                         *)
(* Abstracted: a secret stands for prefix and secret, so a wrong secret    *)
(* for a known prefix is an unknown secret; whether the token bucket of    *)
(* the rate limit is empty is a free choice; the address and transport     *)
(* checks are in Permissions; the cache size bound; last_used_at.          *)
(***************************************************************************)
EXTENDS Accounts

CONSTANTS Keys, Policies, MaxTime

VARIABLES key, secrets, cache, usage, epoch, now

keyVars == <<key, secrets>>
cacheVars == <<cache, usage, epoch>>

\* _expiration_is_due.
Due(pol) == pol.expires # Never /\ now >= pol.expires

\* The part of a policy in the row of api_keys, with that in its grant tables.
Joined(row, grants) ==
  [row EXCEPT !.pol.scopes = grants.scopes,
              !.pol.domains = grants.domains,
              !.pol.patterns = grants.patterns]

-----------------------------------------------------------------------------
\* The effects of the transactions; Access has their preconditions.

\* create_key.
CreateKey(k, kind, pol) ==
  /\ secrets' = secrets + 1
  /\ key' = [key EXCEPT ![k] = [kind |-> kind, pol |-> pol, status |-> "active",
                                secret |-> secrets + 1]]

\* update_key: a new policy and status; the kind stays.
UpdateKey(k, pol, status) ==
  /\ key' = [key EXCEPT ![k].pol = pol, ![k].status = status]
  /\ UNCHANGED secrets

\* rotate_key.
RotateKey(k) ==
  /\ secrets' = secrets + 1
  /\ key' = [key EXCEPT ![k].secret = secrets + 1]

\* revoke_key.
RevokeKey(k) == key' = [key EXCEPT ![k].status = "revoked"] /\ UNCHANGED secrets

\* delete_key.
DeleteKey(k) == key' = [key EXCEPT ![k] = Gone] /\ UNCHANGED secrets

\* A deleted domain takes its grants along, outside ApiKeyService.
DropDomain(d) ==
  /\ \E k \in Keys : Row(key[k]) /\ d \in key[k].pol.domains
  /\ key' = [k \in Keys |-> IF Row(key[k]) THEN [key[k] EXCEPT !.pol.domains = @ \ {d}]
                                           ELSE key[k]]
  /\ UNCHANGED <<secrets, cacheVars, now, accountVars, task>>

\* _invalidate_key_cache.
Invalidate(t) ==
  /\ task[t].pc = "invalidate"
  /\ epoch' = epoch + 1
  /\ cache' = {c \in cache : c.key # task[t].key}
  /\ usage' = [usage EXCEPT ![task[t].key] = Absent]
  /\ Finish(t)
  /\ UNCHANGED <<keyVars, now, accountVars>>

-----------------------------------------------------------------------------
\* _validate_authentication_record, for the key and its context as read.
Authenticated(t, k, row) ==
  IF row.status = "active" /\ ~Due(row.pol)
    THEN Goto(t, [pc |-> "usage", key |-> k, pol |-> row.pol])
    ELSE Finish(t)

\* A request presents a secret: authenticate_plain_text_cached, and on a miss
\* the epoch that _get_authentication_record reads before it loads.
Present(t, n) ==
  /\ task[t] = Idle
  /\ IF \E c \in cache : c.row.secret = n
       THEN \E c \in {e \in cache : e.row.secret = n} : Authenticated(t, c.key, c.row)
       ELSE Goto(t, [pc |-> "row", secret |-> n, epoch |-> epoch])
  /\ UNCHANGED <<keyVars, cacheVars, now, accountVars>>

\* _load_authentication_record: the row ...
LoadRow(t) ==
  /\ task[t].pc = "row"
  /\ LET found == {k \in Keys : Row(key[k]) /\ key[k].secret = task[t].secret} IN
     IF found = {} THEN Finish(t)
     ELSE \E k \in found :
            Goto(t, [pc |-> "grants", key |-> k, row |-> key[k], epoch |-> task[t].epoch])
  /\ UNCHANGED <<keyVars, cacheVars, now, accountVars>>

\* ... and then the grants; a deleted key has none, and no scope is refused.
LoadGrants(t) ==
  /\ task[t].pc = "grants"
  /\ LET k == task[t].key IN
     IF ~Row(key[k]) \/ ~ValidForKind(task[t].row.kind, key[k].pol.scopes) THEN Finish(t)
     ELSE Goto(t, [task[t] EXCEPT !.pc = "store", !.row = Joined(task[t].row, key[k].pol)])
  /\ UNCHANGED <<keyVars, cacheVars, now, accountVars>>

\* Faulty variant: the entry is stored whatever happened since the epoch was
\* read.
StoreAnyway(t) ==
  /\ task[t].pc = "store"
  /\ LET k == task[t].key
         row == task[t].row IN
     /\ cache' = IF row.pol.mode # "selected"
                   THEN {c \in cache : c.row.secret # row.secret} \cup {[key |-> k, row |-> row]}
                   ELSE cache
     /\ usage' = [usage EXCEPT ![k] = row.status]
     /\ Authenticated(t, k, row)
  /\ UNCHANGED <<epoch, keyVars, now, accountVars>>

\* The rest of _get_authentication_record: nothing is stored when a key was
\* changed since the epoch was read, and never a key with selected domains.
Store(t) ==
  /\ task[t].pc = "store"
  /\ LET k == task[t].key
         row == task[t].row IN
     /\ IF epoch # task[t].epoch THEN UNCHANGED <<cache, usage>>
        ELSE /\ cache' = IF row.pol.mode # "selected"
                           THEN {c \in cache : c.row.secret # row.secret}
                                  \cup {[key |-> k, row |-> row]}
                           ELSE cache
             /\ usage' = [usage EXCEPT ![k] = row.status]
     /\ Authenticated(t, k, row)
  /\ UNCHANGED <<epoch, keyVars, now, accountVars>>

\* record_usage: the policy from its cache, or the epoch read before the load.
RecordUsage(t, allowed) ==
  /\ task[t].pc = "usage"
  /\ LET k == task[t].key
         ready == [pc |-> "ready", actor |-> [kind |-> "key", id |-> k], pol |-> task[t].pol] IN
     IF usage[k] = Absent
       THEN Goto(t, [pc |-> "load_usage", key |-> k, pol |-> task[t].pol, epoch |-> epoch])
       ELSE IF usage[k] = "active" /\ allowed THEN Goto(t, ready) ELSE Finish(t)
  /\ UNCHANGED <<keyVars, cacheVars, now, accountVars>>

\* _load_usage_policy on a worker.
LoadUsage(t) ==
  /\ task[t].pc = "load_usage"
  /\ LET k == task[t].key IN
     IF Row(key[k]) /\ key[k].status = "active"
       THEN Goto(t, [task[t] EXCEPT !.pc = "store_usage"])
       ELSE Finish(t)
  /\ UNCHANGED <<keyVars, cacheVars, now, accountVars>>

\* _store_usage_policy and the token bucket.
StoreUsage(t, allowed) ==
  /\ task[t].pc = "store_usage"
  /\ LET k == task[t].key IN
     /\ usage' = IF epoch = task[t].epoch THEN [usage EXCEPT ![k] = "active"] ELSE usage
     /\ IF allowed
          THEN Goto(t, [pc |-> "ready", actor |-> [kind |-> "key", id |-> k], pol |-> task[t].pol])
          ELSE Finish(t)
  /\ UNCHANGED <<cache, epoch, keyVars, now, accountVars>>

\* Entries live AUTH_CACHE_TTL_SECONDS.
CacheExpires ==
  /\ \/ \E c \in cache : cache' = cache \ {c} /\ UNCHANGED usage
     \/ \E k \in Keys : usage[k] # Absent /\ usage' = [usage EXCEPT ![k] = Absent] /\ UNCHANGED cache
  /\ UNCHANGED <<epoch, keyVars, now, accountVars, task>>

Tick ==
  /\ now < MaxTime
  /\ now' = now + 1
  /\ UNCHANGED <<keyVars, cacheVars, accountVars, task>>
=============================================================================
