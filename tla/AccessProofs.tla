---------------------------- MODULE AccessProofs ----------------------------
(***************************************************************************)
(* Access control for every number of accounts, sessions, keys, requests   *)
(* and policies: delegation, the inductive invariant of Access, the steps  *)
(* of its requests that change no cache, those of the caches, and the five *)
(* properties that follow.                                                 *)
(*                                                                         *)
(*   - Delegation never widens authority: whatever a policy admits, every  *)
(*     policy it fits into admits as well (permissions.py).                *)
(*   - The accounts: a live session belongs to an active account and has   *)
(*     shown the password stored now (sessions.py).                        *)
(*   - The keys: what a load under way has read is what the database says, *)
(*     as long as the epoch is the one it started with and no invalidation *)
(*     of its key is pending (api_keys.py).                                *)
(***************************************************************************)
EXTENDS Access, TLAPS

-----------------------------------------------------------------------------
(* Delegation. *)

\* The read scope implied by a write scope is not lost when only the write
\* scope is delegated: Effective is monotone under the containment that
\* api_key_is_within_principal tests.
LEMMA EffectiveWithin ==
  ASSUME NEW S, NEW T, S \subseteq Effective(T)
  PROVE  Effective(S) \subseteq Effective(T)
<1>1. SUFFICES ASSUME NEW e \in Effective(S) PROVE e \in Effective(T)
  OBVIOUS
<1>2. CASE e \in S
  BY <1>2
<1>3. CASE e \notin S
  <2>1. PICK s \in {t \in S : t[2] = "write"} : e = <<s[1], "read">>
    BY <1>3 DEF Effective
  <2>2. s \in Effective(T) /\ s[2] = "write"
    BY <2>1
  <2>3. s \in T
    <3>1. CASE \E u \in {t \in T : t[2] = "write"} : s = <<u[1], "read">>
      BY <3>1, <2>2
    <3> QED BY <3>1, <2>2 DEF Effective
  <2> QED BY <2>1, <2>2, <2>3 DEF Effective
<1> QED BY <1>2, <1>3

\* A request that the policy of a delegated key admits is admitted by the
\* policy of the principal that delegated it: scopes, transport, expiry,
\* client address, domain and mailbox (api_key_is_within_principal against
\* the checks made when the key is used).
THEOREM DelegationSound ==
  ASSUME NEW p, NEW t, KeyWithin(p, t),
         t.expires \in Nat \cup {Never}, p.expires \in Nat \cup {Never},
         NEW scope, NEW transport, NEW address, NEW time \in Nat, NEW domain, NEW mailbox,
         Admits(t, scope, transport, address, time, domain, mailbox)
  PROVE  Admits(p, scope, transport, address, time, domain, mailbox)
<1>1. scope \in Effective(p.scopes)
  BY EffectiveWithin DEF KeyWithin, Admits
<1>2. transport \in p.transports
  BY DEF KeyWithin, BoundsWithin, Admits
<1>3. p.expires = Never \/ time < p.expires
  BY NeverIsNoTime DEF KeyWithin, BoundsWithin, Admits
<1>4. AddressAllowed(p, address)
  BY DEF KeyWithin, BoundsWithin, Admits, AddressAllowed
<1>5. DomainAllowed(p, domain)
  BY DEF KeyWithin, DomainsWithin, Admits, MailboxAllowed, DomainAllowed
<1>6. p.patterns = {} \/ \E q \in p.patterns : mailbox \in q.matches
  BY DEF KeyWithin, PatternsWithin, Admits, MailboxAllowed
<1> QED BY <1>1, <1>2, <1>3, <1>4, <1>5, <1>6 DEF Admits, MailboxAllowed

\* A key that a delegated key creates still fits the first principal, so a
\* chain of delegations never widens authority.
THEOREM DelegationTransitive ==
  ASSUME NEW p, NEW q, NEW t, KeyWithin(p, q), KeyWithin(q, t),
         p.rate \in Nat, q.rate \in Nat, t.rate \in Nat,
         p.expires \in Nat \cup {Never}, q.expires \in Nat \cup {Never},
         t.expires \in Nat \cup {Never},
         p.mode \in {"none", "selected", "all"}
  PROVE  KeyWithin(p, t)
<1>1. BoundsWithin(p, t)
  <2>1. p.rate > 0 => t.rate > 0 /\ t.rate <= p.rate
    BY DEF KeyWithin, BoundsWithin
  <2>2. p.networks # {} =>
          /\ t.networks # {}
          /\ \A child \in t.networks : \E parent \in p.networks : child \subseteq parent
    BY DEF KeyWithin, BoundsWithin
  <2>3. p.expires # Never => t.expires # Never /\ t.expires <= p.expires
    BY NeverIsNoTime DEF KeyWithin, BoundsWithin
  <2>4. t.transports \subseteq p.transports
    BY DEF KeyWithin, BoundsWithin
  <2> QED BY <2>1, <2>2, <2>3, <2>4 DEF BoundsWithin
<1>2. t.scopes \subseteq Effective(p.scopes)
  BY EffectiveWithin DEF KeyWithin, Effective
<1>3. DomainsWithin(p, t)
  BY DEF KeyWithin, DomainsWithin
<1>4. PatternsWithin(p, t)
  BY DEF KeyWithin, PatternsWithin
<1> QED BY <1>1, <1>2, <1>3, <1>4 DEF KeyWithin

-----------------------------------------------------------------------------
\* Where a request can stand, and what it carries.
Actors == [kind : {"key"}, id : Keys] \cup [kind : {"session"}, id : Sessions]
Logins == [pc : {"verify"}, user : Admins]
            \cup [pc : {"finalize", "open"}, user : Admins, hash : Nat]
Changes == [pc : {"prove"}, session : Sessions, admin : Admins]
             \cup [pc : {"change"}, session : Sessions, admin : Admins, hash : Nat]
Loads == [pc : {"row"}, secret : Nat, epoch : Nat]
           \cup [pc : {"grants", "store"}, key : Keys, row : KeyRows, epoch : Nat]
Usages == [pc : {"usage"}, key : Keys, pol : PolicyRecords]
            \cup [pc : {"load_usage", "store_usage"}, key : Keys, pol : PolicyRecords, epoch : Nat]
Managed == [pc : {"ready"}, actor : Actors, pol : PolicyRecords]
             \cup [pc : {"queued"}, actor : Actors, call : Calls]
             \cup [pc : {"invalidate"}, key : Keys]
TaskRecords == [pc : {"idle"}] \cup Logins \cup Changes \cup Loads \cup Usages \cup Managed

\* The type invariant, by group of variables.
AccountsTyped ==
  /\ admin \in [Admins -> AdminRows \cup {Absent, Gone}]
  /\ session \in [Sessions -> SessionRows \cup {Absent, Gone}]
  /\ hashes \in Nat
KeysTyped ==
  /\ key \in [Keys -> KeyRows \cup {Absent, Gone}]
  /\ secrets \in Nat
CachesTyped ==
  /\ cache \subseteq [key : Keys, row : KeyRows]
  /\ usage \in [Keys -> {Absent, "active", "disabled", "revoked"}]
  /\ epoch \in Nat /\ now \in Nat
TasksTyped == task \in [Tasks -> TaskRecords]

\* A session has an account; a live one an active account, whose password of
\* now it has shown.  This is what makes both SessionsProven and
\* EndedStaysEnded inductive: deactivation leaves no live session behind that
\* a reactivation could bring back.
SessionsOwned ==
  \A s \in Sessions : Row(session[s]) =>
    /\ Row(admin[session[s].admin])
    /\ session[s].live => /\ admin[session[s].admin].active
                          /\ session[s].proof = admin[session[s].admin].hash

\* The session of a password change is deleted or still that of the account
\* whose password is being changed.
ChangesOwned ==
  \A t \in Tasks : task[t].pc \in {"prove", "change"} =>
    LET s == task[t].session IN
    session[s] # Absent /\ (Row(session[s]) => session[s].admin = task[t].admin)

\* Grants of domains come with the mode "selected".
GrantsFit ==
  \A k \in Keys : Row(key[k]) => (key[k].pol.mode # "selected" => key[k].pol.domains = {})

\* A change of k is committed and not yet invalidated.
Pending(k) == \E t \in Tasks : task[t].pc = "invalidate" /\ task[t].key = k
PendingExists == \A k \in Keys : Pending(k) => key[k] # Absent

\* What a load has read of key k is up to date, but for domain grants, which
\* are dropped behind the service's back and never cached.
Agrees(row, k) ==
  /\ Row(key[k]) /\ row.status = key[k].status
  /\ IF key[k].pol.mode = "selected" THEN row.pol.mode = "selected" ELSE row = key[k]

LoadOK(x) ==
  /\ x.pc \in {"row", "grants", "store", "load_usage", "store_usage"} => x.epoch <= epoch
  /\ x.pc \in {"grants", "store"} /\ x.epoch = epoch => Pending(x.key) \/ Agrees(x.row, x.key)
  /\ x.pc = "store_usage" /\ x.epoch = epoch =>
       Pending(x.key) \/ (Row(key[x.key]) /\ key[x.key].status = "active")

LoadsFresh == \A t \in Tasks : LoadOK(task[t])

\* What the caches hold of k is up to date; no entry has selected domains.
CachesFresh ==
  /\ \A c \in cache : c.row.pol.mode # "selected" /\ (Pending(c.key) \/ c.row = key[c.key])
  /\ \A k \in Keys : usage[k] # Absent => Pending(k) \/ (Row(key[k]) /\ usage[k] = key[k].status)

AccountsInv == SessionsOwned /\ ChangesOwned /\ SuperadminRemains
KeysInv == GrantsFit /\ PendingExists /\ LoadsFresh /\ CachesFresh
IInv == AccountsTyped /\ KeysTyped /\ CachesTyped /\ TasksTyped /\ AccountsInv /\ KeysInv

-----------------------------------------------------------------------------
(* Rows and requests. *)

\* A row is none of the markers Absent and Gone.
LEMMA RowsAreRows ==
  /\ \A r \in KeyRows \cup AdminRows \cup SessionRows : Row(r)
  /\ ~Row(Absent) /\ ~Row(Gone)
BY AccessConstants, Zenon DEF Row

\* What is a row is a row of its table.
LEMMA TypedRows ==
  ASSUME AccountsTyped, KeysTyped
  PROVE  /\ \A k \in Keys : Row(key[k]) => key[k] \in KeyRows
         /\ \A a \in Admins : Row(admin[a]) => admin[a] \in AdminRows
         /\ \A s \in Sessions : Row(session[s]) => session[s] \in SessionRows
BY Zenon DEF AccountsTyped, KeysTyped, Row

\* The fields of a request by where it stands.
LEMMA TaskFields ==
  ASSUME NEW x \in TaskRecords
  PROVE  /\ x.pc = "verify" => x.user \in Admins
         /\ x.pc \in {"finalize", "open"} => x \in [pc : {"finalize", "open"}, user : Admins, hash : Nat]
         /\ x.pc \in {"prove", "change"} => x.session \in Sessions /\ x.admin \in Admins
         /\ x.pc = "change" => x.hash \in Nat
         /\ x.pc = "row" => x.secret \in Nat /\ x.epoch \in Nat
         /\ x.pc \in {"grants", "store"}
              => x \in [pc : {"grants", "store"}, key : Keys, row : KeyRows, epoch : Nat]
         /\ x.pc = "usage" => x.key \in Keys /\ x.pol \in PolicyRecords
         /\ x.pc \in {"load_usage", "store_usage"}
              => x \in [pc : {"load_usage", "store_usage"}, key : Keys, pol : PolicyRecords, epoch : Nat]
         /\ x.pc = "ready" => x.actor \in Actors /\ x.pol \in PolicyRecords
         /\ x.pc = "queued" => x.actor \in Actors /\ x.call \in Calls
         /\ x.pc = "invalidate" => x.key \in Keys
<1>1. CASE x \in [pc : {"idle"}]
  BY <1>1
<1>2. CASE x \in Logins
  BY <1>2 DEF Logins
<1>3. CASE x \in Changes
  BY <1>3 DEF Changes
<1>4. CASE x \in Loads
  BY <1>4 DEF Loads
<1>5. CASE x \in Usages
  BY <1>5 DEF Usages
<1>6. CASE x \in Managed
  BY <1>6 DEF Managed
<1> QED BY <1>1, <1>2, <1>3, <1>4, <1>5, <1>6 DEF TaskRecords

\* The fields of a call by its operation.
LEMMA CallFields ==
  ASSUME NEW c \in Calls
  PROVE  /\ c.op \in KeyOps \ {"create_key"} => c.key \in Keys
         /\ c.op \in {"create_key", "update_key"} => c.pol \in Policies
         /\ c.op = "update_key" => c.status \in {"active", "disabled"}
         /\ c.op \in {"create_admin", "update_admin"} => c.role \in Roles
         /\ c.op = "update_admin" => c.active \in BOOLEAN
         /\ c.op \notin KeyOps \cup {"create_admin"} => c.admin \in Admins
BY Zenon DEF Calls, KeyOps

-----------------------------------------------------------------------------
(* The accounts. *)

\* No step makes a session out of a deleted one, gives a session to another
\* account or makes an ended session live.
SessionsKept ==
  \A s \in Sessions : session[s] # Absent =>
    /\ session'[s] # Absent
    /\ Row(session'[s]) => /\ Row(session[s]) /\ session'[s].admin = session[s].admin
                           /\ session'[s].live => session[s].live

AccountsStep == AccountsTyped' /\ SessionsOwned' /\ SuperadminRemains' /\ SessionsKept

\* _revoke_admin_sessions_in_connection ends the sessions of the account and
\* changes nothing else.
LEMMA RevokedRows ==
  ASSUME AccountsTyped, NEW a \in Admins, NEW E
  PROVE  /\ Revoked(a, E) \in [Sessions -> SessionRows \cup {Absent, Gone}]
         /\ \A s \in Sessions :
              /\ Row(Revoked(a, E)[s]) <=> Row(session[s])
              /\ Revoked(a, E)[s] = Absent <=> session[s] = Absent
              /\ Row(session[s]) =>
                   /\ Revoked(a, E)[s].admin = session[s].admin
                   /\ Revoked(a, E)[s].proof = session[s].proof
                   /\ Revoked(a, E)[s].live =>
                        session[s].live /\ (session[s].admin = a => s \in E)
              /\ ~Row(session[s]) => Revoked(a, E)[s] = session[s]
              /\ s \in E => Revoked(a, E)[s] = session[s]
<1>1. SUFFICES ASSUME NEW s \in Sessions
               PROVE  /\ Revoked(a, E)[s] \in SessionRows \cup {Absent, Gone}
                      /\ Row(Revoked(a, E)[s]) <=> Row(session[s])
                      /\ Revoked(a, E)[s] = Absent <=> session[s] = Absent
                      /\ Row(session[s]) =>
                           /\ Revoked(a, E)[s].admin = session[s].admin
                           /\ Revoked(a, E)[s].proof = session[s].proof
                           /\ Revoked(a, E)[s].live =>
                                session[s].live /\ (session[s].admin = a => s \in E)
                      /\ ~Row(session[s]) => Revoked(a, E)[s] = session[s]
                      /\ s \in E => Revoked(a, E)[s] = session[s]
  BY Zenon DEF Revoked
<1>2. CASE Row(session[s]) /\ session[s].admin = a /\ s \notin E
  <2>1. session[s] \in SessionRows
    BY <1>2, Zenon DEF AccountsTyped, Row
  <2>2. Revoked(a, E)[s] = [session[s] EXCEPT !.live = FALSE]
    BY <1>2, Zenon DEF Revoked
  <2>3. /\ [session[s] EXCEPT !.live = FALSE] \in SessionRows
        /\ [session[s] EXCEPT !.live = FALSE].admin = session[s].admin
        /\ [session[s] EXCEPT !.live = FALSE].proof = session[s].proof
        /\ [session[s] EXCEPT !.live = FALSE].live = FALSE
    BY <2>1, Zenon DEF SessionRows
  <2> QED BY <1>2, <2>2, <2>3, RowsAreRows, Zenon
<1>3. CASE ~(Row(session[s]) /\ session[s].admin = a /\ s \notin E)
  <2>1. Revoked(a, E)[s] = session[s]
    BY <1>3, Zenon DEF Revoked
  <2> QED BY <2>1, <1>3, Zenon DEF AccountsTyped
<1> QED BY <1>2, <1>3, Zenon

\* A new password changes the hash only.
LEMMA Rehashed ==
  ASSUME NEW row \in AdminRows, NEW h \in Nat
  PROVE  /\ [row EXCEPT !.hash = h] \in AdminRows
         /\ [row EXCEPT !.hash = h].active = row.active
         /\ [row EXCEPT !.hash = h].role = row.role
         /\ [row EXCEPT !.hash = h].hash = h
BY Zenon DEF AdminRows

\* Sessions that only end, and accounts that do not change.
LEMMA RevokeSessionsKeeps ==
  ASSUME IInv, NEW a \in Admins, RevokeSessions(a)
  PROVE  AccountsStep
<1>1. UNCHANGED <<admin, hashes>> /\ session' = Revoked(a, {})
  BY Zenon DEF RevokeSessions
<1>2. AccountsTyped'
  BY <1>1, RevokedRows, Zenon DEF IInv, AccountsTyped
<1>3. SessionsOwned'
  BY <1>1, RevokedRows DEF IInv, AccountsInv, SessionsOwned
<1>4. SuperadminRemains'
  BY <1>1, Zenon DEF IInv, AccountsInv, SuperadminRemains
<1>5. SessionsKept
  BY <1>1, RevokedRows DEF IInv, SessionsKept
<1> QED BY <1>2, <1>3, <1>4, <1>5, Zenon DEF AccountsStep

\* A logout keeps the accounts in order.
LEMMA EndSessionKeeps ==
  ASSUME IInv, NEW s \in Sessions, EndSession(s)
  PROVE  AccountsStep
<1>1. /\ UNCHANGED <<admin, hashes>> /\ session' = [session EXCEPT ![s].live = FALSE]
      /\ session[s] \in SessionRows /\ Row(session[s])
  BY TypedRows, Zenon DEF EndSession, IInv
<1>2. session'[s] \in SessionRows /\ session'[s].admin = session[s].admin
      /\ session'[s].live = FALSE /\ Row(session'[s])
  BY <1>1, RowsAreRows, Zenon DEF IInv, AccountsTyped, SessionRows
<1>3. \A u \in Sessions \ {s} : session'[u] = session[u]
  BY <1>1, Zenon DEF IInv, AccountsTyped
<1>4. AccountsTyped'
  BY <1>1, <1>2, Zenon DEF IInv, AccountsTyped
<1>5. SessionsOwned'
  BY <1>1, <1>2, <1>3, Zenon DEF IInv, AccountsInv, SessionsOwned
<1>6. SuperadminRemains'
  BY <1>1, Zenon DEF IInv, AccountsInv, SuperadminRemains
<1>7. SessionsKept
  BY <1>1, <1>2, <1>3, RowsAreRows, Zenon DEF SessionsKept
<1> QED BY <1>4, <1>5, <1>6, <1>7, Zenon DEF AccountsStep

\* A new account has no session.
LEMMA CreateAdminKeeps ==
  ASSUME IInv, NEW a \in Admins, admin[a] = Absent, NEW role \in Roles, CreateAdmin(a, role, TRUE)
  PROVE  AccountsStep
<1> DEFINE r == [role |-> role, active |-> TRUE, hash |-> hashes + 1]
<1>1. /\ hashes' = hashes + 1 /\ admin' = [admin EXCEPT ![a] = r] /\ session' = session
      /\ r \in AdminRows
  BY DEF CreateAdmin, IInv, AccountsTyped, AdminRows
<1> HIDE DEF r
<1>2. AccountsTyped'
  BY <1>1 DEF IInv, AccountsTyped
<1>3. \A b \in Admins : Row(admin[b]) => admin'[b] = admin[b]
  BY <1>1, RowsAreRows, Zenon DEF IInv, AccountsTyped
<1>4. SessionsOwned'
  BY <1>1, <1>3, TypedRows DEF IInv, AccountsInv, SessionsOwned, SessionRows
<1>5. SuperadminRemains'
  BY <1>3, Zenon DEF IInv, AccountsInv, SuperadminRemains, IsRoot
<1>6. SessionsKept
  BY <1>1, Zenon DEF SessionsKept, Row
<1> QED BY <1>2, <1>4, <1>5, <1>6, Zenon DEF AccountsStep

\* update_admin keeps a superadmin, and leaves no live session of an account
\* it deactivates.
LEMMA UpdateAdminKeeps ==
  ASSUME IInv, NEW a \in Admins, Row(admin[a]), NEW role \in Roles, NEW active \in BOOLEAN,
         RootRemains(a, [admin[a] EXCEPT !.role = role, !.active = active]),
         UpdateAdmin(a, role, active)
  PROVE  AccountsStep
<1> DEFINE r == [admin[a] EXCEPT !.role = role, !.active = active]
<1>1. admin[a] \in AdminRows
  BY TypedRows, Zenon DEF IInv
<1>2. r \in AdminRows /\ r.active = active /\ r.hash = admin[a].hash /\ r.role = role
  BY <1>1, Zenon DEF AdminRows
<1>3. /\ hashes' = hashes /\ admin' = [admin EXCEPT ![a] = r]
      /\ session' = IF admin[a].active /\ ~active THEN Revoked(a, {}) ELSE session
  BY <1>1, Zenon DEF UpdateAdmin, IInv, AccountsTyped, AdminRows
<1>4. RootRemains(a, r)
  OBVIOUS
<1> HIDE DEF r
<1>5. admin'[a] = r /\ \A b \in Admins \ {a} : admin'[b] = admin[b]
  BY <1>3, Zenon DEF IInv, AccountsTyped
<1>6. AccountsTyped'
  BY <1>2, <1>3, RevokedRows, Zenon DEF IInv, AccountsTyped
<1>7. SessionsOwned'
  <2>1. SUFFICES ASSUME NEW s \in Sessions, Row(session'[s])
                 PROVE  /\ Row(admin'[session'[s].admin])
                        /\ session'[s].live => /\ admin'[session'[s].admin].active
                                               /\ session'[s].proof = admin'[session'[s].admin].hash
    BY Zenon DEF SessionsOwned
  <2>2. /\ Row(session[s]) /\ session'[s].admin = session[s].admin
        /\ session'[s].live => session[s].live /\ ~(admin[a].active /\ ~active /\ session[s].admin = a)
        /\ session'[s].proof = session[s].proof
    BY <2>1, <1>3, RevokedRows DEF IInv
  <2>3. session[s].admin \in Admins
    BY <2>2, TypedRows, Zenon DEF IInv, SessionRows
  <2>4. CASE session[s].admin = a
    BY <2>2, <2>4, <1>2, <1>5, RowsAreRows, Zenon DEF IInv, AccountsInv, SessionsOwned
  <2>5. CASE session[s].admin # a
    BY <2>2, <2>3, <2>5, <1>5, Zenon DEF IInv, AccountsInv, SessionsOwned
  <2> QED BY <2>4, <2>5, Zenon
<1>8. SuperadminRemains'
  <2>1. PICK b \in Admins : IsRoot(admin[b])
    BY Zenon DEF IInv, AccountsInv, SuperadminRemains
  <2>2. \E e \in Admins : IsRoot(admin'[e])
    <3>1. CASE b # a
      BY <2>1, <3>1, <1>5, Zenon
    <3>2. CASE b = a /\ IsRoot(r)
      BY <3>2, <1>5, Zenon
    <3>3. CASE b = a /\ ~IsRoot(r)
      BY <2>1, <3>3, <1>4, <1>5, Zenon DEF RootRemains
    <3> QED BY <3>1, <3>2, <3>3, Zenon
  <2> QED BY <2>2, Zenon DEF SuperadminRemains, IsRoot, Row
<1>9. SessionsKept
  BY <1>3, RevokedRows DEF IInv, SessionsKept
<1> QED BY <1>6, <1>7, <1>8, <1>9, Zenon DEF AccountsStep

\* delete_admin takes the sessions of the account along.
LEMMA DeleteAdminKeeps ==
  ASSUME IInv, NEW a \in Admins, Row(admin[a]), RootRemains(a, Gone), DeleteAdmin(a)
  PROVE  AccountsStep
<1>1. /\ hashes' = hashes /\ admin' = [admin EXCEPT ![a] = Gone]
      /\ session' = [s \in Sessions |->
                       IF Row(session[s]) /\ session[s].admin = a THEN Gone ELSE session[s]]
  BY Zenon DEF DeleteAdmin
<1>2. admin'[a] = Gone /\ \A b \in Admins \ {a} : admin'[b] = admin[b]
  BY <1>1, Zenon DEF IInv, AccountsTyped
<1>3. AccountsTyped'
  BY <1>1, Zenon DEF IInv, AccountsTyped
<1>4. \A s \in Sessions : Row(session'[s]) =>
        session'[s] = session[s] /\ session[s].admin \in Admins \ {a}
  BY <1>1, RowsAreRows, TypedRows, Zenon DEF IInv, SessionRows
<1>5. SessionsOwned'
  BY <1>2, <1>4 DEF IInv, AccountsInv, SessionsOwned
<1>6. SuperadminRemains'
  <2>1. PICK b \in Admins : IsRoot(admin[b])
    BY Zenon DEF IInv, AccountsInv, SuperadminRemains
  <2>2. ~IsRoot(Gone)
    BY RowsAreRows, Zenon DEF IsRoot
  <2>3. \E e \in Admins : IsRoot(admin'[e])
    BY <2>1, <2>2, <1>2, Zenon DEF RootRemains
  <2> QED BY <2>3, Zenon DEF SuperadminRemains, IsRoot, Row
<1>7. SessionsKept
  <2>1. \A s \in Sessions : session[s] # Absent => session'[s] # Absent
    BY <1>1, AccessConstants, Zenon
  <2> QED BY <1>4, <2>1, Zenon DEF SessionsKept
<1> QED BY <1>3, <1>5, <1>6, <1>7, Zenon DEF AccountsStep

\* reset_admin_password ends every session of the account.
LEMMA ResetPasswordKeeps ==
  ASSUME IInv, NEW a \in Admins, Row(admin[a]), ResetPassword(a)
  PROVE  AccountsStep
<1> DEFINE r == [admin[a] EXCEPT !.hash = hashes + 1]
<1>1. admin[a] \in AdminRows
  BY TypedRows, Zenon DEF IInv
<1>2. r \in AdminRows /\ r.active = admin[a].active /\ r.role = admin[a].role
  BY <1>1 DEF AdminRows, IInv, AccountsTyped
<1>3. hashes' = hashes + 1 /\ admin' = [admin EXCEPT ![a] = r] /\ session' = Revoked(a, {})
  BY <1>1, Zenon DEF ResetPassword, IInv, AccountsTyped, AdminRows
<1> HIDE DEF r
<1>4. admin'[a] = r /\ \A b \in Admins \ {a} : admin'[b] = admin[b]
  BY <1>3, Zenon DEF IInv, AccountsTyped
<1>5. AccountsTyped'
  BY <1>2, <1>3, RevokedRows DEF IInv, AccountsTyped
<1>6. SessionsOwned'
  <2>1. SUFFICES ASSUME NEW s \in Sessions, Row(session'[s])
                 PROVE  /\ Row(admin'[session'[s].admin])
                        /\ session'[s].live => /\ admin'[session'[s].admin].active
                                               /\ session'[s].proof = admin'[session'[s].admin].hash
    BY Zenon DEF SessionsOwned
  <2>2. /\ Row(session[s]) /\ session'[s].admin = session[s].admin
        /\ session'[s].live => session[s].live /\ session[s].admin # a
        /\ session'[s].proof = session[s].proof
    BY <2>1, <1>3, RevokedRows DEF IInv
  <2>3. session[s].admin \in Admins
    BY <2>2, TypedRows, Zenon DEF IInv, SessionRows
  <2> QED BY <2>2, <2>3, <1>2, <1>4, RowsAreRows, Zenon DEF IInv, AccountsInv, SessionsOwned
<1>7. SuperadminRemains'
  <2>1. \A b \in Admins : IsRoot(admin[b]) => IsRoot(admin'[b])
    BY <1>2, <1>4, RowsAreRows, Zenon DEF IsRoot
  <2>2. \E b \in Admins : IsRoot(admin'[b])
    BY <2>1, Zenon DEF IInv, AccountsInv, SuperadminRemains
  <2> QED BY <2>2, Zenon DEF SuperadminRemains, IsRoot, Row
<1>8. SessionsKept
  BY <1>3, RevokedRows DEF IInv, SessionsKept
<1> QED BY <1>5, <1>6, <1>7, <1>8, Zenon DEF AccountsStep

\* create_session for a login whose proof still holds.
LEMMA OpenSessionKeeps ==
  ASSUME IInv, NEW t \in Tasks, OpenSession(t)
  PROVE  AccountsStep
<1> DEFINE a == task[t].user
           r == [admin |-> a, live |-> TRUE, proof |-> task[t].hash]
<1>1. a \in Admins /\ task[t].hash \in Nat
  BY TaskFields, Zenon DEF OpenSession, IInv, TasksTyped
<1>2. UNCHANGED <<admin, hashes>>
  BY Zenon DEF OpenSession
<1>3. r \in SessionRows
  BY <1>1, Zenon DEF SessionRows
<1>4. CASE StillProves(a, task[t].hash)
  <2>1. PICK s \in Sessions : session[s] = Absent /\ session' = [session EXCEPT ![s] = r]
    BY <1>4, Zenon DEF OpenSession
  <2>2. /\ r.admin = a /\ r.live = TRUE /\ r.proof = task[t].hash
        /\ Row(admin[a]) /\ admin[a].active /\ admin[a].hash = task[t].hash
    BY <1>4, Zenon DEF StillProves, Active
  <2> HIDE DEF r, a
  <2>3. session'[s] = r /\ \A u \in Sessions \ {s} : session'[u] = session[u]
    BY <2>1, Zenon DEF IInv, AccountsTyped
  <2>4. AccountsTyped'
    BY <1>2, <1>3, <2>1, Zenon DEF IInv, AccountsTyped
  <2>5. SessionsOwned'
    BY <1>2, <2>2, <2>3 DEF IInv, AccountsInv, SessionsOwned
  <2>6. SessionsKept
    BY <2>1, <2>3, RowsAreRows, Zenon DEF SessionsKept, Row
  <2>7. SuperadminRemains'
    BY <1>2, Zenon DEF IInv, AccountsInv, SuperadminRemains
  <2> QED BY <2>4, <2>5, <2>6, <2>7, Zenon DEF AccountsStep
<1>5. CASE ~StillProves(a, task[t].hash)
  <2>1. session' = session
    BY <1>5, Zenon DEF OpenSession
  <2> QED BY <2>1, <1>2, Zenon
          DEF AccountsStep, IInv, AccountsInv, AccountsTyped, SessionsOwned, SuperadminRemains,
              SessionsKept, Row
<1> QED BY <1>4, <1>5, Zenon

\* change_admin_password: the session that goes on is one of the account whose
\* password it changes.
LEMMA CommitChangeKeeps ==
  ASSUME IInv, NEW t \in Tasks, CommitChange(t)
  PROVE  AccountsStep
<1> DEFINE s == task[t].session
           a == task[t].admin
           r == [admin[a] EXCEPT !.hash = hashes + 1]
<1>1. s \in Sessions /\ a \in Admins /\ task[t].pc = "change"
  BY TaskFields, Zenon DEF CommitChange, IInv, TasksTyped
<1>2. CASE SessionLive(s) /\ StillProves(a, task[t].hash)
  <2>1. Row(session[s]) /\ session[s].admin = a /\ session[s] \in SessionRows
    BY <1>1, <1>2, TypedRows, Zenon DEF SessionLive, IInv, AccountsInv, ChangesOwned
  <2>2. Row(admin[a]) /\ admin[a].active /\ admin[a] \in AdminRows
    BY <1>1, <1>2, TypedRows, Zenon DEF StillProves, Active, IInv
  <2>3. r \in AdminRows /\ r.active = admin[a].active /\ r.role = admin[a].role /\ r.hash = hashes + 1
    <3>1. hashes + 1 \in Nat
      BY DEF IInv, AccountsTyped
    <3> QED BY <2>2, <3>1, Rehashed, Zenon
  <2>4. /\ hashes' = hashes + 1 /\ admin' = [admin EXCEPT ![a] = r]
        /\ session' = [Revoked(a, {s}) EXCEPT ![s].proof = hashes + 1]
    BY <1>1, <1>2, <2>2, Zenon DEF CommitChange, IInv, AccountsTyped, AdminRows
  <2> HIDE DEF r, s, a
  <2>5. admin'[a] = r /\ \A b \in Admins \ {a} : admin'[b] = admin[b]
    BY <2>4, <1>1, Zenon DEF IInv, AccountsTyped
  <2>6. Revoked(a, {s})[s] = session[s]
    BY <1>1, RevokedRows, Zenon DEF IInv
  <2>7. /\ session'[s] = [session[s] EXCEPT !.proof = hashes + 1]
        /\ \A u \in Sessions \ {s} : session'[u] = Revoked(a, {s})[u]
        /\ session' \in [Sessions -> SessionRows \cup {Absent, Gone}]
    <3>1. Revoked(a, {s}) \in [Sessions -> SessionRows \cup {Absent, Gone}]
      BY <1>1, RevokedRows, Zenon DEF IInv
    <3>2. [session[s] EXCEPT !.proof = hashes + 1] \in SessionRows
      BY <2>1 DEF SessionRows, IInv, AccountsTyped
    <3> QED BY <3>1, <3>2, <2>4, <2>6, <1>1, Zenon
  <2>8. /\ session'[s].admin = a /\ session'[s].live = session[s].live
        /\ session'[s].proof = hashes + 1 /\ Row(session'[s])
    <3>1. [session[s] EXCEPT !.proof = hashes + 1] \in SessionRows
      BY <2>1 DEF SessionRows, IInv, AccountsTyped
    <3> QED BY <2>1, <2>7, <3>1, RowsAreRows, Zenon DEF SessionRows
  <2>9. AccountsTyped'
    <3>1. hashes' \in Nat
      BY <2>4 DEF IInv, AccountsTyped
    <3>2. admin' \in [Admins -> AdminRows \cup {Absent, Gone}]
      BY <1>1, <2>3, <2>4, Zenon DEF IInv, AccountsTyped
    <3> QED BY <3>1, <3>2, <2>7, Zenon DEF AccountsTyped
  <2>10. SessionsOwned'
    <3>1. SUFFICES ASSUME NEW u \in Sessions, Row(session'[u])
                   PROVE  /\ Row(admin'[session'[u].admin])
                          /\ session'[u].live => /\ admin'[session'[u].admin].active
                                                 /\ session'[u].proof = admin'[session'[u].admin].hash
      BY Zenon DEF SessionsOwned
    <3>2. CASE u = s
      BY <3>2, <2>2, <2>3, <2>5, <2>8, RowsAreRows, Zenon
    <3>3. CASE u # s
      <4>1. /\ Row(session[u]) /\ session'[u].admin = session[u].admin
            /\ session'[u].live => session[u].live /\ session[u].admin # a
            /\ session'[u].proof = session[u].proof
        BY <3>1, <3>3, <1>1, <2>7, RevokedRows DEF IInv
      <4>2. session[u].admin \in Admins
        BY <4>1, TypedRows, Zenon DEF IInv, SessionRows
      <4> QED BY <4>1, <4>2, <2>3, <2>5, RowsAreRows, Zenon DEF IInv, AccountsInv, SessionsOwned
    <3> QED BY <3>2, <3>3, Zenon
  <2>11. SuperadminRemains'
    <3>1. \A b \in Admins : IsRoot(admin[b]) => IsRoot(admin'[b])
      BY <2>3, <2>5, RowsAreRows, Zenon DEF IsRoot
    <3>2. \E b \in Admins : IsRoot(admin'[b])
      BY <3>1, Zenon DEF IInv, AccountsInv, SuperadminRemains
    <3> QED BY <3>2, Zenon DEF SuperadminRemains, IsRoot, Row
  <2>12. SessionsKept
    <3>1. \A u \in Sessions \ {s} : session[u] # Absent =>
            /\ session'[u] # Absent
            /\ Row(session'[u]) => /\ Row(session[u]) /\ session'[u].admin = session[u].admin
                                   /\ session'[u].live => session[u].live
      BY <1>1, <2>7, RevokedRows DEF IInv
    <3>2. session'[s] # Absent
      BY <2>8, RowsAreRows, Zenon
    <3> QED BY <3>1, <3>2, <2>1, <2>8, Zenon DEF SessionsKept
  <2> QED BY <2>9, <2>10, <2>11, <2>12, Zenon DEF AccountsStep
<1>3. CASE ~(SessionLive(s) /\ StillProves(a, task[t].hash))
  <2>1. UNCHANGED <<admin, session, hashes>>
    BY <1>3, Zenon DEF CommitChange, accountVars
  <2> QED BY <2>1, Zenon
          DEF AccountsStep, IInv, AccountsInv, AccountsTyped, SessionsOwned, SuperadminRemains,
              SessionsKept, Row
<1> QED BY <1>2, <1>3, Zenon

-----------------------------------------------------------------------------
(* The requests. *)

KeysStep == KeysTyped' /\ CachesTyped' /\ KeysInv'

\* A request goes on to another step.
LEMMA TaskMoves ==
  ASSUME TasksTyped, NEW t \in Tasks, NEW x \in TaskRecords, Goto(t, x)
  PROVE  TasksTyped' /\ task'[t] = x /\ \A u \in Tasks \ {t} : task'[u] = task[u]
BY Zenon DEF TasksTyped, Goto

\* An idle task.
LEMMA IdleTyped == Idle \in TaskRecords /\ Idle.pc = "idle"
BY Zenon DEF Idle, TaskRecords

\* The sessions of the password changes under way stay theirs.
LEMMA ChangesKept ==
  ASSUME IInv, NEW t \in Tasks, NEW x \in TaskRecords, Goto(t, x), SessionsKept,
         x.pc \in {"prove", "change"} =>
           /\ session[x.session] # Absent
           /\ Row(session[x.session]) => session[x.session].admin = x.admin
  PROVE  ChangesOwned'
<1>1. SUFFICES ASSUME NEW u \in Tasks, task'[u].pc \in {"prove", "change"}
               PROVE  LET s == task'[u].session IN
                      /\ session'[s] # Absent
                      /\ Row(session'[s]) => session'[s].admin = task'[u].admin
  BY Zenon DEF ChangesOwned, Row
<1>2. TasksTyped
  BY Zenon DEF IInv
<1>3. task'[u] \in TaskRecords /\ (task'[u] = task[u] \/ task'[u] = x)
  BY <1>2, TaskMoves, Zenon DEF TasksTyped
<1>4. task'[u].session \in Sessions
  BY <1>1, <1>3, TaskFields, Zenon
<1>5. /\ session[task'[u].session] # Absent
      /\ Row(session[task'[u].session]) => session[task'[u].session].admin = task'[u].admin
  BY <1>1, <1>3, Zenon DEF IInv, AccountsInv, ChangesOwned
<1> QED BY <1>4, <1>5, Zenon DEF SessionsKept

\* Nothing is pending that was not, and the reverse, when a request goes on
\* that neither commits nor invalidates.
LEMMA PendingKept ==
  ASSUME IInv, NEW t \in Tasks, NEW x \in TaskRecords, Goto(t, x),
         task[t].pc # "invalidate", x.pc # "invalidate"
  PROVE  \A k \in Keys : Pending(k)' <=> Pending(k)
<1>1. task'[t] = x /\ \A u \in Tasks \ {t} : task'[u] = task[u]
  BY TaskMoves, Zenon DEF IInv
<1> QED BY <1>1, Zenon DEF Pending

\* A step of a request that leaves keys and caches alone keeps what is known
\* about them, if what the request itself now knows is true.
LEMMA QuietKeeps ==
  ASSUME IInv, NEW t \in Tasks, NEW x \in TaskRecords, Goto(t, x),
         task[t].pc # "invalidate", x.pc # "invalidate", LoadOK(x),
         UNCHANGED <<keyVars, cacheVars, now>>
  PROVE  KeysStep
<1>1. UNCHANGED <<key, secrets, cache, usage, epoch, now>>
  BY Zenon DEF keyVars, cacheVars
<1>2. task'[t] = x /\ (\A u \in Tasks \ {t} : task'[u] = task[u]) /\ TasksTyped'
  BY TaskMoves, Zenon DEF IInv
<1>3. \A k \in Keys : Pending(k)' <=> Pending(k)
  BY PendingKept, Zenon
<1>4. KeysTyped'
  BY <1>1, Zenon DEF KeysTyped, IInv
<1>5. CachesTyped'
  BY <1>1, Zenon DEF CachesTyped, IInv
<1>6. GrantsFit'
  BY <1>1, Zenon DEF GrantsFit, IInv, KeysInv, Row
<1>7. PendingExists'
  BY <1>1, <1>3, Zenon DEF PendingExists, IInv, KeysInv
<1>8. LoadsFresh'
  <2>1. SUFFICES ASSUME NEW u \in Tasks PROVE LoadOK(task[u])'
    BY Zenon DEF LoadsFresh
  <2>2. task'[u] \in TaskRecords /\ LoadOK(task'[u])
    BY <1>2, Zenon DEF TasksTyped, IInv, KeysInv, LoadsFresh
  <2>3. task'[u].pc \in {"grants", "store", "store_usage"} => task'[u].key \in Keys
    BY <2>2, TaskFields, Zenon
  <2>4. /\ task'[u].pc \in {"grants", "store"} => (Pending(task'[u].key) => Pending(task[u].key)')
        /\ task'[u].pc = "store_usage" => (Pending(task'[u].key) => Pending(task[u].key)')
    <3> DEFINE k == task'[u].key
    <3>1. k \in Keys => (Pending(k) => \E v \in Tasks : task'[v].pc = "invalidate" /\ task'[v].key = k)
      BY <1>3, Zenon DEF Pending
    <3> QED BY <2>3, <3>1, Zenon DEF Pending
  <2> QED BY <2>2, <2>4, <1>1, Zenon DEF LoadOK, Agrees, Row
<1>9. CachesFresh'
  <2>1. \A c \in cache : c.key \in Keys
    BY Zenon DEF IInv, CachesTyped
  <2> QED BY <1>1, <1>3, <2>1, Zenon DEF CachesFresh, IInv, KeysInv, Row
<1> QED BY <1>4, <1>5, <1>6, <1>7, <1>8, <1>9, Zenon DEF KeysStep, KeysInv

\* Accounts that do not change, and a request that knows whose session it has.
LEMMA AccountsKept ==
  ASSUME IInv, UNCHANGED accountVars
  PROVE  AccountsStep
<1>1. UNCHANGED <<admin, session, hashes>>
  BY Zenon DEF accountVars
<1> QED BY <1>1, Zenon
        DEF AccountsStep, IInv, AccountsInv, AccountsTyped, SessionsOwned, SuperadminRemains,
            SessionsKept, Row

\* The invariant, part by part.
LEMMA StepComposed ==
  ASSUME AccountsStep, ChangesOwned', KeysStep, TasksTyped'
  PROVE  IInv'
BY Zenon DEF AccountsStep, KeysStep, IInv, AccountsInv

\* A step that only takes a request further.
LEMMA QuietStep ==
  ASSUME IInv, NEW t \in Tasks, NEW x \in TaskRecords, Goto(t, x),
         task[t].pc # "invalidate", x.pc # "invalidate", LoadOK(x),
         x.pc \in {"prove", "change"} =>
           /\ session[x.session] # Absent
           /\ Row(session[x.session]) => session[x.session].admin = x.admin,
         UNCHANGED <<accountVars, keyVars, cacheVars, now>>
  PROVE  IInv'
<1>1. AccountsStep
  BY AccountsKept, Zenon
<1>2. ChangesOwned'
  BY <1>1, ChangesKept, Zenon DEF AccountsStep
<1>3. KeysStep
  BY QuietKeeps, Zenon
<1>4. TasksTyped'
  BY TaskMoves, Zenon DEF IInv
<1> QED BY <1>1, <1>2, <1>3, <1>4, StepComposed, Zenon

\* The end of a request.
LEMMA FinishStep ==
  ASSUME IInv, NEW t \in Tasks, Finish(t), task[t].pc # "invalidate",
         UNCHANGED <<accountVars, keyVars, cacheVars, now>>
  PROVE  IInv'
<1>1. Goto(t, Idle)
  BY Zenon DEF Finish, Goto
<1>2. LoadOK(Idle)
  BY IdleTyped, Zenon DEF LoadOK
<1> QED BY <1>1, <1>2, IdleTyped, QuietStep, Zenon

\* Logins and password changes up to their transactions.
LEMMA LoginSteps ==
  ASSUME IInv, NEW t \in Tasks, UNCHANGED <<keyVars, cacheVars, now>>,
         \/ \E a \in Admins : StartLogin(t, a)
         \/ \E right \in BOOLEAN : VerifyLogin(t, right)
         \/ FinalizeLogin(t)
  PROVE  IInv'
<1>1. ASSUME NEW a \in Admins, StartLogin(t, a) PROVE IInv'
  <2> DEFINE x == [pc |-> "verify", user |-> a]
  <2>1. x \in TaskRecords /\ x.pc = "verify" /\ LoadOK(x)
    BY Zenon DEF TaskRecords, Logins, LoadOK
  <2>2. /\ Goto(t, x) /\ task[t].pc = "idle"
        /\ UNCHANGED <<accountVars, keyVars, cacheVars, now>>
    BY <1>1 DEF StartLogin, Idle
  <2> HIDE DEF x
  <2> QED BY <2>1, <2>2, QuietStep, Zenon
<1>2. ASSUME NEW right \in BOOLEAN, VerifyLogin(t, right) PROVE IInv'
  <2> DEFINE a == task[t].user
             x == [pc |-> "finalize", user |-> a, hash |-> admin[a].hash]
  <2>1. task[t].pc = "verify" /\ a \in Admins /\ UNCHANGED <<accountVars, keyVars, cacheVars, now>>
    BY <1>2, TaskFields, Zenon DEF VerifyLogin, IInv, TasksTyped
  <2>2. CASE right /\ Active(a)
    <3>1. admin[a].hash \in Nat
      BY <2>1, <2>2, TypedRows, Zenon DEF Active, IInv, AdminRows
    <3>2. x \in TaskRecords /\ x.pc = "finalize" /\ LoadOK(x)
      BY <2>1, <3>1, Zenon DEF TaskRecords, Logins, LoadOK
    <3>3. Goto(t, x)
      BY <1>2, <2>2, Zenon DEF VerifyLogin
    <3> HIDE DEF x
    <3> QED BY <2>1, <3>2, <3>3, QuietStep, Zenon
  <2>3. CASE ~(right /\ Active(a))
    <3>1. Finish(t)
      BY <1>2, <2>3, Zenon DEF VerifyLogin
    <3> QED BY <2>1, <3>1, FinishStep, Zenon
  <2> QED BY <2>2, <2>3, Zenon
<1>3. ASSUME FinalizeLogin(t) PROVE IInv'
  <2> DEFINE x == [task[t] EXCEPT !.pc = "open"]
  <2>1. /\ task[t].pc = "finalize" /\ UNCHANGED <<accountVars, keyVars, cacheVars, now>>
        /\ task[t] \in [pc : {"finalize", "open"}, user : Admins, hash : Nat]
    BY <1>3, TaskFields, Zenon DEF FinalizeLogin, IInv, TasksTyped
  <2>2. x \in TaskRecords /\ x.pc = "open"
    BY <2>1, Zenon DEF TaskRecords, Logins
  <2>3. Goto(t, x) \/ Finish(t)
    BY <1>3, Zenon DEF FinalizeLogin
  <2> HIDE DEF x
  <2>4. LoadOK(x)
    BY <2>2, Zenon DEF LoadOK
  <2> QED BY <2>1, <2>2, <2>3, <2>4, QuietStep, FinishStep, Zenon
<1> QED BY <1>1, <1>2, <1>3, Zenon

\* A password change up to its transaction.
LEMMA ChangeSteps ==
  ASSUME IInv, NEW t \in Tasks, UNCHANGED <<keyVars, cacheVars, now>>,
         \/ \E s \in Sessions : StartChange(t, s)
         \/ \E right \in BOOLEAN : ProveChange(t, right)
  PROVE  IInv'
<1>1. ASSUME NEW s \in Sessions, StartChange(t, s) PROVE IInv'
  <2> DEFINE x == [pc |-> "prove", session |-> s, admin |-> session[s].admin]
  <2>1. Row(session[s]) /\ session[s].admin \in Admins /\ session[s] # Absent
    BY <1>1, TypedRows, RowsAreRows, Zenon DEF StartChange, SessionLive, IInv, SessionRows
  <2>2. x \in TaskRecords /\ x.pc = "prove" /\ x.session = s /\ x.admin = session[s].admin
    BY <2>1, Zenon DEF TaskRecords, Changes
  <2>3. /\ Goto(t, x) /\ task[t].pc = "idle"
        /\ UNCHANGED <<accountVars, keyVars, cacheVars, now>>
    BY <1>1 DEF StartChange, Idle
  <2> HIDE DEF x
  <2>4. LoadOK(x)
    BY <2>2, Zenon DEF LoadOK
  <2> QED BY <2>1, <2>2, <2>3, <2>4, QuietStep, Zenon
<1>2. ASSUME NEW right \in BOOLEAN, ProveChange(t, right) PROVE IInv'
  <2> DEFINE a == task[t].admin
             s == task[t].session
             x == [pc |-> "change", session |-> s, admin |-> a, hash |-> admin[a].hash]
  <2>1. /\ task[t].pc = "prove" /\ a \in Admins /\ s \in Sessions
        /\ UNCHANGED <<accountVars, keyVars, cacheVars, now>>
    BY <1>2, TaskFields, Zenon DEF ProveChange, IInv, TasksTyped
  <2>2. CASE right /\ Active(a)
    <3>1. admin[a].hash \in Nat
      BY <2>1, <2>2, TypedRows, Zenon DEF Active, IInv, AdminRows
    <3>2. x \in TaskRecords /\ x.pc = "change" /\ x.session = s /\ x.admin = a
      BY <2>1, <3>1, Zenon DEF TaskRecords, Changes
    <3>3. Goto(t, x)
      BY <1>2, <2>2, Zenon DEF ProveChange
    <3>4. session[s] # Absent /\ (Row(session[s]) => session[s].admin = a)
      BY <2>1, Zenon DEF IInv, AccountsInv, ChangesOwned
    <3> HIDE DEF x
    <3>5. LoadOK(x)
      BY <3>2, Zenon DEF LoadOK
    <3> QED BY <2>1, <3>2, <3>3, <3>4, <3>5, QuietStep, Zenon
  <2>3. CASE ~(right /\ Active(a))
    <3>1. Finish(t)
      BY <1>2, <2>3, Zenon DEF ProveChange
    <3> QED BY <2>1, <3>1, FinishStep, Zenon
  <2> QED BY <2>2, <2>3, Zenon
<1> QED BY <1>1, <1>2, Zenon

\* The transactions of a login and of a password change.
LEMMA SessionSteps ==
  ASSUME IInv, NEW t \in Tasks, UNCHANGED <<keyVars, cacheVars, now>>,
         OpenSession(t) \/ CommitChange(t)
  PROVE  IInv'
<1>1. AccountsStep
  BY OpenSessionKeeps, CommitChangeKeeps, Zenon
<1>2. Goto(t, Idle) /\ task[t].pc \in {"open", "change"}
  BY Zenon DEF OpenSession, CommitChange, Finish, Goto
<1>3. LoadOK(Idle)
  BY IdleTyped, Zenon DEF LoadOK
<1>4. KeysStep
  BY <1>2, <1>3, IdleTyped, QuietKeeps, Zenon
<1>5. ChangesOwned'
  BY <1>1, <1>2, IdleTyped, ChangesKept, Zenon DEF AccountsStep
<1>6. TasksTyped'
  BY <1>2, IdleTyped, TaskMoves, Zenon DEF IInv
<1> QED BY <1>1, <1>4, <1>5, <1>6, StepComposed, Zenon

-----------------------------------------------------------------------------
(* The keys and their caches. *)

\* _validate_authentication_record sends a request on to its usage or ends it.
LEMMA AuthenticatedMoves ==
  ASSUME IInv, NEW t \in Tasks, NEW k \in Keys, NEW row \in KeyRows, Authenticated(t, k, row)
  PROVE  \E x \in TaskRecords : Goto(t, x) /\ x.pc \in {"usage", "idle"}
<1> DEFINE x == [pc |-> "usage", key |-> k, pol |-> row.pol]
<1>1. x \in TaskRecords /\ x.pc = "usage"
  BY Zenon DEF TaskRecords, Usages, KeyRows
<1>2. Goto(t, x) \/ Goto(t, Idle)
  BY Zenon DEF Authenticated, Finish, Goto
<1> QED BY <1>1, <1>2, IdleTyped, Zenon

\* A key is presented: the caches are asked.
LEMMA PresentStep ==
  ASSUME IInv, NEW t \in Tasks, NEW n \in Nat, Present(t, n)
  PROVE  IInv'
<1>1. task[t].pc = "idle" /\ UNCHANGED <<accountVars, keyVars, cacheVars, now>>
  BY SMTT(30) DEF Present, Idle
<1>2. CASE \E c \in cache : c.row.secret = n
  <2>1. PICK c \in cache : Authenticated(t, c.key, c.row)
    BY <1>2, Zenon DEF Present
  <2>2. c.key \in Keys /\ c.row \in KeyRows
    BY <2>1, Zenon DEF IInv, CachesTyped
  <2>3. PICK x \in TaskRecords : Goto(t, x) /\ x.pc \in {"usage", "idle"}
    BY <2>1, <2>2, AuthenticatedMoves, Zenon
  <2>4. LoadOK(x)
    BY <2>3, Zenon DEF LoadOK
  <2> QED BY <1>1, <2>3, <2>4, QuietStep, Zenon
<1>3. CASE ~\E c \in cache : c.row.secret = n
  <2> DEFINE x == [pc |-> "row", secret |-> n, epoch |-> epoch]
  <2>1. epoch \in Nat
    BY Zenon DEF IInv, CachesTyped
  <2>2. x \in TaskRecords /\ x.pc = "row" /\ x.epoch = epoch
    BY <2>1, Zenon DEF TaskRecords, Loads
  <2>3. Goto(t, x)
    BY <1>3, Zenon DEF Present
  <2> HIDE DEF x
  <2>4. LoadOK(x)
    BY <2>1, <2>2, SMTT(30) DEF LoadOK
  <2> QED BY <1>1, <2>2, <2>3, <2>4, QuietStep, Zenon
<1> QED BY <1>2, <1>3, Zenon

\* The row that is loaded is the row there is.
LEMMA LoadRowStep ==
  ASSUME IInv, NEW t \in Tasks, LoadRow(t)
  PROVE  IInv'
<1>1. /\ task[t].pc = "row" /\ task[t].epoch \in Nat
      /\ UNCHANGED <<accountVars, keyVars, cacheVars, now>>
  BY TaskFields, Zenon DEF LoadRow, IInv, TasksTyped
<1>2. task[t].epoch <= epoch
  BY <1>1, Zenon DEF IInv, KeysInv, LoadsFresh, LoadOK
<1>3. ASSUME NEW k \in Keys, Row(key[k]),
             Goto(t, [pc |-> "grants", key |-> k, row |-> key[k], epoch |-> task[t].epoch])
      PROVE  IInv'
  <2> DEFINE x == [pc |-> "grants", key |-> k, row |-> key[k], epoch |-> task[t].epoch]
  <2>1. key[k] \in KeyRows
    BY <1>3, TypedRows, Zenon DEF IInv
  <2>2. x \in TaskRecords /\ x.pc = "grants" /\ x.key = k /\ x.row = key[k] /\ x.epoch = task[t].epoch
    BY <1>1, <2>1, Zenon DEF TaskRecords, Loads
  <2>3. Goto(t, x)
    BY <1>3, Zenon
  <2> HIDE DEF x
  <2>4. LoadOK(x)
    BY <1>2, <1>3, <2>2, Zenon DEF LoadOK, Agrees
  <2> QED BY <1>1, <2>2, <2>3, <2>4, QuietStep, Zenon
<1>4. \/ Finish(t)
      \/ \E k \in Keys : Row(key[k]) /\ Goto(t, [pc |-> "grants", key |-> k, row |-> key[k],
                                                 epoch |-> task[t].epoch])
  BY Zenon DEF LoadRow
<1> QED BY <1>1, <1>3, <1>4, FinishStep, Zenon

\* The grants of a row that is up to date are its own.
LEMMA JoinedRows ==
  ASSUME NEW row \in KeyRows, NEW other \in KeyRows
  PROVE  /\ Joined(row, other.pol) \in KeyRows
         /\ Joined(row, other.pol).status = row.status
         /\ Joined(row, other.pol).pol.mode = row.pol.mode
         /\ row = other => Joined(row, other.pol) = row
<1> DEFINE p == [row.pol EXCEPT !.scopes = other.pol.scopes, !.domains = other.pol.domains,
                                !.patterns = other.pol.patterns]
<1>1. row.pol \in PolicyRecords /\ other.pol \in PolicyRecords
  BY Zenon DEF KeyRows
<1>2. p \in PolicyRecords /\ p.mode = row.pol.mode
  BY <1>1, Zenon DEF PolicyRecords
<1>3. Joined(row, other.pol) = [row EXCEPT !.pol = p]
  BY <1>1, Zenon DEF Joined, KeyRows, PolicyRecords
<1>4. row = other => p = row.pol
  BY <1>1, Zenon DEF PolicyRecords
<1> HIDE DEF p
<1> QED BY <1>2, <1>3, <1>4 DEF KeyRows

\* The grants of a key are read.
LEMMA LoadGrantsStep ==
  ASSUME IInv, NEW t \in Tasks, LoadGrants(t)
  PROVE  IInv'
<1> DEFINE k == task[t].key
           row == task[t].row
           x == [task[t] EXCEPT !.pc = "store", !.row = Joined(row, key[k].pol)]
<1>1. /\ task[t].pc = "grants" /\ UNCHANGED <<accountVars, keyVars, cacheVars, now>>
      /\ task[t] \in [pc : {"grants", "store"}, key : Keys, row : KeyRows, epoch : Nat]
  BY TaskFields, Zenon DEF LoadGrants, IInv, TasksTyped
<1>2. k \in Keys /\ row \in KeyRows /\ task[t].epoch \in Nat
  BY <1>1, Zenon
<1>3. CASE Row(key[k]) /\ Goto(t, x)
  <2>1. key[k] \in KeyRows
    BY <1>2, <1>3, TypedRows, Zenon DEF IInv
  <2>2. /\ Joined(row, key[k].pol) \in KeyRows
        /\ Joined(row, key[k].pol).status = row.status
        /\ Joined(row, key[k].pol).pol.mode = row.pol.mode
        /\ row = key[k] => Joined(row, key[k].pol) = row
    BY <1>2, <2>1, JoinedRows, Zenon
  <2>3. /\ x \in TaskRecords /\ x.pc = "store" /\ x.key = k /\ x.epoch = task[t].epoch
        /\ x.row = Joined(row, key[k].pol)
    BY <1>1, <2>2, Zenon DEF TaskRecords, Loads
  <2>4. LoadOK(task[t])
    BY Zenon DEF IInv, KeysInv, LoadsFresh
  <2>5. /\ task[t].epoch <= epoch
        /\ task[t].epoch = epoch => Pending(k) \/ Agrees(row, k)
    BY <1>1, <2>4, Zenon DEF LoadOK
  <2> HIDE DEF x, k, row
  <2>6. Agrees(row, k) => Agrees(x.row, k)
    BY <2>2, <2>3, Zenon DEF Agrees
  <2>7. LoadOK(x)
    BY <2>3, <2>5, <2>6, Zenon DEF LoadOK
  <2> QED BY <1>1, <1>3, <2>3, <2>7, QuietStep, Zenon
<1>4. Finish(t) \/ (Row(key[k]) /\ Goto(t, x))
  BY Zenon DEF LoadGrants
<1> QED BY <1>1, <1>3, <1>4, FinishStep, Zenon

\* record_usage up to what it stores.
LEMMA UsageSteps ==
  ASSUME IInv, NEW t \in Tasks,
         (\E allowed \in BOOLEAN : RecordUsage(t, allowed)) \/ LoadUsage(t)
  PROVE  IInv'
<1> DEFINE k == task[t].key
<1>1. ASSUME NEW allowed \in BOOLEAN, RecordUsage(t, allowed) PROVE IInv'
  <2> DEFINE x == [pc |-> "load_usage", key |-> k, pol |-> task[t].pol, epoch |-> epoch]
             y == [pc |-> "ready", actor |-> [kind |-> "key", id |-> k], pol |-> task[t].pol]
  <2>1. /\ task[t].pc = "usage" /\ k \in Keys /\ task[t].pol \in PolicyRecords
        /\ UNCHANGED <<accountVars, keyVars, cacheVars, now>>
    BY <1>1, TaskFields, Zenon DEF RecordUsage, IInv, TasksTyped
  <2>2. epoch \in Nat /\ epoch <= epoch
    BY SMTT(30) DEF IInv, CachesTyped
  <2>3. x \in TaskRecords /\ x.pc = "load_usage" /\ x.epoch = epoch
    BY <2>1, <2>2, Zenon DEF TaskRecords, Usages
  <2>4. y \in TaskRecords /\ y.pc = "ready"
    BY <2>1, Zenon DEF TaskRecords, Managed, Actors
  <2>5. Goto(t, x) \/ Goto(t, y) \/ Finish(t)
    BY <1>1, Zenon DEF RecordUsage
  <2> HIDE DEF x, y
  <2>6. LoadOK(x) /\ LoadOK(y)
    BY <2>2, <2>3, <2>4, Zenon DEF LoadOK
  <2>7. CASE Goto(t, x)
    BY <2>1, <2>3, <2>6, <2>7, QuietStep, Zenon
  <2>8. CASE Goto(t, y)
    BY <2>1, <2>4, <2>6, <2>8, QuietStep, Zenon
  <2> QED BY <2>1, <2>5, <2>7, <2>8, FinishStep, Zenon
<1>2. ASSUME LoadUsage(t) PROVE IInv'
  <2> DEFINE x == [task[t] EXCEPT !.pc = "store_usage"]
  <2>1. /\ task[t].pc = "load_usage" /\ UNCHANGED <<accountVars, keyVars, cacheVars, now>>
        /\ task[t] \in [pc : {"load_usage", "store_usage"}, key : Keys, pol : PolicyRecords,
                        epoch : Nat]
    BY <1>2, TaskFields, Zenon DEF LoadUsage, IInv, TasksTyped
  <2>2. x \in TaskRecords /\ x.pc = "store_usage" /\ x.key = k /\ x.epoch = task[t].epoch
    BY <2>1, Zenon DEF TaskRecords, Usages
  <2>3. Finish(t) \/ (Row(key[k]) /\ key[k].status = "active" /\ Goto(t, x))
    BY <1>2, Zenon DEF LoadUsage
  <2>4. task[t].epoch <= epoch
    BY <2>1, Zenon DEF IInv, KeysInv, LoadsFresh, LoadOK
  <2> HIDE DEF x
  <2>5. CASE Row(key[k]) /\ key[k].status = "active" /\ Goto(t, x)
    <3>1. LoadOK(x)
      BY <2>2, <2>4, <2>5, Zenon DEF LoadOK
    <3> QED BY <2>1, <2>2, <2>5, <3>1, QuietStep, Zenon
  <2> QED BY <2>1, <2>3, <2>5, FinishStep, Zenon
<1> QED BY <1>1, <1>2, Zenon

-----------------------------------------------------------------------------
(* The transactions of management calls. *)

\* The changes of an existing key, by operation.
LEMMA ChangedKeys ==
  ASSUME IInv, NEW c \in Calls, c.op \in KeyOps \ {"create_key"}, Row(key[c.key]), ApplyKey(c)
  PROVE  /\ c.key \in Keys /\ secrets' \in Nat
         /\ \E r \in KeyRows \cup {Gone} :
              /\ key' = [key EXCEPT ![c.key] = r]
              /\ Row(r) => (r.pol.mode # "selected" => r.pol.domains = {})
              /\ r \in KeyRows => r.pol = (IF c.op = "update_key" THEN c.pol ELSE key[c.key].pol)
<1> DEFINE k == c.key
<1>1. k \in Keys
  BY CallFields, Zenon
<1>2. key[k] \in KeyRows /\ secrets \in Nat /\ (key[k].pol.mode # "selected" => key[k].pol.domains = {})
  BY <1>1, TypedRows, Zenon DEF IInv, KeysTyped, KeysInv, GrantsFit
<1>3. key \in [Keys -> KeyRows \cup {Absent, Gone}]
  BY Zenon DEF IInv, KeysTyped
<1>4. CASE c.op = "update_key"
  <2> DEFINE r == [key[k] EXCEPT !.pol = c.pol, !.status = c.status]
  <2>1. UpdateKey(k, c.pol, c.status)
    BY <1>4, Zenon DEF ApplyKey
  <2>2. /\ c.pol \in PolicyRecords /\ (c.pol.mode # "selected" => c.pol.domains = {})
        /\ c.status \in {"active", "disabled"}
    BY <1>4, CallFields, AccessConstants, Zenon DEF Rules
  <2>3. key' = [key EXCEPT ![k] = r] /\ secrets' = secrets
    BY <1>1, <1>2, <1>3, <2>1, Zenon DEF UpdateKey, KeyRows
  <2>4. r \in KeyRows /\ r.pol = c.pol
    BY <1>2, <2>2, Zenon DEF KeyRows
  <2> HIDE DEF r, k
  <2> QED BY <1>1, <1>2, <1>4, <2>2, <2>3, <2>4, Zenon DEF k
<1>5. CASE c.op = "rotate_key"
  <2> DEFINE r == [key[k] EXCEPT !.secret = secrets + 1]
  <2>1. RotateKey(k)
    BY <1>5, Zenon DEF ApplyKey
  <2>2. key' = [key EXCEPT ![k] = r] /\ secrets' = secrets + 1 /\ secrets + 1 \in Nat
    BY <1>1, <1>2, <1>3, <2>1 DEF RotateKey, KeyRows
  <2>3. r \in KeyRows /\ r.pol = key[k].pol
    BY <1>2, <2>2, Zenon DEF KeyRows
  <2> HIDE DEF r
  <2> QED BY <1>1, <1>2, <1>5, <2>2, <2>3, Zenon
<1>6. CASE c.op = "revoke_key"
  <2> DEFINE r == [key[k] EXCEPT !.status = "revoked"]
  <2>1. RevokeKey(k)
    BY <1>6, Zenon DEF ApplyKey
  <2>2. key' = [key EXCEPT ![k] = r] /\ secrets' = secrets
    BY <1>1, <1>2, <1>3, <2>1, Zenon DEF RevokeKey, KeyRows
  <2>3. r \in KeyRows /\ r.pol = key[k].pol
    BY <1>2, Zenon DEF KeyRows
  <2> HIDE DEF r
  <2> QED BY <1>1, <1>2, <1>6, <2>2, <2>3, Zenon
<1>7. CASE c.op = "delete_key"
  <2>1. DeleteKey(k)
    BY <1>7, Zenon DEF ApplyKey
  <2>2. key' = [key EXCEPT ![k] = Gone] /\ secrets' = secrets /\ ~Row(Gone) /\ Gone \notin KeyRows
    BY <2>1, RowsAreRows, Zenon DEF DeleteKey
  <2> QED BY <1>1, <1>2, <2>2, Zenon
<1> QED BY <1>4, <1>5, <1>6, <1>7, Zenon DEF KeyOps

\* The changes of accounts, by operation.
LEMMA ChangedAccounts ==
  ASSUME IInv, NEW c \in Calls, Possible(c), c.op \notin KeyOps, ApplyAdmin(c)
  PROVE  AccountsStep
<1>1. CASE c.op = "create_admin"
  <2>1. PICK a \in Admins : admin[a] = Absent /\ CreateAdmin(a, c.role, TRUE)
    BY <1>1, Zenon DEF ApplyAdmin
  <2> QED BY <1>1, <2>1, CallFields, CreateAdminKeeps, Zenon
<1>2. CASE c.op = "update_admin"
  <2>1. UpdateAdmin(c.admin, c.role, c.active)
    BY <1>2, Zenon DEF ApplyAdmin
  <2>2. /\ Row(admin[c.admin])
        /\ RootRemains(c.admin, [admin[c.admin] EXCEPT !.role = c.role, !.active = c.active])
    BY <1>2, Zenon DEF Possible
  <2>3. c.admin \in Admins /\ c.role \in Roles /\ c.active \in BOOLEAN
    BY <1>2, CallFields, Zenon DEF KeyOps
  <2> QED BY <2>1, <2>2, <2>3, UpdateAdminKeeps, Zenon
<1>3. CASE c.op = "delete_admin"
  <2>1. DeleteAdmin(c.admin) /\ Row(admin[c.admin]) /\ RootRemains(c.admin, Gone)
    BY <1>3, Zenon DEF ApplyAdmin, Possible
  <2>2. c.admin \in Admins
    BY <1>3, CallFields, Zenon DEF KeyOps
  <2> QED BY <2>1, <2>2, DeleteAdminKeeps, Zenon
<1>4. CASE c.op = "reset_password"
  <2>1. ResetPassword(c.admin) /\ Row(admin[c.admin])
    BY <1>4, Zenon DEF ApplyAdmin, Possible
  <2>2. c.admin \in Admins
    BY <1>4, CallFields, Zenon DEF KeyOps
  <2> QED BY <2>1, <2>2, ResetPasswordKeeps, Zenon
<1>5. CASE c.op = "revoke_sessions"
  <2>1. RevokeSessions(c.admin)
    BY <1>5, Zenon DEF ApplyAdmin
  <2>2. c.admin \in Admins
    BY <1>5, CallFields, Zenon DEF KeyOps
  <2> QED BY <2>1, <2>2, RevokeSessionsKeeps, Zenon
<1> QED BY <1>1, <1>2, <1>3, <1>4, <1>5, Zenon DEF ApplyAdmin

\* A transaction that goes through, by what it changes.
LEMMA CommitCases ==
  ASSUME IInv, NEW t \in Tasks, Commit(t)
  PROVE  LET c == task[t].call
             p == CurrentPolicy(task[t].actor) IN
         /\ c \in Calls /\ task[t].actor \in Actors /\ task[t].pc = "queued"
         /\ UNCHANGED <<cacheVars, now>>
         /\ \/ Finish(t) /\ UNCHANGED <<accountVars, keyVars>>
            \/ /\ Authorized(p, c) /\ Possible(c) /\ TargetWithin(p, c)
               /\ \/ /\ c.op = "create_key" /\ Finish(t) /\ UNCHANGED accountVars
                     /\ \E k \in Keys : key[k] = Absent /\ CreateKey(k, Kind, c.pol)
                  \/ /\ c.op \in KeyOps \ {"create_key"} /\ ApplyKey(c) /\ UNCHANGED accountVars
                     /\ Goto(t, [pc |-> "invalidate", key |-> c.key])
                  \/ c.op \notin KeyOps /\ ApplyAdmin(c) /\ Finish(t) /\ UNCHANGED keyVars
<1> DEFINE c == task[t].call
           p == CurrentPolicy(task[t].actor)
<1>1. task[t].pc = "queued" /\ UNCHANGED <<cacheVars, now>>
  BY Zenon DEF Commit
<1>2. c \in Calls /\ task[t].actor \in Actors
  BY <1>1, TaskFields, Zenon DEF IInv, TasksTyped
<1>3. \/ Finish(t) /\ UNCHANGED <<accountVars, keyVars>>
      \/ /\ Authorized(p, c) /\ Possible(c) /\ TargetWithin(p, c)
         /\ ApplyKey(c) \/ ApplyAdmin(c)
         /\ IF c.op \in KeyOps \ {"create_key"}
              THEN Goto(t, [pc |-> "invalidate", key |-> c.key]) ELSE Finish(t)
  BY Zenon DEF Commit
<1>4. ApplyKey(c) => /\ c.op \in KeyOps /\ UNCHANGED accountVars
                     /\ c.op = "create_key" =>
                          \E k \in Keys : key[k] = Absent /\ CreateKey(k, Kind, c.pol)
  BY Zenon DEF ApplyKey, KeyOps
<1>5. ApplyAdmin(c) => c.op \notin KeyOps /\ UNCHANGED keyVars
  BY Zenon DEF ApplyAdmin, KeyOps
<1> HIDE DEF c, p
<1> QED BY <1>1, <1>2, <1>3, <1>4, <1>5, Zenon DEF c, p

\* What a transaction of a management call on accounts touches: the account it
\* names and the sessions of that account.
LEMMA TouchedAccounts ==
  ASSUME IInv, NEW c \in Calls, Possible(c), c.op \notin KeyOps, ApplyAdmin(c)
  PROVE  /\ \A a \in Admins : admin'[a] # admin[a] =>
              /\ Row(admin[a]) => c.op # "create_admin" /\ a = c.admin
              /\ Row(admin'[a]) =>
                   \/ c.op \in {"create_admin", "update_admin"} /\ admin'[a].role = c.role
                   \/ /\ c.op # "create_admin" /\ a = c.admin /\ admin'[a].role = admin[a].role
         /\ \A s \in Sessions : session'[s] # session[s] =>
              c.op # "create_admin" /\ session[s].admin = c.admin
<1>1. admin \in [Admins -> AdminRows \cup {Absent, Gone}]
  BY Zenon DEF IInv, AccountsTyped
<1>2. \A a \in Admins : Row(admin[a]) => admin[a] \in AdminRows
  BY TypedRows, Zenon DEF IInv
<1>3. \A a, s : s \in Sessions /\ Revoked(a, {})[s] # session[s] => session[s].admin = a
  BY Zenon DEF Revoked
<1>4. CASE c.op = "create_admin"
  <2>1. PICK a \in Admins : admin[a] = Absent /\ CreateAdmin(a, c.role, TRUE)
    BY <1>4, Zenon DEF ApplyAdmin
  <2>2. /\ UNCHANGED session
        /\ admin' = [admin EXCEPT ![a] = [role |-> c.role, active |-> TRUE, hash |-> hashes + 1]]
    BY <2>1, Zenon DEF CreateAdmin
  <2> QED BY <1>1, <1>4, <2>1, <2>2, RowsAreRows, Zenon
<1>5. CASE c.op = "update_admin"
  <2>1. UpdateAdmin(c.admin, c.role, c.active) /\ Row(admin[c.admin]) /\ c.admin \in Admins
    BY <1>5, CallFields, Zenon DEF ApplyAdmin, Possible, KeyOps
  <2>2. admin[c.admin] \in AdminRows
    BY <1>2, <2>1, Zenon
  <2>3. \A a \in Admins : /\ a # c.admin => admin'[a] = admin[a]
                          /\ a = c.admin => admin'[a].role = c.role
    BY <1>1, <2>1, <2>2, Zenon DEF UpdateAdmin, AdminRows
  <2>4. session' = Revoked(c.admin, {}) \/ session' = session
    BY <2>1, Zenon DEF UpdateAdmin
  <2>5. \A s \in Sessions : session'[s] # session[s] => session[s].admin = c.admin
    BY <1>3, <2>4, Zenon
  <2> QED BY <1>5, <2>3, <2>5, Zenon
<1>6. CASE c.op = "delete_admin"
  <2>1. DeleteAdmin(c.admin) /\ c.admin \in Admins
    BY <1>6, CallFields, Zenon DEF ApplyAdmin, KeyOps
  <2>2. \A a \in Admins : /\ a # c.admin => admin'[a] = admin[a]
                          /\ a = c.admin => ~Row(admin'[a])
    BY <1>1, <2>1, RowsAreRows, Zenon DEF DeleteAdmin
  <2>3. \A s \in Sessions : session'[s] # session[s] => session[s].admin = c.admin
    BY <2>1, Zenon DEF DeleteAdmin
  <2> QED BY <1>6, <2>2, <2>3, Zenon
<1>7. CASE c.op = "reset_password"
  <2>1. ResetPassword(c.admin) /\ Row(admin[c.admin]) /\ c.admin \in Admins
    BY <1>7, CallFields, Zenon DEF ApplyAdmin, Possible, KeyOps
  <2>2. admin[c.admin] \in AdminRows
    BY <1>2, <2>1, Zenon
  <2>3. \A a \in Admins : /\ a # c.admin => admin'[a] = admin[a]
                          /\ a = c.admin => admin'[a].role = admin[a].role
    BY <1>1, <2>1, <2>2, Zenon DEF ResetPassword, AdminRows
  <2>4. \A s \in Sessions : session'[s] # session[s] => session[s].admin = c.admin
    BY <1>3, <2>1, Zenon DEF ResetPassword
  <2> QED BY <1>7, <2>3, <2>4, Zenon
<1>8. CASE c.op = "revoke_sessions"
  <2>1. session' = Revoked(c.admin, {}) /\ UNCHANGED admin
    BY <1>8, Zenon DEF ApplyAdmin, RevokeSessions
  <2>2. \A s \in Sessions : session'[s] # session[s] => session[s].admin = c.admin
    BY <1>3, <2>1, Zenon
  <2> QED BY <1>8, <2>1, <2>2, Zenon
<1> QED BY <1>4, <1>5, <1>6, <1>7, <1>8, Zenon DEF ApplyAdmin

\* The policy that a transaction loads is that of a live actor.
LEMMA LoadedLive ==
  ASSUME IInv, NEW actor \in Actors, CurrentPolicy(actor) # Refused
  PROVE  /\ actor.kind = "key" => /\ Row(key[actor.id]) /\ key[actor.id].status = "active"
                                  /\ CurrentPolicy(actor) = key[actor.id].pol
         /\ actor.kind # "key" =>
              /\ SessionLive(actor.id)
              /\ CurrentPolicy(actor) = RolePolicy(admin[session[actor.id].admin].role)
         /\ CurrentPolicy(actor).expires = Never \/ now < CurrentPolicy(actor).expires
<1>1. CASE actor.kind = "key"
  <2>1. /\ Row(key[actor.id]) /\ key[actor.id].status = "active" /\ ~Due(key[actor.id].pol)
        /\ CurrentPolicy(actor) = key[actor.id].pol
    BY <1>1, Zenon DEF CurrentPolicy
  <2>2. actor.id \in Keys
    BY <1>1, Zenon DEF Actors
  <2>3. key[actor.id].pol.expires \in Nat \cup {Never} /\ now \in Nat
    BY <2>1, <2>2, TypedRows, Zenon DEF IInv, KeyRows, PolicyRecords, CachesTyped
  <2>4. key[actor.id].pol.expires = Never \/ now < key[actor.id].pol.expires
    BY <2>1, <2>3, SMTT(30) DEF Due
  <2> QED BY <1>1, <2>1, <2>4, Zenon
<1>2. CASE actor.kind # "key"
  <2>1. /\ SessionLive(actor.id)
        /\ CurrentPolicy(actor) = RolePolicy(admin[session[actor.id].admin].role)
    BY <1>2, Zenon DEF CurrentPolicy
  <2>2. RolePolicy(admin[session[actor.id].admin].role).expires = Never
    BY Zenon DEF RolePolicy
  <2> QED BY <1>2, <2>1, <2>2, Zenon
<1> QED BY <1>1, <1>2, Zenon


-----------------------------------------------------------------------------
(* The caches. *)

\* A step that only stores in the caches and takes a request further, if what
\* it stores is up to date.
LEMMA StoringStep ==
  ASSUME IInv, NEW t \in Tasks, NEW x \in TaskRecords, Goto(t, x),
         task[t].pc # "invalidate", x.pc \in {"usage", "ready", "idle"},
         UNCHANGED <<accountVars, keyVars, epoch, now>>,
         cache' \subseteq [key : Keys, row : KeyRows],
         usage' \in [Keys -> {Absent, "active", "disabled", "revoked"}],
         \A c \in cache' : c.row.pol.mode # "selected" /\ (Pending(c.key) \/ c.row = key[c.key]),
         \A k \in Keys : usage'[k] # Absent =>
           Pending(k) \/ (Row(key[k]) /\ usage'[k] = key[k].status)
  PROVE  IInv'
<1>1. UNCHANGED <<key, secrets, epoch, now>>
  BY Zenon DEF keyVars
<1>2. task'[t] = x /\ (\A u \in Tasks \ {t} : task'[u] = task[u]) /\ TasksTyped'
  BY TaskMoves, Zenon DEF IInv
<1>3. \A k \in Keys : Pending(k)' <=> Pending(k)
  BY PendingKept, Zenon
<1>4. KeysTyped' /\ CachesTyped'
  BY <1>1, Zenon DEF KeysTyped, CachesTyped, IInv
<1>5. GrantsFit'
  BY <1>1, Zenon DEF GrantsFit, IInv, KeysInv, Row
<1>6. PendingExists'
  BY <1>1, <1>3, Zenon DEF PendingExists, IInv, KeysInv
<1>7. LoadsFresh'
  <2>1. SUFFICES ASSUME NEW u \in Tasks, task'[u].pc \notin {"usage", "ready", "idle"}
                 PROVE  LoadOK(task[u])'
    <3>1. \A u \in Tasks : task'[u].pc \in {"usage", "ready", "idle"} => LoadOK(task[u])'
      BY Zenon DEF LoadOK
    <3> QED BY <3>1, Zenon DEF LoadsFresh
  <2>2. task'[u] = task[u] /\ task[u] \in TaskRecords /\ LoadOK(task[u])
    BY <1>2, <2>1, Zenon DEF TasksTyped, IInv, KeysInv, LoadsFresh
  <2>3. task[u].pc \in {"grants", "store", "store_usage"} => task[u].key \in Keys
    BY <2>2, TaskFields, Zenon
  <2>4. task[u].pc \in {"grants", "store", "store_usage"} =>
          (Pending(task[u].key) => Pending(task[u].key)')
    <3> DEFINE k == task[u].key
    <3>1. k \in Keys => (Pending(k) => \E v \in Tasks : task'[v].pc = "invalidate" /\ task'[v].key = k)
      BY <1>3, Zenon DEF Pending
    <3> QED BY <2>2, <2>3, <3>1, Zenon DEF Pending
  <2> QED BY <2>2, <2>4, <1>1, Zenon DEF LoadOK, Agrees, Row
<1>8. CachesFresh'
  <2>1. \A c \in cache' : c.key \in Keys
    BY Zenon DEF CachesTyped
  <2> QED BY <1>1, <1>3, <2>1, Zenon DEF CachesFresh, Row
<1>9. AccountsStep
  BY AccountsKept, Zenon
<1>10. ChangesOwned'
  BY <1>9, ChangesKept, Zenon DEF AccountsStep
<1>11. KeysStep
  BY <1>4, <1>5, <1>6, <1>7, <1>8, Zenon DEF KeysStep, KeysInv
<1> QED BY <1>2, <1>9, <1>10, <1>11, StepComposed, Zenon

\* A load stores only what no change has overtaken: its epoch is the current
\* one, so what it read is what the database says.
LEMMA StoreStep ==
  ASSUME IInv, NEW t \in Tasks, Store(t)
  PROVE  IInv'
<1> DEFINE k == task[t].key
           row == task[t].row
<1>1. /\ task[t].pc = "store" /\ k \in Keys /\ row \in KeyRows
      /\ UNCHANGED <<accountVars, keyVars, epoch, now>> /\ Authenticated(t, k, row)
  <2>1. /\ task[t].pc = "store" /\ UNCHANGED <<accountVars, keyVars, epoch, now>>
        /\ Authenticated(t, k, row)
    BY Zenon DEF Store
  <2>2. task[t] \in [pc : {"grants", "store"}, key : Keys, row : KeyRows, epoch : Nat]
    BY <2>1, TaskFields, Zenon DEF IInv, TasksTyped
  <2> QED BY <2>1, <2>2, Zenon
<1>2. PICK x \in TaskRecords : Goto(t, x) /\ x.pc \in {"usage", "idle"}
  BY <1>1, AuthenticatedMoves, Zenon
<1>3. CachesFresh /\ CachesTyped
  BY Zenon DEF IInv, KeysInv
<1>4. CASE epoch # task[t].epoch
  <2>1. UNCHANGED <<cache, usage>>
    BY <1>4, Zenon DEF Store
  <2>2. cache' \subseteq [key : Keys, row : KeyRows]
        /\ usage' \in [Keys -> {Absent, "active", "disabled", "revoked"}]
    BY <1>3, <2>1, Zenon DEF CachesTyped
  <2>3. /\ \A c \in cache' : c.row.pol.mode # "selected" /\ (Pending(c.key) \/ c.row = key[c.key])
        /\ \A j \in Keys : usage'[j] # Absent =>
             Pending(j) \/ (Row(key[j]) /\ usage'[j] = key[j].status)
    BY <1>3, <2>1, Zenon DEF CachesFresh
  <2> QED BY <1>1, <1>2, <2>2, <2>3, StoringStep, Zenon
<1>5. CASE epoch = task[t].epoch
  <2> DEFINE e == [key |-> k, row |-> row]
  <2>1. Pending(k) \/ Agrees(row, k)
    BY <1>1, <1>5, Zenon DEF IInv, KeysInv, LoadsFresh, LoadOK
  <2>2. /\ usage' = [usage EXCEPT ![k] = row.status]
        /\ \A c \in cache' : c \in cache \/ (c = e /\ row.pol.mode # "selected")
    BY <1>5, Zenon DEF Store
  <2>3. e \in [key : Keys, row : KeyRows] /\ e.key = k /\ e.row = row
    BY <1>1, Zenon
  <2>4. row.status \in {"active", "disabled", "revoked"}
    BY <1>1, Zenon DEF KeyRows
  <2> HIDE DEF e, k, row
  <2>5. cache' \subseteq [key : Keys, row : KeyRows]
    BY <1>3, <2>2, <2>3, Zenon DEF CachesTyped
  <2>6. usage' \in [Keys -> {Absent, "active", "disabled", "revoked"}]
    BY <1>1, <1>3, <2>2, <2>4, Zenon DEF CachesTyped
  <2>7. ASSUME NEW c \in cache'
        PROVE  c.row.pol.mode # "selected" /\ (Pending(c.key) \/ c.row = key[c.key])
    BY <1>3, <2>1, <2>2, <2>3, Zenon DEF CachesFresh, Agrees
  <2>8. ASSUME NEW j \in Keys, usage'[j] # Absent
        PROVE  Pending(j) \/ (Row(key[j]) /\ usage'[j] = key[j].status)
    <3>1. CASE j = k
      <4>1. usage'[j] = row.status
        BY <1>1, <1>3, <2>2, <3>1, Zenon DEF CachesTyped
      <4> QED BY <3>1, <4>1, <2>1, Zenon DEF Agrees
    <3>2. CASE j # k
      <4>1. usage'[j] = usage[j]
        BY <1>1, <1>3, <2>2, <3>2, Zenon DEF CachesTyped
      <4> QED BY <2>8, <4>1, <1>3, Zenon DEF CachesFresh
    <3> QED BY <3>1, <3>2, Zenon
  <2> QED BY <1>1, <1>2, <2>5, <2>6, <2>7, <2>8, StoringStep, Zenon
<1> QED BY <1>4, <1>5, Zenon

\* The usage policy of a key is stored.
LEMMA StoreUsageStep ==
  ASSUME IInv, NEW t \in Tasks, NEW allowed \in BOOLEAN, StoreUsage(t, allowed)
  PROVE  IInv'
<1> DEFINE k == task[t].key
           y == [pc |-> "ready", actor |-> [kind |-> "key", id |-> k], pol |-> task[t].pol]
<1>1. /\ task[t].pc = "store_usage" /\ k \in Keys /\ task[t].pol \in PolicyRecords
      /\ UNCHANGED <<accountVars, keyVars, epoch, now>> /\ cache' = cache
      /\ usage' = IF epoch = task[t].epoch THEN [usage EXCEPT ![k] = "active"] ELSE usage
  BY TaskFields, Zenon DEF StoreUsage, IInv, TasksTyped
<1>2. y \in TaskRecords /\ y.pc = "ready"
  BY <1>1, Zenon DEF TaskRecords, Managed, Actors
<1>3. Goto(t, y) \/ Goto(t, Idle)
  BY Zenon DEF StoreUsage, Finish, Goto
<1> HIDE DEF y
<1>4. PICK x \in TaskRecords : Goto(t, x) /\ x.pc \in {"ready", "idle"}
  BY <1>2, <1>3, IdleTyped, Zenon
<1>5. CachesFresh /\ CachesTyped
  BY Zenon DEF IInv, KeysInv
<1>6. /\ cache' \subseteq [key : Keys, row : KeyRows]
      /\ \A c \in cache' : c.row.pol.mode # "selected" /\ (Pending(c.key) \/ c.row = key[c.key])
  BY <1>1, <1>5, Zenon DEF CachesTyped, CachesFresh
<1>7. epoch = task[t].epoch => Pending(k) \/ (Row(key[k]) /\ key[k].status = "active")
  BY <1>1, Zenon DEF IInv, KeysInv, LoadsFresh, LoadOK
<1> HIDE DEF k
<1>8. usage' \in [Keys -> {Absent, "active", "disabled", "revoked"}]
  BY <1>1, <1>5, Zenon DEF CachesTyped
<1>9. ASSUME NEW j \in Keys, usage'[j] # Absent
      PROVE  Pending(j) \/ (Row(key[j]) /\ usage'[j] = key[j].status)
  <2>1. CASE j = k /\ epoch = task[t].epoch
    <3>1. usage'[j] = "active"
      BY <1>1, <1>5, <2>1, Zenon DEF CachesTyped
    <3> QED BY <2>1, <3>1, <1>7, Zenon
  <2>2. CASE ~(j = k /\ epoch = task[t].epoch)
    <3>1. usage'[j] = usage[j]
      BY <1>1, <1>5, <2>2, Zenon DEF CachesTyped
    <3> QED BY <1>9, <3>1, <1>5, Zenon DEF CachesFresh
  <2> QED BY <2>1, <2>2, Zenon
<1> QED BY <1>1, <1>4, <1>6, <1>8, <1>9, StoringStep, Zenon

\* _invalidate_key_cache: every load under way becomes one of an earlier epoch,
\* and nothing is left of the key.
LEMMA InvalidateStep ==
  ASSUME IInv, NEW t \in Tasks, Invalidate(t)
  PROVE  IInv'
<1> DEFINE k == task[t].key
<1>1. /\ task[t].pc = "invalidate" /\ epoch' = epoch + 1 /\ Goto(t, Idle)
      /\ cache' = {c \in cache : c.key # k} /\ usage' = [usage EXCEPT ![k] = Absent]
      /\ UNCHANGED accountVars /\ UNCHANGED <<key, secrets, now>>
  BY Zenon DEF Invalidate, Finish, Goto, keyVars
<1>2. task[t] \in TaskRecords /\ CachesTyped /\ CachesFresh /\ TasksTyped
  BY Zenon DEF IInv, KeysInv, TasksTyped
<1>3. k \in Keys
  BY <1>1, <1>2, TaskFields, Zenon
<1>4. task'[t] = Idle /\ (\A u \in Tasks \ {t} : task'[u] = task[u]) /\ TasksTyped'
  BY <1>1, <1>2, IdleTyped, TaskMoves, Zenon
<1> HIDE DEF k
<1>5. KeysTyped'
  BY <1>1, Zenon DEF KeysTyped, IInv
<1>6. CachesTyped'
  BY <1>1, <1>2, <1>3 DEF CachesTyped
<1>7. GrantsFit'
  BY <1>1, Zenon DEF GrantsFit, IInv, KeysInv, Row
<1>8. \A j \in Keys : /\ Pending(j)' => Pending(j)
                      /\ j # k => (Pending(j) => Pending(j)')
  BY <1>1, <1>4, IdleTyped, Zenon DEF Pending, k
<1>9. PendingExists'
  BY <1>1, <1>8, Zenon DEF PendingExists, IInv, KeysInv
<1>10. LoadsFresh'
  <2>1. SUFFICES ASSUME NEW u \in Tasks, u # t PROVE LoadOK(task[u])'
    <3>1. LoadOK(task[t])'
      BY <1>4, IdleTyped, Zenon DEF LoadOK
    <3> QED BY <3>1, Zenon DEF LoadsFresh
  <2>2. task'[u] = task[u] /\ task[u] \in TaskRecords /\ LoadOK(task[u])
    BY <1>2, <1>4, <2>1, Zenon DEF TasksTyped, IInv, KeysInv, LoadsFresh
  <2>3. task[u].pc \in {"row", "grants", "store", "load_usage", "store_usage"} =>
          task[u].epoch \in Nat /\ task[u].epoch <= epoch
    BY <2>2, TaskFields, Zenon DEF LoadOK
  <2>4. task[u].pc \in {"row", "grants", "store", "load_usage", "store_usage"} =>
          task[u].epoch <= epoch' /\ task[u].epoch # epoch'
    <3>1. \A m, n \in Nat : m <= n => m <= n + 1 /\ m # n + 1
      OBVIOUS
    <3> QED BY <3>1, <2>3, <1>1, <1>2, Zenon DEF CachesTyped
  <2> QED BY <2>2, <2>4, Zenon DEF LoadOK
<1>11. CachesFresh'
  <2>1. \A c \in cache' : c \in cache /\ c.key \in Keys \ {k}
    BY <1>1, <1>2, Zenon DEF CachesTyped
  <2>2. \A j \in Keys : usage'[j] # Absent => j # k /\ usage'[j] = usage[j]
    BY <1>1, <1>2, Zenon DEF CachesTyped
  <2> QED BY <1>1, <1>2, <1>8, <2>1, <2>2, Zenon DEF CachesFresh, Row
<1>12. AccountsStep
  BY <1>1, AccountsKept, Zenon
<1>13. ChangesOwned'
  BY <1>1, <1>12, IdleTyped, ChangesKept, Zenon DEF AccountsStep
<1>14. KeysStep
  BY <1>5, <1>6, <1>7, <1>9, <1>10, <1>11, Zenon DEF KeysStep, KeysInv
<1> QED BY <1>4, <1>12, <1>13, <1>14, StepComposed, Zenon

\* The handlers check and queue.
LEMMA RequestSteps ==
  ASSUME IInv, NEW t \in Tasks, NEW c \in Calls,
         (\E s \in Sessions : BrowserRequest(t, s, c)) \/ Handle(t, c)
  PROVE  IInv'
<1>1. ASSUME NEW s \in Sessions, BrowserRequest(t, s, c) PROVE IInv'
  <2> DEFINE x == [pc |-> "queued", actor |-> [kind |-> "session", id |-> s], call |-> c]
  <2>1. x \in TaskRecords /\ x.pc = "queued"
    BY Zenon DEF TaskRecords, Managed, Actors
  <2>2. /\ Goto(t, x) /\ task[t].pc = "idle"
        /\ UNCHANGED <<accountVars, keyVars, cacheVars, now>>
    BY <1>1, SMTT(30) DEF BrowserRequest, Idle
  <2> HIDE DEF x
  <2>3. LoadOK(x)
    BY <2>1, Zenon DEF LoadOK
  <2> QED BY <2>1, <2>2, <2>3, QuietStep, Zenon
<1>2. ASSUME Handle(t, c) PROVE IInv'
  <2> DEFINE x == [pc |-> "queued", actor |-> task[t].actor, call |-> c]
  <2>1. /\ task[t].pc = "ready" /\ task[t].actor \in Actors
        /\ UNCHANGED <<accountVars, keyVars, cacheVars, now>>
    BY <1>2, TaskFields, Zenon DEF Handle, IInv, TasksTyped
  <2>2. x \in TaskRecords /\ x.pc = "queued"
    BY <2>1, Zenon DEF TaskRecords, Managed
  <2>3. Goto(t, x) \/ Finish(t)
    BY <1>2, Zenon DEF Handle
  <2> HIDE DEF x
  <2>4. LoadOK(x)
    BY <2>2, Zenon DEF LoadOK
  <2>5. CASE Goto(t, x)
    BY <2>1, <2>2, <2>4, <2>5, QuietStep, Zenon
  <2> QED BY <2>1, <2>3, <2>5, FinishStep, Zenon
<1> QED BY <1>1, <1>2, Zenon

\* Nothing is read of a key before it exists.
LEMMA CreateKeyStep ==
  ASSUME IInv, NEW t \in Tasks, NEW k \in Keys, NEW pol \in Policies, key[k] = Absent,
         task[t].pc = "queued", Finish(t), CreateKey(k, Kind, pol),
         UNCHANGED <<accountVars, cacheVars, now>>
  PROVE  IInv'
<1> DEFINE r == [kind |-> Kind, pol |-> pol, status |-> "active", secret |-> secrets + 1]
<1>1. /\ key' = [key EXCEPT ![k] = r] /\ secrets' = secrets + 1 /\ Goto(t, Idle)
      /\ UNCHANGED <<cache, usage, epoch, now>>
  BY Zenon DEF CreateKey, Finish, Goto, cacheVars
<1>2. pol \in PolicyRecords /\ (pol.mode # "selected" => pol.domains = {})
  BY AccessConstants, Zenon DEF Rules
<1>3. r \in KeyRows /\ r.pol = pol
  BY <1>2, AccessConstants, SMTT(30) DEF KeyRows, IInv, KeysTyped
<1> HIDE DEF r
<1>4. key'[k] = r /\ (\A j \in Keys \ {k} : key'[j] = key[j]) /\ KeysTyped'
  BY <1>1, <1>3, SMTT(30) DEF IInv, KeysTyped
<1>5. /\ task'[t] = Idle /\ (\A u \in Tasks \ {t} : task'[u] = task[u]) /\ TasksTyped'
      /\ \A j \in Keys : Pending(j)' <=> Pending(j)
  BY <1>1, IdleTyped, TaskMoves, PendingKept, Zenon DEF IInv
<1>6. /\ \A j \in Keys : Row(key[j]) => key'[j] = key[j]
      /\ Row(key'[k]) /\ ~Row(key[k]) /\ ~Pending(k)
  BY <1>3, <1>4, RowsAreRows, Zenon DEF IInv, KeysInv, PendingExists
<1>7. CachesTyped'
  BY <1>1, Zenon DEF CachesTyped, IInv
<1>8. GrantsFit'
  BY <1>2, <1>3, <1>4, Zenon DEF GrantsFit, IInv, KeysInv
<1>9. PendingExists'
  BY <1>4, <1>5, <1>6, Zenon DEF PendingExists, IInv, KeysInv
<1>10. LoadsFresh'
  <2>1. SUFFICES ASSUME NEW u \in Tasks, u # t PROVE LoadOK(task[u])'
    <3>1. LoadOK(task[t])'
      BY <1>5, IdleTyped, Zenon DEF LoadOK
    <3> QED BY <3>1, Zenon DEF LoadsFresh
  <2>2. task'[u] = task[u] /\ task[u] \in TaskRecords /\ LoadOK(task[u])
    BY <1>5, <2>1, Zenon DEF TasksTyped, IInv, KeysInv, LoadsFresh
  <2>3. task[u].pc \in {"grants", "store", "store_usage"} => task[u].key \in Keys
    BY <2>2, TaskFields, Zenon
  <2>4. task[u].pc \in {"grants", "store", "store_usage"} =>
          /\ Pending(task[u].key) => \E v \in Tasks : task'[v].pc = "invalidate" /\ task'[v].key = task[u].key
          /\ Row(key[task[u].key]) => key'[task[u].key] = key[task[u].key]
    BY <1>5, <1>6, <2>3, Zenon DEF Pending
  <2> QED BY <1>1, <2>2, <2>4, Zenon DEF LoadOK, Agrees, Row, Pending
<1>11. CachesFresh'
  <2>1. \A c \in cache : c.key \in Keys /\ Row(c.row)
    BY RowsAreRows, Zenon DEF IInv, CachesTyped
  <2>2. CachesFresh
    BY Zenon DEF IInv, KeysInv
  <2>3. \A c \in cache : c.row = key[c.key] => c.row = key'[c.key]
    BY <1>6, <2>1, Zenon
  <2> QED BY <1>1, <1>5, <1>6, <2>1, <2>2, <2>3, Zenon DEF CachesFresh, Row
<1>12. AccountsStep
  BY AccountsKept, Zenon
<1>13. ChangesOwned'
  BY <1>1, <1>12, IdleTyped, ChangesKept, Zenon DEF AccountsStep
<1>14. KeysStep
  BY <1>4, <1>7, <1>8, <1>9, <1>10, <1>11, Zenon DEF KeysStep, KeysInv
<1> QED BY <1>5, <1>12, <1>13, <1>14, StepComposed, Zenon

\* A committed change of a key is pending until its invalidation, and changes
\* no other key.
LEMMA KeyChangeStep ==
  ASSUME IInv, NEW t \in Tasks, NEW k \in Keys, NEW r \in KeyRows \cup {Gone}, Row(key[k]),
         Row(r) => (r.pol.mode # "selected" => r.pol.domains = {}),
         task[t].pc = "queued", Goto(t, [pc |-> "invalidate", key |-> k]),
         key' = [key EXCEPT ![k] = r], secrets' \in Nat,
         UNCHANGED <<accountVars, cacheVars, now>>
  PROVE  IInv'
<1> DEFINE x == [pc |-> "invalidate", key |-> k]
<1>1. UNCHANGED <<cache, usage, epoch, now>>
  BY Zenon DEF cacheVars
<1>2. x \in TaskRecords /\ x.pc = "invalidate" /\ x.key = k /\ Goto(t, x)
  BY Zenon DEF TaskRecords, Managed
<1> HIDE DEF x
<1>3. task'[t] = x /\ (\A u \in Tasks \ {t} : task'[u] = task[u]) /\ TasksTyped'
  BY <1>2, TaskMoves, Zenon DEF IInv
<1>4. key'[k] = r /\ (\A j \in Keys \ {k} : key'[j] = key[j]) /\ KeysTyped'
  BY Zenon DEF IInv, KeysTyped
<1>5. key'[k] # Absent
  BY <1>4, AccessConstants, RowsAreRows, Zenon DEF Row
<1>6. /\ \A j \in Keys : Pending(j) => Pending(j)'
      /\ \A j \in Keys : Pending(j)' => j = k \/ Pending(j)
      /\ Pending(k)'
  BY <1>2, <1>3, Zenon DEF Pending
<1>7. CachesTyped'
  BY <1>1, Zenon DEF CachesTyped, IInv
<1>8. GrantsFit'
  BY <1>4, Zenon DEF GrantsFit, IInv, KeysInv, Row
<1>9. PendingExists'
  BY <1>4, <1>5, <1>6, Zenon DEF PendingExists, IInv, KeysInv
<1>10. LoadsFresh'
  <2>1. SUFFICES ASSUME NEW u \in Tasks, u # t PROVE LoadOK(task[u])'
    <3>1. LoadOK(task[t])'
      BY <1>2, <1>3, Zenon DEF LoadOK
    <3> QED BY <3>1, Zenon DEF LoadsFresh
  <2>2. task'[u] = task[u] /\ task[u] \in TaskRecords /\ LoadOK(task[u])
    BY <1>3, <2>1, Zenon DEF TasksTyped, IInv, KeysInv, LoadsFresh
  <2>3. task[u].pc \in {"grants", "store", "store_usage"} => task[u].key \in Keys
    BY <2>2, TaskFields, Zenon
  <2>4. task[u].pc \in {"grants", "store", "store_usage"} =>
          \/ \E v \in Tasks : task'[v].pc = "invalidate" /\ task'[v].key = task[u].key
          \/ ~Pending(task[u].key) /\ key'[task[u].key] = key[task[u].key]
    <3>1. PICK j : j = task[u].key
      BY Zenon
    <3>2. Pending(j)' => \E v \in Tasks : task'[v].pc = "invalidate" /\ task'[v].key = j
      BY Zenon DEF Pending
    <3>3. j \in Keys /\ ~Pending(j)' => ~Pending(j) /\ key'[j] = key[j]
      BY <1>4, <1>6, Zenon
    <3> QED BY <2>3, <3>1, <3>2, <3>3, Zenon
  <2>5. CASE task[u].pc \notin {"grants", "store", "store_usage"}
    BY <1>1, <2>2, <2>5, Zenon DEF LoadOK
  <2>6. CASE \E v \in Tasks : task'[v].pc = "invalidate" /\ task'[v].key = task[u].key
    BY <1>1, <2>2, <2>6, Zenon DEF LoadOK, Pending
  <2>7. CASE ~Pending(task[u].key) /\ key'[task[u].key] = key[task[u].key]
    BY <1>1, <2>2, <2>7, Zenon DEF LoadOK, Agrees, Row
  <2> QED BY <2>4, <2>5, <2>6, <2>7, Zenon
<1>11. CachesFresh'
  <2>1. (\A c \in cache : c.key \in Keys) /\ CachesFresh
    BY Zenon DEF IInv, CachesTyped, KeysInv
  <2>2. \A j \in Keys : Pending(j)' \/ (~Pending(j) /\ key'[j] = key[j])
    BY <1>4, <1>6, Zenon
  <2> QED BY <1>1, <2>1, <2>2, Zenon DEF CachesFresh, Row
<1>12. AccountsStep
  BY AccountsKept, Zenon
<1>13. ChangesOwned'
  BY <1>2, <1>12, ChangesKept, Zenon DEF AccountsStep
<1>14. KeysStep
  BY <1>4, <1>7, <1>8, <1>9, <1>10, <1>11, Zenon DEF KeysStep, KeysInv
<1> QED BY <1>3, <1>12, <1>13, <1>14, StepComposed, Zenon

\* The transaction of a management call.
LEMMA CommitStep ==
  ASSUME IInv, NEW t \in Tasks, Commit(t)
  PROVE  IInv'
<1> DEFINE c == task[t].call
<1>1. c \in Calls /\ task[t].pc = "queued" /\ UNCHANGED <<cacheVars, now>>
  BY CommitCases, Zenon
<1>2. CASE Finish(t) /\ UNCHANGED <<accountVars, keyVars>>
  BY <1>1, <1>2, FinishStep, Zenon
<1>3. CASE /\ c.op = "create_key" /\ Finish(t) /\ UNCHANGED accountVars
           /\ \E k \in Keys : key[k] = Absent /\ CreateKey(k, Kind, c.pol)
  <2>1. c.pol \in Policies
    BY <1>1, <1>3, CallFields, Zenon
  <2> QED BY <1>1, <1>3, <2>1, CreateKeyStep, Zenon
<1>4. CASE /\ c.op \in KeyOps \ {"create_key"} /\ ApplyKey(c) /\ UNCHANGED accountVars
           /\ Possible(c) /\ Goto(t, [pc |-> "invalidate", key |-> c.key])
  <2>1. Row(key[c.key])
    BY <1>4, Zenon DEF Possible, KeyOps
  <2>2. /\ c.key \in Keys /\ secrets' \in Nat
        /\ \E r \in KeyRows \cup {Gone} :
             /\ key' = [key EXCEPT ![c.key] = r]
             /\ Row(r) => (r.pol.mode # "selected" => r.pol.domains = {})
    BY <1>1, <1>4, <2>1, ChangedKeys, Zenon
  <2> QED BY <1>1, <1>4, <2>1, <2>2, KeyChangeStep, Zenon
<1>5. CASE c.op \notin KeyOps /\ Possible(c) /\ ApplyAdmin(c) /\ Finish(t) /\ UNCHANGED keyVars
  <2>1. AccountsStep
    BY <1>1, <1>5, ChangedAccounts, Zenon
  <2>2. Goto(t, Idle)
    BY <1>5, Zenon DEF Finish, Goto
  <2>3. LoadOK(Idle)
    BY IdleTyped, Zenon DEF LoadOK
  <2>4. KeysStep
    BY <1>1, <1>5, <2>2, <2>3, IdleTyped, QuietKeeps, Zenon
  <2>5. ChangesOwned'
    BY <2>1, <2>2, IdleTyped, ChangesKept, Zenon DEF AccountsStep
  <2>6. TasksTyped'
    BY <2>2, IdleTyped, TaskMoves, Zenon DEF IInv
  <2> QED BY <2>1, <2>4, <2>5, <2>6, StepComposed, Zenon
<1> HIDE DEF c
<1> QED BY <1>2, <1>3, <1>4, <1>5, CommitCases, Zenon DEF c

-----------------------------------------------------------------------------
(* What happens without a request. *)

\* Requests that do not move, keys and caches that may: nothing pending
\* changes.
LEMMA OutsideKeeps ==
  ASSUME IInv, UNCHANGED task, SessionsKept
  PROVE  TasksTyped' /\ ChangesOwned' /\ \A k \in Keys : Pending(k)' <=> Pending(k)
<1>1. TasksTyped'
  BY Zenon DEF IInv, TasksTyped
<1>2. ASSUME NEW t \in Tasks, task[t].pc \in {"prove", "change"} PROVE task[t].session \in Sessions
  BY <1>2, TaskFields, Zenon DEF IInv, TasksTyped
<1>3. ChangesOwned'
  BY <1>2, Zenon DEF IInv, AccountsInv, ChangesOwned, SessionsKept, Row
<1> QED BY <1>1, <1>3, Zenon DEF Pending

\* A logout.
LEMMA EndSessionStep ==
  ASSUME IInv, NEW s \in Sessions, EndSession(s), UNCHANGED <<keyVars, cacheVars, now>>
  PROVE  IInv'
<1>1. AccountsStep
  BY EndSessionKeeps, Zenon
<1>2. UNCHANGED <<task, key, secrets, cache, usage, epoch, now>>
  BY Zenon DEF EndSession, keyVars, cacheVars
<1>3. TasksTyped' /\ ChangesOwned'
  BY <1>1, <1>2, OutsideKeeps, Zenon DEF AccountsStep
<1>4. KeysTyped' /\ CachesTyped'
  BY <1>2, Zenon DEF KeysTyped, CachesTyped, IInv
<1>5. GrantsFit' /\ PendingExists' /\ CachesFresh'
  BY <1>2, Zenon DEF KeysInv, GrantsFit, PendingExists, Pending, CachesFresh, Row, IInv
<1>6. LoadsFresh'
  BY <1>2, Zenon DEF KeysInv, Pending, LoadsFresh, LoadOK, Agrees, Row, IInv
<1> QED BY <1>1, <1>3, <1>4, <1>5, <1>6, StepComposed, Zenon DEF KeysStep, KeysInv

\* Time passes.
LEMMA TickStep ==
  ASSUME IInv, Tick
  PROVE  IInv'
<1>1. UNCHANGED <<task, key, secrets, cache, usage, epoch>> /\ UNCHANGED accountVars /\ now' = now + 1
  BY Zenon DEF Tick, keyVars, cacheVars
<1>2. AccountsStep
  BY <1>1, AccountsKept, Zenon
<1>3. TasksTyped' /\ ChangesOwned'
  BY <1>1, <1>2, OutsideKeeps, Zenon DEF AccountsStep
<1>4. CachesTyped'
  BY <1>1 DEF CachesTyped, IInv
<1>5. KeysTyped' /\ KeysInv'
  BY <1>1, Zenon DEF KeysTyped, KeysInv, GrantsFit, PendingExists, Pending,
                     LoadsFresh, LoadOK, Agrees, CachesFresh, Row, IInv
<1> QED BY <1>2, <1>3, <1>4, <1>5, StepComposed, Zenon DEF KeysStep

\* Cache entries run out.
LEMMA CacheExpiresStep ==
  ASSUME IInv, CacheExpires
  PROVE  IInv'
<1>1. UNCHANGED <<task, key, secrets, epoch, now>> /\ UNCHANGED accountVars
  BY Zenon DEF CacheExpires, keyVars
<1>2. CachesTyped /\ CachesFresh
  BY Zenon DEF IInv, KeysInv
<1>3. /\ cache' \subseteq cache
      /\ usage' \in [Keys -> {Absent, "active", "disabled", "revoked"}]
      /\ \A k \in Keys : usage'[k] # Absent => usage'[k] = usage[k]
  BY <1>2, Zenon DEF CacheExpires, CachesTyped
<1>4. AccountsStep
  BY <1>1, AccountsKept, Zenon
<1>5. TasksTyped' /\ ChangesOwned'
  BY <1>1, <1>4, OutsideKeeps, Zenon DEF AccountsStep
<1>6. CachesTyped'
  BY <1>1, <1>2, <1>3, Zenon DEF CachesTyped
<1>7. CachesFresh'
  BY <1>1, <1>2, <1>3, Zenon DEF CachesFresh, Pending, Row
<1>8. KeysTyped' /\ GrantsFit' /\ PendingExists' /\ LoadsFresh'
  BY <1>1, Zenon DEF KeysTyped, KeysInv, GrantsFit, PendingExists, Pending,
                     LoadsFresh, LoadOK, Agrees, Row, IInv
<1> QED BY <1>4, <1>5, <1>6, <1>7, <1>8, StepComposed, Zenon DEF KeysStep, KeysInv

\* A key without its grant of d.
Dropped(row, d) == [row EXCEPT !.pol.domains = @ \ {d}]

\* A domain that is deleted takes grants only from keys with selected domains,
\* of which nothing is cached.
LEMMA DroppedRows ==
  ASSUME NEW row \in KeyRows, NEW d, row.pol.mode # "selected" => row.pol.domains = {}
  PROVE  /\ Dropped(row, d) \in KeyRows /\ Dropped(row, d).status = row.status
         /\ Dropped(row, d).pol.mode = row.pol.mode
         /\ Dropped(row, d).pol.mode # "selected" => Dropped(row, d).pol.domains = {}
         /\ row.pol.mode # "selected" => Dropped(row, d) = row
<1> DEFINE p == [row.pol EXCEPT !.domains = @ \ {d}]
<1>1. row.pol \in PolicyRecords
  BY Zenon DEF KeyRows
<1>2. /\ p \in PolicyRecords /\ p.mode = row.pol.mode
      /\ row.pol.domains = {} => p.domains = {} /\ p = row.pol
  BY <1>1, Zenon DEF PolicyRecords
<1>3. Dropped(row, d) = [row EXCEPT !.pol = p]
  BY <1>1, Zenon DEF KeyRows, PolicyRecords, Dropped
<1> HIDE DEF p
<1> QED BY <1>2, <1>3 DEF KeyRows

\* A domain is deleted, and grants with it.
LEMMA DropDomainStep ==
  ASSUME IInv, NEW d, DropDomain(d)
  PROVE  IInv'
<1>1. UNCHANGED <<task, secrets, cache, usage, epoch, now>> /\ UNCHANGED accountVars
  BY Zenon DEF DropDomain, cacheVars
<1>2. key' = [k \in Keys |-> IF Row(key[k]) THEN [key[k] EXCEPT !.pol.domains = @ \ {d}]
                                             ELSE key[k]]
  BY Zenon DEF DropDomain
<1>3. \A k \in Keys : Row(key[k]) =>
        /\ key'[k] \in KeyRows /\ key'[k].status = key[k].status
        /\ key'[k].pol.mode = key[k].pol.mode
        /\ key'[k].pol.mode # "selected" => key'[k].pol.domains = {}
        /\ key[k].pol.mode # "selected" => key'[k] = key[k]
  <2>1. SUFFICES ASSUME NEW k \in Keys, Row(key[k])
                 PROVE  /\ key'[k] \in KeyRows /\ key'[k].status = key[k].status
                        /\ key'[k].pol.mode = key[k].pol.mode
                        /\ key'[k].pol.mode # "selected" => key'[k].pol.domains = {}
                        /\ key[k].pol.mode # "selected" => key'[k] = key[k]
    OBVIOUS
  <2>2. key[k] \in KeyRows /\ (key[k].pol.mode # "selected" => key[k].pol.domains = {})
    BY <2>1, TypedRows, Zenon DEF IInv, KeysInv, GrantsFit
  <2>3. key'[k] = Dropped(key[k], d)
    BY <1>2, <2>1, Zenon DEF Dropped
  <2>4. /\ Dropped(key[k], d) \in KeyRows /\ Dropped(key[k], d).status = key[k].status
        /\ Dropped(key[k], d).pol.mode = key[k].pol.mode
        /\ Dropped(key[k], d).pol.mode # "selected" => Dropped(key[k], d).pol.domains = {}
        /\ key[k].pol.mode # "selected" => Dropped(key[k], d) = key[k]
    BY <2>2, DroppedRows, Zenon
  <2> QED BY <2>3, <2>4, Zenon
<1>4. \A k \in Keys : ~Row(key[k]) => key'[k] = key[k]
  BY <1>2, Zenon
<1>5. \A k \in Keys : (Row(key'[k]) <=> Row(key[k])) /\ (key'[k] = Absent <=> key[k] = Absent)
  BY <1>3, <1>4, RowsAreRows, Zenon
<1>6. AccountsStep
  BY <1>1, AccountsKept, Zenon
<1>7. /\ TasksTyped' /\ ChangesOwned' /\ \A k \in Keys : Pending(k)' <=> Pending(k)
  BY <1>1, <1>6, OutsideKeeps, Zenon DEF AccountsStep
<1>8. KeysTyped'
  <2>1. \A k \in Keys : key'[k] \in KeyRows \cup {Absent, Gone}
    BY <1>3, <1>4, Zenon DEF IInv, KeysTyped
  <2>2. key' \in [Keys -> KeyRows \cup {Absent, Gone}]
    BY <1>2, <2>1, Zenon
  <2> QED BY <1>1, <2>2, Zenon DEF KeysTyped, IInv
<1>9. CachesTyped'
  BY <1>1, Zenon DEF CachesTyped, IInv
<1>10. GrantsFit'
  BY <1>3, <1>5, Zenon DEF GrantsFit, Row
<1>11. PendingExists'
  BY <1>5, <1>7, Zenon DEF PendingExists, IInv, KeysInv
<1>12. LoadsFresh'
  <2>1. SUFFICES ASSUME NEW u \in Tasks PROVE LoadOK(task[u])'
    BY Zenon DEF LoadsFresh
  <2>2. task'[u] = task[u] /\ task[u] \in TaskRecords /\ LoadOK(task[u])
    BY <1>1, Zenon DEF TasksTyped, IInv, KeysInv, LoadsFresh
  <2>3. task[u].pc \in {"grants", "store", "store_usage"} => task[u].key \in Keys
    BY <2>2, TaskFields, Zenon
  <2>4. ASSUME NEW k \in Keys, NEW row, Agrees(row, k) PROVE Agrees(row, k)'
    <3>1. Row(key[k]) /\ Row(key'[k])
      BY <1>5, <2>4, Zenon DEF Agrees
    <3> QED BY <1>3, <2>4, <3>1, Zenon DEF Agrees, Row
  <2>5. task[u].pc \in {"grants", "store"} =>
          (Agrees(task[u].row, task[u].key) => Agrees(task[u].row, task[u].key)')
    BY <1>1, <2>3, <2>4, Zenon DEF Agrees, Row
  <2>6. task[u].pc = "store_usage" =>
          (Row(key[task[u].key]) => /\ Row(key'[task[u].key])
                                    /\ key'[task[u].key].status = key[task[u].key].status)
    BY <1>3, <1>5, <2>3, Zenon
  <2>7. Pending(task[u].key)' <=> Pending(task[u].key)
    BY <1>1, Zenon DEF Pending
  <2> QED BY <1>1, <2>2, <2>5, <2>6, <2>7, Zenon DEF LoadOK, Row
<1>13. CachesFresh'
  <2>1. (\A c \in cache : c.key \in Keys /\ c.row \in KeyRows) /\ CachesFresh
    BY Zenon DEF IInv, CachesTyped, KeysInv
  <2>2. ASSUME NEW c \in cache, c.row = key[c.key] PROVE c.row = key'[c.key]
    <3>1. Row(key[c.key]) /\ key[c.key].pol.mode # "selected"
      BY <2>1, <2>2, RowsAreRows, Zenon DEF CachesFresh
    <3> QED BY <1>3, <2>1, <2>2, <3>1, Zenon
  <2>3. \A k \in Keys : Row(key[k]) => Row(key'[k]) /\ key'[k].status = key[k].status
    BY <1>3, <1>5, Zenon
  <2> QED BY <1>1, <1>7, <2>1, <2>2, <2>3, Zenon DEF CachesFresh, Row
<1>14. KeysStep
  BY <1>8, <1>9, <1>10, <1>11, <1>12, <1>13, Zenon DEF KeysStep, KeysInv
<1> QED BY <1>6, <1>7, <1>14, StepComposed, Zenon

-----------------------------------------------------------------------------
(* The induction. *)

\* The first account, no session, no key.
LEMMA InitKeeps == Init => IInv
<1> SUFFICES ASSUME Init PROVE IInv
  OBVIOUS
<1> DEFINE root == [role |-> "superadmin", active |-> TRUE, hash |-> 1]
           own == [admin |-> FirstAdmin, live |-> TRUE, proof |-> 1]
           first == [kind |-> Kind, pol |-> FirstPolicy, status |-> "active", secret |-> 1]
<1>1. /\ root \in AdminRows /\ own \in SessionRows /\ first \in KeyRows
      /\ first.pol.mode # "selected" => first.pol.domains = {}
  BY AccessConstants, Zenon DEF AdminRows, SessionRows, KeyRows, Rules
<1>2. Row(root) /\ Row(own) /\ Row(first) /\ ~Row(Absent)
  BY <1>1, RowsAreRows, Zenon
<1>3. PICK other \in {Absent, root} :
        admin = [a \in Admins |-> IF a = FirstAdmin THEN root ELSE other]
  BY Zenon DEF Init
<1>4. /\ session = [s \in Sessions |-> IF s = FirstSession THEN own ELSE Absent]
      /\ key = [k \in Keys |-> IF k = FirstKey THEN first ELSE Absent]
      /\ hashes = 1 /\ secrets = 1 /\ task = [t \in Tasks |-> Idle]
      /\ cache = {} /\ usage = [k \in Keys |-> Absent] /\ epoch = 0 /\ now = 0
  BY Zenon DEF Init
<1>5. /\ root.role = "superadmin" /\ root.active /\ root.hash = 1
      /\ own.admin = FirstAdmin /\ own.proof = 1
  OBVIOUS
<1> HIDE DEF root, own, first
<1>6. AccountsTyped /\ KeysTyped
  BY <1>1, <1>3, <1>4, Zenon DEF AccountsTyped, KeysTyped
<1>7. CachesTyped
  BY <1>4, Zenon DEF CachesTyped
<1>8. TasksTyped /\ \A t \in Tasks : task[t].pc = "idle"
  BY <1>4, IdleTyped, Zenon DEF TasksTyped
<1>9. admin[FirstAdmin] = root
  BY <1>3, AccessConstants, Zenon
<1>10. SessionsOwned
  BY <1>2, <1>4, <1>5, <1>9, Zenon DEF SessionsOwned
<1>11. SuperadminRemains
  BY <1>2, <1>5, <1>9, AccessConstants, Zenon DEF SuperadminRemains, IsRoot
<1>12. ChangesOwned
  BY <1>8, Zenon DEF ChangesOwned
<1>13. GrantsFit
  BY <1>1, <1>2, <1>4, Zenon DEF GrantsFit
<1>14. PendingExists /\ LoadsFresh
  BY <1>8, Zenon DEF PendingExists, Pending, LoadsFresh, LoadOK
<1>15. CachesFresh
  BY <1>4, Zenon DEF CachesFresh
<1> QED BY <1>6, <1>7, <1>8, <1>10, <1>11, <1>12, <1>13, <1>14, <1>15, Zenon
        DEF IInv, AccountsInv, KeysInv

\* A request begins.
LEMMA BeginKeeps ==
  ASSUME IInv, NEW t \in Tasks, Begin(t)
  PROVE  IInv'
<1>1. CASE UNCHANGED <<keyVars, cacheVars, now>> /\ \E a \in Admins : StartLogin(t, a)
  BY <1>1, LoginSteps, Zenon
<1>2. CASE UNCHANGED <<keyVars, cacheVars, now>> /\ \E s \in Sessions : StartChange(t, s)
  BY <1>2, ChangeSteps, Zenon
<1>3. CASE \E n \in 1..secrets : Present(t, n)
  <2>1. PICK n \in 1..secrets : Present(t, n)
    BY <1>3, Zenon
  <2>2. n \in Nat
    BY DEF IInv, KeysTyped
  <2> QED BY <2>1, <2>2, PresentStep, Zenon
<1>4. CASE \E s \in Sessions, c \in Calls : BrowserRequest(t, s, c)
  BY <1>4, RequestSteps, Zenon
<1> QED BY <1>1, <1>2, <1>3, <1>4, Zenon DEF Begin

\* A request goes on.
LEMMA ContinueKeeps ==
  ASSUME IInv, NEW t \in Tasks, Continue(t)
  PROVE  IInv'
<1>1. CASE /\ UNCHANGED <<keyVars, cacheVars, now>>
           /\ (\E right \in BOOLEAN : VerifyLogin(t, right)) \/ FinalizeLogin(t)
  BY <1>1, LoginSteps, Zenon
<1>2. CASE /\ UNCHANGED <<keyVars, cacheVars, now>>
           /\ \E right \in BOOLEAN : ProveChange(t, right)
  BY <1>2, ChangeSteps, Zenon
<1>3. CASE UNCHANGED <<keyVars, cacheVars, now>> /\ (OpenSession(t) \/ CommitChange(t))
  BY <1>3, SessionSteps, Zenon
<1>4. CASE LoadRow(t) \/ LoadGrants(t)
  BY <1>4, LoadRowStep, LoadGrantsStep, Zenon
<1>5. CASE Store(t) \/ \E allowed \in BOOLEAN : StoreUsage(t, allowed)
  BY <1>5, StoreStep, StoreUsageStep, Zenon
<1>6. CASE (\E allowed \in BOOLEAN : RecordUsage(t, allowed)) \/ LoadUsage(t)
  BY <1>6, UsageSteps, Zenon
<1>7. CASE \E c \in Calls : Handle(t, c)
  BY <1>7, RequestSteps, Zenon
<1>8. CASE Commit(t) \/ Invalidate(t)
  BY <1>8, CommitStep, InvalidateStep, Zenon
<1> QED BY <1>1, <1>2, <1>3, <1>4, <1>5, <1>6, <1>7, <1>8, Zenon DEF Continue

\* Every step keeps the invariant.
LEMMA NextKeeps ==
  ASSUME IInv, [Next]_vars
  PROVE  IInv'
<1>1. CASE \E t \in Tasks : Begin(t)
  BY <1>1, BeginKeeps, Zenon
<1>2. CASE \E t \in Tasks : Continue(t)
  BY <1>2, ContinueKeeps, Zenon
<1>3. CASE Outside
  BY <1>3, EndSessionStep, DropDomainStep, CacheExpiresStep, TickStep, Zenon DEF Outside
<1>4. CASE UNCHANGED vars
  <2>1. /\ UNCHANGED <<task, cache, usage, epoch, now>> /\ UNCHANGED accountVars
        /\ UNCHANGED keyVars
    BY <1>4, Zenon DEF vars, cacheVars
  <2>2. UNCHANGED <<admin, session, hashes, key, secrets>>
    BY <2>1, Zenon DEF accountVars, keyVars
  <2>3. AccountsStep
    BY <2>1, AccountsKept, Zenon
  <2>4. TasksTyped' /\ ChangesOwned'
    BY <2>1, <2>3, OutsideKeeps, Zenon DEF AccountsStep
  <2>5. KeysTyped' /\ CachesTyped'
    BY <2>1, <2>2, Zenon DEF KeysTyped, CachesTyped, IInv
  <2>6. GrantsFit' /\ PendingExists' /\ CachesFresh'
    BY <2>1, <2>2, Zenon DEF GrantsFit, PendingExists, Pending, CachesFresh, Row, IInv, KeysInv
  <2>7. LoadsFresh'
    BY <2>1, <2>2, Zenon DEF LoadsFresh, LoadOK, Pending, Agrees, Row, IInv, KeysInv
  <2>8. KeysStep
    BY <2>5, <2>6, <2>7, Zenon DEF KeysStep, KeysInv
  <2> QED BY <2>3, <2>4, <2>8, StepComposed, Zenon
<1> QED BY <1>1, <1>2, <1>3, <1>4, Zenon DEF Next

\* The inductive invariant holds in every reachable state.
THEOREM AccessInvariant == Spec => []IInv
<1>1. IInv /\ [Next]_vars => IInv'
  BY NextKeeps, Zenon
<1> QED BY <1>1, InitKeeps, PTL DEF Spec

\* However demotions, deactivations and deletions of accounts interleave, an
\* active superadmin is left (_ensure_active_superadmin_remains).
THEOREM RootRemainsAlways == Spec => []SuperadminRemains
<1>1. IInv => SuperadminRemains
  BY Zenon DEF IInv, AccountsInv
<1> QED BY <1>1, AccessInvariant, PTL

\* A session that can be used has shown the password that is stored now,
\* whichever resets and changes overtake a login (create_session,
\* change_admin_password, reset_admin_password).
THEOREM SessionsProvenAlways == Spec => []SessionsProven
<1>1. IInv => SessionsProven
  BY Zenon DEF IInv, AccountsInv, SessionsOwned, SessionsProven, SessionLive
<1> QED BY <1>1, AccessInvariant, PTL

\* The caches answer what the database says, but for a key whose change is
\* between its commit and its invalidation (_auth_cache_epoch,
\* _invalidate_key_cache).
THEOREM CacheFreshAlways == Spec => []CacheFresh
<1>1. ASSUME IInv PROVE CacheFresh
  <2>1. SUFFICES ASSUME NEW k \in Keys, \A t \in Tasks : task[t].pc = "invalidate" => task[t].key # k
                 PROVE  /\ \A c \in cache : c.key = k => c.row = key[k]
                        /\ usage[k] # Absent => Row(key[k]) /\ usage[k] = key[k].status
    BY Zenon DEF CacheFresh
  <2>2. ~Pending(k)
    BY <2>1, Zenon DEF Pending
  <2> QED BY <1>1, <2>2, Zenon DEF IInv, KeysInv, CachesFresh
<1> QED BY <1>1, AccessInvariant, PTL

-----------------------------------------------------------------------------
(* What a step may never do. *)

\* The steps that change accounts or keys.
LEMMA StepCases ==
  ASSUME [Next]_vars
  PROVE  \/ UNCHANGED <<accountVars, keyVars>>
         \/ \E t \in Tasks : Commit(t)
         \/ \E t \in Tasks : (OpenSession(t) \/ CommitChange(t)) /\ UNCHANGED keyVars
         \/ UNCHANGED keyVars /\ UNCHANGED task /\ \E s \in Sessions : EndSession(s)
         \/ UNCHANGED accountVars /\ UNCHANGED task /\ \E d \in Domains : DropDomain(d)
<1>1. ASSUME NEW t \in Tasks, Begin(t) PROVE UNCHANGED <<accountVars, keyVars>>
  BY <1>1, Zenon DEF Begin, StartLogin, StartChange, Present, BrowserRequest
<1>2. ASSUME NEW t \in Tasks, Continue(t)
      PROVE  \/ UNCHANGED <<accountVars, keyVars>> \/ Commit(t)
             \/ (OpenSession(t) \/ CommitChange(t)) /\ UNCHANGED keyVars
  <2>1. CASE UNCHANGED <<keyVars, cacheVars, now>>
               /\ \E right \in BOOLEAN : VerifyLogin(t, right) \/ ProveChange(t, right)
    BY <2>1, Zenon DEF VerifyLogin, ProveChange
  <2>2. CASE UNCHANGED <<keyVars, cacheVars, now>> /\ FinalizeLogin(t)
    BY <2>2, Zenon DEF FinalizeLogin
  <2>3. CASE UNCHANGED <<keyVars, cacheVars, now>> /\ (OpenSession(t) \/ CommitChange(t))
    BY <2>3, Zenon
  <2>4. CASE LoadRow(t) \/ LoadGrants(t) \/ Store(t) \/ Invalidate(t)
    BY <2>4, Zenon DEF LoadRow, LoadGrants, Store, Invalidate
  <2>5. CASE \E allowed \in BOOLEAN : RecordUsage(t, allowed) \/ StoreUsage(t, allowed)
    BY <2>5, Zenon DEF RecordUsage, StoreUsage
  <2>6. CASE LoadUsage(t) \/ \E c \in Calls : Handle(t, c)
    BY <2>6, Zenon DEF LoadUsage, Handle
  <2> QED BY <1>2, <2>1, <2>2, <2>3, <2>4, <2>5, <2>6, Zenon DEF Continue
<1>3. ASSUME Outside
      PROVE  \/ UNCHANGED <<accountVars, keyVars>>
             \/ UNCHANGED keyVars /\ UNCHANGED task /\ \E s \in Sessions : EndSession(s)
             \/ UNCHANGED accountVars /\ UNCHANGED task /\ \E d \in Domains : DropDomain(d)
  BY <1>3, Zenon DEF Outside, EndSession, DropDomain, CacheExpires, Tick
<1>4. CASE UNCHANGED vars
  BY <1>4, Zenon DEF vars
<1> QED BY <1>1, <1>2, <1>3, <1>4, Zenon DEF Next

\* A session that cannot be used never becomes usable again, not even when its
\* account is activated again (update_admin).
THEOREM EndedStaysEndedAlways == Spec => EndedStaysEnded
<1>1. ASSUME IInv, [Next]_vars PROVE AccountsStep
  <2>1. CASE UNCHANGED accountVars
    BY <1>1, <2>1, AccountsKept, Zenon
  <2>2. ASSUME NEW t \in Tasks, Commit(t) PROVE AccountsStep
    <3>1. \/ UNCHANGED accountVars
          \/ /\ task[t].call \in Calls /\ Possible(task[t].call)
             /\ task[t].call.op \notin KeyOps /\ ApplyAdmin(task[t].call)
      BY <1>1, <2>2, CommitCases, Zenon
    <3> QED BY <1>1, <3>1, AccountsKept, ChangedAccounts, Zenon
  <2>3. ASSUME NEW t \in Tasks, OpenSession(t) \/ CommitChange(t) PROVE AccountsStep
    BY <1>1, <2>3, OpenSessionKeeps, CommitChangeKeeps, Zenon
  <2>4. ASSUME NEW s \in Sessions, EndSession(s) PROVE AccountsStep
    BY <1>1, <2>4, EndSessionKeeps, Zenon
  <2> QED BY <1>1, <2>1, <2>2, <2>3, <2>4, StepCases, Zenon
<1>2. ASSUME IInv, AccountsStep, NEW s \in Sessions, Row(session[s]), ~SessionLive(s)
      PROVE  ~SessionLive(s)'
  <2>1. ~session[s].live
    BY <1>2, Zenon DEF SessionLive, Active, IInv, AccountsInv, SessionsOwned
  <2>2. Row(session'[s]) => ~session'[s].live
    BY <1>2, <2>1, RowsAreRows, Zenon DEF AccountsStep, SessionsKept, Row
  <2> QED BY <2>2, Zenon DEF SessionLive, Row
<1>3. IInv /\ [Next]_vars =>
        [\A s \in Sessions : Row(session[s]) /\ ~SessionLive(s) => ~SessionLive(s)']_vars
  BY <1>1, <1>2, Zenon
<1> QED BY <1>3, AccessInvariant, PTL DEF Spec, EndedStaysEnded

\* A transaction that goes through is covered by the policy its actor has at
\* that moment.
LEMMA CommitCovered ==
  ASSUME IInv, NEW t \in Tasks, Commit(t), <<accountVars, keyVars>>' # <<accountVars, keyVars>>
  PROVE  CoveredChange(task[t].actor, task[t].call.op)
<1> DEFINE c == task[t].call
           p == CurrentPolicy(task[t].actor)
<1>1. /\ c \in Calls /\ task[t].actor \in Actors
      /\ Authorized(p, c) /\ Possible(c) /\ TargetWithin(p, c)
      /\ \/ /\ c.op = "create_key" /\ UNCHANGED accountVars
            /\ \E k \in Keys : key[k] = Absent /\ CreateKey(k, Kind, c.pol)
         \/ c.op \in KeyOps \ {"create_key"} /\ ApplyKey(c) /\ UNCHANGED accountVars
         \/ c.op \notin KeyOps /\ ApplyAdmin(c) /\ UNCHANGED keyVars
  BY CommitCases, Zenon
<1>2. p # Refused /\ Required(c.op) \subseteq p.scopes /\ p.mode = "all"
  BY <1>1, Zenon DEF Authorized
<1>3. /\ task[t].actor.kind = "key" =>
           /\ Row(key[task[t].actor.id]) /\ key[task[t].actor.id].status = "active"
           /\ p = key[task[t].actor.id].pol
      /\ task[t].actor.kind # "key" =>
           /\ SessionLive(task[t].actor.id)
           /\ p = RolePolicy(admin[session[task[t].actor.id].admin].role)
      /\ p.expires = Never \/ now < p.expires
  BY <1>1, <1>2, LoadedLive, Zenon
<1> HIDE DEF c, p
<1>4. /\ c.op \in KeyOps \ {"create_key"} => KeyWithin(p, key[c.key].pol)
      /\ c.op \in {"create_key", "update_key"} => KeyWithin(p, c.pol)
      /\ c.op \in {"create_admin", "update_admin"} => RoleWithin(p, c.role)
      /\ c.op \notin KeyOps \cup {"create_admin"} => RoleWithin(p, admin[c.admin].role)
  BY <1>1, Zenon DEF TargetWithin
<1>5. DOMAIN key = Keys /\ DOMAIN admin = Admins /\ DOMAIN session = Sessions
  BY Zenon DEF IInv, KeysTyped, AccountsTyped
<1>6. \A k \in Keys : key[k] # key'[k] => /\ Row(key[k]) => KeyWithin(p, key[k].pol)
                                          /\ Row(key'[k]) => KeyWithin(p, key'[k].pol)
  <2>1. CASE c.op = "create_key" /\ \E k \in Keys : key[k] = Absent /\ CreateKey(k, Kind, c.pol)
    <3>1. PICK n \in Keys : key[n] = Absent /\ CreateKey(n, Kind, c.pol)
      BY <2>1, Zenon
    <3>2. \A k \in Keys : /\ k # n => key'[k] = key[k]
                          /\ k = n => key'[k].pol = c.pol
      BY <3>1, Zenon DEF CreateKey, IInv, KeysTyped
    <3> QED BY <1>4, <2>1, <3>1, <3>2, RowsAreRows, Zenon
  <2>2. CASE c.op \in KeyOps \ {"create_key"} /\ ApplyKey(c)
    <3>1. Row(key[c.key])
      BY <1>1, <2>2, Zenon DEF Possible, KeyOps
    <3>2. PICK r \in KeyRows \cup {Gone} :
            /\ key' = [key EXCEPT ![c.key] = r]
            /\ r \in KeyRows => r.pol = (IF c.op = "update_key" THEN c.pol ELSE key[c.key].pol)
      BY <1>1, <2>2, <3>1, ChangedKeys, Zenon
    <3>3. \A k \in Keys : /\ k # c.key => key'[k] = key[k]
                          /\ k = c.key => key'[k] = r
      BY <1>5, <3>2, Zenon
    <3>4. Row(r) => r \in KeyRows
      BY RowsAreRows, Zenon
    <3>5. Row(r) => KeyWithin(p, r.pol)
      BY <1>4, <2>2, <3>2, <3>4, Zenon
    <3> QED BY <1>4, <2>2, <3>3, <3>5, Zenon
  <2>3. CASE UNCHANGED keyVars
    BY <2>3, Zenon DEF keyVars
  <2> QED BY <1>1, <2>1, <2>2, <2>3, Zenon
<1>7. /\ \A a \in Admins : admin[a] # admin'[a] => /\ Row(admin[a]) => RoleWithin(p, admin[a].role)
                                                   /\ Row(admin'[a]) => RoleWithin(p, admin'[a].role)
      /\ \A s \in Sessions : session[s] # session'[s] => RoleWithin(p, admin[session[s].admin].role)
  <2>1. CASE UNCHANGED accountVars
    BY <2>1, Zenon DEF accountVars
  <2>2. CASE c.op \notin KeyOps /\ ApplyAdmin(c)
    <3>1. /\ \A a \in Admins : admin'[a] # admin[a] =>
               /\ Row(admin[a]) => c.op # "create_admin" /\ a = c.admin
               /\ Row(admin'[a]) =>
                    \/ c.op \in {"create_admin", "update_admin"} /\ admin'[a].role = c.role
                    \/ c.op # "create_admin" /\ a = c.admin /\ admin'[a].role = admin[a].role
          /\ \A s \in Sessions : session'[s] # session[s] =>
               c.op # "create_admin" /\ session[s].admin = c.admin
      BY <1>1, <2>2, TouchedAccounts, Zenon
    <3>2. c.op # "create_admin" => RoleWithin(p, admin[c.admin].role)
      BY <1>4, <2>2, Zenon
    <3> QED BY <1>4, <3>1, <3>2, Zenon
  <2> QED BY <1>1, <2>1, <2>2, Zenon
<1>8. /\ \A k \in Changed(key, key') : /\ Row(key[k]) => KeyWithin(p, key[k].pol)
                                       /\ Row(key'[k]) => KeyWithin(p, key'[k].pol)
      /\ \A a \in Changed(admin, admin') : /\ Row(admin[a]) => RoleWithin(p, admin[a].role)
                                           /\ Row(admin'[a]) => RoleWithin(p, admin'[a].role)
      /\ \A s \in Changed(session, session') : RoleWithin(p, admin[session[s].admin].role)
  BY <1>5, <1>6, <1>7, Zenon DEF Changed
<1>9. CASE task[t].actor.kind = "key"
  <2>1. p = key[task[t].actor.id].pol
    BY <1>3, <1>9, Zenon
  <2> QED BY <1>2, <1>3, <1>8, <1>9, <2>1, Zenon DEF CoveredChange, c
<1>10. CASE task[t].actor.kind # "key"
  <2>1. p = RolePolicy(admin[session[task[t].actor.id].admin].role)
    BY <1>3, <1>10, Zenon
  <2> QED BY <1>2, <1>3, <1>8, <1>10, <2>1, Zenon DEF CoveredChange, c
<1> QED BY <1>9, <1>10, Zenon

\* A management change only commits for an actor that is live and whose
\* authority of that moment covers all that the change touches, whatever
\* happened between the request and its transaction
\* (transaction_authorization_principal).
THEOREM ActorCurrentAlways == Spec => ActorCurrent
<1>1. ASSUME IInv, [Next]_vars, NEW t \in Tasks, task[t].pc = "queued", task'[t].pc # "queued",
             <<accountVars, keyVars>>' # <<accountVars, keyVars>>
      PROVE  CoveredChange(task[t].actor, task[t].call.op)
  <2>1. \A u, x : task' = [task EXCEPT ![u] = x] => u = t
    BY <1>1, Zenon DEF IInv, TasksTyped
  <2>2. \A u \in Tasks : Commit(u) => u = t
    BY <2>1, Zenon DEF Commit, Finish, Goto
  <2>3. \A u \in Tasks : OpenSession(u) => u = t /\ task[u].pc = "open"
    BY <2>1, Zenon DEF OpenSession, Finish
  <2>4. \A u \in Tasks : CommitChange(u) => u = t /\ task[u].pc = "change"
    BY <2>1, Zenon DEF CommitChange, Finish
  <2>5. ~UNCHANGED task
    BY <1>1, Zenon
  <2>6. Commit(t)
    BY <1>1, <2>2, <2>3, <2>4, <2>5, StepCases, Zenon
  <2> QED BY <1>1, <2>6, CommitCovered, Zenon
<1>2. IInv /\ [Next]_vars =>
        [\A t \in Tasks :
           task[t].pc = "queued" /\ task'[t].pc # "queued"
             /\ <<accountVars, keyVars>>' # <<accountVars, keyVars>>
           => CoveredChange(task[t].actor, task[t].call.op)]_vars
  BY <1>1, Zenon
<1> QED BY <1>2, AccessInvariant, PTL DEF Spec, ActorCurrent
=============================================================================
