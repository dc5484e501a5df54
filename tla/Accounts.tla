------------------------------ MODULE Accounts ------------------------------
(***************************************************************************)
(* Administrator accounts and browser sessions (src/app/auth/sessions.py). *)
(*                                                                         *)
(* A password is checked on a worker thread, outside every transaction;    *)
(* what it proved is used by a later transaction of the database writer.   *)
(* Between the two, other requests reset the password, deactivate or       *)
(* delete the account or revoke its sessions.  Each transaction is one     *)
(* step; a task is one HTTP request on its way through these steps.        *)
(*                                                                         *)
(*   admin[a]    [role, active, hash], a row of admins; Absent before it   *)
(*               exists and Gone after: identifiers are never used again.  *)
(*               Hashes are salted: those of one account are all different *)
(*   session[s]  [admin, live, proof], a row of admin_sessions, or Absent, *)
(*               or Gone.  live is false once it is revoked or has expired;*)
(*               proof is the password hash its owner showed the password  *)
(*               of                                                        *)
(*   task[t]     where request t stands                                    *)
(*                                                                         *)
(* Abstracted: the windows of failed logins, which only refuse attempts;   *)
(* user names, which never change; the must_change_password redirect; the  *)
(* length checks of passwords; the queue of the password workers.          *)
(***************************************************************************)
EXTENDS Permissions, FiniteSets

CONSTANTS Admins, Sessions, Tasks,
          Absent, Gone

VARIABLES admin, session, hashes, task

accountVars == <<admin, session, hashes>>

Idle == [pc |-> "idle"]
Finish(t) == task' = [task EXCEPT ![t] = Idle]
Goto(t, state) == task' = [task EXCEPT ![t] = state]

Row(x) == x \notin {Absent, Gone}
Active(a) == Row(admin[a]) /\ admin[a].active

\* The join of admin_sessions and admins that get_session_admin and the
\* transactions use.
SessionLive(s) == Row(session[s]) /\ session[s].live /\ Active(session[s].admin)

-----------------------------------------------------------------------------
\* _revoke_admin_sessions_in_connection.
Revoked(a, except) ==
  [s \in Sessions |->
     IF Row(session[s]) /\ session[s].admin = a /\ s \notin except
       THEN [session[s] EXCEPT !.live = FALSE]
       ELSE session[s]]

IsRoot(row) == Row(row) /\ row.role = "superadmin" /\ row.active

\* Faulty variant: inactive accounts count as well.
RootRemainsInactive(a, next) ==
  IsRoot(admin[a]) /\ ~IsRoot(next) =>
    \E b \in Admins \ {a} : Row(admin[b]) /\ admin[b].role = "superadmin"

\* _ensure_active_superadmin_remains, for an account that becomes next.
RootRemains(a, next) ==
  IsRoot(admin[a]) /\ ~IsRoot(next) => \E b \in Admins \ {a} : IsRoot(admin[b])

\* The effects of the transactions; Access has their preconditions.

\* create_admin.
CreateAdmin(a, role, active) ==
  /\ hashes' = hashes + 1
  /\ admin' = [admin EXCEPT ![a] = [role |-> role, active |-> active, hash |-> hashes + 1]]
  /\ UNCHANGED session

\* Faulty variant: an update that deactivates an account leaves its sessions.
UpdateAdminKeeping(a, role, active) ==
  /\ admin' = [admin EXCEPT ![a].role = role, ![a].active = active]
  /\ UNCHANGED <<session, hashes>>

\* update_admin: deactivation revokes the sessions of the account.
UpdateAdmin(a, role, active) ==
  /\ admin' = [admin EXCEPT ![a].role = role, ![a].active = active]
  /\ session' = IF admin[a].active /\ ~active THEN Revoked(a, {}) ELSE session
  /\ UNCHANGED hashes

\* delete_admin; the foreign key deletes the sessions.
DeleteAdmin(a) ==
  /\ admin' = [admin EXCEPT ![a] = Gone]
  /\ session' = [s \in Sessions |->
                   IF Row(session[s]) /\ session[s].admin = a THEN Gone ELSE session[s]]
  /\ UNCHANGED hashes

\* reset_admin_password.
ResetPassword(a) ==
  /\ hashes' = hashes + 1
  /\ admin' = [admin EXCEPT ![a].hash = hashes + 1]
  /\ session' = Revoked(a, {})

\* revoke_admin_sessions.
RevokeSessions(a) ==
  /\ session' = Revoked(a, {})
  /\ UNCHANGED <<admin, hashes>>

-----------------------------------------------------------------------------
\* authenticate_admin up to the worker.
StartLogin(t, a) ==
  /\ task[t] = Idle
  /\ Goto(t, [pc |-> "verify", user |-> a])
  /\ UNCHANGED accountVars

\* load_and_verify on the worker: right says whether the password presented
\* is the one stored now.
VerifyLogin(t, right) ==
  /\ task[t].pc = "verify"
  /\ LET a == task[t].user IN
     IF right /\ Active(a)
       THEN Goto(t, [pc |-> "finalize", user |-> a, hash |-> admin[a].hash])
       ELSE Finish(t)
  /\ UNCHANGED accountVars

\* The row still is the one the worker read.
StillProves(a, hash) == Active(a) /\ admin[a].hash = hash
StillThere(a, hash) == Active(a)

\* finalize_authentication.
FinalizeLogin(t) ==
  /\ task[t].pc = "finalize"
  /\ LET a == task[t].user IN
     IF StillProves(a, task[t].hash)
       THEN Goto(t, [task[t] EXCEPT !.pc = "open"])
       ELSE Finish(t)
  /\ UNCHANGED accountVars

\* Faulty variant: create_session ignores the password the login proved.
OpenSessionAny(t) ==
  /\ task[t].pc = "open"
  /\ LET a == task[t].user IN
     IF StillThere(a, task[t].hash)
       THEN /\ \E s \in {u \in Sessions : session[u] = Absent} :
                 session' = [session EXCEPT ![s] = [admin |-> a, live |-> TRUE,
                                                    proof |-> task[t].hash]]
            /\ Finish(t)
       ELSE Finish(t) /\ UNCHANGED session
  /\ UNCHANGED <<admin, hashes>>

\* create_session with the hash the login proved.
OpenSession(t) ==
  /\ task[t].pc = "open"
  /\ LET a == task[t].user IN
     IF StillProves(a, task[t].hash)
       THEN /\ \E s \in {u \in Sessions : session[u] = Absent} :
                 session' = [session EXCEPT ![s] = [admin |-> a, live |-> TRUE,
                                                    proof |-> task[t].hash]]
            /\ Finish(t)
       ELSE Finish(t) /\ UNCHANGED session
  /\ UNCHANGED <<admin, hashes>>

-----------------------------------------------------------------------------
\* The password form: the session of the request is live.
StartChange(t, s) ==
  /\ task[t] = Idle
  /\ SessionLive(s)
  /\ Goto(t, [pc |-> "prove", session |-> s, admin |-> session[s].admin])
  /\ UNCHANGED accountVars

\* verify_and_hash on the worker.
ProveChange(t, right) ==
  /\ task[t].pc = "prove"
  /\ LET a == task[t].admin IN
     IF right /\ Active(a)
       THEN Goto(t, [pc |-> "change", session |-> task[t].session, admin |-> a,
                     hash |-> admin[a].hash])
       ELSE Finish(t)
  /\ UNCHANGED accountVars

\* The transaction of change_admin_password: the session still is live and the
\* hash unchanged, or nothing happens.  The other sessions of the account end;
\* this one goes on with the new password.
CommitChange(t) ==
  /\ task[t].pc = "change"
  /\ LET s == task[t].session
         a == task[t].admin IN
     IF SessionLive(s) /\ StillProves(a, task[t].hash)
       THEN /\ hashes' = hashes + 1
            /\ admin' = [admin EXCEPT ![a].hash = hashes + 1]
            /\ session' = [Revoked(a, {s}) EXCEPT ![s].proof = hashes + 1]
       ELSE UNCHANGED accountVars
  /\ Finish(t)

\* logout and revoke_session; a session also ends when it expires.
EndSession(s) ==
  /\ Row(session[s]) /\ session[s].live
  /\ session' = [session EXCEPT ![s].live = FALSE]
  /\ UNCHANGED <<admin, hashes, task>>
=============================================================================
