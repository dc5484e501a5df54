---------------------------- MODULE Permissions ----------------------------
(***************************************************************************)
(* The permission rules of src/app/auth/permissions.py: which scopes a     *)
(* role or a kind of API key may hold, when a credential has a scope, when *)
(* the policy of an API key fits inside the policy of the principal that   *)
(* creates or changes it, and which requests a policy admits.              *)
(*                                                                         *)
(* A scope "domains.write" is the pair <<"domains", "write">>.  A policy   *)
(* is a record with the fields of PermissionContext that restrict it:      *)
(*   scopes     set of scopes                                              *)
(*   mode       "none", "selected" or "all" domains; domains: the selected *)
(*   patterns   mailbox patterns, {} for every mailbox                     *)
(*   rate       requests per minute, 0 for no limit                        *)
(*   networks   allowed networks, {} for every address                     *)
(*   expires    expiry time or Never                                       *)
(*   transports subset of {"header", "query"}                              *)
(* A network is the set of addresses in it; a mailbox pattern is           *)
(* [glob, matches]: whether it has a wildcard, and the mailboxes it        *)
(* matches.                                                                *)
(***************************************************************************)
EXTENDS Naturals

CONSTANT Never          \* a policy without an expiry

ASSUME NeverIsNoTime == Never \notin Nat

Reads(resources) == {<<r, "read">> : r \in resources}
Writes(resources) == {<<r, "write">> : r \in resources}

Mail == {"domains", "mailboxes", "messages"}
Watched == {"live", "smtp", "audit", "system"}

PublicScopes == Reads({"public"})
ServiceScopes == PublicScopes \cup Reads(Mail \cup Watched) \cup Writes(Mail)
AdminScopes == ServiceScopes
                 \cup Reads({"api_keys", "admins"})
                 \cup Writes({"system", "api_keys", "admins",
                              "admins.credentials", "admins.sessions"})
ViewerScopes == Reads(Mail \cup Watched \cup {"api_keys", "admins"})

KindScopes == [public |-> PublicScopes, service |-> ServiceScopes,
               admin |-> AdminScopes]
RoleScopes == [viewer |-> ViewerScopes, operator |-> ViewerScopes \cup Writes(Mail),
               superadmin |-> AdminScopes]

\* A write scope implies the read scope of the same resource.
Effective(scopes) == scopes \cup {<<s[1], "read">> : s \in {t \in scopes : t[2] = "write"}}

\* validate_scopes_for_kind: a key has at least one scope, all of its kind.
ValidForKind(kind, scopes) == scopes # {} /\ scopes \subseteq KindScopes[kind]

\* role_permission_context: a human administrator is unrestricted but for the
\* scopes of the role.
RolePolicy(role) ==
  [scopes |-> RoleScopes[role], mode |-> "all", domains |-> {}, patterns |-> {},
   rate |-> 0, networks |-> {}, expires |-> Never, transports |-> {"header", "query"}]

-----------------------------------------------------------------------------
\* delegated_api_key_policy_is_within_principal: rate, networks, expiry and
\* transports of the child key t stay inside those of p.
BoundsWithin(p, t) ==
  /\ p.rate > 0 => t.rate > 0 /\ t.rate <= p.rate
  /\ p.networks # {} =>
       /\ t.networks # {}
       /\ \A child \in t.networks : \E parent \in p.networks : child \subseteq parent
  /\ p.expires # Never => t.expires # Never /\ t.expires <= p.expires
  /\ t.transports \subseteq p.transports

DomainsWithin(p, t) ==
  \/ t.mode = "none"
  \/ t.mode = "all" /\ p.mode = "all"
  \/ t.mode = "selected" /\ \/ p.mode = "all"
                            \/ p.mode = "selected" /\ t.domains \subseteq p.domains
                            \/ p.mode = "none" /\ t.domains = {}

\* A child glob must be one of the caller's own patterns: containment of
\* different globs is not guessed.
PatternsWithin(p, t) ==
  p.patterns # {} =>
    /\ t.patterns # {}
    /\ \A q \in t.patterns :
         \/ q \in p.patterns
         \/ ~q.glob /\ \E parent \in p.patterns : q.matches \subseteq parent.matches

\* api_key_is_within_principal.
KeyWithin(p, t) ==
  /\ BoundsWithin(p, t)
  /\ t.scopes \subseteq Effective(p.scopes)
  /\ DomainsWithin(p, t)
  /\ PatternsWithin(p, t)

\* _assert_role_within_principal.
RoleWithin(p, role) == RoleScopes[role] \subseteq Effective(p.scopes)

-----------------------------------------------------------------------------
\* What a policy admits: the scope check of the handlers, the transport,
\* address and expiry checks of _validate_authentication_record, and
\* ensure_mailbox_access.
DomainAllowed(p, domain) ==
  p.mode = "all" \/ (p.mode = "selected" /\ domain \in p.domains)

MailboxAllowed(p, domain, mailbox) ==
  /\ DomainAllowed(p, domain)
  /\ p.patterns = {} \/ \E q \in p.patterns : mailbox \in q.matches

AddressAllowed(p, address) ==
  p.networks = {} \/ \E n \in p.networks : address \in n

Admits(p, scope, transport, address, time, domain, mailbox) ==
  /\ scope \in Effective(p.scopes)
  /\ transport \in p.transports
  /\ p.expires = Never \/ time < p.expires
  /\ AddressAllowed(p, address)
  /\ MailboxAllowed(p, domain, mailbox)
=============================================================================
