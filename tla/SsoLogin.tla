------------------------------- MODULE SsoLogin --------------------------------
(***************************************************************************)
(* Single sign-on: StartLogin stores an attempt under a random state, the  *)
(* identity provider calls back with that state, CompleteLogin finds or    *)
(* makes the user, and the handler replaces the user's bindings of source  *)
(* "sso" by those the user's groups map to.  The whole callback is one     *)
(* transaction.                                                            *)
(*                                                                         *)
(* SQLite runs transactions one at a time.  On PostgreSQL, at READ         *)
(* COMMITTED, the mark of an attempt and the row of an identity wait for   *)
(* the transaction that holds them.  The protocol checks have a part of    *)
(* their own below: here they are one answer of the provider, an identity  *)
(* or a failure.                                                           *)
(***************************************************************************)
EXTENDS Naturals, FiniteSets, Sequences, SequencesExt

CONSTANTS
    Subjects,       \* people at the identity provider; the user made for one has its name
    Groups,         \* their groups
    SsoRoles,       \* roles of the tenant
    DefaultRole,    \* the role of a user that a login makes
    SsoScopes,      \* "tenant" or a fleet
    Attempts,       \* login attempts
    Callbacks,      \* callbacks in flight
    MaxMappings     \* bound: changes of providers, mappings, groups and bindings

ASSUME SsoAssumption == MaxMappings \in Nat /\ DefaultRole \in SsoRoles /\ "tenant" \in SsoScopes

VARIABLES
    ssoDb,          \* the backend, "sqlite" or "postgres"
    provider,       \* "absent", "enabled" or "disabled"
    mapping,        \* sso_group_role_mappings
    groupsOf,       \* external: the groups of each subject
    attempt,        \* sso_login_attempts
    users,          \* subjects with a user of their address
    binding,        \* user_roles: per user and role, a scope and a source
    callback,       \* callback[k]: the transaction of callback k
    completed,      \* history: how often each attempt was completed
    granted,        \* history: per user, the bindings its last login resolved
    failures,       \* history: attempts a callback failed on
    failureLog,     \* audit: attempts with a failed sso.login.completed entry
    mapChanges

ssoVars == <<ssoDb, provider, mapping, groupsOf, attempt, users, binding, callback, completed,
             granted, failures, failureLog, mapChanges>>
ssoConfig == <<provider, mapping, groupsOf, mapChanges>>

NoBinding == [scope |-> "none", source |-> "none"]
NoCallback == [pc |-> "none"]
Bound(scope, source) == [scope |-> scope, source |-> source]

SsoInit ==
    /\ ssoDb \in {"sqlite", "postgres"}
    /\ provider = "enabled"
    /\ mapping = {}
    /\ groupsOf = [s \in Subjects |-> Groups]
    /\ attempt = [a \in Attempts |-> "none"]
    /\ users = {}
    /\ binding = [s \in Subjects |-> [r \in SsoRoles |-> NoBinding]]
    /\ callback = [k \in Callbacks |-> NoCallback]
    /\ completed = [a \in Attempts |-> 0]
    /\ granted = [s \in Subjects |-> {}]
    /\ failures = {}
    /\ failureLog = {}
    /\ mapChanges = 0

CanBeginSso == ssoDb = "sqlite" => \A k \in Callbacks : callback[k] = NoCallback
ChangeSso ==
    /\ CanBeginSso
    /\ mapChanges < MaxMappings /\ mapChanges' = mapChanges + 1
    /\ UNCHANGED <<ssoDb, attempt, users, callback, completed, granted, failures, failureLog>>

--------------------------------------------------------------------------------
(* Configuration. *)

CreateProvider == provider = "absent" /\ provider' \in {"enabled", "disabled"}

CreateSSOProvider ==
    /\ CreateProvider /\ ChangeSso
    /\ UNCHANGED <<mapping, groupsOf, binding>>

UpdateProvider == provider # "absent" /\ provider' \in {"enabled", "disabled"} \ {provider}

UpdateSSOProvider ==
    /\ UpdateProvider /\ ChangeSso
    /\ UNCHANGED <<mapping, groupsOf, binding>>

\* Attempts refer to the provider without ON DELETE: one that was ever used stays.
DeleteProvider ==
    /\ provider # "absent"
    /\ \A a \in Attempts : attempt[a] = "none"
    /\ provider' = "absent" /\ mapping' = {}

DeleteSSOProvider ==
    /\ DeleteProvider /\ ChangeSso
    /\ UNCHANGED <<groupsOf, binding>>

CreateGroupMapping(g, r, scope) ==
    /\ provider # "absent" /\ <<g, r, scope>> \notin mapping
    /\ mapping' = mapping \cup {<<g, r, scope>>}

CreateSSOGroupMapping(g, r, scope) ==
    /\ CreateGroupMapping(g, r, scope) /\ ChangeSso
    /\ UNCHANGED <<provider, groupsOf, binding>>

DeleteGroupMapping(g, r, scope) ==
    <<g, r, scope>> \in mapping /\ mapping' = mapping \ {<<g, r, scope>>}

DeleteSSOGroupMapping(g, r, scope) ==
    /\ DeleteGroupMapping(g, r, scope) /\ ChangeSso
    /\ UNCHANGED <<provider, groupsOf, binding>>

\* The provider's own administration.
ChangeGroups(s) ==
    /\ ChangeSso
    /\ \E gs \in SUBSET Groups : gs # groupsOf[s] /\ groupsOf' = [groupsOf EXCEPT ![s] = gs]
    /\ UNCHANGED <<provider, mapping, binding>>

\* assignRoleScoped with ON CONFLICT (user_id, role_id) DO NOTHING.
Assign(roles, r, b) == IF roles[r] = NoBinding THEN [roles EXCEPT ![r] = b] ELSE roles

\* It waits for a callback that is writing bindings of the user.
AssignManually(s, r, scope) ==
    /\ s \in users /\ ChangeSso
    /\ \A k \in Callbacks : callback[k].pc = "synced" => callback[k].subject # s
    /\ binding' = [binding EXCEPT ![s] = Assign(@, r, Bound(scope, "manual"))]
    /\ UNCHANGED <<provider, mapping, groupsOf>>

\* Someone of the subject's address accepts an invitation.
UserByInvitation(s) ==
    /\ CanBeginSso /\ s \notin users
    /\ \A k \in Callbacks : callback[k].pc = "synced" => callback[k].subject # s
    /\ mapChanges < MaxMappings /\ mapChanges' = mapChanges + 1
    /\ users' = users \cup {s}
    /\ UNCHANGED <<ssoDb, provider, mapping, groupsOf, attempt, binding, callback, completed, granted, failures, failureLog>>

--------------------------------------------------------------------------------
(* The login. *)

StartLogin(a) ==
    /\ provider = "enabled" /\ attempt[a] = "none"
    /\ attempt' = [attempt EXCEPT ![a] = "open"]

StartSSOLogin(a) ==
    /\ StartLogin(a) /\ CanBeginSso
    /\ UNCHANGED <<ssoDb, users, binding, callback, completed, granted, failures, failureLog>>
    /\ UNCHANGED ssoConfig

ExpireAttempt(a) ==
    /\ attempt[a] = "open"
    /\ attempt' = [attempt EXCEPT ![a] = "expired"]
    /\ UNCHANGED <<ssoDb, users, binding, callback, completed, granted, failures, failureLog>>
    /\ UNCHANGED ssoConfig

\* Bug: a state may come back after its login.
Usable_Again(a) == attempt[a] \in {"open", "completed"}
\* findAttemptByState, IsCompleted and IsExpired.  Whether the provider is still
\* enabled is not asked here.
Usable(a) == attempt[a] = "open"

FindAttempt(k, a) ==
    /\ CanBeginSso /\ callback[k] = NoCallback /\ Usable(a)
    /\ callback' = [callback EXCEPT ![k] = [pc |-> "found", attempt |-> a]]
    /\ UNCHANGED <<ssoDb, attempt, users, binding, completed, granted, failures, failureLog>>
    /\ UNCHANGED ssoConfig

\* ResolveBindingsForGroups
Resolved(gs) == {<<m[2], m[3]>> : m \in {n \in mapping : n[1] \in gs}}

\* Bug: every binding of the user is revoked, whatever its source.
Revocable_All(b) == b # NoBinding
\* RevokeUserRoleBindingsBySource
Revocable(b) == b.source = "sso"

\* The row of the attempt is taken and marked, the provider names the subject, whose row
\* of external identities is taken, and the sync reads what it will revoke and add.
Identify(k, s) ==
    /\ callback[k].pc = "found"
    /\ \A j \in Callbacks : callback[j].pc = "synced" =>
          callback[j].attempt # callback[k].attempt /\ callback[j].subject # s
    /\ provider # "absent"
    /\ callback' = [callback EXCEPT ![k] =
          [pc |-> "synced", attempt |-> callback[k].attempt, subject |-> s,
           revoked |-> {r \in SsoRoles : Revocable(binding[s][r])},
           resolved |-> Resolved(groupsOf[s])]]
    /\ UNCHANGED <<ssoDb, attempt, users, binding, completed, granted, failures, failureLog>>
    /\ UNCHANGED ssoConfig

\* A user made by a login has the default role for the whole tenant, as if by hand; one
\* that was there keeps what it has.
Provision(s) ==
    IF s \in users THEN binding[s] ELSE Assign(binding[s], DefaultRole, Bound("tenant", "manual"))

\* Bug: a binding is written without its scope.
Sync_Scopeless(had, revoked, resolved) ==
    [r \in SsoRoles |->
        IF r \in revoked \/ r \in {p[1] : p \in resolved} THEN Bound("unscoped", "sso") ELSE had[r]]
\* Bug: the bindings of an earlier login are left in place.
Sync_NoRevoke(had, revoked, resolved) ==
    [r \in SsoRoles |->
        LET scopes == {p[2] : p \in {q \in resolved : q[1] = r}} IN
        IF had[r] # NoBinding \/ scopes = {} THEN had[r]
        ELSE Bound(CHOOSE scope \in scopes : TRUE, "sso")]
\* syncSSOGroupBindings: of a role's scopes the first one inserted stays.
Sync(had, revoked, resolved) ==
    [r \in SsoRoles |->
        LET left == IF r \in revoked THEN NoBinding ELSE had[r]
            scopes == {p[2] : p \in {q \in resolved : q[1] = r}} IN
        IF left # NoBinding \/ scopes = {} THEN left
        ELSE Bound(CHOOSE scope \in scopes : TRUE, "sso")]

\* The user and the identity are written and the transaction ends.
CommitLogin(k) ==
    LET c == callback[k] IN
    /\ c.pc = "synced"
    /\ attempt' = [attempt EXCEPT ![c.attempt] = "completed"]
    /\ users' = users \cup {c.subject}
    /\ binding' = [binding EXCEPT ![c.subject] = Sync(Provision(c.subject), c.revoked, c.resolved)]
    /\ completed' = [completed EXCEPT ![c.attempt] = @ + 1]
    /\ granted' = [granted EXCEPT ![c.subject] = c.resolved]
    /\ callback' = [callback EXCEPT ![k] = NoCallback]
    /\ UNCHANGED <<ssoDb, failures, failureLog>>
    /\ UNCHANGED ssoConfig

\* Any step fails.  emitCompleted writes its entry in the transaction the handler then
\* rolls back, and with it the mark of the attempt.
FailLogin(k) ==
    /\ callback[k] # NoCallback
    /\ failures' = failures \cup {callback[k].attempt}
    /\ callback' = [callback EXCEPT ![k] = NoCallback]
    /\ UNCHANGED <<ssoDb, attempt, users, binding, completed, granted, failureLog>>
    /\ UNCHANGED ssoConfig

\* The callbacks of both protocols: CompleteLogin and the sync in one transaction.
CompleteSSOLogin(k) ==
    \/ \E a \in Attempts : FindAttempt(k, a)
    \/ \E s \in Subjects : Identify(k, s)
    \/ CommitLogin(k) \/ FailLogin(k)

SsoNext ==
    \/ CreateSSOProvider \/ UpdateSSOProvider \/ DeleteSSOProvider
    \/ \E g \in Groups, r \in SsoRoles, scope \in SsoScopes :
          CreateSSOGroupMapping(g, r, scope) \/ DeleteSSOGroupMapping(g, r, scope)
    \/ \E s \in Subjects, r \in SsoRoles, scope \in SsoScopes : AssignManually(s, r, scope)
    \/ \E s \in Subjects : ChangeGroups(s) \/ UserByInvitation(s)
    \/ \E a \in Attempts : StartSSOLogin(a) \/ ExpireAttempt(a)
    \/ \E k \in Callbacks : CompleteSSOLogin(k)

SsoSpec == SsoInit /\ [][SsoNext]_ssoVars

--------------------------------------------------------------------------------
(* Properties. *)

\* Types; only users a login made have bindings, and a provider with attempts exists.
SsoTypeOK ==
    /\ provider \in {"absent", "enabled", "disabled"}
    /\ mapping \subseteq Groups \X SsoRoles \X SsoScopes
    /\ attempt \in [Attempts -> {"none", "open", "completed", "expired"}]
    /\ \A s \in Subjects, r \in SsoRoles :
          binding[s][r] # NoBinding => s \in users /\ binding[s][r].scope \in SsoScopes
    /\ provider = "absent" => mapping = {} /\ \A a \in Attempts : attempt[a] = "none"

\* On either backend what a user holds through groups is what its last login found for
\* it, however groups and mappings changed and logins were interleaved.
GroupBindingsAreCurrent ==
    \A s \in Subjects, r \in SsoRoles :
        /\ binding[s][r].source = "sso" => <<r, binding[s][r].scope>> \in granted[s]
        /\ (\E scope \in SsoScopes : <<r, scope>> \in granted[s]) => binding[s][r] # NoBinding

\* On SQLite a state completes one login only.
StateUsedOnce == ssoDb = "sqlite" => \A a \in Attempts : completed[a] <= 1

\* On either backend no login takes away or changes a binding an admin made by hand.
ManualBindingsStay ==
    [][\A s \in Subjects, r \in SsoRoles :
          binding[s][r].source = "manual" => binding'[s][r] = binding[s][r]]_ssoVars

\* What the comments at sso.go:183 and bootstrap.go:959 say: a login that fails is in
\* the audit log too.
FailedLoginIsAudited == failures \subseteq failureLog

\* Not so, though sso.go:516 calls the provider's groups the truth: a mapping of the
\* default role to a fleet is lost, because a new user has that role for the tenant.
MappedScopeIsHeld ==
    [][\A s \in Subjects \ users, r \in SsoRoles, scope \in SsoScopes :
          s \in users' /\ granted'[s] # granted[s] /\ granted'[s] = {<<r, scope>>}
             => binding'[s][r].scope = scope]_ssoVars

\* A state completes one login, group bindings follow the latest claims, and
\* bindings given by hand stay.
SsoIsSound ==
    /\ [](SsoTypeOK /\ GroupBindingsAreCurrent /\ StateUsedOnce)
    /\ ManualBindingsStay

--------------------------------------------------------------------------------
(***************************************************************************)
(* The conversation of a login with an OpenID provider                     *)
(* (internal/domain/tenant/sso/oidc.go as CompleteLogin calls it): the     *)
(* address the browser is sent to, the exchange of a code, the keys that   *)
(* are fetched for each token, and the checks on the token.                *)
(*                                                                         *)
(* The provider is external.  It may rotate its keys between any two       *)
(* calls, and its issuer may end in a slash or not, as the configured one  *)
(* may.  Browsers mix up tabs: a callback may carry the state of one       *)
(* login and the code of another.  A refused callback rolls back, and its  *)
(* login may be called back again; what is written then is above.          *)
(***************************************************************************)

CONSTANTS
    OidcLogins,     \* login attempts
    Persons, Nobody,
    MaxJwks         \* bound: keys the provider ever has

ASSUME OidcAssumption == Nobody \notin Persons /\ MaxJwks \in Nat \ {0}

VARIABLES
    idp,            \* how the provider behaves
    jwks,           \* the keys it publishes, in order; it signs with the latest
    nextKey,        \* the key it makes next
    oidcLogin,      \* each login: its status, and who it completed as
    code,           \* who authenticated for a login, and whether the code is spent
    idToken         \* the token a callback holds

oidcVars == <<idp, jwks, nextKey, oidcLogin, code, idToken>>

NoIdToken == [of |-> "none"]
NoCode == [by |-> Nobody, spent |-> FALSE]

OidcInit ==
    \* Discover and the configuration trim slashes; kids: keys and tokens have names;
    \* pkce: the provider checks the challenge; late: clocks are apart by more than
    \* the leeway, so that its tokens have expired.
    /\ idp \in [slash : BOOLEAN, kids : BOOLEAN, pkce : BOOLEAN, late : BOOLEAN]
    /\ jwks = <<1>> /\ nextKey = 2
    /\ oidcLogin = [a \in OidcLogins |-> [status |-> "none", as |-> Nobody]]
    /\ code = [a \in OidcLogins |-> NoCode]
    /\ idToken = [a \in OidcLogins |-> NoIdToken]

Signer == nextKey - 1

\* External: a new key, published before or after the others, and an old one withdrawn.
RotateJwks ==
    /\ nextKey <= MaxJwks
    /\ jwks' \in {<<nextKey>> \o jwks, Append(jwks, nextKey)}
    /\ nextKey' = nextKey + 1
    /\ UNCHANGED <<idp, oidcLogin, code, idToken>>

RetireJwk(i) ==
    /\ jwks[i] # Signer
    /\ jwks' = RemoveAt(jwks, i)
    /\ UNCHANGED <<idp, nextKey, oidcLogin, code, idToken>>

--------------------------------------------------------------------------------
\* BuildAuthURL, with a challenge and a nonce of this login.
BuildAuthURL(a) ==
    /\ oidcLogin[a].status = "none"
    /\ oidcLogin' = [oidcLogin EXCEPT ![a].status = "started"]
    /\ UNCHANGED <<idp, jwks, nextKey, code, idToken>>

\* External: somebody authenticates, and the browser gets a code.
Authenticate(a, p) ==
    /\ oidcLogin[a].status = "started" /\ code[a] = NoCode
    /\ code' = [code EXCEPT ![a].by = p]
    /\ UNCHANGED <<idp, jwks, nextKey, oidcLogin, idToken>>

\* A callback with the state of a and the code of b.  ExchangeCode sends the verifier
\* of a, which the provider may check against the challenge of b.
CanExchange(a, b) ==
    /\ oidcLogin[a].status = "started" /\ idToken[a] = NoIdToken
    /\ code[b].by # Nobody /\ ~code[b].spent
    /\ idp.pkce => a = b

ExchangeCode(a, b) ==
    /\ CanExchange(a, b)
    /\ code' = [code EXCEPT ![b].spent = TRUE]
    /\ idToken' = [idToken EXCEPT ![a] = [of |-> "idp", nonce |-> b, sub |-> code[b].by, key |-> Signer]]
    /\ UNCHANGED <<idp, jwks, nextKey, oidcLogin>>

\* A call of the provider fails.
IdpFails(a) ==
    /\ idToken[a] # NoIdToken
    /\ idToken' = [idToken EXCEPT ![a] = NoIdToken]
    /\ UNCHANGED <<idp, jwks, nextKey, oidcLogin, code>>

\* Bug: the first key of the type is taken, whatever the token names.
SelectKey_First(t) == jwks[1]
\* selectKey over the keys just fetched: the one the token names, or the first of its
\* type if it names none.  0 is no key.
SelectKey(t) ==
    IF ~idp.kids THEN jwks[1]
    ELSE IF t.key \in Range(jwks) THEN t.key ELSE 0

NonceFits_Any(a) == TRUE    \* Bug: the nonce is not compared
NonceFits(a) == idToken[a].nonce = a

\* VerifyIDToken.  The parser wants the configured issuer without its slash, and the
\* token has the issuer of the provider as it is.
Verifies(a) ==
    /\ SelectKey(idToken[a]) = idToken[a].key
    /\ ~idp.slash /\ ~idp.late
    /\ NonceFits(a)

\* CompleteLogin with a code.
VerifyIDToken(a) ==
    /\ idToken[a] # NoIdToken
    /\ oidcLogin' = IF Verifies(a)
                    THEN [oidcLogin EXCEPT ![a] = [status |-> "completed", as |-> idToken[a].sub]]
                    ELSE [oidcLogin EXCEPT ![a].status = "refused"]
    /\ idToken' = [idToken EXCEPT ![a] = NoIdToken]
    /\ UNCHANGED <<idp, jwks, nextKey, code>>

\* The browser calls back once more after a refusal, whose transaction rolled back.
CallBackAgain(a) ==
    /\ oidcLogin[a].status = "refused"
    /\ oidcLogin' = [oidcLogin EXCEPT ![a].status = "started"]
    /\ UNCHANGED <<idp, jwks, nextKey, code, idToken>>

\* CompleteLogin without a code, as when somebody says no at the provider: the attempt
\* is marked and logged as completed, with no identity.
CompleteWithoutCode(a) ==
    /\ oidcLogin[a].status = "started" /\ idToken[a] = NoIdToken
    /\ oidcLogin' = [oidcLogin EXCEPT ![a].status = "completed"]
    /\ UNCHANGED <<idp, jwks, nextKey, code, idToken>>

OidcNext ==
    \/ RotateJwks \/ \E i \in DOMAIN jwks : RetireJwk(i)
    \/ \E a \in OidcLogins :
          \/ BuildAuthURL(a) \/ IdpFails(a) \/ VerifyIDToken(a)
          \/ CallBackAgain(a) \/ CompleteWithoutCode(a)
          \/ \E p \in Persons : Authenticate(a, p)
          \/ \E b \in OidcLogins : ExchangeCode(a, b)

OidcSpec == OidcInit /\ [][OidcNext]_oidcVars

--------------------------------------------------------------------------------
(* Properties. *)

OidcTypeOK ==
    /\ Signer \in Range(jwks) /\ IsInjective(jwks)
    /\ \A a \in OidcLogins : oidcLogin[a].status \in {"none", "started", "refused", "completed"}

\* Whatever tabs are mixed up, and whether or not the provider checks the challenge,
\* a login completes as the one who authenticated for it or as nobody.
IdentityIsOfTheLogin == \A a \in OidcLogins : oidcLogin[a].as \in {Nobody, code[a].by}

\* A token that has a reason to be refused is one that no published key signed, that
\* is of another login, or too old; or whose provider names no keys or ends its issuer
\* in a slash.  A rotation with named keys refuses no login that is under way.
RefusedForCause ==
    [][\A a \in OidcLogins :
          oidcLogin[a].status = "started" /\ oidcLogin'[a].status = "refused" =>
              \/ idToken[a].key \notin Range(jwks)
              \/ idToken[a].nonce # a
              \/ idp.late \/ idp.slash
              \/ ~idp.kids /\ Len(jwks) > 1]_oidcVars

\* Who authenticated is let in, for as long as the provider keeps the key, and nobody else.
OidcIsSound == [](OidcTypeOK /\ IdentityIsOfTheLogin) /\ RefusedForCause

\* Not so: a provider whose issuer ends in a slash is never believed, though
\* oidc.go:367 says that the slash does not matter.
SlashIsIgnored ==
    [][\A a \in OidcLogins :
          idToken[a] # NoIdToken /\ ~idp.late /\ idp.kids /\ idToken[a].nonce = a
            /\ idToken[a].key \in Range(jwks) => oidcLogin'[a].status # "refused"]_oidcVars

\* Not so: a callback without a code completes a login with nobody (repo.go:533).
CompletedIsSomebody ==
    \A a \in OidcLogins : oidcLogin[a].status = "completed" => oidcLogin[a].as # Nobody
================================================================================
