------------------------------ MODULE AuthTokens -------------------------------
(***************************************************************************)
(* Sessions: Login issues a refresh token, Refresh rotates it, Logout      *)
(* revokes it.  Each runs in one transaction.  SQLite runs transactions    *)
(* one at a time; PostgreSQL runs them at READ COMMITTED, so between the   *)
(* row a Refresh reads and the rows it writes others may commit.           *)
(* Access tokens leave no row and passwords no trace here; no code ever    *)
(* disables a user, so every user is active.                               *)
(***************************************************************************)
EXTENDS Naturals, Sequences, FiniteSets
CONSTANTS
    People,         \* users
    Clients,        \* refresh requests in flight
    MaxTokens,      \* bound: rows of auth_refresh_tokens
    MaxTokenFaults  \* bound: failed transactions

ASSUME AuthTokensAssumption == MaxTokens \in Nat /\ MaxTokenFaults \in Nat

VARIABLES
    tokenDb,        \* the backend, "sqlite" or "postgres"
    tokens,         \* auth_refresh_tokens; parent is the token it was rotated from
    refreshing,     \* refreshing[c]: the token request c has read and found good, or 0
    signedOut,      \* history: tokens a logout has revoked
    replayed,       \* history: revoked tokens that were presented again
    tokenFaults

tokenVars == <<tokenDb, tokens, refreshing, signedOut, replayed, tokenFaults>>

TokensInit ==
    /\ tokenDb \in {"sqlite", "postgres"}
    /\ tokens = <<>>
    /\ refreshing = [c \in Clients |-> 0]
    /\ signedOut = {}
    /\ replayed = {}
    /\ tokenFaults = 0

CanBeginAuth == tokenDb = "sqlite" => \A c \in Clients : refreshing[c] = 0
Issued == DOMAIN tokens

\* issueTokens: the row of a new refresh token.
Issue(rows, user, login, parent) ==
    Append(rows, [user |-> user, login |-> login, parent |-> parent,
                  revoked |-> FALSE, expired |-> FALSE])

Login(u) ==
    /\ CanBeginAuth /\ Len(tokens) < MaxTokens
    /\ tokens' = Issue(tokens, u, Len(tokens) + 1, 0)
    /\ UNCHANGED <<tokenDb, refreshing, signedOut, replayed, tokenFaults>>

Expire(t) ==
    /\ ~tokens[t].expired
    /\ tokens' = [tokens EXCEPT ![t].expired = TRUE]
    /\ UNCHANGED <<tokenDb, refreshing, signedOut, replayed, tokenFaults>>

\* Bug: the revocation of the row is not looked at.
Presentable_Revoked(t) == ~tokens[t].expired
\* The row Refresh reads lets it go on.
Presentable(t) == ~tokens[t].revoked /\ ~tokens[t].expired

ReadRefresh(c, t) ==
    /\ CanBeginAuth /\ refreshing[c] = 0
    /\ Presentable(t) /\ Len(tokens) < MaxTokens
    /\ refreshing' = [refreshing EXCEPT ![c] = t]
    /\ UNCHANGED <<tokenDb, tokens, signedOut, replayed, tokenFaults>>

\* A token that is already revoked: Refresh revokes all of the user's tokens and
\* returns ErrRefreshReuseDetected, on which RefreshAuth rolls the transaction back.
PresentRevoked(t) ==
    /\ CanBeginAuth /\ tokens[t].revoked
    /\ replayed' = replayed \cup {t}
    /\ UNCHANGED <<tokenDb, tokens, refreshing, signedOut, tokenFaults>>

\* Bug: the old token is left as it is.
RevokeRefresh_Keep(rows, t) == rows
RevokeRefresh(rows, t) == [rows EXCEPT ![t].revoked = TRUE]

\* The rest of Refresh, in the same transaction: revoke, then issue.
CommitRefresh(c) ==
    LET t == refreshing[c] IN
    /\ t # 0 /\ Len(tokens) < MaxTokens
    /\ tokens' = Issue(RevokeRefresh(tokens, t), tokens[t].user, tokens[t].login, t)
    /\ refreshing' = [refreshing EXCEPT ![c] = 0]
    /\ UNCHANGED <<tokenDb, signedOut, replayed, tokenFaults>>

AbortRefresh(c) ==
    /\ refreshing[c] # 0 /\ tokenFaults < MaxTokenFaults
    /\ tokenFaults' = tokenFaults + 1
    /\ refreshing' = [refreshing EXCEPT ![c] = 0]
    /\ UNCHANGED <<tokenDb, tokens, signedOut, replayed>>

\* LogoutAuth; when the transaction fails the answer is 204 all the same.
Logout(t) ==
    /\ CanBeginAuth
    /\ tokens' = RevokeRefresh(tokens, t)
    /\ signedOut' = signedOut \cup {t}
    /\ UNCHANGED <<tokenDb, refreshing, replayed, tokenFaults>>

TokensNext ==
    \/ \E u \in People : Login(u)
    \/ \E t \in Issued : Expire(t) \/ PresentRevoked(t) \/ Logout(t)
    \/ \E c \in Clients, t \in Issued : ReadRefresh(c, t)
    \/ \E c \in Clients : CommitRefresh(c) \/ AbortRefresh(c)
TokensSpec == TokensInit /\ [][TokensNext]_tokenVars

--------------------------------------------------------------------------------
(* Properties. *)

\* Types; a rotated token belongs to the user and the login of the one it came from.
TokensTypeOK ==
    /\ Len(tokens) <= MaxTokens
    /\ \A t \in Issued :
          /\ tokens[t].user \in People
          /\ tokens[t].parent \in 0..(t - 1)
          /\ tokens[t].parent # 0 =>
                /\ tokens[t].user = tokens[tokens[t].parent].user
                /\ tokens[t].login = tokens[tokens[t].parent].login
    /\ refreshing \in [Clients -> {0} \cup Issued]
    /\ signedOut \subseteq {t \in Issued : tokens[t].revoked}

Live(t) == ~tokens[t].revoked
\* On SQLite a login has one live refresh token at most, whoever refreshes, retries or
\* signs out in whatever order: two requests never both rotate the same token.
OneLiveTokenPerLogin ==
    tokenDb = "sqlite" =>
        \A s, t \in Issued : Live(s) /\ Live(t) /\ tokens[s].login = tokens[t].login => s = t

\* On SQLite a logout that has committed ends the session: no later refresh comes of it.
SignedOutStaysOut ==
    [][tokenDb = "sqlite" =>
          \A t \in DOMAIN tokens' \ Issued : tokens'[t].parent \notin signedOut]_tokenVars

\* What the comment at repo.go:454-455 says: a revoked token that comes back revokes
\* every refresh token of its user.
ReuseRevokesAll ==
    [][\A t \in replayed' \ replayed :
          \A s \in Issued : tokens[s].user = tokens[t].user => tokens'[s].revoked]_tokenVars

\* A login has one live refresh token, and after signing out none.
LoginsAreSound ==
    /\ [](TokensTypeOK /\ OneLiveTokenPerLogin)
    /\ SignedOutStaysOut

--------------------------------------------------------------------------------
(***************************************************************************)
(* API keys of tenants (internal/domain/tenant/apikey.go and the rows in   *)
(* internal/domain/tenant/sqliterepo/repo.go).  A key is found by the      *)
(* first twelve characters of its token, eight of which all tokens share;  *)
(* those are unique within a tenant and not over tenants, and the lookup   *)
(* takes one row of them, whichever the database returns.                  *)
(***************************************************************************)

CONSTANTS
    KeyTenants,         \* tenants
    KeyPrefixes,           \* the first characters of tokens
    Bodies              \* the rest of a token

VARIABLES
    apiKeys,        \* rows, with the token only its holder knows
    keyReply        \* what the last caller was told

apiKeyVars == <<apiKeys, keyReply>>

Tokens == KeyPrefixes \X Bodies
NoKeyReply == [op |-> "none"]

ApiKeysInit == apiKeys = {} /\ keyReply = NoKeyReply

KeyUsable(k) == ~k.revoked /\ ~k.expired

\* UNIQUE (tenant_id, prefix); the token is random, and told once.
IssueApiKey(t, tok) ==
    /\ \A k \in apiKeys : <<k.tenant, k.token[1]>> # <<t, tok[1]>> /\ k.token # tok
    /\ apiKeys' = apiKeys \cup {[tenant |-> t, token |-> tok, revoked |-> FALSE, expired |-> FALSE]}
    /\ keyReply' = [op |-> "issued", tenant |-> t, token |-> tok]

\* Bug: the prefix is taken for the whole token.
Verified_Prefix(tok, k) == tok[1] = k.token[1]
\* VerifyPassword against the hash of the token.
Verified(tok, k) == tok = k.token

\* Bug: expiry is looked at first, and a row without one is accepted.
KeyError_NoRevoke(k) == IF k.expired THEN "expired" ELSE "ok"
KeyError(k) == IF k.revoked THEN "revoked" ELSE IF k.expired THEN "expired" ELSE "ok"

\* The row is read by prefix alone.
AuthenticateApiKey(tok) ==
    /\ LET found == {k \in apiKeys : k.token[1] = tok[1]}
           answer(k) == [op |-> "auth", token |-> tok, tenant |-> k.tenant,
                         said |-> IF Verified(tok, k) THEN KeyError(k) ELSE "unknown"] IN
       \/ found = {} /\ keyReply' = [op |-> "auth", token |-> tok, tenant |-> "none", said |-> "unknown"]
       \/ \E k \in found : keyReply' = answer(k)
    /\ UNCHANGED apiKeys

\* Bug: WHERE id = ?
Owned_Any(t, k) == TRUE
\* WHERE tenant_id = ? AND id = ?
Owned(t, k) == k.tenant = t

\* revoked_at = COALESCE(revoked_at, now), by an admin of tenant t.
RevokeApiKey(t, k) ==
    /\ apiKeys' = IF Owned(t, k) THEN (apiKeys \ {k}) \cup {[k EXCEPT !.revoked = TRUE]} ELSE apiKeys
    /\ keyReply' = [op |-> "revoke", tenant |-> t, token |-> k.token,
                    said |-> IF Owned(t, k) THEN "ok" ELSE "unknown"]

ExpireApiKey(k) ==
    /\ ~k.expired
    /\ apiKeys' = (apiKeys \ {k}) \cup {[k EXCEPT !.expired = TRUE]}
    /\ keyReply' = NoKeyReply

\* ListApiKeys: without the hashes.
ListApiKeys(t) ==
    /\ keyReply' = [op |-> "list", tenant |-> t, rows |-> {k \in apiKeys : Owned(t, k)}]
    /\ UNCHANGED apiKeys

ApiKeysNext ==
    \/ \E t \in KeyTenants, tok \in Tokens : IssueApiKey(t, tok)
    \/ \E tok \in Tokens : AuthenticateApiKey(tok)
    \/ \E t \in KeyTenants, k \in apiKeys : RevokeApiKey(t, k)
    \/ \E k \in apiKeys : ExpireApiKey(k)
    \/ \E t \in KeyTenants : ListApiKeys(t)
ApiKeysSpec == ApiKeysInit /\ [][ApiKeysNext]_apiKeyVars

--------------------------------------------------------------------------------
(* Properties. *)

\* A caller is let in only with the whole token of a key that is live at that moment,
\* and as the tenant the key was issued for, though another tenant's key may share
\* its first characters.
OnlyLiveKeysAuthenticate ==
    [][keyReply' # keyReply /\ keyReply'.op = "auth" /\ keyReply'.said = "ok" =>
          \E k \in apiKeys : k.token = keyReply'.token /\ k.tenant = keyReply'.tenant /\ KeyUsable(k)]_apiKeyVars

\* What a tenant does leaves the keys of the others alone: only a key of the tenant that
\* asked is revoked or listed, and a revoked key never comes back.
KeysStayApart ==
    [][/\ \A k \in apiKeys : \E n \in apiKeys' :
             /\ n.token = k.token /\ n.tenant = k.tenant
             /\ k.revoked => n.revoked
             /\ n.revoked # k.revoked => keyReply'.op = "revoke" /\ keyReply'.tenant = k.tenant
       /\ keyReply'.op = "list" => \A k \in keyReply'.rows : k.tenant = keyReply'.tenant]_apiKeyVars

\* A key opens the door of its own tenant, as long as it lives.
ApiKeysAreSound == OnlyLiveKeysAuthenticate /\ KeysStayApart

\* Not so: a live key is unknown while another tenant has one with its prefix, for
\* the lookup may return that row (repo.go:286).
LiveKeyAuthenticates ==
    [][keyReply' # keyReply /\ keyReply'.op = "auth" /\ keyReply'.said = "unknown" =>
          \A k \in apiKeys : k.token = keyReply'.token => ~KeyUsable(k)]_apiKeyVars
================================================================================
