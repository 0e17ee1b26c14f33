----------------------------- MODULE UserAccess -----------------------------
(***************************************************************************)
(* What gives a user access, and what takes it away: logins, SSO sessions, *)
(* tokens minted from a session, codes, refreshes, single and global       *)
(* logout (revokeAllUserAccess) and the deactivation of an account.        *)
(*                                                                         *)
(* Source: services/{login-issuer,session,user}.service,                   *)
(* routes/{auth,oidc,oauth,user}.routes of packages/auth-service.  Actions *)
(* are the handlers' code up to and including the next awaited call, as in *)
(* TokenGrants, which looks closer at grants: here a row is what its       *)
(* access token says, a code does not expire, and the other ways a row may *)
(* go (code reuse, /oauth/revoke, deletion of a client) are left to it.    *)
(***************************************************************************)
EXTENDS Integers, FiniteSets

CONSTANTS
    Users,          \* User.id
    InternalUsers,  \* those who sign in through LDAP
    Sids,           \* session ids, randomBytes(32)
    RowIds,         \* cuid() values of OAuthToken rows
    Codes,          \* authorization codes
    Requests,       \* slots of concurrently running handlers
    AccessTTL,      \* JWT_ACCESS_TOKEN_EXPIRES_IN
    SessionTTL,     \* SESSION_TTL
    MayFail,        \* the stores whose calls may throw: "db", "redis"
    MaxTime,        \* bound of the clock
    Absent          \* no such key or row

\* An access token is its claims.  "login" stands for the scopes every login
\* and every token of a session gets, "app" for those of an application.
Token == [user: Users, scopes: {"login", "app"}, iat: Nat]
Session == [user: Users, until: Nat]
Code == [user: Users, used: BOOLEAN]

ASSUME AccessTTLAssumption == AccessTTL \in Nat /\ SessionTTL \in Nat
ASSUME AccessUsersAssumption == InternalUsers \subseteq Users
ASSUME AccessBoundAssumption == MaxTime \in Nat
ASSUME AccessFailAssumption == MayFail \subseteq {"db", "redis"}
ASSUME AccessAbsentAssumption ==
    Absent \notin Token \cup Session \cup Code \cup Sids \cup RowIds \cup Codes
ASSUME AccessIdentifierAssumption ==
    Sids \cap RowIds = {} /\ Sids \cap Codes = {} /\ RowIds \cap Codes = {}

VARIABLES
    now,        \* the clock, in seconds of the token claims
    active,     \* User.isActive
    rows,       \* table OAuthToken: the access token of each row
    sessions,   \* Redis keys session:<sid>
    codes,      \* table OAuthAuthorizationCode
    drawn,      \* random identifiers that have been used
    blacklist,  \* Redis keys blacklist:<token>
    held,       \* access tokens some response has carried
    req,        \* the running handlers
    \* history, read by the properties only
    swept,      \* tokens in the rows of a user when a finished revocation began
    ended       \* rows and sessions that existed then

store == <<active, rows, sessions, codes, drawn, blacklist, held>>
history == <<swept, ended>>
vars == <<now, store, req, history>>

-----------------------------------------------------------------------------
(* The shapes a running handler can have.  known and stored record for the *)
(* properties what was there when a revocation began.                      *)

Idle == [at |-> "idle"]
LoginRequest == [at: {"login_store"}, user: Users]
LoginSessionRequest == [at: {"login_session"}, token: Token]
SessionRequest == [at: {"session_user", "session_mint"}, user: Users]
AuthorizeRequest == [at: {"authorize_code"}, user: Users]
ExchangeRequest ==
    [at: {"exchange_mark", "exchange_store"}, user: Users, code: Codes]
RefreshRequest == [at: {"refresh_update"}, row: RowIds, seen: Token]
RevokeRequest ==
    [at: {"revoke_blacklist", "revoke_rows", "revoke_scan", "revoke_sessions"},
     user: Users, tokens: SUBSET Token, found: SUBSET Sids,
     known: SUBSET (Sids \cup RowIds), stored: SUBSET Token]

Request ==
    {Idle} \cup LoginRequest \cup LoginSessionRequest \cup SessionRequest
    \cup AuthorizeRequest \cup ExchangeRequest \cup RefreshRequest \cup RevokeRequest

AccessTypeOK ==
    /\ now \in Nat
    /\ active \in [Users -> BOOLEAN]
    /\ rows \in [RowIds -> Token \cup {Absent}]
    /\ sessions \in [Sids -> Session \cup {Absent}]
    /\ codes \in [Codes -> Code \cup {Absent}]
    /\ drawn \subseteq Sids \cup RowIds \cup Codes
    /\ blacklist \subseteq Token
    /\ held \subseteq Token
    /\ req \in [Requests -> Request]
    /\ swept \subseteq Token
    /\ ended \subseteq Sids \cup RowIds

Init ==
    /\ now = 0
    /\ active = [u \in Users |-> TRUE]
    /\ rows = [i \in RowIds |-> Absent]
    /\ sessions = [s \in Sids |-> Absent]
    /\ codes = [k \in Codes |-> Absent]
    /\ drawn = {}
    /\ blacklist = {}
    /\ held = {}
    /\ req = [r \in Requests |-> Idle]
    /\ swept = {}
    /\ ended = {}

-----------------------------------------------------------------------------
(* Helpers.                                                                *)

\* Defect for the checks: a token without its scopes.
MintUnscoped(u, sc) == [user |-> u, iat |-> now]
Mint(u, sc) == [user |-> u, scopes |-> sc, iat |-> now]

\* jwt.verify: the signature is good, so only exp can refuse the token.
VerifyToken(t) == now < t.iat + AccessTTL

\* The gateway's answer for a token.
Accepted(t) == VerifyToken(t) /\ t \notin blacklist

Stored == {i \in RowIds : rows[i] # Absent}
RowsOf(u) == {i \in Stored : rows[i].user = u}
Alive(s) == sessions[s] # Absent
SessionsOf(u) == {s \in Sids : Alive(s) /\ sessions[s].user = u}

\* The unique index on accessToken.
AccessFree(t, i) == \A j \in Stored \ {i} : rows[j] # t

Continue(r, q) == req' = [req EXCEPT ![r] = q]
Finish(r) == Continue(r, Idle)

-----------------------------------------------------------------------------
(* Login: the credentials (and the MFA and password gates) have passed.    *)
(* Only the local password login reads isActive.                           *)

LoginAuthenticate(r, u) ==
    /\ req[r] = Idle
    /\ u \in InternalUsers \/ active[u]
    /\ Continue(r, [at |-> "login_store", user |-> u])
    /\ UNCHANGED <<now, store, history>>

\* A second login in the same second mints the same access token, and the
\* insert throws while the first one's row is there.
LoginStore(r, i) ==
    LET t == Mint(req[r].user, "login") IN
    /\ req[r].at = "login_store"
    /\ i \notin drawn
    /\ IF AccessFree(t, i)
       THEN /\ rows' = [rows EXCEPT ![i] = t]
            /\ drawn' = drawn \cup {i}
            /\ Continue(r, [at |-> "login_session", token |-> t])
       ELSE /\ UNCHANGED <<rows, drawn>>
            /\ Finish(r)
    /\ UNCHANGED <<now, active, sessions, codes, blacklist, held, history>>

LoginSession(r, s) ==
    LET t == req[r].token IN
    /\ req[r].at = "login_session"
    /\ s \notin drawn
    /\ sessions' = [sessions EXCEPT ![s] = [user |-> t.user, until |-> now + SessionTTL]]
    /\ drawn' = drawn \cup {s}
    /\ held' = held \cup {t}
    /\ Finish(r)
    /\ UNCHANGED <<now, active, rows, codes, blacklist, history>>

-----------------------------------------------------------------------------
(* POST /auth/session/token: session, then user, then a token without row  *)

SessionRead(r, s) ==
    /\ req[r] = Idle
    /\ Alive(s)
    /\ Continue(r, [at |-> "session_user", user |-> sessions[s].user])
    /\ UNCHANGED <<now, store, history>>

SessionUser(r) ==
    LET q == req[r] IN
    /\ q.at = "session_user"
    /\ Continue(r, IF active[q.user] THEN [q EXCEPT !.at = "session_mint"] ELSE Idle)
    /\ UNCHANGED <<now, store, history>>

SessionMint(r) ==
    /\ req[r].at = "session_mint"
    /\ held' = held \cup {Mint(req[r].user, "login")}
    /\ Finish(r)
    /\ UNCHANGED <<now, active, rows, sessions, codes, drawn, blacklist, history>>

-----------------------------------------------------------------------------
(* GET /oauth/authorize and the exchange of the code.  The user comes from *)
(* a Bearer token, of which only the signature is verified, or a session.  *)

Authorize(r, u) ==
    /\ req[r] = Idle
    /\ Continue(r, [at |-> "authorize_code", user |-> u])
    /\ UNCHANGED <<now, store, history>>

AuthorizeBearer(r, t) == VerifyToken(t) /\ Authorize(r, t.user)
AuthorizeSession(r, s) == Alive(s) /\ Authorize(r, sessions[s].user)

AuthorizeCode(r, k) ==
    /\ req[r].at = "authorize_code"
    /\ k \notin drawn
    /\ codes' = [codes EXCEPT ![k] = [user |-> req[r].user, used |-> FALSE]]
    /\ drawn' = drawn \cup {k}
    /\ Finish(r)
    /\ UNCHANGED <<now, active, rows, sessions, blacklist, held, history>>

ExchangeLookup(r, k) ==
    /\ req[r] = Idle
    /\ codes[k] # Absent /\ ~codes[k].used
    /\ Continue(r, [at |-> "exchange_mark", user |-> codes[k].user, code |-> k])
    /\ UNCHANGED <<now, store, history>>

ExchangeMark(r) ==
    LET q == req[r] IN
    /\ q.at = "exchange_mark"
    /\ codes' = [codes EXCEPT ![q.code].used = TRUE]
    /\ Continue(r, [q EXCEPT !.at = "exchange_store"])
    /\ UNCHANGED <<now, active, rows, sessions, drawn, blacklist, held, history>>

ExchangeStore(r, i) ==
    LET t == Mint(req[r].user, "app") IN
    /\ req[r].at = "exchange_store"
    /\ i \notin drawn
    /\ IF AccessFree(t, i)
       THEN /\ rows' = [rows EXCEPT ![i] = t]
            /\ drawn' = drawn \cup {i}
            /\ held' = held \cup {t}
       ELSE UNCHANGED <<rows, drawn, held>>
    /\ Finish(r)
    /\ UNCHANGED <<now, active, sessions, codes, blacklist, history>>

-----------------------------------------------------------------------------
(* oauthService.refreshTokenGrant, for a row that has a refresh token      *)

RefreshLookup(r, i) ==
    /\ req[r] = Idle
    /\ i \in Stored
    /\ Continue(r, [at |-> "refresh_update", row |-> i, seen |-> rows[i]])
    /\ UNCHANGED <<now, store, history>>

\* Defect for the checks: an upsert instead of an update.
RefreshUpsert(r) ==
    LET q == req[r]
        t == Mint(q.seen.user, q.seen.scopes)
    IN
    /\ q.at = "refresh_update"
    /\ rows' = [rows EXCEPT ![q.row] = t]
    /\ held' = held \cup {t}
    /\ Finish(r)
    /\ UNCHANGED <<now, active, sessions, codes, drawn, blacklist, history>>

RefreshUpdate(r) ==
    LET q == req[r]
        t == Mint(q.seen.user, q.seen.scopes)
    IN
    /\ q.at = "refresh_update"
    /\ IF q.row \in Stored /\ AccessFree(t, q.row)
       THEN /\ rows' = [rows EXCEPT ![q.row] = t]
            /\ held' = held \cup {t}
       ELSE UNCHANGED <<rows, held>>
    /\ Finish(r)
    /\ UNCHANGED <<now, active, sessions, codes, drawn, blacklist, history>>

-----------------------------------------------------------------------------
(* revokeAllUserAccess: GET /oauth/logout, a required password change, a   *)
(* directory move and a password change all call it                        *)

\* Defect for the checks: only the rows of logins are read.
TokensOfLogins(u) == {rows[i] : i \in {j \in RowsOf(u) : rows[j].scopes = "login"}}
TokensOf(u) == {rows[i] : i \in RowsOf(u)}

RevokeRead(r, u) ==
    /\ req[r] = Idle
    /\ Continue(r, [at |-> "revoke_blacklist", user |-> u,
                    tokens |-> TokensOf(u), found |-> {},
                    known |-> RowsOf(u) \cup SessionsOf(u),
                    stored |-> {rows[i] : i \in RowsOf(u)}])
    /\ UNCHANGED <<now, store, history>>

\* One SETEX per token that still has time to live, all awaited together.  A
\* Redis that throws leaves some of them undone and ends the handler.
RevokeBlacklist(r) ==
    LET q == req[r]
        keys == {t \in q.tokens : VerifyToken(t)}
    IN
    /\ q.at = "revoke_blacklist"
    /\ \/ /\ blacklist' = blacklist \cup keys
          /\ Continue(r, [q EXCEPT !.at = "revoke_rows"])
       \/ /\ "redis" \in MayFail
          /\ \E done \in SUBSET keys : blacklist' = blacklist \cup done
          /\ Finish(r)
    /\ UNCHANGED <<now, active, rows, sessions, codes, drawn, held, history>>

RevokeRows(r) ==
    LET q == req[r] IN
    /\ q.at = "revoke_rows"
    /\ rows' = [i \in RowIds |-> IF i \in RowsOf(q.user) THEN Absent ELSE rows[i]]
    /\ Continue(r, [q EXCEPT !.at = "revoke_scan"])
    /\ UNCHANGED <<now, active, sessions, codes, drawn, blacklist, held, history>>

\* destroyAllForUser: SCAN and MGET find the keys, which need not include one
\* created meanwhile, and a last DEL removes what was found.
RevokeScan(r) ==
    LET q == req[r] IN
    /\ q.at = "revoke_scan"
    /\ Continue(r, [q EXCEPT !.at = "revoke_sessions", !.found = SessionsOf(q.user)])
    /\ UNCHANGED <<now, store, history>>

RevokeSessions(r) ==
    LET q == req[r] IN
    /\ q.at = "revoke_sessions"
    /\ sessions' = [s \in Sids |-> IF s \in q.found THEN Absent ELSE sessions[s]]
    /\ swept' = swept \cup q.stored
    /\ ended' = ended \cup q.known
    /\ Finish(r)
    /\ UNCHANGED <<now, active, rows, codes, drawn, blacklist, held>>

-----------------------------------------------------------------------------
(* The single steps.                                                       *)

\* POST /auth/logout
Logout(s) ==
    /\ Alive(s)
    /\ sessions' = [sessions EXCEPT ![s] = Absent]
    /\ UNCHANGED <<now, active, rows, codes, drawn, blacklist, held, req, history>>

\* PATCH /users/:id/status and DELETE /users/:id: the flag, nothing else.
SetActive(u, b) ==
    /\ active[u] # b
    /\ active' = [active EXCEPT ![u] = b]
    /\ UNCHANGED <<now, rows, sessions, codes, drawn, blacklist, held, req, history>>

CleanupTokens ==
    /\ \E i \in Stored : rows[i].iat + AccessTTL < now
    /\ rows' = [i \in RowIds |->
                  IF i \in Stored /\ rows[i].iat + AccessTTL < now THEN Absent ELSE rows[i]]
    /\ UNCHANGED <<now, active, sessions, codes, drawn, blacklist, held, req, history>>

\* The blacklist key of t, set with the remaining life of t as its TTL.
KeyLives(t, time) == time < t.iat + AccessTTL

\* A second passes; Redis drops blacklist keys and sessions that run out.
Tick ==
    /\ now < MaxTime
    /\ now' = now + 1
    /\ blacklist' = {t \in blacklist : KeyLives(t, now')}
    /\ sessions' = [s \in Sids |-> IF Alive(s) /\ sessions[s].until <= now'
                                  THEN Absent ELSE sessions[s]]
    /\ UNCHANGED <<active, rows, codes, drawn, held, req, history>>

\* The awaited store call throws and the handler ends with an error.
StoreError(r) ==
    /\ \/ /\ "db" \in MayFail
          /\ req[r].at \in {"login_store", "session_user", "authorize_code",
                            "exchange_mark", "exchange_store", "refresh_update", "revoke_rows"}
       \/ /\ "redis" \in MayFail
          /\ req[r].at \in {"login_session", "revoke_scan", "revoke_sessions"}
    /\ Finish(r)
    /\ UNCHANGED <<now, store, history>>

Start(r) ==
    \/ \E u \in Users : LoginAuthenticate(r, u)
    \/ \E s \in Sids : SessionRead(r, s)
    \/ \E t \in held : AuthorizeBearer(r, t)
    \/ \E s \in Sids : AuthorizeSession(r, s)
    \/ \E k \in Codes : ExchangeLookup(r, k)
    \/ \E i \in RowIds : RefreshLookup(r, i)
    \/ \E u \in Users : RevokeRead(r, u)

Resume(r) ==
    \/ \E i \in RowIds : LoginStore(r, i)
    \/ \E s \in Sids : LoginSession(r, s)
    \/ SessionUser(r)
    \/ SessionMint(r)
    \/ \E k \in Codes : AuthorizeCode(r, k)
    \/ ExchangeMark(r)
    \/ \E i \in RowIds : ExchangeStore(r, i)
    \/ RefreshUpdate(r)
    \/ RevokeBlacklist(r)
    \/ RevokeRows(r)
    \/ RevokeScan(r)
    \/ RevokeSessions(r)
    \/ StoreError(r)

Single ==
    \/ \E s \in Sids : Logout(s)
    \/ \E u \in Users, b \in BOOLEAN : SetActive(u, b)
    \/ CleanupTokens
    \/ Tick

Next == Single \/ \E r \in Requests : Start(r) \/ Resume(r)

Spec == Init /\ [][Next]_vars

-----------------------------------------------------------------------------
(* Properties.                                                             *)

\* Every access token that was in a row of the user when a revocation that
\* has finished began is refused by the gateway, although the revocation
\* runs over five awaited calls and rows are rotated and stored meanwhile
\* (revokeAllUserAccess).
SweptTokensAreRejected == \A t \in swept : ~Accepted(t)

\* Neither a row nor a session of the user from before a finished revocation
\* is there afterwards: no handler in flight writes one back
\* (revokeAllUserAccess against refreshTokenGrant's update by id).
EndedStaysEnded ==
    /\ \A i \in Stored : i \notin ended
    /\ \A s \in Sids : Alive(s) => s \notin ended

\* Stated by the integration guide: a global logout revokes all tokens of the
\* user in all applications.  It is meant for one handler at a time: what the
\* user holds at its end he then held when it began.
GlobalLogoutEndsTokens ==
    [][\A r \in Requests : RevokeSessions(r) =>
           \A t \in held : t.user = req[r].user => ~Accepted(t)]_vars

\* Stated by a comment of /auth/session/token: a deactivated user does not
\* obtain tokens from a cookie issued before; hence /oauth/authorize does not
\* go on to his code either.
InactiveGetsNoCode ==
    [][\A r \in Requests, s \in Sids :
           AuthorizeSession(r, s) => active[sessions[s].user]]_vars

=============================================================================
