---------------------------- MODULE TokenGrants ----------------------------
(***************************************************************************)
(* The grant side of the SADA OAuth server: authorization codes, the       *)
(* OAuthToken table, the token endpoint (code exchange, refresh, client    *)
(* credentials), /oauth/revoke, the hourly cleanup and the client          *)
(* administration that removes grants.                                     *)
(*                                                                         *)
(* Source: packages/auth-service/src/services/{oauth,token,client}.service *)
(* Every handler is an async function without a database transaction: it   *)
(* runs up to its next awaited store call, and any other handler may run   *)
(* before it resumes.  A request slot r \in Requests holds one running     *)
(* handler; an action is the handler's code up to and including the next   *)
(* awaited call, and req[r] keeps the values the handler has read so far.  *)
(* A step that only ends a request with an error and changes no store is   *)
(* part of the step that finds the error out.                              *)
(***************************************************************************)
EXTENDS Integers, FiniteSets

CONSTANTS
    Users,          \* User.id
    Clients,        \* OAuthClient.id
    Scopes,         \* scope lists a code or a token may carry
    OfflineScopes,  \* those containing offline_access
    RefreshClients, \* clients registered with the refresh_token grant
    MachineClients, \* clients registered with the client_credentials grant
    Codes,          \* values randomBytes(32) may give a code
    RowIds,         \* cuid() values of OAuthToken rows
    Jtis,           \* randomUUID() values of refresh tokens
    Requests,       \* slots of concurrently running handlers
    AccessTTL,      \* JWT_ACCESS_TOKEN_EXPIRES_IN
    RefreshTTL,     \* JWT_REFRESH_TOKEN_EXPIRES_IN
    CodeTTL,        \* OAUTH_AUTHORIZATION_CODE_EXPIRES_IN
    MayFail,        \* the stores whose calls may throw: "db", "redis"
    MaxTime,        \* bound of the clock
    Absent          \* no such row, or a nullable column without a value

(***************************************************************************)
(* A JWT is determined by its claims.  An access token has no jti: two of  *)
(* them minted in one second for one subject and scope list are the same   *)
(* string.  A refresh token has a jti of its own.                          *)
(***************************************************************************)
AccessToken ==
    [kind: {"access"}, sub: Users \cup Clients, scopes: Scopes, iat: Nat]
RefreshToken == [kind: {"refresh"}, jti: Jtis, iat: Nat]
Token == AccessToken \cup RefreshToken

CodeRow == [user: Users, client: Clients, scopes: Scopes,
            expiresAt: Nat, used: BOOLEAN]
TokenRow == [access: AccessToken, refresh: RefreshToken \cup {Absent},
             user: Users \cup {Absent}, client: Clients, scopes: Scopes]

ASSUME TTLAssumption ==
    /\ AccessTTL \in Nat /\ RefreshTTL \in Nat /\ CodeTTL \in Nat
    /\ AccessTTL < RefreshTTL
ASSUME AbsentAssumption ==
    Absent \notin CodeRow \cup TokenRow \cup RefreshToken \cup Users
                  \cup Codes \cup RowIds \cup Jtis
ASSUME IdentifierAssumption ==
    Codes \cap RowIds = {} /\ Codes \cap Jtis = {} /\ RowIds \cap Jtis = {}
ASSUME BoundAssumption == MaxTime \in Nat
ASSUME RequestsAssumption == IsFiniteSet(Requests)
ASSUME FailAssumption == MayFail \subseteq {"db", "redis"}
ASSUME GrantAssumption == OfflineScopes \subseteq Scopes

VARIABLES
    now,        \* the clock, in seconds of the token claims
    clients,    \* table OAuthClient: the registered clients, all active
    codes,      \* table OAuthAuthorizationCode
    rows,       \* table OAuthToken
    drawn,      \* random identifiers that have been used
    blacklist,  \* Redis keys blacklist:<token>
    held,       \* tokens some response has carried
    req,        \* the running handlers
    \* history, read by the properties only
    issued,     \* <<code, row>>: the row was stored for an exchange of the code
    replayed,   \* codes for which reuse was detected and acted upon
    rotations,  \* <<presented, new>> for every refresh that was answered
    revoked     \* tokens whose /oauth/revoke was answered

store == <<clients, codes, rows, drawn, blacklist, held>>
history == <<issued, replayed, rotations, revoked>>
vars == <<now, store, req, history>>

-----------------------------------------------------------------------------
(* The shapes a running handler can have.                                  *)

Idle == [at |-> "idle"]
CodeRequest ==
    [at: {"code_create"}, user: Users, client: Clients, scopes: Scopes]
LookupRequest ==
    [at: {"exchange_lookup"}, caller: Clients, code: Codes, binds: BOOLEAN]
ExchangeRequest ==
    [at: {"exchange_reuse", "exchange_expire", "exchange_mark", "exchange_store"},
     caller: Clients, code: Codes, seen: CodeRow]
MachineRequest == [at: {"machine_store"}, caller: Clients, scopes: Scopes]
RefreshLookupRequest ==
    [at: {"refresh_lookup"}, caller: Clients, token: RefreshToken]
RefreshRequest ==
    [at: {"refresh_expire", "refresh_update"},
     token: RefreshToken, row: RowIds, seen: TokenRow]
RevokeRequest == [at: {"revoke_blacklist"}, token: Token]
DeleteRequest == [at: {"delete_codes", "delete_client"}, client: Clients]

Request ==
    {Idle} \cup CodeRequest \cup LookupRequest \cup ExchangeRequest
    \cup MachineRequest \cup RefreshLookupRequest \cup RefreshRequest
    \cup RevokeRequest \cup DeleteRequest

TypeOK ==
    /\ now \in Nat
    /\ clients \subseteq Clients
    /\ codes \in [Codes -> CodeRow \cup {Absent}]
    /\ rows \in [RowIds -> TokenRow \cup {Absent}]
    /\ drawn \subseteq Codes \cup RowIds \cup Jtis
    /\ blacklist \subseteq Token
    /\ held \subseteq Token
    /\ req \in [Requests -> Request]
    /\ issued \subseteq Codes \X RowIds
    /\ replayed \subseteq Codes
    /\ rotations \subseteq RefreshToken \X RefreshToken
    /\ revoked \subseteq Token

Init ==
    /\ now = 0
    /\ clients = Clients
    /\ codes = [k \in Codes |-> Absent]
    /\ rows = [i \in RowIds |-> Absent]
    /\ drawn = {}
    /\ blacklist = {}
    /\ held = {}
    /\ req = [r \in Requests |-> Idle]
    /\ issued = {}
    /\ replayed = {}
    /\ rotations = {}
    /\ revoked = {}

-----------------------------------------------------------------------------
(* Helpers.                                                                *)

\* The exp claim, and the *ExpiresAt column stored beside the token.
Expiry(t) == t.iat + (IF t.kind = "access" THEN AccessTTL ELSE RefreshTTL)

\* jwt.verify of a token this server signed.
VerifyToken(t) == now < Expiry(t)

GenerateAccessToken(s, sc) ==
    [kind |-> "access", sub |-> s, scopes |-> sc, iat |-> now]
GenerateRefreshToken(j) == [kind |-> "refresh", jti |-> j, iat |-> now]

Stored == {i \in RowIds : rows[i] # Absent}
\* Defect for the checks: delete instead of deleteMany.
RowsOfFirst(u, c) ==
    LET All == {i \in Stored : rows[i].user = u /\ rows[i].client = c}
    IN  IF All = {} THEN {} ELSE {CHOOSE i \in All : TRUE}
RowsOf(u, c) == {i \in Stored : rows[i].user = u /\ rows[i].client = c}
\* Defect for the checks: deleteMany looks at the accessToken column only.
RowsHoldingAccess(t) == {i \in Stored : rows[i].access = t}
RowsHolding(t) == {i \in Stored : rows[i].access = t \/ rows[i].refresh = t}

\* prisma deleteMany on a table: the rows in S go.
Without(table, S) == [x \in DOMAIN table |-> IF x \in S THEN Absent ELSE table[x]]

\* The unique index on accessToken admits token t for row i.
AccessFree(t, i) == \A j \in Stored \ {i} : rows[j].access # t

\* What the indexes and foreign keys of OAuthToken admit as new row i.
\* Defect for the checks: the relation to OAuthClient is not enforced.
RowAdmittedUnrelated(i, row) == AccessFree(row.access, i)
RowAdmitted(i, row) == AccessFree(row.access, i) /\ row.client \in clients

\* clientService.validateCredentials, for a caller with the right secret.
ValidateCredentials(c) == c \in clients

\* The tokens of a row that a response carries.
Delivered(row) == {row.access, row.refresh} \ {Absent}

\* Request r moves on to state q, or ends.
Continue(r, q) == req' = [req EXCEPT ![r] = q]
Finish(r) == Continue(r, Idle)

-----------------------------------------------------------------------------
(* oauthService.generateAuthorizationCode                                  *)

\* The client row is read and checked; redirect URI and scopes are inputs
\* that pass, the scopes being what is left after downscoping.
GenerateCode(r, u, c, sc) ==
    /\ req[r] = Idle
    /\ c \in clients
    /\ Continue(r, [at |-> "code_create", user |-> u, client |-> c, scopes |-> sc])
    /\ UNCHANGED <<now, store, history>>

CreateCode(r, k) ==
    LET q == req[r] IN
    /\ q.at = "code_create"
    /\ k \notin drawn
    /\ IF q.client \in clients
       THEN /\ codes' = [codes EXCEPT ![k] =
                   [user |-> q.user, client |-> q.client, scopes |-> q.scopes,
                    expiresAt |-> now + CodeTTL, used |-> FALSE]]
            /\ drawn' = drawn \cup {k}
       ELSE UNCHANGED <<codes, drawn>>
    /\ Finish(r)
    /\ UNCHANGED <<now, clients, rows, blacklist, held, history>>

-----------------------------------------------------------------------------
(* oauthService.exchangeAuthorizationCode.  binds says whether the request *)
(* carries the code's redirect URI and a fitting PKCE verifier.            *)

ExchangeAuthenticate(r, c, k, b) ==
    /\ req[r] = Idle
    /\ k \in drawn
    /\ ValidateCredentials(c)
    /\ Continue(r, [at |-> "exchange_lookup", caller |-> c, code |-> k, binds |-> b])
    /\ UNCHANGED <<now, store, history>>

\* Defect for the checks: the used flag is not looked at.
LookupVerdictUnflagged(row, binds) ==
    IF row = Absent THEN "idle"
    ELSE IF row.expiresAt < now THEN "exchange_expire"
    ELSE IF ~binds THEN "idle"
    ELSE "exchange_mark"

\* What the handler does next with the code row it read.
LookupVerdict(row, binds) ==
    IF row = Absent THEN "idle"
    ELSE IF row.used THEN "exchange_reuse"
    ELSE IF row.expiresAt < now THEN "exchange_expire"
    ELSE IF ~binds THEN "idle"
    ELSE "exchange_mark"

ExchangeLookup(r) ==
    LET q == req[r]
        row == codes[q.code]
        next == LookupVerdict(row, q.binds)
    IN
    /\ q.at = "exchange_lookup"
    /\ Continue(r, IF next = "idle" THEN Idle
                   ELSE [at |-> next, caller |-> q.caller, code |-> q.code, seen |-> row])
    /\ UNCHANGED <<now, store, history>>

\* A used code was presented: drop the rows of its user and client.
ExchangeReuse(r) ==
    LET q == req[r] IN
    /\ q.at = "exchange_reuse"
    /\ rows' = Without(rows, RowsOf(q.seen.user, q.seen.client))
    /\ replayed' = replayed \cup {q.code}
    /\ Finish(r)
    /\ UNCHANGED <<now, clients, codes, drawn, blacklist, held,
                   issued, rotations, revoked>>

ExchangeExpire(r) ==
    LET q == req[r] IN
    /\ q.at = "exchange_expire"
    /\ codes' = Without(codes, {q.code})
    /\ Finish(r)
    /\ UNCHANGED <<now, clients, rows, drawn, blacklist, held, history>>

\* update ... used: true by id.  It throws when the row is gone; it does not
\* look at the flag again.
ExchangeMark(r) ==
    LET q == req[r] IN
    /\ q.at = "exchange_mark"
    /\ IF codes[q.code] = Absent
       THEN /\ UNCHANGED codes
            /\ Finish(r)
       ELSE /\ codes' = [codes EXCEPT ![q.code].used = TRUE]
            /\ Continue(r, [q EXCEPT !.at = "exchange_store"])
    /\ UNCHANGED <<now, clients, rows, drawn, blacklist, held, history>>

IssuesRefresh(sc, c) == sc \in OfflineScopes \/ c \in RefreshClients

\* The refresh token of a response, when the handler issues one.
MintRefresh(j) == IF j = Absent THEN Absent ELSE GenerateRefreshToken(j)
FreshJti(issue) == IF issue THEN Jtis \ drawn ELSE {Absent}

\* tokenService.storeToken of freshly minted tokens, and the answer.  The
\* insert fails on the unique access token or on a deleted client; then the
\* request ends with an error and nothing is stored.
StoreToken(i, j, row) ==
    IF RowAdmitted(i, row)
    THEN /\ rows' = [rows EXCEPT ![i] = row]
         /\ drawn' = drawn \cup ({i, j} \ {Absent})
         /\ held' = held \cup Delivered(row)
    ELSE UNCHANGED <<rows, drawn, held>>

\* The row belongs to the calling client, the token to the code's user.
ExchangeStore(r, i, j) ==
    LET q == req[r]
        sc == q.seen.scopes
    IN
    /\ q.at = "exchange_store"
    /\ i \notin drawn
    /\ j \in FreshJti(IssuesRefresh(sc, q.caller))
    /\ StoreToken(i, j, [access |-> GenerateAccessToken(q.seen.user, sc),
                         refresh |-> MintRefresh(j), user |-> q.seen.user,
                         client |-> q.caller, scopes |-> sc])
    /\ issued' = IF i \in drawn' THEN issued \cup {<<q.code, i>>} ELSE issued
    /\ Finish(r)
    /\ UNCHANGED <<now, clients, codes, blacklist, replayed, rotations, revoked>>

-----------------------------------------------------------------------------
(* oauthService.clientCredentialsGrant                                     *)

MachineAuthenticate(r, c, sc) ==
    /\ req[r] = Idle
    /\ ValidateCredentials(c)
    /\ c \in MachineClients
    /\ Continue(r, [at |-> "machine_store", caller |-> c, scopes |-> sc])
    /\ UNCHANGED <<now, store, history>>

MachineStore(r, i) ==
    LET q == req[r] IN
    /\ q.at = "machine_store"
    /\ i \notin drawn
    /\ StoreToken(i, Absent, [access |-> GenerateAccessToken(q.caller, q.scopes),
                              refresh |-> Absent, user |-> Absent,
                              client |-> q.caller, scopes |-> q.scopes])
    /\ Finish(r)
    /\ UNCHANGED <<now, clients, codes, blacklist, history>>

-----------------------------------------------------------------------------
(* oauthService.refreshTokenGrant                                          *)

RefreshAuthenticate(r, c, f) ==
    /\ req[r] = Idle
    /\ f \in held \cap RefreshToken
    /\ ValidateCredentials(c)
    /\ Continue(r, [at |-> "refresh_lookup", caller |-> c, token |-> f])
    /\ UNCHANGED <<now, store, history>>

\* findUnique by the refresh token, the owner check and the expiry check.
RefreshLookup(r) ==
    LET q == req[r]
        Found == {i \in Stored : rows[i].refresh = q.token /\ rows[i].client = q.caller}
    IN
    /\ q.at = "refresh_lookup"
    /\ \/ /\ Found = {}
          /\ Finish(r)
       \/ \E i \in Found :
            Continue(r, [at |-> IF Expiry(q.token) < now
                                THEN "refresh_expire" ELSE "refresh_update",
                         token |-> q.token, row |-> i, seen |-> rows[i]])
    /\ UNCHANGED <<now, store, history>>

RefreshExpire(r) ==
    LET q == req[r] IN
    /\ q.at = "refresh_expire"
    /\ rows' = Without(rows, {q.row})
    /\ Finish(r)
    /\ UNCHANGED <<now, clients, codes, drawn, blacklist, held, history>>

Subject(row) == IF row.user = Absent THEN row.client ELSE row.user

\* The update of the token and expiry columns.
\* Defect for the checks: the refreshToken column is left out of it.
RotateAccessOnly(row, access, new) == [row EXCEPT !.access = access]
Rotate(row, access, new) == [row EXCEPT !.access = access, !.refresh = new]

\* Defect for the checks: an upsert instead of an update.
RefreshUpsert(r, j) ==
    LET q == req[r]
        access == GenerateAccessToken(Subject(q.seen), q.seen.scopes)
        new == GenerateRefreshToken(j)
    IN
    /\ q.at = "refresh_update"
    /\ j \in Jtis \ drawn
    /\ rows' = [rows EXCEPT ![q.row] = Rotate(q.seen, access, new)]
    /\ drawn' = drawn \cup {j}
    /\ Finish(r)
    /\ UNCHANGED <<now, clients, codes, blacklist, held, history>>

\* update by id with a fresh pair, and the answer.  It throws when the row is
\* gone or another row holds the new access token.
RefreshUpdate(r, j) ==
    LET q == req[r]
        access == GenerateAccessToken(Subject(q.seen), q.seen.scopes)
        new == GenerateRefreshToken(j)
    IN
    /\ q.at = "refresh_update"
    /\ j \in Jtis \ drawn
    /\ IF q.row \in Stored /\ AccessFree(access, q.row)
       THEN /\ rows' = [rows EXCEPT ![q.row] = Rotate(@, access, new)]
            /\ drawn' = drawn \cup {j}
            /\ held' = held \cup {access, new}
            /\ rotations' = rotations \cup {<<q.token, new>>}
       ELSE UNCHANGED <<rows, drawn, held, rotations>>
    /\ Finish(r)
    /\ UNCHANGED <<now, clients, codes, blacklist, issued, replayed, revoked>>

-----------------------------------------------------------------------------
(* oauthService.revokeToken: delete the row, then blacklist the token      *)

RevokeDelete(r, t) ==
    /\ req[r] = Idle
    /\ t \in held
    /\ rows' = Without(rows, RowsHolding(t))
    /\ Continue(r, [at |-> "revoke_blacklist", token |-> t])
    /\ UNCHANGED <<now, clients, codes, drawn, blacklist, held, history>>

\* An expired token and a Redis that throws end in the same empty catch: the
\* request is answered as a success without a blacklist entry.
RevokeBlacklist(r) ==
    LET t == req[r].token IN
    /\ req[r].at = "revoke_blacklist"
    /\ \/ blacklist' = IF VerifyToken(t) THEN blacklist \cup {t} ELSE blacklist
       \/ "redis" \in MayFail /\ UNCHANGED blacklist
    /\ revoked' = revoked \cup {t}
    /\ Finish(r)
    /\ UNCHANGED <<now, clients, codes, rows, drawn, held,
                   issued, replayed, rotations>>

-----------------------------------------------------------------------------
(* tokenService.cleanupExpiredTokens: two independent statements of one    *)
(* Promise.all, run by the hourly timer                                    *)

CleanupTokens ==
    /\ rows' = Without(rows, {i \in Stored : Expiry(rows[i].access) < now})
    /\ rows' # rows
    /\ UNCHANGED <<now, clients, codes, drawn, blacklist, held, req, history>>

\* Defects for the checks: used codes are purged at once, or never.
PurgeableOrUsed(row) == row.used \/ row.expiresAt < now
PurgeableUnlessUsed(row) == ~row.used /\ row.expiresAt < now
Purgeable(row) == row.expiresAt < now

CleanupCodes ==
    /\ codes' = Without(codes, {k \in Codes : codes[k] # Absent /\ Purgeable(codes[k])})
    /\ codes' # codes
    /\ UNCHANGED <<now, clients, rows, drawn, blacklist, held, req, history>>

-----------------------------------------------------------------------------
(* clientService.delete: tokens, codes, then the client                    *)

ClientRows(c) == {i \in Stored : rows[i].client = c}
ClientCodes(c) == {k \in Codes : codes[k] # Absent /\ codes[k].client = c}

DeleteClientTokens(r, c) ==
    /\ req[r] = Idle
    /\ c \in clients
    /\ rows' = Without(rows, ClientRows(c))
    /\ Continue(r, [at |-> "delete_codes", client |-> c])
    /\ UNCHANGED <<now, clients, codes, drawn, blacklist, held, history>>

DeleteClientCodes(r) ==
    LET q == req[r] IN
    /\ q.at = "delete_codes"
    /\ codes' = Without(codes, ClientCodes(q.client))
    /\ Continue(r, [q EXCEPT !.at = "delete_client"])
    /\ UNCHANGED <<now, clients, rows, drawn, blacklist, held, history>>

\* The schema's ON DELETE CASCADE takes what arrived since the first steps.
DeleteClientRow(r) ==
    LET c == req[r].client IN
    /\ req[r].at = "delete_client"
    /\ clients' = clients \ {c}
    /\ rows' = Without(rows, ClientRows(c))
    /\ codes' = Without(codes, ClientCodes(c))
    /\ Finish(r)
    /\ UNCHANGED <<now, drawn, blacklist, held, history>>

-----------------------------------------------------------------------------
\* The blacklist key of t, set with the remaining life of t as its TTL.
\* Defect for the checks: the TTL is always an access token's.
KeyLivesAccessTTL(t, time) == time < t.iat + AccessTTL
KeyLives(t, time) == time < Expiry(t)

\* A second passes, and Redis drops the keys whose TTL has run out.
Tick ==
    /\ now < MaxTime
    /\ now' = now + 1
    /\ blacklist' = {t \in blacklist : KeyLives(t, now')}
    /\ UNCHANGED <<clients, codes, rows, drawn, held, req, history>>

\* The awaited database call throws: the handler ends with an error, and what
\* its earlier calls changed stays.
DatabaseError(r) ==
    /\ "db" \in MayFail
    /\ req[r].at \notin {"idle", "revoke_blacklist"}
    /\ Finish(r)
    /\ UNCHANGED <<now, store, history>>

\* The handlers started by a call.
Start(r) ==
    \/ \E u \in Users, c \in Clients, sc \in Scopes : GenerateCode(r, u, c, sc)
    \/ \E c \in Clients, k \in Codes, b \in BOOLEAN : ExchangeAuthenticate(r, c, k, b)
    \/ \E c \in Clients, sc \in Scopes : MachineAuthenticate(r, c, sc)
    \/ \E c \in Clients, f \in held : RefreshAuthenticate(r, c, f)
    \/ \E t \in held : RevokeDelete(r, t)
    \/ \E c \in Clients : DeleteClientTokens(r, c)

\* The handlers resumed by the answer of the store they await.
Resume(r) ==
    \/ \E k \in Codes : CreateCode(r, k)
    \/ ExchangeLookup(r)
    \/ ExchangeReuse(r)
    \/ ExchangeExpire(r)
    \/ ExchangeMark(r)
    \/ \E i \in RowIds, j \in Jtis \cup {Absent} : ExchangeStore(r, i, j)
    \/ \E i \in RowIds : MachineStore(r, i)
    \/ RefreshLookup(r)
    \/ RefreshExpire(r)
    \/ \E j \in Jtis : RefreshUpdate(r, j)
    \/ RevokeBlacklist(r)
    \/ DeleteClientCodes(r)
    \/ DeleteClientRow(r)
    \/ DatabaseError(r)

Background ==
    \/ CleanupTokens
    \/ CleanupCodes
    \/ Tick

Next == Background \/ \E r \in Requests : Start(r) \/ Resume(r)

Spec == Init /\ [][Next]_vars

\* setInterval keeps the cleanup going and time passes.  Nothing is assumed of
\* the handlers: neither that they are called nor that their stores answer.
FairSpec == Spec /\ WF_vars(CleanupCodes) /\ WF_vars(Tick)

-----------------------------------------------------------------------------
(* Refinement: rows are grants of the ledger.                              *)

Ledger == INSTANCE GrantLedger WITH
    Grants <- RowIds,
    Owners <- (Users \cup {Absent}) \X Clients \X Scopes,
    Tokens <- Jtis,
    NoToken <- Absent,
    grant <- [i \in RowIds |->
        IF i \in Stored
        THEN [status |-> "open",
              owner |-> <<rows[i].user, rows[i].client, rows[i].scopes>>,
              current |-> IF rows[i].refresh = Absent THEN Absent
                          ELSE rows[i].refresh.jti]
        ELSE [status |-> IF i \in drawn THEN "ended" ELSE "unused"]],
    seen <- drawn \cap Jtis

\* The token table implements the ledger: whatever order the handlers' steps
\* take, a revoked or removed row never comes back, a row is never rotated to
\* a token used before and never changes its user, client or scopes.  It is
\* what refreshTokenGrant's update by id, rather than an upsert, provides.
LedgerRefined == Ledger!LedgerSpec

-----------------------------------------------------------------------------
(* Properties.                                                             *)

\* A refresh token that has been exchanged is in no row from then on, even
\* when several refreshes of the same token were in flight
\* (refreshTokenGrant, update by id).
SpentTokensAreDead ==
    \A p \in rotations : \A i \in Stored : rows[i].refresh # p[1]

\* Once /oauth/revoke has answered for a refresh token, no row holds it:
\* exchanges and refreshes in flight cannot bring it back.
RevokedRefreshIsDead ==
    \A t \in revoked \cap RefreshToken : \A i \in Stored : rows[i].refresh # t

\* Once /oauth/revoke has answered for a token, the blacklist holds it for as
\* long as its signature is accepted: the key's TTL does not end too early.
RevokedTokenIsRejected ==
    \A t \in revoked : t \in blacklist \/ ~VerifyToken(t)

\* Rows and codes never outlive their client, although clientService.delete
\* removes them in three steps with exchanges in flight between them.
NoOrphans ==
    /\ \A i \in Stored : rows[i].client \in clients
    /\ \A k \in Codes : codes[k] # Absent => codes[k].client \in clients

\* The requests that have passed the single-use check of code k.
Redeeming(k) ==
    {r \in Requests : /\ req[r].at \in {"exchange_mark", "exchange_store"}
                      /\ req[r].code = k}

\* The rows an exchange of code k has stored.
Redeemed(k) == {p \in issued : p[1] = k}

\* A code is redeemed no more often than the server runs handlers side by side:
\* the exchanges that raced past the check of the used flag are all there will
\* ever be, whoever fails between check, mark and insert, and whatever deletes
\* the code's row afterwards (exchangeAuthorizationCode; that it is redeemed
\* once, CodeIsSingleUse below, is more than the code gives).
RedemptionsBounded ==
    \A k \in Codes :
        Cardinality(Redeemed(k)) + Cardinality(Redeeming(k)) <= Cardinality(Requests)

\* A used code stays in the table, still marked, until it expires or its
\* client is being deleted; before that every replay of it is recognised.
UsedCodeIsRemembered ==
    [][\A k \in Codes :
        (codes[k] # Absent /\ codes[k].used /\ codes'[k] # codes[k]) =>
            /\ codes'[k] = Absent
            /\ \/ codes[k].expiresAt < now
               \/ \E r \in Requests : /\ req[r].at \in {"delete_codes", "delete_client"}
                                      /\ req[r].client = codes[k].client]_vars

\* A recognised replay leaves no row of the code's user and client that an
\* exchange of the code has stored, however many exchanges raced past the check
\* and however often their rows were rotated since; rows not yet stored escape it
\* (ReplayRevokesIssued below).
ReplayRevokesStored ==
    [][\A r \in Requests : ExchangeReuse(r) =>
        \A p \in issued :
            (p[1] = req[r].code /\ p[2] \in Stored') =>
                rows'[p[2]].client # req[r].seen.client]_vars

\* A code that expires within the modelled time is eventually purged, used or
\* not (cleanupExpiredTokens, the hourly timer).
ExpiredCodesArePurged ==
    \A k \in Codes :
        (codes[k] # Absent /\ codes[k].expiresAt < MaxTime) ~> codes[k] = Absent

\* Stated by exchangeAuthorizationCode's comment: a code is redeemed once.
CodeIsSingleUse == \A p, q \in issued : p[1] = q[1] => p = q

\* Stated by the same comment: a recognised replay revokes every token issued
\* against the code.
ReplayRevokesIssued ==
    \A p \in issued : p[1] \in replayed => p[2] \notin Stored

\* Stated by the manual (Token Rotation): a refresh token that is used is
\* replaced, so it is used once.
RefreshTokenIsSingleUse == \A p, q \in rotations : p[1] = q[1] => p = q

\* Stated by the manual (Token Expiry): a refresh token lives for its own TTL,
\* so no background step ends a grant whose refresh token has not expired.
CleanupKeepsLiveGrants ==
    [][UNCHANGED req =>
        \A i \in Stored :
            (rows[i].refresh # Absent /\ now <= Expiry(rows[i].refresh)) => i \in Stored']_vars

=============================================================================
