---------------------------- MODULE GatewayKeys ----------------------------
(***************************************************************************)
(* The RSA pair the auth-service signs with and the API gateway that       *)
(* verifies with a cached copy of its public half: loading or generating   *)
(* the pair, restarts of either process, JWKS answers that arrive late,    *)
(* the blacklist that revocation writes and the gateway reads, and the     *)
(* auth-service's own check of the requests the gateway forwards.          *)
(*                                                                         *)
(* Source: config/keys, services/{token,oauth}.service, routes/oidc.routes *)
(* and middleware/adminGuard of packages/auth-service; config/jwks,        *)
(* middleware/auth, routes/proxy.routes and index of packages/gateway.     *)
(* A key pair is one value, and a file, a token or a cache entry names the *)
(* pair its half belongs to.  The JWKS document holds one key, so looking  *)
(* it up by kid and falling back on the first key are the same.            *)
(***************************************************************************)
EXTENDS Integers, FiniteSets

CONSTANTS
    Keys,      \* the pairs generateKeyPairSync can draw
    Tokens,    \* access tokens
    Life,      \* JWT_ACCESS_TOKEN_EXPIRES_IN
    CacheTTL,  \* CACHE_TTL_MS
    MaxTime,   \* bound: the clock stops here
    Requests,  \* slots of concurrently running requests
    MayFail,   \* what may fail: "disk", "network", "redis", "db"
    Absent     \* no file, no key, no token

ASSUME KeysTimeAssumption == {Life, CacheTTL, MaxTime} \subseteq Nat \ {0}
ASSUME KeysFailAssumption == MayFail \subseteq {"disk", "network", "redis", "db"}
ASSUME KeysAbsentAssumption ==
    Absent \notin Keys \cup Tokens \cup Nat \cup [key: Keys, exp: Nat]

VARIABLES
    now,
    files,      \* private.pem and public.pem
    pair,       \* keyPair of the auth-service, loaded at its first use
    made,       \* pairs that were drawn
    tokens,     \* the access tokens that were signed
    rows,       \* the tokens with a row in OAuthToken
    blacklist,  \* Redis keys blacklist:<token>: when each ends
    cache,      \* cachedKeys and lastFetch of the gateway
    gateway,    \* "down", "starting", "up"
    req,        \* running requests
    \* history, read by the properties only
    current,    \* the public key the auth-service last loaded
    retired,    \* when each key stopped being it
    late,       \* keys that a JWKS answer carried across their retirement
    lost,       \* keys whose files the disk or an operator lost
    revoked,    \* tokens whose revocation was answered
    unlisted    \* tokens revoked without an entry in the blacklist

service == <<files, pair, made, tokens, rows>>
edge == <<cache, gateway>>
history == <<current, retired, late, lost, revoked, unlisted>>
vars == <<now, service, blacklist, edge, req, history>>

-----------------------------------------------------------------------------
(* Shapes.                                                                 *)

Half == Keys \cup {Absent}
Pair == [private: Half, public: Half]
NoPair == [private |-> Absent, public |-> Absent]
Idle == [at |-> "idle"]

\* What the tokens' requests wait for: a turn of the gateway, the auth-service's
\* JWKS answer, its way back, the blacklist, the auth-service's handler.
TokenRequest ==
    [at: {"lookup", "fetch", "arriving", "blacklist", "forwarded"},
     token: Tokens, since: BOOLEAN, unread: BOOLEAN, key: Half]
Prefetch == [at: {"fetch", "arriving"}, token: {Absent}, since: {FALSE},
             unread: {FALSE}, key: Half]
ServiceRequest == [at: {"introspect", "userinfo", "revoke_row"}, token: Tokens,
                   since: BOOLEAN]
Listing == [at: {"revoke_set"}, token: Tokens, ttl: 1..Life]
\* What a request for a token revoked before it got; others leave the slot idle.
Done == [at: {"served", "active"}, token: Tokens, unread: BOOLEAN]

GatewayTypeOK ==
    /\ now \in 0..MaxTime
    /\ files \in Pair /\ pair \in Pair /\ made \subseteq Keys
    /\ tokens \in [Tokens -> [key: Keys, exp: 1..(MaxTime + Life)] \cup {Absent}]
    /\ rows \subseteq {t \in Tokens : tokens[t] # Absent}
    /\ blacklist \in [Tokens -> 0..(MaxTime + Life)]
    /\ cache \in [key: Half, at: 0..MaxTime]
    /\ gateway \in {"down", "starting", "up"}
    /\ req \in [Requests -> {Idle} \cup TokenRequest \cup Prefetch \cup ServiceRequest
                                 \cup Listing \cup Done]
    /\ current \in Half
    /\ retired \in [Keys -> 0..MaxTime \cup {Absent}]
    /\ late \subseteq Keys /\ lost \subseteq Keys
    /\ revoked \subseteq Tokens /\ unlisted \subseteq Tokens

Init ==
    /\ now = 0
    /\ files = NoPair /\ pair = NoPair /\ made = {}
    /\ tokens = [t \in Tokens |-> Absent] /\ rows = {}
    /\ blacklist = [t \in Tokens |-> 0]
    /\ cache = [key |-> Absent, at |-> 0] /\ gateway = "down"
    /\ req = [r \in Requests |-> Idle]
    /\ current = Absent /\ retired = [k \in Keys |-> Absent]
    /\ late = {} /\ lost = {} /\ revoked = {} /\ unlisted = {}

-----------------------------------------------------------------------------
(* Helpers.                                                                *)

Free(r) == req[r].at \in {"idle", "served", "active"}
Continue(r, q) == req' = [req EXCEPT ![r] = q]
Go(r, step) == Continue(r, [req[r] EXCEPT !.at = step])
Refuse(r) == Continue(r, Idle)
Answer(r, outcome, unread) ==
    Continue(r, IF req[r].since
                THEN [at |-> outcome, token |-> req[r].token, unread |-> unread]
                ELSE Idle)

\* jwt.verify: the signature, then the expiry.
Verifies(t, key) == tokens[t].key = key /\ now < tokens[t].exp

\* The public key in use becomes k.
Retire(k) ==
    /\ current' = k
    /\ retired' = [j \in Keys |-> IF j = k THEN Absent
                                  ELSE IF j = current THEN now ELSE retired[j]]
    /\ late' = late \cup {j \in Keys \ {k} : j = current /\ \E r \in Requests :
                              req[r].at = "arriving" /\ req[r].key = j}

-----------------------------------------------------------------------------
(* loadOrGenerateKeys, at the first use of the pair since the start.       *)

LoadPair ==
    /\ Absent \notin {files.private, files.public}
    /\ pair' = files
    /\ Retire(files.public)
    /\ UNCHANGED <<files, made, lost>>

\* A file is missing or cannot be read.  The private half is written first,
\* and a write that fails leaves what is there.
Written(k) ==
    {[private |-> k, public |-> k]} \cup
        IF "disk" \in MayFail THEN {files, [files EXCEPT !.private = k]} ELSE {}

\* Files that are there and cannot be read.
Unread == IF Absent \in {files.private, files.public} THEN {}
          ELSE {files.private, files.public}

\* Defect for the checks: a new pair's public half is not written.
GenerateHalf(k) ==
    /\ k \notin made
    /\ Absent \in {files.private, files.public} \/ "disk" \in MayFail
    /\ pair' = [private |-> k, public |-> k]
    /\ made' = made \cup {k}
    /\ Retire(k)
    /\ files' = [files EXCEPT !.private = k]
    /\ lost' = lost \cup Unread

GeneratePair(k) ==
    /\ k \notin made
    /\ Absent \in {files.private, files.public} \/ "disk" \in MayFail
    /\ pair' = [private |-> k, public |-> k]
    /\ made' = made \cup {k}
    /\ Retire(k)
    /\ files' \in Written(k)
    /\ lost' = lost \cup Unread \cup (IF files'.public = k THEN {} ELSE {k})

GetKeyPair ==
    IF pair # NoPair THEN UNCHANGED <<files, pair, made, current, retired, late, lost>>
    ELSE LoadPair \/ \E k \in Keys : GeneratePair(k)

\* generateAccessToken and storeToken, of a login or a grant.
SignToken(t) ==
    /\ tokens[t] = Absent
    /\ GetKeyPair
    /\ tokens' = [tokens EXCEPT ![t] = [key |-> pair'.private, exp |-> now + Life]]
    /\ rows' = rows \cup {t}
    /\ UNCHANGED <<now, blacklist, edge, req, revoked, unlisted>>

-----------------------------------------------------------------------------
(* The auth-service's handlers.                                            *)

\* since: the token's revocation had been answered.
Open(r, t, step) ==
    /\ Free(r)
    /\ tokens[t] # Absent
    /\ Continue(r, [at |-> step, token |-> t,
                    since |-> step = "introspect" /\ t \in revoked])
    /\ UNCHANGED <<now, service, blacklist, edge, history>>

Introspect(r, t) == Open(r, t, "introspect")
UserInfo(r, t) == Open(r, t, "userinfo")
Revoke(r, t) == Open(r, t, "revoke_row")

\* Defect for the checks: the row is not asked for.
IntrospectSignature(r) ==
    LET t == req[r].token IN
    /\ req[r].at = "introspect"
    /\ GetKeyPair
    /\ IF Verifies(t, pair'.public) THEN Answer(r, "active", FALSE) ELSE Refuse(r)
    /\ UNCHANGED <<now, tokens, rows, blacklist, edge, revoked, unlisted>>

\* The client was found; the token is verified and its row looked up.
IntrospectRow(r) ==
    LET t == req[r].token IN
    /\ req[r].at = "introspect"
    /\ GetKeyPair
    /\ IF Verifies(t, pair'.public) /\ t \in rows
       THEN Answer(r, "active", FALSE) ELSE Refuse(r)
    /\ UNCHANGED <<now, tokens, rows, blacklist, edge, revoked, unlisted>>

\* Only the signature, the expiry and the user's row count: claims or a refusal,
\* revoked or not.
UserInfoClaims(r) ==
    /\ req[r].at = "userinfo"
    /\ GetKeyPair
    /\ Continue(r, Idle)
    /\ UNCHANGED <<now, tokens, rows, blacklist, edge, revoked, unlisted>>

\* The answer says revoked, whatever the blacklist holds.
Answered(r, t) == Continue(r, Idle) /\ revoked' = revoked \cup {t}

\* The row is gone; a token the pair does not verify is not listed.
RevokeRow(r) ==
    LET t == req[r].token IN
    /\ req[r].at = "revoke_row"
    /\ GetKeyPair
    /\ rows' = rows \ {t}
    /\ IF Verifies(t, pair'.public)
       THEN /\ Continue(r, [at |-> "revoke_set", token |-> t,
                            ttl |-> tokens[t].exp - now])
            /\ UNCHANGED <<revoked, unlisted>>
       ELSE /\ Answered(r, t)
            /\ unlisted' = IF now < tokens[t].exp THEN unlisted \cup {t} ELSE unlisted
    /\ UNCHANGED <<now, tokens, blacklist, edge>>

RevokeSet(r) ==
    LET t == req[r].token IN
    /\ req[r].at = "revoke_set"
    /\ \/ /\ blacklist' = [blacklist EXCEPT ![t] = now + req[r].ttl]
          /\ UNCHANGED unlisted
       \/ /\ "redis" \in MayFail
          /\ unlisted' = unlisted \cup {t}
          /\ UNCHANGED blacklist
    /\ Answered(r, t)
    /\ UNCHANGED <<now, service, edge, current, retired, late, lost>>

\* GET /.well-known/jwks.json
ServeJwks(r) ==
    /\ req[r].at = "fetch"
    /\ GetKeyPair
    /\ Continue(r, [req[r] EXCEPT !.at = "arriving", !.key = pair'.public])
    /\ UNCHANGED <<now, tokens, rows, blacklist, edge, revoked, unlisted>>

\* The auth-service drops the gateway's X-User-ID and verifies the bearer
\* token itself (adminGuard).
HandleForwarded(r) ==
    /\ req[r].at = "forwarded"
    /\ GetKeyPair
    /\ IF Verifies(req[r].token, pair'.public)
       THEN Answer(r, "served", req[r].unread) ELSE Refuse(r)
    /\ UNCHANGED <<now, tokens, rows, blacklist, edge, revoked, unlisted>>

-----------------------------------------------------------------------------
(* The gateway.                                                            *)

\* Redis is connected, then the key set fetched before anything is served.
StartGateway(r) ==
    /\ gateway = "down"
    /\ Free(r)
    /\ gateway' = "starting"
    /\ Continue(r, [at |-> "fetch", token |-> Absent, since |-> FALSE,
                    unread |-> FALSE, key |-> Absent])
    /\ UNCHANGED <<now, service, blacklist, cache, history>>

Receive(r, t) ==
    /\ gateway = "up"
    /\ Free(r)
    /\ tokens[t] # Absent
    /\ Continue(r, [at |-> "lookup", token |-> t, since |-> t \in revoked,
                    unread |-> FALSE, key |-> Absent])
    /\ UNCHANGED <<now, service, blacklist, edge, history>>

CacheIsStale == now - cache.at > CacheTTL \/ cache.key = Absent

\* The rest of getVerificationKey, and jwt.verify, with the key just found.
Verify(r, key) ==
    IF Verifies(req[r].token, key)
    THEN Continue(r, [req[r] EXCEPT !.at = "blacklist", !.key = key])
    ELSE Refuse(r)

Lookup(r) ==
    /\ req[r].at = "lookup"
    /\ IF CacheIsStale THEN Go(r, "fetch") ELSE Verify(r, cache.key)
    /\ UNCHANGED <<now, service, blacklist, edge, history>>

\* The answer arrives, the latest to arrive is kept, and the gateway that was
\* starting begins to listen.
FetchArrives(r) ==
    /\ req[r].at = "arriving"
    /\ cache' = [key |-> req[r].key, at |-> now]
    /\ IF req[r].token = Absent
       THEN gateway' = "up" /\ Continue(r, Idle)
       ELSE UNCHANGED gateway /\ Verify(r, req[r].key)
    /\ UNCHANGED <<now, service, blacklist, history>>

\* Defect for the checks: a failed fetch falls back on the keys it has.
FetchFailsOpen(r) ==
    /\ req[r].at \in {"fetch", "arriving"}
    /\ "network" \in MayFail
    /\ IF req[r].token = Absent
       THEN gateway' = "up" /\ Continue(r, Idle)
       ELSE UNCHANGED gateway /\ Verify(r, cache.key)
    /\ UNCHANGED <<now, service, blacklist, cache, history>>

\* The request is answered with the error; the start goes on without keys.
FetchFails(r) ==
    /\ req[r].at \in {"fetch", "arriving"}
    /\ "network" \in MayFail
    /\ IF req[r].token = Absent
       THEN gateway' = "up" /\ Continue(r, Idle)
       ELSE UNCHANGED gateway /\ Refuse(r)
    /\ UNCHANGED <<now, service, blacklist, cache, history>>

\* Redis that cannot be reached is logged and the request goes on.
CheckBlacklist(r) ==
    LET t == req[r].token IN
    /\ req[r].at = "blacklist"
    /\ \/ /\ blacklist[t] > now
          /\ Refuse(r)
       \/ /\ blacklist[t] <= now
          /\ Go(r, "forwarded")
       \/ /\ "redis" \in MayFail
          /\ Continue(r, [req[r] EXCEPT !.at = "forwarded", !.unread = TRUE])
    /\ UNCHANGED <<now, service, blacklist, edge, history>>

-----------------------------------------------------------------------------
(* Restarts, the operator, failures and time.                              *)

\* Its handlers go with the process, and the pair with its memory.
RestartService ==
    /\ pair # NoPair
    /\ pair' = NoPair
    /\ req' = [r \in Requests |->
                  IF req[r].at \in {"introspect", "userinfo", "revoke_row",
                                    "revoke_set", "forwarded"}
                  THEN Idle ELSE req[r]]
    /\ UNCHANGED <<now, files, made, tokens, rows, blacklist, edge, history>>

RestartGateway ==
    /\ gateway # "down"
    /\ gateway' = "down"
    /\ cache' = [key |-> Absent, at |-> 0]
    /\ req' = [r \in Requests |->
                  IF req[r].at \in {"lookup", "fetch", "arriving", "blacklist", "forwarded"}
                  THEN Idle ELSE req[r]]
    /\ UNCHANGED <<now, service, blacklist, history>>

\* A rotation, or a volume that was not kept: one of the files or both go.
RemoveFiles ==
    /\ files # NoPair
    /\ files' \in {NoPair, [files EXCEPT !.private = Absent],
                   [files EXCEPT !.public = Absent]} \ {files}
    /\ lost' = lost \cup ({files.private, files.public} \ {Absent})
    /\ UNCHANGED <<now, pair, made, tokens, rows, blacklist, edge, req,
                   current, retired, late, revoked, unlisted>>

\* The database throws: the handler answers 500.
DatabaseFails(r) ==
    /\ "db" \in MayFail
    /\ req[r].at \in {"introspect", "userinfo", "revoke_row", "forwarded"}
    /\ Continue(r, Idle)
    /\ UNCHANGED <<now, service, blacklist, edge, history>>

Tick ==
    /\ now < MaxTime
    /\ now' = now + 1
    /\ UNCHANGED <<service, blacklist, edge, req, history>>

World == RestartService \/ RestartGateway \/ RemoveFiles \/ Tick

Start(r) ==
    \/ StartGateway(r)
    \/ \E t \in Tokens : Receive(r, t) \/ Introspect(r, t) \/ UserInfo(r, t) \/ Revoke(r, t)

Resume(r) ==
    \/ IntrospectRow(r)
    \/ UserInfoClaims(r)
    \/ RevokeRow(r)
    \/ RevokeSet(r)
    \/ ServeJwks(r)
    \/ HandleForwarded(r)
    \/ Lookup(r)
    \/ FetchArrives(r)
    \/ FetchFails(r)
    \/ CheckBlacklist(r)
    \/ DatabaseFails(r)

Next ==
    \/ World
    \/ \E t \in Tokens : SignToken(t)
    \/ \E r \in Requests : Start(r) \/ Resume(r)

Spec == Init /\ [][Next]_vars

-----------------------------------------------------------------------------
(* Properties.                                                             *)

\* A restart of the auth-service keeps the logins: whatever it signed verifies
\* under the pair it uses now, unless the files were lost to the disk or the
\* operator (keys.ts 41-51, "survives container restarts").
TokensSurviveRestarts ==
    pair # NoPair =>
        \A t \in Tokens : tokens[t] # Absent => tokens[t].key \in lost \cup {pair.public}

\* A rotation reaches the gateway within CACHE_TTL: no request is decided with
\* a key that was retired longer ago, whichever fetches fail or overtake each
\* other, unless an answer carried the key across its retirement (jwks.ts 36-51).
GatewayFollowsRotation ==
    [][\A r \in Requests :
           req[r].at \in {"lookup", "arriving"} /\ req'[r].at = "blacklist" =>
               LET key == req'[r].key IN
               \/ retired[key] = Absent
               \/ now - retired[key] <= CacheTTL
               \/ key \in late]_vars

\* A token whose revocation was answered before the request is not served
\* behind the gateway and not active to introspection, over the end of the
\* blacklist's entry, restarts and rotations.  The gateway misses it when Redis
\* failed its write or its read, or when the pair that signed the token was no
\* longer the auth-service's, which lists only what it verifies
\* (oauth.service 321-334, gateway auth.ts 91-101).
RevokedIsRefused ==
    \A r \in Requests :
        /\ req[r].at # "active"
        /\ req[r].at = "served" => req[r].unread \/ req[r].token \in unlisted

=============================================================================
