------------------------- MODULE GatewayKeysProofs -------------------------
(***************************************************************************)
(* Proofs about GatewayKeys, for every value of its constants: what the    *)
(* auth-service signed survives its restarts, a rotation reaches the       *)
(* gateway within the life of its cache, and a revoked token is refused.   *)
(***************************************************************************)
EXTENDS GatewayKeys, TLAPS

-----------------------------------------------------------------------------
(* Types.  A pair in memory has both halves.                               *)

PairWhole == pair # NoPair => pair.private \in Keys /\ pair.public \in Keys

\* What the auth-service is asked about has been signed.
Signed == {t \in Tokens : tokens[t] # Absent}
Shapes == {Idle} \cup TokenRequest \cup Prefetch \cup Done
              \cup {q \in ServiceRequest \cup Listing : q.token \in Signed}

ExpiryNear == \A t \in Signed : tokens[t].exp <= now + Life

TypesInv == GatewayTypeOK /\ PairWhole /\ ExpiryNear /\ req \in [Requests -> Shapes]

\* What the first use of the pair leaves behind.
LEMMA GetKeyPairType ==
    ASSUME GatewayTypeOK, PairWhole, GetKeyPair
    PROVE  /\ files' \in Pair /\ pair' \in Pair /\ made' \subseteq Keys
           /\ pair' # NoPair /\ pair'.private \in Keys /\ pair'.public \in Keys
           /\ current' \in Half /\ retired' \in [Keys -> 0..MaxTime \cup {Absent}]
           /\ late' \subseteq Keys /\ lost' \subseteq Keys
<1>1. CASE pair # NoPair
  BY <1>1 DEF GetKeyPair, GatewayTypeOK, PairWhole
<1>2. CASE pair = NoPair /\ LoadPair
  <2>1. files \in Pair /\ files.private \in Keys /\ files.public \in Keys
    BY <1>2 DEF LoadPair, GatewayTypeOK, Pair, Half
  <2>2. files # NoPair
    BY <2>1, KeysAbsentAssumption DEF NoPair
  <2>3. QED
    BY <1>2, <2>1, <2>2 DEF LoadPair, Retire, GatewayTypeOK, Half
<1>3. ASSUME pair = NoPair, NEW k \in Keys, GeneratePair(k)
      PROVE  /\ files' \in Pair /\ pair' \in Pair /\ made' \subseteq Keys
             /\ pair' # NoPair /\ pair'.private \in Keys /\ pair'.public \in Keys
             /\ current' \in Half /\ retired' \in [Keys -> 0..MaxTime \cup {Absent}]
             /\ late' \subseteq Keys /\ lost' \subseteq Keys
  <2>1. pair' = [private |-> k, public |-> k] /\ pair' \in Pair /\ pair' # NoPair
    BY <1>3, KeysAbsentAssumption DEF GeneratePair, Pair, Half, NoPair
  <2>2. files' \in Pair
    BY <1>3 DEF GeneratePair, Written, Pair, Half, GatewayTypeOK
  <2>3. lost' \subseteq Keys
    <3>1. Unread \subseteq Keys
      BY DEF Unread, GatewayTypeOK, Pair, Half
    <3>2. QED
      BY <1>3, <3>1 DEF GeneratePair, GatewayTypeOK
  <2>4. QED
    BY <1>3, <2>1, <2>2, <2>3 DEF GeneratePair, Retire, GatewayTypeOK, Half
<1>4. QED
  BY <1>1, <1>2, <1>3 DEF GetKeyPair

\* What a request may become.
LEMMA ContinueType ==
    ASSUME TypesInv, NEW r \in Requests, NEW q \in Shapes, Continue(r, q)
    PROVE  req' \in [Requests -> Shapes]
BY DEF Continue, TypesInv, GatewayTypeOK

\* The shapes are of the types.
LEMMA ShapesAreTyped ==
    Shapes \subseteq {Idle} \cup TokenRequest \cup Prefetch \cup ServiceRequest \cup Listing \cup Done
BY DEF Shapes

\* A step of the gateway's memory that gives requests of their shapes.
LEMMA EdgeTyped ==
    ASSUME TypesInv, UNCHANGED <<now, service, blacklist, history>>,
           gateway' \in {"down", "starting", "up"}, cache' \in [key: Half, at: 0..MaxTime],
           req' \in [Requests -> Shapes]
    PROVE  TypesInv'
<1>1. Shapes' = Shapes
  BY DEF Shapes, Signed, service
<1>2. req' \in [Requests -> {Idle} \cup TokenRequest \cup Prefetch \cup ServiceRequest
                                \cup Listing \cup Done]
  BY ShapesAreTyped
<1>3. GatewayTypeOK'
  BY <1>2 DEF TypesInv, GatewayTypeOK, service, history
<1>4. QED
  BY <1>1, <1>3 DEF TypesInv, PairWhole, ExpiryNear, Signed, service

\* A request keeps the type of requests.
LEMMA RequestTyped ==
    ASSUME TypesInv, UNCHANGED <<now, service, blacklist, edge, history>>,
           req' \in [Requests -> Shapes]
    PROVE  TypesInv'
BY EdgeTyped DEF edge, TypesInv, GatewayTypeOK

\* A step that uses the pair and gives requests of their shapes.
LEMMA KeyedTyped ==
    ASSUME TypesInv, GetKeyPair, UNCHANGED <<now, tokens, blacklist, edge>>,
           rows' \subseteq rows, revoked' \subseteq Tokens, unlisted' \subseteq Tokens,
           req' \in [Requests -> Shapes]
    PROVE  TypesInv'
<1>1. /\ files' \in Pair /\ pair' \in Pair /\ made' \subseteq Keys
      /\ pair' # NoPair /\ pair'.private \in Keys /\ pair'.public \in Keys
      /\ current' \in Half /\ retired' \in [Keys -> 0..MaxTime \cup {Absent}]
      /\ late' \subseteq Keys /\ lost' \subseteq Keys
  BY GetKeyPairType DEF TypesInv
<1>2. Shapes' = Shapes
  BY DEF Shapes, Signed
<1>3. req' \in [Requests -> {Idle} \cup TokenRequest \cup Prefetch \cup ServiceRequest
                                \cup Listing \cup Done]
  BY ShapesAreTyped
<1>4. GatewayTypeOK'
  BY <1>1, <1>3 DEF TypesInv, GatewayTypeOK, edge
<1>5. QED
  BY <1>1, <1>2, <1>4 DEF TypesInv, PairWhole, ExpiryNear, Signed

\* A request's fields follow from its control point.
LEMMA ShapeOf ==
    ASSUME TypesInv, NEW r \in Requests
    PROVE  /\ req[r].at \in {"lookup", "blacklist", "forwarded"} => req[r] \in TokenRequest
           /\ req[r].at \in {"fetch", "arriving"} => req[r] \in TokenRequest \cup Prefetch
           /\ req[r].at \in {"introspect", "userinfo", "revoke_row"}
                  => req[r] \in ServiceRequest /\ req[r].token \in Signed
           /\ req[r].at = "revoke_set" => req[r] \in Listing /\ req[r].token \in Signed
           /\ req[r].at \in {"served", "active"} => req[r] \in Done
<1>1. req[r] \in Shapes
  BY DEF TypesInv
<1>2. CASE req[r] \in {Idle} \cup Done
  BY <1>2 DEF Idle, Done
<1>3. CASE req[r] \in TokenRequest \cup Prefetch
  BY <1>3 DEF TokenRequest, Prefetch
<1>4. CASE req[r] \in {q \in ServiceRequest \cup Listing : q.token \in Signed}
  BY <1>4 DEF ServiceRequest, Listing
<1>5. QED
  BY <1>1, <1>2, <1>3, <1>4 DEF Shapes

\* An answer is the end of a request.
LEMMA AnswerShape ==
    ASSUME NEW t \in Tokens, NEW outcome \in {"served", "active"}, NEW unread \in BOOLEAN
    PROVE  [at |-> outcome, token |-> t, unread |-> unread] \in Done
BY DEF Done

\* Beginning a request.
LEMMA TypesStart ==
    ASSUME TypesInv, NEW r \in Requests, Start(r)
    PROVE  TypesInv'
<1>1. ASSUME NEW q \in Shapes, Continue(r, q)
      PROVE  req' \in [Requests -> Shapes]
  BY <1>1, ContinueType
<1>2. CASE StartGateway(r)
  <2>1. [at |-> "fetch", token |-> Absent, since |-> FALSE, unread |-> FALSE, key |-> Absent]
            \in Prefetch
    BY DEF Prefetch, Half
  <2>2. req' \in [Requests -> Shapes]
    BY <1>1, <1>2, <2>1 DEF StartGateway, Shapes
  <2>3. gateway' \in {"down", "starting", "up"}
    BY <1>2 DEF StartGateway
  <2>4. QED
    BY <1>2, <2>2, <2>3, EdgeTyped DEF StartGateway, TypesInv, GatewayTypeOK
<1>3. ASSUME NEW t \in Tokens, Receive(r, t)
      PROVE  TypesInv'
  <2>1. [at |-> "lookup", token |-> t, since |-> t \in revoked, unread |-> FALSE,
         key |-> Absent] \in TokenRequest
    BY DEF TokenRequest, Half
  <2>2. QED
    BY <1>1, <1>3, <2>1, RequestTyped DEF Receive, Shapes
<1>4. ASSUME NEW t \in Tokens, NEW step \in {"introspect", "userinfo", "revoke_row"},
             Open(r, t, step)
      PROVE  TypesInv'
  <2>1. [at |-> step, token |-> t, since |-> step = "introspect" /\ t \in revoked] \in Shapes
    BY <1>4 DEF ServiceRequest, Shapes, Signed, Open
  <2>2. QED
    BY <1>1, <1>4, <2>1, RequestTyped DEF Open
<1>5. QED
  BY <1>2, <1>3, <1>4 DEF Start, Introspect, UserInfo, Revoke

\* Resuming one.
LEMMA TypesResume ==
    ASSUME TypesInv, NEW r \in Requests, Resume(r)
    PROVE  TypesInv'
<1> DEFINE Fits == req' \in [Requests -> Shapes]
<1>1. ASSUME NEW q \in Shapes, Continue(r, q)
      PROVE  Fits
  BY <1>1, ContinueType
<1>2. Refuse(r) => Fits
  BY <1>1 DEF Refuse, Shapes
<1>3. ASSUME NEW outcome \in {"served", "active"}, NEW unread \in BOOLEAN,
             req[r].token \in Tokens, Answer(r, outcome, unread)
      PROVE  Fits
  BY <1>1, <1>3, AnswerShape DEF Answer, Shapes
<1>4. ASSUME req[r] \in TokenRequest, NEW key \in Half, Verify(r, key)
      PROVE  Fits
  <2>1. [req[r] EXCEPT !.at = "blacklist", !.key = key] \in TokenRequest
    BY <1>4 DEF TokenRequest
  <2>2. QED
    BY <1>1, <1>2, <1>4, <2>1 DEF Verify, Shapes
<1> HIDE DEF Fits
<1>5. CASE IntrospectRow(r)
  <2>1. req[r].token \in Tokens
    BY <1>5, ShapeOf DEF IntrospectRow, ServiceRequest
  <2>2. Fits
    BY <1>2, <1>3, <1>5, <2>1 DEF IntrospectRow
  <2>3. QED
    BY <1>5, <2>2, KeyedTyped DEF IntrospectRow, Fits, TypesInv, GatewayTypeOK
<1>6. CASE UserInfoClaims(r)
  <2>1. Fits
    BY <1>1, <1>6 DEF UserInfoClaims, Shapes
  <2>2. QED
    BY <1>6, <2>1, KeyedTyped DEF UserInfoClaims, Fits, TypesInv, GatewayTypeOK
<1>7. CASE RevokeRow(r)
  <2>1. PICK t \in Signed : t = req[r].token
    BY <1>7, ShapeOf DEF RevokeRow
  <2>2. tokens[t].exp \in Int /\ now \in Int /\ tokens[t].exp <= now + Life /\ Life \in Int
    BY KeysTimeAssumption DEF TypesInv, GatewayTypeOK, Signed, ExpiryNear
  <2>3. Verifies(t, pair'.public) =>
            [at |-> "revoke_set", token |-> t, ttl |-> tokens[t].exp - now] \in Shapes
    <3>1. Verifies(t, pair'.public) => tokens[t].exp - now \in 1..Life
      BY <2>2 DEF Verifies
    <3>2. QED
      BY <3>1 DEF Listing, Shapes, Signed
  <2>4. Fits /\ revoked' \subseteq Tokens /\ unlisted' \subseteq Tokens
    BY <1>1, <1>7, <2>1, <2>3 DEF RevokeRow, Answered, Shapes, Signed, TypesInv, GatewayTypeOK
  <2>5. rows' \subseteq rows
    BY <1>7 DEF RevokeRow
  <2>6. QED
    BY <1>7, <2>4, <2>5, KeyedTyped DEF RevokeRow, Fits
<1>8. CASE RevokeSet(r)
  <2>1. req[r] \in Listing /\ Fits
    BY <1>1, <1>8, ShapeOf DEF RevokeSet, Answered, Shapes
  <2>2. now + req[r].ttl \in 0..(MaxTime + Life)
    BY <2>1, KeysTimeAssumption DEF Listing, TypesInv, GatewayTypeOK
  <2>3. /\ blacklist' \in [Tokens -> 0..(MaxTime + Life)]
        /\ revoked' \subseteq Tokens /\ unlisted' \subseteq Tokens
    BY <1>8, <2>1, <2>2 DEF RevokeSet, Answered, TypesInv, GatewayTypeOK, Listing
  <2>4. Shapes' = Shapes
    BY <1>8 DEF RevokeSet, Shapes, Signed, service
  <2>5. GatewayTypeOK'
    BY <1>8, <2>1, <2>3, ShapesAreTyped DEF RevokeSet, Fits, TypesInv, GatewayTypeOK, service, edge
  <2>6. QED
    BY <1>8, <2>1, <2>4, <2>5 DEF RevokeSet, Fits, TypesInv, PairWhole, ExpiryNear, Signed, service
<1>9. CASE ServeJwks(r)
  <2>1. req[r] \in TokenRequest \cup Prefetch /\ pair'.public \in Half
    BY <1>9, ShapeOf, GetKeyPairType DEF ServeJwks, TypesInv, Half
  <2>2. [req[r] EXCEPT !.at = "arriving", !.key = pair'.public] \in TokenRequest \cup Prefetch
    BY <2>1 DEF TokenRequest, Prefetch
  <2>3. Fits
    BY <1>1, <1>9, <2>2 DEF ServeJwks, Shapes
  <2>4. QED
    BY <1>9, <2>3, KeyedTyped DEF ServeJwks, Fits, TypesInv, GatewayTypeOK
<1>10. CASE HandleForwarded(r)
  <2>1. req[r].token \in Tokens /\ req[r].unread \in BOOLEAN
    BY <1>10, ShapeOf DEF HandleForwarded, TokenRequest
  <2>2. Fits
    BY <1>2, <1>3, <1>10, <2>1 DEF HandleForwarded
  <2>3. QED
    BY <1>10, <2>2, KeyedTyped DEF HandleForwarded, Fits, TypesInv, GatewayTypeOK
<1>11. CASE Lookup(r)
  <2>1. req[r] \in TokenRequest /\ cache.key \in Half
    BY <1>11, ShapeOf DEF Lookup, TypesInv, GatewayTypeOK
  <2>2. [req[r] EXCEPT !.at = "fetch"] \in TokenRequest
    BY <2>1 DEF TokenRequest
  <2>3. Fits
    BY <1>1, <1>4, <1>11, <2>1, <2>2 DEF Lookup, Go, Shapes
  <2>4. QED
    BY <1>11, <2>3, RequestTyped DEF Lookup, Fits
<1>12. CASE FetchArrives(r)
  <2>1. req[r] \in TokenRequest \cup Prefetch
    BY <1>12, ShapeOf DEF FetchArrives
  <2>2. cache' \in [key: Half, at: 0..MaxTime]
    BY <1>12, <2>1 DEF FetchArrives, TokenRequest, Prefetch, TypesInv, GatewayTypeOK
  <2>3. req[r].token # Absent => req[r] \in TokenRequest /\ req[r].key \in Half
    BY <2>1 DEF TokenRequest, Prefetch
  <2>4. Fits
    BY <1>1, <1>4, <1>12, <2>3 DEF FetchArrives, Shapes
  <2>5. QED
    BY <1>12, <2>2, <2>4, EdgeTyped DEF FetchArrives, Fits, TypesInv, GatewayTypeOK
<1>13. CASE FetchFails(r)
  <2>1. Fits
    BY <1>1, <1>2, <1>13 DEF FetchFails, Shapes
  <2>2. QED
    BY <1>13, <2>1, EdgeTyped DEF FetchFails, Fits, TypesInv, GatewayTypeOK
<1>14. CASE CheckBlacklist(r)
  <2>1. req[r] \in TokenRequest
    BY <1>14, ShapeOf DEF CheckBlacklist
  <2>2. /\ [req[r] EXCEPT !.at = "forwarded"] \in TokenRequest
        /\ [req[r] EXCEPT !.at = "forwarded", !.unread = TRUE] \in TokenRequest
    BY <2>1 DEF TokenRequest
  <2>3. Fits
    BY <1>1, <1>2, <1>14, <2>2 DEF CheckBlacklist, Go, Shapes
  <2>4. QED
    BY <1>14, <2>3, RequestTyped DEF CheckBlacklist, Fits
<1>15. CASE DatabaseFails(r)
  BY <1>1, <1>15, RequestTyped DEF DatabaseFails, Shapes, Fits
<1>16. QED
  BY <1>5, <1>6, <1>7, <1>8, <1>9, <1>10, <1>11, <1>12, <1>13, <1>14, <1>15 DEF Resume

\* Time, restarts and the loss of the files.
LEMMA TypesOther ==
    ASSUME TypesInv, World \/ (\E t \in Tokens : SignToken(t)) \/ UNCHANGED vars
    PROVE  TypesInv'
<1>1. ASSUME NEW t \in Tokens, SignToken(t)
      PROVE  TypesInv'
  <2>1. /\ files' \in Pair /\ pair' \in Pair /\ made' \subseteq Keys
        /\ pair' # NoPair /\ pair'.private \in Keys /\ pair'.public \in Keys
        /\ current' \in Half /\ retired' \in [Keys -> 0..MaxTime \cup {Absent}]
        /\ late' \subseteq Keys /\ lost' \subseteq Keys
    BY <1>1, GetKeyPairType DEF SignToken, TypesInv
  <2>2. now + Life \in 1..(MaxTime + Life)
    BY KeysTimeAssumption DEF TypesInv, GatewayTypeOK
  <2>3. [key |-> pair'.private, exp |-> now + Life] \in [key: Keys, exp: 1..(MaxTime + Life)]
    BY <2>1, <2>2
  <2>4. tokens' \in [Tokens -> [key: Keys, exp: 1..(MaxTime + Life)] \cup {Absent}]
    BY <1>1, <2>3 DEF SignToken, TypesInv, GatewayTypeOK
  <2>5. tokens'[t].exp = now + Life
    BY <1>1 DEF SignToken, TypesInv, GatewayTypeOK
  <2>6. tokens[t] = Absent /\ tokens'[t] # Absent /\ \A u \in Tokens \ {t} : tokens'[u] = tokens[u]
    BY <1>1, <2>3, KeysAbsentAssumption, KeysTimeAssumption DEF SignToken, TypesInv, GatewayTypeOK
  <2>7. Shapes \subseteq Shapes' /\ Signed' = Signed \cup {t}
    BY <2>6 DEF Shapes, Signed
  <2>8. GatewayTypeOK'
    BY <1>1, <2>1, <2>4, <2>6 DEF SignToken, TypesInv, GatewayTypeOK, edge
  <2>9. ExpiryNear'
    BY <1>1, <2>5, <2>6, <2>7, KeysTimeAssumption
    DEF SignToken, ExpiryNear, Signed, TypesInv, GatewayTypeOK
  <2>10. QED
    BY <1>1, <2>1, <2>7, <2>8, <2>9 DEF SignToken, TypesInv, PairWhole
<1>2. CASE RestartService
  <2>1. req' \in [Requests -> Shapes]
    BY <1>2 DEF RestartService, TypesInv, Shapes
  <2>2. pair' \in Pair /\ pair' = NoPair
    BY <1>2 DEF RestartService, Pair, NoPair, Half
  <2>3. Shapes' = Shapes
    BY <1>2 DEF RestartService, Shapes, Signed
  <2>4. GatewayTypeOK'
    BY <1>2, <2>1, <2>2, ShapesAreTyped DEF RestartService, TypesInv, GatewayTypeOK, edge, history
  <2>5. QED
    BY <1>2, <2>1, <2>2, <2>3, <2>4
    DEF RestartService, TypesInv, PairWhole, NoPair, ExpiryNear, Signed
<1>3. CASE RestartGateway
  <2>1. req' \in [Requests -> Shapes]
    BY <1>3 DEF RestartGateway, TypesInv, Shapes
  <2>2. cache' \in [key: Half, at: 0..MaxTime]
    BY <1>3, KeysTimeAssumption DEF RestartGateway, Half
  <2>3. QED
    BY <1>3, <2>1, <2>2, EdgeTyped DEF RestartGateway
<1>4. CASE RemoveFiles
  <2>1. files' \in Pair /\ lost' \subseteq Keys
    BY <1>4 DEF RemoveFiles, TypesInv, GatewayTypeOK, NoPair, Pair, Half
  <2>2. Shapes' = Shapes
    BY <1>4 DEF RemoveFiles, Shapes, Signed
  <2>3. QED
    BY <1>4, <2>1, <2>2
    DEF RemoveFiles, TypesInv, GatewayTypeOK, PairWhole, ExpiryNear, Signed, edge
<1>5. CASE Tick
  <2>1. Shapes' = Shapes
    BY <1>5 DEF Tick, Shapes, Signed, service
  <2>2. now' \in 0..MaxTime /\ now' = now + 1
    BY <1>5, KeysTimeAssumption DEF Tick, TypesInv, GatewayTypeOK
  <2>3. GatewayTypeOK'
    BY <1>5, <2>2 DEF Tick, TypesInv, GatewayTypeOK, service, edge, history
  <2>4. ExpiryNear'
    BY <1>5, <2>2, KeysTimeAssumption
    DEF Tick, TypesInv, GatewayTypeOK, ExpiryNear, Signed, service
  <2>5. QED
    BY <1>5, <2>1, <2>3, <2>4 DEF Tick, TypesInv, PairWhole, service
<1>6. CASE UNCHANGED vars
  <2>1. req' \in [Requests -> Shapes]
    BY <1>6 DEF vars, TypesInv
  <2>2. QED
    BY <1>6, <2>1, RequestTyped DEF vars
<1>7. QED
  BY <1>1, <1>2, <1>3, <1>4, <1>5, <1>6 DEF World

\* Everything has its type, whatever fails and whenever the processes restart.
LEMMA TypesInvariant == Spec => []TypesInv
<1>1. Init => TypesInv
  <2>1. SUFFICES ASSUME Init PROVE TypesInv
    OBVIOUS
  <2>2. GatewayTypeOK
    BY <2>1, KeysTimeAssumption DEF Init, GatewayTypeOK, NoPair, Pair, Half
  <2>3. QED
    BY <2>1, <2>2 DEF Init, TypesInv, PairWhole, ExpiryNear, Signed, Shapes
<1>2. TypesInv /\ [Next]_vars => TypesInv'
  BY TypesStart, TypesResume, TypesOther DEF Next
<1>3. QED
  BY <1>1, <1>2, PTL DEF Spec

\* The types hold of every state the system reaches.
THEOREM KeysTypesCorrect == Spec => []GatewayTypeOK
<1>1. TypesInv => GatewayTypeOK
  BY DEF TypesInv
<1>2. QED
  BY <1>1, TypesInvariant, PTL

-----------------------------------------------------------------------------
(* Restarts of the auth-service.                                           *)

Both(k) == [private |-> k, public |-> k]

\* A pair that was drawn is lost, or it is the one on disk and in memory.
PairInv ==
    /\ \A t \in Signed : tokens[t].key \in made
    /\ {files.private, files.public} \subseteq made \cup {Absent}
    /\ pair # NoPair => pair.private \in made
    /\ \A k \in made \ lost : files = Both(k) /\ pair \in {NoPair, Both(k)}

\* Using the pair loads it, or draws one that goes to disk and memory.
LEMMA GetKeyPairKeeps ==
    ASSUME TypesInv, PairInv, GetKeyPair
    PROVE  /\ {files'.private, files'.public} \subseteq made' \cup {Absent}
           /\ pair'.private \in made' /\ made \subseteq made'
           /\ \A k \in made' \ lost' : files' = Both(k) /\ pair' = Both(k)
<1>1. CASE pair # NoPair
  BY <1>1 DEF GetKeyPair, PairInv
<1>2. CASE pair = NoPair /\ LoadPair
  BY <1>2 DEF LoadPair, PairInv, Both
<1>3. ASSUME pair = NoPair, NEW j \in Keys, GeneratePair(j)
      PROVE  /\ {files'.private, files'.public} \subseteq made' \cup {Absent}
             /\ pair'.private \in made' /\ made \subseteq made'
             /\ \A k \in made' \ lost' : files' = Both(k) /\ pair' = Both(k)
  <2>1. files' \in {Both(j), files, [files EXCEPT !.private = j]} /\ files \in Pair
    BY <1>3 DEF GeneratePair, Written, Both, TypesInv, GatewayTypeOK
  <2>2. {files'.private, files'.public} \subseteq made' \cup {Absent}
    BY <1>3, <2>1 DEF GeneratePair, PairInv, Both, Pair
  <2>3. made \subseteq lost'
    <3>1. ASSUME NEW k \in made \ lost
          PROVE  k \in Unread
      BY <3>1, KeysAbsentAssumption DEF PairInv, Both, Unread, TypesInv, GatewayTypeOK
    <3>2. QED
      BY <1>3, <3>1 DEF GeneratePair
  <2>4. j \notin lost' => files' = Both(j)
    <3>1. j \notin lost' => files'.public = j
      BY <1>3 DEF GeneratePair
    <3>2. files.public # j
      BY <1>3, KeysAbsentAssumption DEF GeneratePair, PairInv
    <3>3. QED
      BY <2>1, <3>1, <3>2 DEF Pair
  <2>5. QED
    BY <1>3, <2>2, <2>3, <2>4 DEF GeneratePair, Both
<1>4. QED
  BY <1>1, <1>2, <1>3 DEF GetKeyPair

\* The only steps that touch the pair or its files.
Keyed == GetKeyPair /\ UNCHANGED tokens
Unkeyed == UNCHANGED <<files, pair, made, tokens, lost>>

\* A handler either uses the pair, or leaves it alone.
LEMMA RequestsKeyed ==
    ASSUME NEW r \in Requests, Start(r) \/ Resume(r)
    PROVE  Keyed \/ Unkeyed
<1>1. Start(r) => Unkeyed
  BY DEF Start, StartGateway, Receive, Introspect, UserInfo, Revoke, Open, Unkeyed, service,
     history
<1>2. Resume(r) => Keyed \/ Unkeyed
  BY DEF Resume, IntrospectRow, UserInfoClaims, RevokeRow, RevokeSet, ServeJwks,
     HandleForwarded, Lookup, FetchArrives, FetchFails, CheckBlacklist, DatabaseFails, Keyed,
     Unkeyed, service, history
<1>3. QED
  BY <1>1, <1>2

\* Every step keeps the pair.
LEMMA PairStep ==
    ASSUME TypesInv, TypesInv', PairInv, [Next]_vars
    PROVE  PairInv'
<1>1. CASE Keyed
  BY <1>1, GetKeyPairKeeps DEF Keyed, PairInv, Signed
<1>2. CASE Unkeyed
  BY <1>2 DEF Unkeyed, PairInv, Signed
<1>3. ASSUME NEW t \in Tokens, SignToken(t)
      PROVE  PairInv'
  <2>1. /\ tokens'[t].key = pair'.private
        /\ Signed' \subseteq Signed \cup {t} /\ \A u \in Signed \ {t} : tokens'[u] = tokens[u]
    BY <1>3 DEF SignToken, Signed, TypesInv, GatewayTypeOK
  <2>2. QED
    BY <1>3, <2>1, GetKeyPairKeeps DEF SignToken, PairInv
<1>4. CASE RestartService
  BY <1>4 DEF RestartService, PairInv, Signed, history
<1>5. CASE RemoveFiles
  <2>1. files \in Pair
    BY DEF TypesInv, GatewayTypeOK
  <2>2. made \subseteq lost'
    BY <1>5, KeysAbsentAssumption DEF RemoveFiles, PairInv, Both, TypesInv, GatewayTypeOK
  <2>3. {files'.private, files'.public} \subseteq made' \cup {Absent}
    BY <1>5, <2>1 DEF RemoveFiles, PairInv, NoPair, Pair
  <2>4. QED
    BY <1>5, <2>2, <2>3 DEF RemoveFiles, PairInv, Signed
<1>6. CASE RestartGateway \/ Tick \/ UNCHANGED vars
  BY <1>2, <1>6 DEF RestartGateway, Tick, vars, Unkeyed, service, history
<1>7. QED
  BY <1>1, <1>2, <1>3, <1>4, <1>5, <1>6, RequestsKeyed DEF Next, World

\* Whatever the auth-service signed verifies under the pair it uses now, unless
\* the files were lost: TokensSurviveRestarts.
THEOREM SignedSurvive == Spec => []TokensSurviveRestarts
<1>1. Init => PairInv
  BY DEF Init, PairInv, NoPair, Signed
<1>2. TypesInv /\ TypesInv' /\ PairInv /\ [Next]_vars => PairInv'
  BY PairStep
<1>3. TypesInv /\ PairInv => TokensSurviveRestarts
  BY DEF PairInv, TokensSurviveRestarts, Both, Signed, NoPair
<1>4. QED
  BY <1>1, <1>2, <1>3, TypesInvariant, PTL DEF Spec

-----------------------------------------------------------------------------
(* Rotation.                                                               *)

\* The key in use is not retired, a key that has been is in an answer only if
\* marked, and one in the cache was fetched no later than it was retired.
Fresh(k, when) == retired[k] # Absent /\ k \notin late => retired[k] >= when
RotationInv ==
    /\ pair # NoPair => current = pair.public
    /\ current # Absent => retired[current] = Absent
    /\ cache.at <= now
    /\ cache.key # Absent => Fresh(cache.key, cache.at)
    /\ \A r \in Requests : req[r].at = "arriving" =>
           req[r].key \in Keys /\ (retired[req[r].key] = Absent \/ req[r].key \in late)

\* The first use of the pair retires the key before it, at this time.
LEMMA GetKeyPairRetires ==
    ASSUME TypesInv, RotationInv, GetKeyPair
    PROVE  /\ current' = pair'.public /\ current' \in Keys /\ retired'[current'] = Absent
           /\ late \subseteq late'
           /\ \A k \in Keys : \/ retired'[k] \in {retired[k], Absent}
                              \/ /\ retired'[k] = now
                                 /\ \A r \in Requests : req[r].at = "arriving" /\ req[r].key = k
                                                            => k \in late'
<1>1. CASE pair # NoPair
  BY <1>1, KeysAbsentAssumption DEF GetKeyPair, TypesInv, PairWhole, RotationInv
<1>2. ASSUME NEW k \in Keys, Retire(k)
      PROVE  /\ current' = k /\ retired'[k] = Absent /\ late \subseteq late'
             /\ \A j \in Keys : \/ retired'[j] \in {retired[j], Absent}
                                \/ /\ retired'[j] = now
                                   /\ \A r \in Requests : req[r].at = "arriving" /\ req[r].key = j
                                                              => j \in late'
  BY <1>2 DEF Retire, TypesInv, GatewayTypeOK
<1>3. CASE pair = NoPair /\ LoadPair
  <2>1. files.public \in Keys /\ Retire(files.public) /\ pair' = files
    BY <1>3 DEF LoadPair, TypesInv, GatewayTypeOK, Pair, Half
  <2>2. QED
    BY <1>2, <2>1
<1>4. ASSUME pair = NoPair, NEW k \in Keys, GeneratePair(k)
      PROVE  pair'.public = k /\ Retire(k)
  BY <1>4 DEF GeneratePair
<1>5. CASE pair = NoPair /\ \E k \in Keys : GeneratePair(k)
  <2>1. PICK k \in Keys : pair'.public = k /\ Retire(k)
    BY <1>4, <1>5
  <2>2. QED
    BY <1>2, <2>1
<1>6. QED
  BY <1>1, <1>3, <1>5 DEF GetKeyPair

\* A step with the pair, which may answer the key set.
LEMMA KeyedRotation ==
    ASSUME TypesInv, TypesInv', RotationInv, GetKeyPair, UNCHANGED <<now, cache>>,
           \A r \in Requests : req'[r].at = "arriving" =>
               \/ req[r].at = "arriving" /\ req'[r].key = req[r].key
               \/ req'[r].key = pair'.public
    PROVE  RotationInv'
<1>1. /\ current' = pair'.public /\ current' \in Keys /\ retired'[current'] = Absent
      /\ late \subseteq late'
      /\ \A k \in Keys : \/ retired'[k] \in {retired[k], Absent}
                         \/ /\ retired'[k] = now
                            /\ \A r \in Requests : req[r].at = "arriving" /\ req[r].key = k
                                                       => k \in late'
  BY GetKeyPairRetires
<1>2. cache.key # Absent => Fresh(cache.key, cache.at)'
  <2>1. ASSUME cache.key # Absent
        PROVE  Fresh(cache.key, cache.at)'
    <3>1. cache.key \in Keys /\ cache.at \in Nat /\ now \in Nat /\ cache.at <= now
      BY <2>1, KeysTimeAssumption DEF TypesInv, GatewayTypeOK, Half, RotationInv
    <3>2. QED
      BY <1>1, <2>1, <3>1 DEF Fresh, RotationInv
  <2>2. QED
    BY <2>1
<1>3. ASSUME NEW r \in Requests, req'[r].at = "arriving"
      PROVE  req'[r].key \in Keys /\ (retired'[req'[r].key] = Absent \/ req'[r].key \in late')
  BY <1>1, <1>3 DEF RotationInv
<1>4. QED
  BY <1>1, <1>2, <1>3 DEF RotationInv

\* A step that does not touch the pair, and answers nothing new.
LEMMA UnkeyedRotation ==
    ASSUME TypesInv, RotationInv, UNCHANGED <<current, retired, late>>,
           pair' \in {pair, NoPair}, now' \in {now, now + 1},
           \/ cache' = cache
           \/ cache'.key = Absent /\ cache'.at = 0
           \/ cache'.at = now /\ \E r \in Requests : req[r].at = "arriving" /\ cache'.key = req[r].key,
           \A r \in Requests : req'[r].at = "arriving" =>
               req[r].at = "arriving" /\ req'[r].key = req[r].key
    PROVE  RotationInv'
<1>1. now \in Nat /\ now' \in Nat /\ cache.at \in Nat /\ now <= now'
  BY KeysTimeAssumption DEF TypesInv, GatewayTypeOK
<1>2. cache'.at <= now'
  BY <1>1 DEF RotationInv
<1>3. cache'.key # Absent => Fresh(cache.key, cache.at)'
  BY DEF Fresh, RotationInv
<1>4. QED
  BY <1>2, <1>3 DEF RotationInv

\* Beginning a request.
LEMMA RotationStart ==
    ASSUME TypesInv, RotationInv, NEW r \in Requests, Start(r)
    PROVE  RotationInv'
<1>1. \A p \in Requests : req'[p].at = "arriving" => req[p].at = "arriving" /\ req'[p].key = req[p].key
  <2>1. ASSUME NEW q, Continue(r, q), q.at # "arriving", NEW p \in Requests,
               req'[p].at = "arriving"
        PROVE  req[p].at = "arriving" /\ req'[p].key = req[p].key
    BY <2>1 DEF Continue, TypesInv, GatewayTypeOK
  <2>2. StartGateway(r) => <1>1!:
    BY <2>1 DEF StartGateway
  <2>3. ASSUME NEW t \in Tokens, NEW step \in {"introspect", "userinfo", "revoke_row"},
               Open(r, t, step) \/ Receive(r, t)
        PROVE  <1>1!:
    BY <2>1, <2>3 DEF Open, Receive
  <2>4. QED
    BY <2>2, <2>3 DEF Start, Introspect, UserInfo, Revoke
<1>2. UNCHANGED <<current, retired, late, pair, now, cache>>
  BY DEF Start, StartGateway, Receive, Introspect, UserInfo, Revoke, Open, service, history, edge
<1>3. QED
  BY <1>1, <1>2, UnkeyedRotation

\* Resuming one.
LEMMA RotationResume ==
    ASSUME TypesInv, TypesInv', RotationInv, NEW r \in Requests, Resume(r)
    PROVE  RotationInv'
<1> DEFINE Quiet == \A p \in Requests : req'[p].at = "arriving" =>
                        req[p].at = "arriving" /\ req'[p].key = req[p].key
<1>1. ASSUME NEW q, Continue(r, q), q.at # "arriving"
      PROVE  Quiet
  BY <1>1 DEF Continue, TypesInv, GatewayTypeOK
<1>2. Refuse(r) => Quiet
  BY <1>1 DEF Refuse, Idle
<1>3. ASSUME NEW outcome \in {"served", "active"}, NEW unread, Answer(r, outcome, unread)
      PROVE  Quiet
  BY <1>1, <1>3 DEF Answer, Idle
<1>4. ASSUME req[r] \in TokenRequest, NEW key, Verify(r, key)
      PROVE  Quiet
  BY <1>1, <1>2, <1>4 DEF Verify, TokenRequest
<1> HIDE DEF Quiet
<1>5. CASE IntrospectRow(r) \/ UserInfoClaims(r) \/ RevokeRow(r) \/ HandleForwarded(r)
  <2>1. Quiet
    BY <1>1, <1>2, <1>3, <1>5 DEF IntrospectRow, UserInfoClaims, RevokeRow, HandleForwarded,
       Answered, Idle
  <2>2. GetKeyPair /\ UNCHANGED <<now, cache>>
    BY <1>5 DEF IntrospectRow, UserInfoClaims, RevokeRow, HandleForwarded, edge
  <2>3. QED
    BY <2>1, <2>2, KeyedRotation DEF Quiet
<1>6. CASE ServeJwks(r)
  <2>1. req[r] \in TokenRequest \cup Prefetch
    BY <1>6, ShapeOf DEF ServeJwks
  <2>2. [req[r] EXCEPT !.at = "arriving", !.key = pair'.public].key = pair'.public
    BY <2>1 DEF TokenRequest, Prefetch
  <2>3. req' = [req EXCEPT ![r] = [req[r] EXCEPT !.at = "arriving", !.key = pair'.public]]
    BY <1>6 DEF ServeJwks, Continue
  <2>4. req'[r].key = pair'.public
    BY <2>2, <2>3 DEF TypesInv, GatewayTypeOK
  <2>5. \A p \in Requests : p # r => req'[p] = req[p]
    BY <2>3 DEF TypesInv, GatewayTypeOK
  <2>6. GetKeyPair /\ UNCHANGED <<now, cache>>
    BY <1>6 DEF ServeJwks, edge
  <2>7. QED
    BY <2>4, <2>5, <2>6, KeyedRotation
<1>7. CASE RevokeSet(r) \/ Lookup(r) \/ FetchFails(r) \/ CheckBlacklist(r) \/ DatabaseFails(r)
  <2>1. Quiet
    <3>1. CASE Lookup(r)
      <4>1. req[r] \in TokenRequest
        BY <3>1, ShapeOf DEF Lookup
      <4>2. Go(r, "fetch") => Quiet
        BY <1>1, <4>1 DEF Go, TokenRequest
      <4>3. QED
        BY <1>4, <3>1, <4>1, <4>2 DEF Lookup
    <3>2. CASE CheckBlacklist(r)
      <4>1. req[r] \in TokenRequest
        BY <3>2, ShapeOf DEF CheckBlacklist
      <4>2. QED
        BY <1>1, <1>2, <3>2, <4>1 DEF CheckBlacklist, Go, TokenRequest
    <3>3. QED
      BY <1>1, <1>2, <1>7, <3>1, <3>2 DEF RevokeSet, FetchFails, DatabaseFails, Answered, Idle
  <2>2. UNCHANGED <<current, retired, late, pair, now, cache>>
    BY <1>7 DEF RevokeSet, Lookup, FetchFails, CheckBlacklist, DatabaseFails, service, history, edge
  <2>3. QED
    BY <2>1, <2>2, UnkeyedRotation DEF Quiet
<1>8. CASE FetchArrives(r)
  <2>1. req[r] \in TokenRequest \cup Prefetch
    BY <1>8, ShapeOf DEF FetchArrives
  <2>2. Quiet
    BY <1>1, <1>4, <1>8, <2>1 DEF FetchArrives, Prefetch, Idle
  <2>3. /\ UNCHANGED <<current, retired, late, pair, now>>
        /\ cache'.at = now /\ cache'.key = req[r].key /\ req[r].at = "arriving"
    BY <1>8 DEF FetchArrives, service, history
  <2>4. QED
    BY <2>2, <2>3, UnkeyedRotation DEF Quiet
<1>9. QED
  BY <1>5, <1>6, <1>7, <1>8 DEF Resume

\* Time, restarts and the loss of the files.
LEMMA RotationOther ==
    ASSUME TypesInv, TypesInv', RotationInv,
           World \/ (\E t \in Tokens : SignToken(t)) \/ UNCHANGED vars
    PROVE  RotationInv'
<1>1. CASE \E t \in Tokens : SignToken(t)
  BY <1>1, KeyedRotation DEF SignToken, edge
<1>2. CASE RestartService \/ RestartGateway
  <2>1. \A p \in Requests : req'[p].at = "arriving" => req[p].at = "arriving" /\ req'[p].key = req[p].key
    BY <1>2 DEF RestartService, RestartGateway, Idle
  <2>2. UNCHANGED <<current, retired, late, now>> /\ pair' \in {pair, NoPair}
    BY <1>2 DEF RestartService, RestartGateway, service, history
  <2>3. cache' = cache \/ (cache'.key = Absent /\ cache'.at = 0)
    BY <1>2 DEF RestartService, RestartGateway, edge
  <2>4. QED
    BY <2>1, <2>2, <2>3, UnkeyedRotation
<1>3. CASE RemoveFiles \/ Tick \/ UNCHANGED vars
  <2>1. UNCHANGED <<current, retired, late, pair, cache, req>> /\ now' \in {now, now + 1}
    BY <1>3 DEF RemoveFiles, Tick, vars, service, history, edge
  <2>2. QED
    BY <2>1, UnkeyedRotation
<1>4. QED
  BY <1>1, <1>2, <1>3 DEF World

\* Every step keeps what is known of retired keys.
LEMMA RotationStep ==
    ASSUME TypesInv, TypesInv', RotationInv, [Next]_vars
    PROVE  RotationInv'
BY RotationStart, RotationResume, RotationOther DEF Next

\* It holds of every state the system reaches.
LEMMA RotationInvariant == Spec => []RotationInv
<1>1. Init => RotationInv
  BY KeysAbsentAssumption DEF Init, RotationInv, NoPair, Idle
<1>2. QED
  BY <1>1, RotationStep, TypesInvariant, PTL DEF Spec

\* A step of one request leaves the others alone.
LEMMA OthersStay ==
    ASSUME TypesInv, NEW r \in Requests, Start(r) \/ Resume(r), NEW p \in Requests, p # r
    PROVE  req'[p] = req[p]
<1>1. ASSUME NEW q, Continue(r, q)
      PROVE  req'[p] = req[p]
  BY <1>1 DEF Continue, TypesInv, GatewayTypeOK
<1>2. CASE Start(r)
  BY <1>1, <1>2 DEF Start, StartGateway, Receive, Introspect, UserInfo, Revoke, Open
<1>3. CASE Resume(r)
  BY <1>1, <1>3 DEF Resume, IntrospectRow, UserInfoClaims, RevokeRow, RevokeSet, ServeJwks,
     HandleForwarded, Lookup, FetchArrives, FetchFails, CheckBlacklist, DatabaseFails, Answered,
     Answer, Refuse, Verify, Go
<1>4. QED
  BY <1>2, <1>3

\* A request's token is verified as it leaves the lookup or the answer arrives.
LEMMA Deciders ==
    ASSUME TypesInv, [Next]_vars, NEW r \in Requests,
           req[r].at \in {"lookup", "arriving"}, req'[r].at = "blacklist"
    PROVE  Lookup(r) \/ FetchArrives(r)
<1>1. req'[r] # req[r] /\ req'[r] # Idle
  BY DEF Idle
<1>2. PICK p \in Requests : Start(p) \/ Resume(p)
  BY <1>1 DEF Next, World, SignToken, RestartService, RestartGateway, RemoveFiles, Tick, vars
<1>3. p = r
  BY <1>1, <1>2, OthersStay
<1>4. ~Start(r)
  BY DEF Start, StartGateway, Receive, Introspect, UserInfo, Revoke, Open, Free
<1>5. ~FetchFails(r)
  <2>1. Continue(r, Idle) => req'[r] = Idle
    BY DEF Continue, TypesInv, GatewayTypeOK
  <2>2. QED
    BY <1>1, <2>1 DEF FetchFails, Refuse
<1>6. QED
  BY <1>2, <1>3, <1>4, <1>5 DEF Resume, IntrospectRow, UserInfoClaims, RevokeRow, RevokeSet,
     ServeJwks, HandleForwarded, CheckBlacklist, DatabaseFails

\* No request is decided with a key that was retired longer ago than the cache
\* lives: GatewayFollowsRotation.
THEOREM RotationReachesGateway == Spec => GatewayFollowsRotation
<1>1. TypesInv /\ RotationInv /\ [Next]_vars =>
        [\A r \in Requests :
           req[r].at \in {"lookup", "arriving"} /\ req'[r].at = "blacklist" =>
               LET key == req'[r].key IN
               \/ retired[key] = Absent
               \/ now - retired[key] <= CacheTTL
               \/ key \in late]_vars
  <2> SUFFICES ASSUME TypesInv, RotationInv, [Next]_vars, NEW r \in Requests,
                      req[r].at \in {"lookup", "arriving"}, req'[r].at = "blacklist"
               PROVE  \/ retired[req'[r].key] = Absent
                      \/ now - retired[req'[r].key] <= CacheTTL
                      \/ req'[r].key \in late
    OBVIOUS
  <2>1. ASSUME NEW q, Continue(r, q)
        PROVE  req'[r] = q
    BY <2>1 DEF Continue, TypesInv, GatewayTypeOK
  <2>2. ASSUME req[r] \in TokenRequest \cup Prefetch, NEW key \in Half, Verify(r, key)
        PROVE  req'[r].key = key
    <3>1. [req[r] EXCEPT !.at = "blacklist", !.key = key].key = key
      BY <2>2 DEF TokenRequest, Prefetch
    <3>2. ~Refuse(r)
      BY <2>1 DEF Refuse, Idle
    <3>3. QED
      BY <2>1, <2>2, <3>1, <3>2 DEF Verify
  <2>3. CASE Lookup(r)
    <3>1. req[r] \in TokenRequest
      BY <2>3, ShapeOf DEF Lookup
    <3>2. ~Go(r, "fetch")
      BY <2>1, <3>1 DEF Go, TokenRequest
    <3>3. ~CacheIsStale /\ Verify(r, cache.key)
      BY <2>3, <3>2 DEF Lookup
    <3>4. cache.key \in Keys /\ now - cache.at <= CacheTTL /\ Fresh(cache.key, cache.at)
      <4>1. cache.key # Absent /\ ~(now - cache.at > CacheTTL)
        BY <3>3 DEF CacheIsStale
      <4>2. cache.key \in Half /\ now \in Nat /\ cache.at \in Nat /\ CacheTTL \in Nat
        BY KeysTimeAssumption DEF TypesInv, GatewayTypeOK
      <4>3. QED
        BY <4>1, <4>2 DEF Half, RotationInv
    <3>5. req'[r].key = cache.key
      BY <2>2, <3>1, <3>3, <3>4 DEF Half
    <3>6. retired[cache.key] # Absent => retired[cache.key] \in Nat
      BY <3>4, KeysTimeAssumption DEF TypesInv, GatewayTypeOK
    <3>7. now \in Nat /\ cache.at \in Nat /\ CacheTTL \in Nat
      BY KeysTimeAssumption DEF TypesInv, GatewayTypeOK
    <3>8. QED
      BY <3>4, <3>5, <3>6, <3>7 DEF Fresh
  <2>4. CASE FetchArrives(r)
    <3>1. req[r] \in TokenRequest \cup Prefetch /\ req[r].key \in Half
      BY <2>4, ShapeOf DEF FetchArrives, TokenRequest, Prefetch
    <3>2. Verify(r, req[r].key)
      BY <2>1, <2>4 DEF FetchArrives, Idle
    <3>3. req'[r].key = req[r].key
      BY <2>2, <3>1, <3>2
    <3>4. QED
      BY <2>4, <3>3 DEF FetchArrives, RotationInv
  <2>5. QED
    BY <2>3, <2>4, Deciders
<1>2. QED
  BY <1>1, RotationInvariant, TypesInvariant, PTL DEF Spec, GatewayFollowsRotation

-----------------------------------------------------------------------------
(* Revocation.                                                             *)

Gone(t) == t \in Signed /\ t \notin rows
Listed(t) == t \in unlisted \/ blacklist[t] >= tokens[t].exp \/ now >= tokens[t].exp
Carrying == {"introspect", "lookup", "fetch", "arriving", "blacklist", "forwarded"}

\* What a request knows of a token that was revoked before it, or that it is
\* about to list.
Knows(q) ==
    /\ q.at = "revoke_set" => Gone(q.token) /\ tokens[q.token].exp <= now + q.ttl
    /\ q.at \in Carrying /\ q.since => q.token \in revoked
    /\ q.at = "forwarded" /\ q.since =>
           q.unread \/ q.token \in unlisted \/ now >= tokens[q.token].exp
    /\ q.at # "active"
    /\ q.at = "served" => q.unread \/ q.token \in unlisted

\* A revoked token has no row, and is listed until it expires.
RevokedInv ==
    /\ \A t \in revoked : Gone(t) /\ Listed(t)
    /\ \A r \in Requests : Knows(req[r])

\* What every step does to the tokens.
Grows ==
    /\ \A t \in Signed : tokens'[t] = tokens[t] /\ (t \in rows' => t \in rows)
    /\ revoked \subseteq revoked' /\ unlisted \subseteq unlisted'
    /\ now' \in {now, now + 1}

\* Then what is revoked stays so, and what requests know stays true.
LEMMA GrowsKeeps ==
    ASSUME TypesInv, TypesInv', RevokedInv, Grows
    PROVE  /\ \A t \in Signed : t \in Signed'
           /\ \A t \in revoked : Gone(t)' /\ (blacklist'[t] = blacklist[t] => Listed(t)')
           /\ \A q \in Shapes : Knows(q) => Knows(q)'
<1>1. \A t \in Signed : t \in Signed'
  BY DEF Grows, Signed
<1>2. now \in Nat /\ now' >= now
  BY KeysTimeAssumption DEF Grows, TypesInv, GatewayTypeOK
<1>3. ASSUME NEW t \in Signed
      PROVE  tokens[t].exp \in Nat /\ blacklist[t] \in Nat
  BY KeysTimeAssumption DEF TypesInv, GatewayTypeOK, Signed
<1>4. ASSUME NEW t \in revoked
      PROVE  Gone(t)' /\ (blacklist'[t] = blacklist[t] => Listed(t)')
  <2>1. t \in Signed /\ t \notin rows /\ Listed(t)
    BY DEF RevokedInv, Gone
  <2>2. Gone(t)'
    BY <1>1, <2>1 DEF Grows, Gone
  <2>3. blacklist'[t] = blacklist[t] => Listed(t)'
    BY <1>2, <1>3, <2>1 DEF Grows, Listed
  <2>4. QED
    BY <2>2, <2>3
<1>5. ASSUME NEW q \in Shapes, Knows(q)
      PROVE  Knows(q)'
  <2>1. q.at = "revoke_set" => Gone(q.token)' /\ tokens'[q.token].exp <= now' + q.ttl
    <3>1. ASSUME q.at = "revoke_set"
          PROVE  Gone(q.token)' /\ tokens'[q.token].exp <= now' + q.ttl
      <4>1. q.token \in Signed /\ q.token \notin rows /\ tokens[q.token].exp <= now + q.ttl
        BY <1>5, <3>1 DEF Knows, Gone
      <4>2. q.ttl \in Nat
        <5>1. q \notin {Idle} \cup Done
          BY <3>1 DEF Idle, Done
        <5>2. q \notin TokenRequest /\ q \notin Prefetch
          BY <3>1 DEF TokenRequest, Prefetch
        <5>3. q \notin ServiceRequest
          BY <3>1 DEF ServiceRequest
        <5>4. q \in Listing
          BY <5>1, <5>2, <5>3 DEF Shapes
        <5>5. QED
          BY <5>4, KeysTimeAssumption DEF Listing
      <4>3. tokens'[q.token].exp <= now' + q.ttl
        BY <1>2, <1>3, <4>1, <4>2 DEF Grows
      <4>4. QED
        BY <1>1, <4>1, <4>3 DEF Grows, Gone
    <3>2. QED
      BY <3>1
  <2>2. q.at \in Carrying /\ q.since => q.token \in revoked'
    BY <1>5 DEF Knows, Grows
  <2>3. q.at = "forwarded" /\ q.since =>
            q.unread \/ q.token \in unlisted' \/ now' >= tokens'[q.token].exp
    <3>1. ASSUME q.at = "forwarded", q.since
          PROVE  q.unread \/ q.token \in unlisted' \/ now' >= tokens'[q.token].exp
      <4>1. q.token \in Signed
        BY <1>5, <3>1 DEF Knows, Carrying, RevokedInv, Gone
      <4>2. QED
        BY <1>2, <1>3, <1>5, <3>1, <4>1 DEF Knows, Grows
    <3>2. QED
      BY <3>1
  <2>4. QED
    BY <1>5, <2>1, <2>2, <2>3 DEF Knows, Grows, Carrying
<1>6. QED
  BY <1>1, <1>4, <1>5

\* A free slot knows nothing.
LEMMA IdleKnows == Knows(Idle) /\ Knows(Idle)'
BY DEF Knows, Idle, Carrying

\* Requests that stay as they are, or end, know what they knew.
LEMMA StayersKnow ==
    ASSUME TypesInv, TypesInv', RevokedInv, Grows, NEW p \in Requests, req'[p] \in {req[p], Idle}
    PROVE  Knows(req[p])'
<1>1. PICK o \in Shapes : o = req[p]
  BY DEF TypesInv
<1>2. Knows(o)'
  BY <1>1, GrowsKeeps DEF RevokedInv
<1>3. req'[p] \in {o, Idle}
  BY <1>1
<1>4. QED
  BY <1>2, <1>3, IdleKnows DEF Knows, Gone, Signed

\* A step that revokes nothing and lists nothing anew.
LEMMA CarryOn ==
    ASSUME TypesInv, TypesInv', RevokedInv, Grows, revoked' = revoked, blacklist' = blacklist,
           \A p \in Requests : req'[p] \in {req[p], Idle} \/ Knows(req[p])'
    PROVE  RevokedInv'
BY GrowsKeeps, StayersKnow DEF RevokedInv

\* Beginning a request.
LEMMA RevokedStart ==
    ASSUME TypesInv, TypesInv', RevokedInv, NEW r \in Requests, Start(r)
    PROVE  RevokedInv'
<1>1. Grows /\ revoked' = revoked /\ blacklist' = blacklist
  BY DEF Start, StartGateway, Receive, Introspect, UserInfo, Revoke, Open, service, history, Grows
<1>2. ASSUME NEW q, Continue(r, q)
      PROVE  req'[r] = q
  BY <1>2 DEF Continue, TypesInv
<1>3. Knows(req[r])'
  <2>1. CASE StartGateway(r)
    BY <1>2, <2>1 DEF StartGateway, Knows, Carrying
  <2>2. ASSUME NEW t \in Tokens, Receive(r, t)
        PROVE  Knows(req[r])'
    <3>1. req'[r].at = "lookup" /\ req'[r].since = (t \in revoked) /\ req'[r].token = t
      BY <1>2, <2>2 DEF Receive
    <3>2. QED
      BY <1>1, <3>1 DEF Knows, Carrying
  <2>3. ASSUME NEW t \in Tokens, NEW step \in {"introspect", "userinfo", "revoke_row"},
               Open(r, t, step)
        PROVE  Knows(req[r])'
    <3>1. /\ req'[r].at = step /\ req'[r].since = (step = "introspect" /\ t \in revoked)
          /\ req'[r].token = t
      BY <1>2, <2>3 DEF Open
    <3>2. QED
      BY <1>1, <2>3, <3>1 DEF Knows, Carrying
  <2>4. QED
    BY <2>1, <2>2, <2>3 DEF Start, Introspect, UserInfo, Revoke
<1>4. QED
  BY <1>1, <1>3, OthersStay, CarryOn

\* Resuming one.
LEMMA RevokedResume ==
    ASSUME TypesInv, TypesInv', RevokedInv, NEW r \in Requests, Resume(r)
    PROVE  RevokedInv'
<1>1. \A p \in Requests : p # r => req'[p] = req[p]
  BY OthersStay
<1>2. ASSUME NEW q, Continue(r, q)
      PROVE  req'[r] = q
  BY <1>2 DEF Continue, TypesInv
<1>3. Refuse(r) => req'[r] = Idle
  BY <1>2 DEF Refuse
<1>4. ASSUME Grows, revoked' = revoked, blacklist' = blacklist, req'[r] = Idle \/ Knows(req[r])'
      PROVE  RevokedInv'
  BY <1>1, <1>4, CarryOn
<1>5. Knows(req[r])
  BY DEF RevokedInv
<1>6. now \in Nat /\ \A t \in Signed : tokens[t].exp \in Nat /\ blacklist[t] \in Nat
  BY KeysTimeAssumption DEF TypesInv, GatewayTypeOK, Signed
<1>7. CASE IntrospectRow(r)
  <2>1. Grows /\ revoked' = revoked /\ blacklist' = blacklist
    BY <1>7 DEF IntrospectRow, Grows
  <2>2. req[r].since => req[r].token \notin rows
    BY <1>5, <1>7 DEF IntrospectRow, Knows, Carrying, RevokedInv, Gone
  <2>3. req'[r] = Idle
    BY <1>2, <1>3, <1>7, <2>2 DEF IntrospectRow, Answer
  <2>4. QED
    BY <1>4, <2>1, <2>3
<1>8. CASE UserInfoClaims(r)
  BY <1>2, <1>4, <1>8 DEF UserInfoClaims, Grows
<1>9. CASE RevokeRow(r)
  <2>1. PICK t \in Signed : t = req[r].token
    BY <1>9, ShapeOf DEF RevokeRow
  <2>2. Grows /\ blacklist' = blacklist /\ t \notin rows' /\ tokens' = tokens /\ now' = now
    BY <1>9, <2>1 DEF RevokeRow, Answered, Grows
  <2>3. Gone(t)'
    BY <2>2 DEF Gone, Signed
  <2>4. CASE Verifies(t, pair'.public)
    <3>1. req'[r] = [at |-> "revoke_set", token |-> t, ttl |-> tokens[t].exp - now]
      BY <1>2, <1>9, <2>1, <2>4 DEF RevokeRow
    <3>2. tokens'[t].exp <= now' + (tokens[t].exp - now)
      BY <1>6, <2>2
    <3>3. Knows(req[r])'
      BY <2>3, <3>1, <3>2 DEF Knows, Carrying, Gone, Signed
    <3>4. revoked' = revoked
      BY <1>9, <2>1, <2>4 DEF RevokeRow
    <3>5. QED
      BY <1>4, <2>2, <3>3, <3>4
  <2>5. CASE ~Verifies(t, pair'.public)
    <3>1. /\ req'[r] = Idle /\ revoked' = revoked \cup {t}
          /\ now < tokens[t].exp => t \in unlisted'
      BY <1>2, <1>9, <2>1, <2>5 DEF RevokeRow, Answered
    <3>2. Listed(t)'
      BY <1>6, <2>2, <3>1 DEF Listed
    <3>3. \A u \in revoked' : Gone(u)' /\ Listed(u)'
      BY <2>2, <2>3, <3>1, <3>2, GrowsKeeps
    <3>4. \A p \in Requests : Knows(req[p])'
      BY <1>1, <2>2, <3>1, StayersKnow
    <3>5. QED
      BY <3>3, <3>4 DEF RevokedInv
  <2>6. QED
    BY <2>4, <2>5
<1>10. CASE RevokeSet(r)
  <2>1. PICK t \in Signed : t = req[r].token
    BY <1>10, ShapeOf DEF RevokeSet
  <2>2. req[r].ttl \in Nat
    BY <1>10, ShapeOf, KeysTimeAssumption DEF RevokeSet, Listing
  <2>3. t \notin rows /\ tokens[t].exp <= now + req[r].ttl
    BY <1>5, <1>10, <2>1 DEF RevokeSet, Knows, Gone
  <2>4. /\ Grows /\ tokens' = tokens /\ rows' = rows /\ now' = now
        /\ req'[r] = Idle /\ revoked' = revoked \cup {t}
    BY <1>2, <1>10, <2>1 DEF RevokeSet, Answered, Grows, service
  <2>5. Gone(t)'
    BY <2>3, <2>4 DEF Gone, Signed
  <2>6. Listed(t)' /\ \A u \in revoked : u # t => blacklist'[u] = blacklist[u]
    <3>1. CASE blacklist' = [blacklist EXCEPT ![t] = now + req[r].ttl]
      BY <2>2, <2>3, <2>4, <3>1 DEF Listed, TypesInv, GatewayTypeOK, Signed
    <3>2. CASE t \in unlisted' /\ blacklist' = blacklist
      BY <3>2 DEF Listed
    <3>3. QED
      BY <1>10, <2>1, <3>1, <3>2 DEF RevokeSet
  <2>7. \A u \in revoked' : Gone(u)' /\ Listed(u)'
    BY <2>4, <2>5, <2>6, GrowsKeeps
  <2>8. \A p \in Requests : Knows(req[p])'
    BY <1>1, <2>4, StayersKnow
  <2>9. QED
    BY <2>7, <2>8 DEF RevokedInv
<1>11. CASE ServeJwks(r)
  <2>1. req[r] \in TokenRequest \cup Prefetch /\ req[r].at = "fetch"
    BY <1>11, ShapeOf DEF ServeJwks
  <2>2. Grows /\ revoked' = revoked /\ blacklist' = blacklist
    BY <1>11 DEF ServeJwks, Grows
  <2>3. req'[r] = [req[r] EXCEPT !.at = "arriving", !.key = pair'.public]
    BY <1>2, <1>11 DEF ServeJwks
  <2>4. req'[r].at = "arriving" /\ req'[r].since = req[r].since /\ req'[r].token = req[r].token
    BY <2>1, <2>3 DEF TokenRequest, Prefetch
  <2>5. Knows(req[r])'
    BY <1>5, <2>1, <2>2, <2>4 DEF Knows, Carrying
  <2>6. QED
    BY <1>4, <2>2, <2>5
<1>12. CASE HandleForwarded(r)
  <2>1. req[r] \in TokenRequest
    BY <1>12, ShapeOf DEF HandleForwarded
  <2>2. Grows /\ revoked' = revoked /\ blacklist' = blacklist /\ unlisted' = unlisted
    BY <1>12 DEF HandleForwarded, Grows
  <2>3. CASE Verifies(req[r].token, pair'.public) /\ req[r].since
    <3>1. req[r].token \in Signed /\ now < tokens[req[r].token].exp
      BY <1>5, <1>12, <2>3 DEF HandleForwarded, Verifies, Knows, Carrying, RevokedInv, Gone
    <3>2. req[r].unread \/ req[r].token \in unlisted
      BY <1>5, <1>6, <1>12, <2>3, <3>1 DEF HandleForwarded, Knows
    <3>3. req'[r] = [at |-> "served", token |-> req[r].token, unread |-> req[r].unread]
      BY <1>2, <1>12, <2>3 DEF HandleForwarded, Answer
    <3>4. Knows(req[r])'
      BY <2>2, <3>2, <3>3 DEF Knows, Carrying
    <3>5. QED
      BY <1>4, <2>2, <3>4
  <2>4. CASE ~(Verifies(req[r].token, pair'.public) /\ req[r].since)
    BY <1>2, <1>3, <1>4, <1>12, <2>2, <2>4 DEF HandleForwarded, Answer
  <2>5. QED
    BY <2>3, <2>4
<1>13. ASSUME req[r] \in TokenRequest, req[r].at \in {"lookup", "arriving"}, NEW key, Verify(r, key)
       PROVE  req'[r] = Idle \/ /\ req'[r].at = "blacklist"
                                /\ req'[r].since = req[r].since /\ req'[r].token = req[r].token
  <2>1. LET q == [req[r] EXCEPT !.at = "blacklist", !.key = key] IN
        q.at = "blacklist" /\ q.since = req[r].since /\ q.token = req[r].token
    BY <1>13 DEF TokenRequest
  <2>2. QED
    BY <1>2, <1>3, <1>13, <2>1 DEF Verify
<1>14. CASE Lookup(r)
  <2>1. req[r] \in TokenRequest
    BY <1>14, ShapeOf DEF Lookup
  <2>2. Grows /\ revoked' = revoked /\ blacklist' = blacklist
    BY <1>14 DEF Lookup, Grows, service, history
  <2>3. \/ req'[r] = Idle
        \/ /\ req'[r].at \in {"fetch", "blacklist"}
           /\ req'[r].since = req[r].since /\ req'[r].token = req[r].token
    <3>1. CASE Go(r, "fetch")
      BY <1>2, <2>1, <3>1 DEF Go, TokenRequest
    <3>2. CASE Verify(r, cache.key)
      BY <1>13, <1>14, <2>1, <3>2 DEF Lookup
    <3>3. QED
      BY <1>14, <3>1, <3>2 DEF Lookup
  <2>4. req'[r] = Idle \/ Knows(req[r])'
    BY <1>5, <1>14, <2>2, <2>3 DEF Lookup, Knows, Carrying
  <2>5. QED
    BY <1>4, <2>2, <2>4
<1>15. CASE FetchArrives(r)
  <2>1. req[r] \in TokenRequest \/ req[r].token = Absent
    BY <1>15, ShapeOf DEF FetchArrives, Prefetch
  <2>2. Grows /\ revoked' = revoked /\ blacklist' = blacklist
    BY <1>15 DEF FetchArrives, Grows, service, history
  <2>3. \/ req'[r] = Idle
        \/ /\ req'[r].at = "blacklist"
           /\ req'[r].since = req[r].since /\ req'[r].token = req[r].token
    BY <1>2, <1>13, <1>15, <2>1 DEF FetchArrives
  <2>4. req'[r] = Idle \/ Knows(req[r])'
    BY <1>5, <1>15, <2>2, <2>3 DEF FetchArrives, Knows, Carrying
  <2>5. QED
    BY <1>4, <2>2, <2>4
<1>16. CASE CheckBlacklist(r)
  <2>1. req[r] \in TokenRequest
    BY <1>16, ShapeOf DEF CheckBlacklist
  <2>2. /\ Grows /\ revoked' = revoked /\ blacklist' = blacklist /\ unlisted' = unlisted
        /\ tokens' = tokens /\ now' = now
    BY <1>16 DEF CheckBlacklist, Grows, service, history
  <2>3. req[r].since => req[r].token \in Signed /\ req[r].token \in revoked /\ Listed(req[r].token)
    BY <1>5, <1>16 DEF CheckBlacklist, Knows, Carrying, RevokedInv, Gone
  <2>4. CASE blacklist[req[r].token] <= now /\ Go(r, "forwarded")
    <3>1. /\ req'[r].at = "forwarded" /\ req'[r].since = req[r].since
          /\ req'[r].token = req[r].token
      BY <1>2, <2>1, <2>4 DEF Go, TokenRequest
    <3>2. req[r].since => req[r].token \in unlisted \/ now >= tokens[req[r].token].exp
      BY <1>6, <2>3, <2>4 DEF Listed
    <3>3. Knows(req[r])'
      BY <2>2, <2>3, <3>1, <3>2 DEF Knows, Carrying
    <3>4. QED
      BY <1>4, <2>2, <3>3
  <2>5. CASE Continue(r, [req[r] EXCEPT !.at = "forwarded", !.unread = TRUE])
    <3>1. /\ req'[r].at = "forwarded" /\ req'[r].since = req[r].since
          /\ req'[r].token = req[r].token /\ req'[r].unread
      BY <1>2, <2>1, <2>5 DEF TokenRequest
    <3>2. Knows(req[r])'
      BY <2>2, <2>3, <3>1 DEF Knows, Carrying
    <3>3. QED
      BY <1>4, <2>2, <3>2
  <2>6. CASE Refuse(r)
    BY <1>3, <1>4, <2>2, <2>6
  <2>7. QED
    BY <1>16, <2>4, <2>5, <2>6 DEF CheckBlacklist
<1>17. CASE FetchFails(r) \/ DatabaseFails(r)
  <2>1. req'[r] = Idle
    BY <1>2, <1>3, <1>17 DEF FetchFails, DatabaseFails
  <2>2. Grows /\ revoked' = revoked /\ blacklist' = blacklist
    BY <1>17 DEF FetchFails, DatabaseFails, Grows, service, history
  <2>3. QED
    BY <1>4, <2>1, <2>2
<1>18. QED
  BY <1>7, <1>8, <1>9, <1>10, <1>11, <1>12, <1>14, <1>15, <1>16, <1>17 DEF Resume

\* Time, restarts and the loss of the files.
LEMMA RevokedOther ==
    ASSUME TypesInv, TypesInv', RevokedInv,
           World \/ (\E t \in Tokens : SignToken(t)) \/ UNCHANGED vars
    PROVE  RevokedInv'
<1>1. Grows /\ revoked' = revoked /\ blacklist' = blacklist
  <2>1. ASSUME NEW t \in Tokens, SignToken(t)
        PROVE  Grows /\ revoked' = revoked /\ blacklist' = blacklist
    BY <2>1 DEF SignToken, Grows, Signed, TypesInv, GatewayTypeOK
  <2>2. World \/ UNCHANGED vars => Grows /\ revoked' = revoked /\ blacklist' = blacklist
    BY DEF World, RestartService, RestartGateway, RemoveFiles, Tick, vars, service, history, Grows
  <2>3. QED
    BY <2>1, <2>2
<1>2. \A p \in Requests : req'[p] \in {req[p], Idle}
  BY DEF World, RestartService, RestartGateway, RemoveFiles, Tick, SignToken, vars
<1>3. QED
  BY <1>1, <1>2, CarryOn

\* Every step keeps what is revoked.
LEMMA RevokedStep ==
    ASSUME TypesInv, TypesInv', RevokedInv, [Next]_vars
    PROVE  RevokedInv'
BY RevokedStart, RevokedResume, RevokedOther DEF Next

\* A revoked token is not active to introspection, and behind the gateway only
\* where Redis failed or the revocation could not list it: RevokedIsRefused.
THEOREM RevokedStayOut == Spec => []RevokedIsRefused
<1>1. Init => RevokedInv
  BY IdleKnows DEF Init, RevokedInv
<1>2. TypesInv /\ TypesInv' /\ RevokedInv /\ [Next]_vars => RevokedInv'
  BY RevokedStep
<1>3. RevokedInv => RevokedIsRefused
  BY DEF RevokedInv, Knows, RevokedIsRefused
<1>4. QED
  BY <1>1, <1>2, <1>3, TypesInvariant, PTL DEF Spec

=============================================================================
