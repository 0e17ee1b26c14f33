------------------------- MODULE TokenGrantsProofs -------------------------
(***************************************************************************)
(* Proofs about TokenGrants, for every value of its constants.             *)
(*                                                                         *)
(* 1. Types.                                                               *)
(* 2. Safety: no row or code outlives its client, and an exchanged or      *)
(*    revoked refresh token is never in a row again.  The latter needs to  *)
(*    know more than the properties say: that jtis in use have been drawn, *)
(*    that no two rows share a refresh token, and what the handlers in     *)
(*    flight may still write.  Then the action properties of codes, and    *)
(*    the blacklist.                                                       *)
(* 3. TokenGrants implements the ledger of GrantLedger: every step removes *)
(*    rows, adds one under a fresh id, or rotates one to a fresh token,    *)
(*    and a stored row's id has been drawn: so a row that goes is a grant  *)
(*    that ends, and none ever opens twice.                                *)
(* 4. What a replay deletes: whoever knows a code agrees on its user.      *)
(* 5. How often a code is redeemed: the exchanges past the check and those *)
(*    that have stored are counted together.                               *)
(***************************************************************************)
EXTENDS TokenGrants, FiniteSetTheorems, TLAPS

-----------------------------------------------------------------------------
(* 1. Types.                                                               *)

\* A table with rows removed keeps its type.
LEMMA WithoutType ==
    ASSUME TypeOK, NEW S
    PROVE  /\ Without(rows, S) \in [RowIds -> TokenRow \cup {Absent}]
           /\ Without(codes, S) \in [Codes -> CodeRow \cup {Absent}]
           /\ \A i \in RowIds : Without(rows, S)[i] = IF i \in S THEN Absent ELSE rows[i]
           /\ \A k \in Codes : Without(codes, S)[k] = IF k \in S THEN Absent ELSE codes[k]
<1>1. DOMAIN rows = RowIds /\ DOMAIN codes = Codes
  BY DEF TypeOK
<1>2. QED
  BY <1>1 DEF TypeOK, Without

\* A request that moves on keeps the requests' type, and only moves itself.
LEMMA ContinueType ==
    ASSUME TypeOK, NEW r \in Requests, NEW q \in Request, Continue(r, q)
    PROVE  /\ req' \in [Requests -> Request]
           /\ req'[r] = q
           /\ \A p \in Requests \ {r} : req'[p] = req[p]
BY DEF TypeOK, Continue

\* Minted tokens are tokens.
LEMMA MintType ==
    ASSUME TypeOK
    PROVE  /\ \A s \in Users \cup Clients, sc \in Scopes :
                GenerateAccessToken(s, sc) \in AccessToken
           /\ \A j \in Jtis : GenerateRefreshToken(j) \in RefreshToken
           /\ \A j \in Jtis \cup {Absent} : MintRefresh(j) \in RefreshToken \cup {Absent}
BY DEF TypeOK, GenerateAccessToken, GenerateRefreshToken, MintRefresh,
       AccessToken, RefreshToken

\* The steps that start a handler preserve the types.
LEMMA StartType ==
    ASSUME TypeOK, NEW r \in Requests, Start(r)
    PROVE  TypeOK'
<1> USE DEF store, history, Request
<1>1. ASSUME NEW u \in Users, NEW c \in Clients, NEW sc \in Scopes,
             GenerateCode(r, u, c, sc)
      PROVE  TypeOK'
  <2>1. req' \in [Requests -> Request]
    BY <1>1, ContinueType DEF GenerateCode, CodeRequest
  <2>2. QED
    BY <1>1, <2>1 DEF GenerateCode, TypeOK
<1>2. ASSUME NEW c \in Clients, NEW k \in Codes, NEW b \in BOOLEAN,
             ExchangeAuthenticate(r, c, k, b)
      PROVE  TypeOK'
  <2>1. req' \in [Requests -> Request]
    BY <1>2, ContinueType DEF ExchangeAuthenticate, LookupRequest
  <2>2. QED
    BY <1>2, <2>1 DEF ExchangeAuthenticate, TypeOK
<1>3. ASSUME NEW c \in Clients, NEW sc \in Scopes, MachineAuthenticate(r, c, sc)
      PROVE  TypeOK'
  <2>1. req' \in [Requests -> Request]
    BY <1>3, ContinueType DEF MachineAuthenticate, MachineRequest
  <2>2. QED
    BY <1>3, <2>1 DEF MachineAuthenticate, TypeOK
<1>4. ASSUME NEW c \in Clients, NEW f \in held, RefreshAuthenticate(r, c, f)
      PROVE  TypeOK'
  <2>1. req' \in [Requests -> Request]
    BY <1>4, ContinueType DEF RefreshAuthenticate, RefreshLookupRequest
  <2>2. QED
    BY <1>4, <2>1 DEF RefreshAuthenticate, TypeOK
<1>5. ASSUME NEW t \in held, RevokeDelete(r, t)
      PROVE  TypeOK'
  <2>1. req' \in [Requests -> Request]
    <3>1. t \in Token
      BY DEF TypeOK
    <3>2. QED
      BY <1>5, <3>1, ContinueType DEF RevokeDelete, RevokeRequest
  <2>2. rows' \in [RowIds -> TokenRow \cup {Absent}]
    BY <1>5, WithoutType DEF RevokeDelete
  <2>3. QED
    BY <1>5, <2>1, <2>2 DEF RevokeDelete, TypeOK
<1>6. ASSUME NEW c \in Clients, DeleteClientTokens(r, c)
      PROVE  TypeOK'
  <2>1. req' \in [Requests -> Request]
    BY <1>6, ContinueType DEF DeleteClientTokens, DeleteRequest
  <2>2. rows' \in [RowIds -> TokenRow \cup {Absent}]
    BY <1>6, WithoutType DEF DeleteClientTokens
  <2>3. QED
    BY <1>6, <2>1, <2>2 DEF DeleteClientTokens, TypeOK
<1>7. QED
  BY <1>1, <1>2, <1>3, <1>4, <1>5, <1>6 DEF Start

\* A request at one of the exchange steps is an exchange request, and so on:
\* the control point tells the shape.
LEMMA ShapeOf ==
    ASSUME TypeOK, NEW r \in Requests
    PROVE  /\ req[r].at = "code_create" => req[r] \in CodeRequest
           /\ req[r].at = "exchange_lookup" => req[r] \in LookupRequest
           /\ req[r].at \in {"exchange_reuse", "exchange_expire", "exchange_mark",
                            "exchange_store"} => req[r] \in ExchangeRequest
           /\ req[r].at = "machine_store" => req[r] \in MachineRequest
           /\ req[r].at = "refresh_lookup" => req[r] \in RefreshLookupRequest
           /\ req[r].at \in {"refresh_expire", "refresh_update"}
                => req[r] \in RefreshRequest
           /\ req[r].at = "revoke_blacklist" => req[r] \in RevokeRequest
           /\ req[r].at \in {"delete_codes", "delete_client"} => req[r] \in DeleteRequest
<1>1. req[r] \in Request
  BY DEF TypeOK
<1>2. QED
  BY <1>1 DEF Request, Idle, CodeRequest, LookupRequest, ExchangeRequest, MachineRequest,
     RefreshLookupRequest, RefreshRequest, RevokeRequest, DeleteRequest

\* The insert of a row of tokens keeps the types of what it may change.
LEMMA StoreTokenType ==
    ASSUME TypeOK, NEW i \in RowIds, NEW j \in Jtis \cup {Absent},
           NEW row \in TokenRow, StoreToken(i, j, row)
    PROVE  /\ rows' \in [RowIds -> TokenRow \cup {Absent}]
           /\ drawn' \subseteq Codes \cup RowIds \cup Jtis
           /\ held' \subseteq Token
<1>1. Delivered(row) \subseteq Token
  BY DEF Delivered, TokenRow, Token
<1>2. QED
  BY <1>1 DEF StoreToken, TypeOK

\* The steps that resume a handler preserve the types.
LEMMA ResumeType ==
    ASSUME TypeOK, NEW r \in Requests, Resume(r)
    PROVE  TypeOK'
<1> USE DEF store, history
<1>i. Idle \in Request
  BY DEF Request
<1>f. ASSUME Finish(r)
      PROVE  req' \in [Requests -> Request]
  BY <1>f, <1>i, ContinueType DEF Finish
<1>1. ASSUME NEW k \in Codes, CreateCode(r, k)
      PROVE  TypeOK'
  <2>1. req[r] \in CodeRequest
    BY <1>1, ShapeOf DEF CreateCode
  <2>2. codes' \in [Codes -> CodeRow \cup {Absent}]
    <3>1. now + CodeTTL \in Nat
      BY TTLAssumption DEF TypeOK
    <3>2. [user |-> req[r].user, client |-> req[r].client, scopes |-> req[r].scopes,
           expiresAt |-> now + CodeTTL, used |-> FALSE] \in CodeRow
      BY <2>1, <3>1 DEF CodeRequest, CodeRow
    <3>3. QED
      BY <1>1, <3>2 DEF CreateCode, TypeOK
  <2>3. req' \in [Requests -> Request]
    BY <1>1, <1>f DEF CreateCode
  <2>4. QED
    BY <1>1, <2>2, <2>3 DEF CreateCode, TypeOK
<1>2. ASSUME ExchangeLookup(r)
      PROVE  TypeOK'
  <2> DEFINE next == LookupVerdict(codes[req[r].code], req[r].binds)
             q == [at |-> next, caller |-> req[r].caller, code |-> req[r].code,
                   seen |-> codes[req[r].code]]
  <2>1. req[r] \in LookupRequest
    BY <1>2, ShapeOf DEF ExchangeLookup
  <2>2. req[r].code \in Codes /\ req[r].caller \in Clients
    BY <2>1 DEF LookupRequest
  <2>3. codes[req[r].code] \in CodeRow \cup {Absent}
    BY <2>2 DEF TypeOK
  <2>4. next # "idle" => q \in ExchangeRequest
    BY <2>2, <2>3 DEF LookupVerdict, ExchangeRequest
  <2>5. Continue(r, IF next = "idle" THEN Idle ELSE q)
    BY <1>2 DEF ExchangeLookup
  <2>6. (IF next = "idle" THEN Idle ELSE q) \in Request
    BY <1>i, <2>4 DEF Request
  <2>7. req' \in [Requests -> Request]
    BY <2>5, <2>6, ContinueType
  <2>8. QED
    BY <1>2, <2>7 DEF ExchangeLookup, TypeOK
<1>3. ASSUME ExchangeReuse(r)
      PROVE  TypeOK'
  <2>1. req[r] \in ExchangeRequest
    BY <1>3, ShapeOf DEF ExchangeReuse
  <2>2. rows' \in [RowIds -> TokenRow \cup {Absent}]
    BY <1>3, WithoutType DEF ExchangeReuse
  <2>3. replayed' \subseteq Codes
    BY <1>3, <2>1 DEF ExchangeReuse, ExchangeRequest, TypeOK
  <2>4. req' \in [Requests -> Request]
    BY <1>3, <1>f DEF ExchangeReuse
  <2>5. QED
    BY <1>3, <2>2, <2>3, <2>4 DEF ExchangeReuse, TypeOK
<1>4. ASSUME ExchangeExpire(r)
      PROVE  TypeOK'
  <2>1. codes' \in [Codes -> CodeRow \cup {Absent}]
    BY <1>4, WithoutType DEF ExchangeExpire
  <2>2. req' \in [Requests -> Request]
    BY <1>4, <1>f DEF ExchangeExpire
  <2>3. QED
    BY <1>4, <2>1, <2>2 DEF ExchangeExpire, TypeOK
<1>5. ASSUME ExchangeMark(r)
      PROVE  TypeOK'
  <2> DEFINE k == req[r].code
  <2>1. req[r] \in ExchangeRequest
    BY <1>5, ShapeOf DEF ExchangeMark
  <2>2. CASE codes[k] = Absent
    <3>1. req' \in [Requests -> Request]
      BY <1>5, <1>f, <2>2 DEF ExchangeMark
    <3>2. QED
      BY <1>5, <2>2, <3>1 DEF ExchangeMark, TypeOK
  <2>3. CASE codes[k] # Absent
    <3>1. k \in Codes
      BY <2>1 DEF ExchangeRequest
    <3>2. codes[k] \in CodeRow
      BY <2>3, <3>1 DEF TypeOK
    <3>3. [codes[k] EXCEPT !.used = TRUE] \in CodeRow
      BY <3>2 DEF CodeRow
    <3>4. codes' \in [Codes -> CodeRow \cup {Absent}]
      BY <1>5, <2>3, <3>1, <3>3 DEF ExchangeMark, TypeOK
    <3>5. [req[r] EXCEPT !.at = "exchange_store"] \in Request
      BY <2>1 DEF ExchangeRequest, Request
    <3>6. req' \in [Requests -> Request]
      BY <1>5, <2>3, <3>5, ContinueType DEF ExchangeMark
    <3>7. QED
      BY <1>5, <3>4, <3>6 DEF ExchangeMark, TypeOK
  <2>4. QED
    BY <2>2, <2>3
<1>6. ASSUME NEW i \in RowIds, NEW j \in Jtis \cup {Absent}, ExchangeStore(r, i, j)
      PROVE  TypeOK'
  <2> DEFINE sc == req[r].seen.scopes
             u == req[r].seen.user
             row == [access |-> GenerateAccessToken(u, sc), refresh |-> MintRefresh(j),
                     user |-> u, client |-> req[r].caller, scopes |-> sc]
  <2>1. req[r] \in ExchangeRequest
    BY <1>6, ShapeOf DEF ExchangeStore
  <2>2. sc \in Scopes /\ u \in Users /\ req[r].caller \in Clients /\ req[r].code \in Codes
    BY <2>1 DEF ExchangeRequest, CodeRow
  <2>3. row \in TokenRow
    BY <2>2, MintType DEF TokenRow
  <2>4. StoreToken(i, j, row)
    BY <1>6 DEF ExchangeStore
  <2>5. issued' \subseteq Codes \X RowIds
    BY <1>6, <2>2 DEF ExchangeStore, TypeOK
  <2>6. req' \in [Requests -> Request]
    BY <1>6, <1>f DEF ExchangeStore
  <2> HIDE DEF row
  <2>7. QED
    BY <1>6, <2>3, <2>4, <2>5, <2>6, StoreTokenType DEF ExchangeStore, TypeOK
<1>7. ASSUME NEW i \in RowIds, MachineStore(r, i)
      PROVE  TypeOK'
  <2> DEFINE row == [access |-> GenerateAccessToken(req[r].caller, req[r].scopes),
                     refresh |-> Absent, user |-> Absent,
                     client |-> req[r].caller, scopes |-> req[r].scopes]
  <2>1. req[r] \in MachineRequest
    BY <1>7, ShapeOf DEF MachineStore
  <2>2. row \in TokenRow
    BY <2>1, MintType DEF TokenRow, MachineRequest
  <2>3. StoreToken(i, Absent, row)
    BY <1>7 DEF MachineStore
  <2>4. req' \in [Requests -> Request]
    BY <1>7, <1>f DEF MachineStore
  <2> HIDE DEF row
  <2>5. QED
    BY <1>7, <2>2, <2>3, <2>4, StoreTokenType DEF MachineStore, TypeOK
<1>8. ASSUME RefreshLookup(r)
      PROVE  TypeOK'
  <2>1. req[r] \in RefreshLookupRequest
    BY <1>8, ShapeOf DEF RefreshLookup
  <2>2. req' \in [Requests -> Request]
    <3>1. CASE Finish(r)
      BY <3>1, <1>f
    <3>2. ASSUME NEW i \in Stored,
                 Continue(r, [at |-> IF Expiry(req[r].token) < now
                                     THEN "refresh_expire" ELSE "refresh_update",
                              token |-> req[r].token, row |-> i, seen |-> rows[i]])
          PROVE  req' \in [Requests -> Request]
      <4>1. i \in RowIds /\ rows[i] \in TokenRow
        BY <3>2 DEF Stored, TypeOK
      <4>2. req[r].token \in RefreshToken
        BY <2>1 DEF RefreshLookupRequest
      <4>3. [at |-> IF Expiry(req[r].token) < now THEN "refresh_expire" ELSE "refresh_update",
             token |-> req[r].token, row |-> i, seen |-> rows[i]] \in RefreshRequest
        BY <4>1, <4>2 DEF RefreshRequest
      <4>4. QED
        BY <3>2, <4>3, ContinueType DEF Request
    <3>3. QED
      BY <1>8, <3>1, <3>2 DEF RefreshLookup
  <2>3. QED
    BY <1>8, <2>2 DEF RefreshLookup, TypeOK
<1>9. ASSUME RefreshExpire(r)
      PROVE  TypeOK'
  <2>1. rows' \in [RowIds -> TokenRow \cup {Absent}]
    BY <1>9, WithoutType DEF RefreshExpire
  <2>2. req' \in [Requests -> Request]
    BY <1>9, <1>f DEF RefreshExpire
  <2>3. QED
    BY <1>9, <2>1, <2>2 DEF RefreshExpire, TypeOK
<1>10. ASSUME NEW j \in Jtis, RefreshUpdate(r, j)
       PROVE  TypeOK'
  <2> DEFINE q == req[r]
             access == GenerateAccessToken(Subject(q.seen), q.seen.scopes)
             new == GenerateRefreshToken(j)
  <2>1. q \in RefreshRequest
    BY <1>10, ShapeOf DEF RefreshUpdate
  <2>2. q.token \in RefreshToken /\ q.row \in RowIds /\ q.seen \in TokenRow
    BY <2>1 DEF RefreshRequest
  <2>3. access \in AccessToken /\ new \in RefreshToken
    <3>1. Subject(q.seen) \in Users \cup Clients /\ q.seen.scopes \in Scopes
      BY <2>2 DEF TokenRow, Subject
    <3>2. QED
      BY <3>1, MintType
  <2>4. req' \in [Requests -> Request]
    BY <1>10, <1>f DEF RefreshUpdate
  <2>5. CASE q.row \in Stored /\ AccessFree(access, q.row)
    <3> HIDE DEF access, new
    <3>1. /\ rows' = [rows EXCEPT ![q.row] = Rotate(@, access, new)]
          /\ drawn' = drawn \cup {j}
          /\ held' = held \cup {access, new}
          /\ rotations' = rotations \cup {<<q.token, new>>}
      BY <1>10, <2>5 DEF RefreshUpdate, access, new
    <3>2. rows[q.row] \in TokenRow
      BY <2>2, <2>5 DEF Stored, TypeOK
    <3>3. Rotate(rows[q.row], access, new) \in TokenRow
      BY <2>3, <3>2 DEF Rotate, TokenRow
    <3>4. rows' \in [RowIds -> TokenRow \cup {Absent}]
      BY <3>1, <3>3 DEF TypeOK
    <3>5. held' \subseteq Token /\ drawn' \subseteq Codes \cup RowIds \cup Jtis
      BY <2>3, <3>1 DEF Token, TypeOK
    <3>6. rotations' \subseteq RefreshToken \X RefreshToken
      BY <2>2, <2>3, <3>1 DEF TypeOK
    <3>7. QED
      BY <1>10, <2>4, <3>4, <3>5, <3>6 DEF RefreshUpdate, TypeOK
  <2>6. CASE ~(q.row \in Stored /\ AccessFree(access, q.row))
    BY <1>10, <2>4, <2>6 DEF RefreshUpdate, TypeOK
  <2>7. QED
    BY <2>5, <2>6
<1>11. ASSUME RevokeBlacklist(r)
       PROVE  TypeOK'
  <2>1. req[r].token \in Token
    BY <1>11, ShapeOf DEF RevokeBlacklist, RevokeRequest
  <2>2. req' \in [Requests -> Request]
    BY <1>11, <1>f DEF RevokeBlacklist
  <2>3. blacklist' \subseteq Token /\ revoked' \subseteq Token
    BY <1>11, <2>1 DEF RevokeBlacklist, TypeOK
  <2>4. QED
    BY <1>11, <2>2, <2>3 DEF RevokeBlacklist, TypeOK
<1>12. ASSUME DeleteClientCodes(r)
       PROVE  TypeOK'
  <2>1. codes' \in [Codes -> CodeRow \cup {Absent}]
    BY <1>12, WithoutType DEF DeleteClientCodes
  <2>2. req[r] \in DeleteRequest
    BY <1>12, ShapeOf DEF DeleteClientCodes
  <2>3. [req[r] EXCEPT !.at = "delete_client"] \in Request
    BY <2>2 DEF DeleteRequest, Request
  <2>4. req' \in [Requests -> Request]
    BY <1>12, <2>3, ContinueType DEF DeleteClientCodes
  <2>5. QED
    BY <1>12, <2>1, <2>4 DEF DeleteClientCodes, TypeOK
<1>13. ASSUME DeleteClientRow(r)
       PROVE  TypeOK'
  <2>1. rows' \in [RowIds -> TokenRow \cup {Absent}]
    BY <1>13, WithoutType DEF DeleteClientRow
  <2>2. codes' \in [Codes -> CodeRow \cup {Absent}]
    BY <1>13, WithoutType DEF DeleteClientRow
  <2>3. req' \in [Requests -> Request]
    BY <1>13, <1>f DEF DeleteClientRow
  <2>4. QED
    BY <1>13, <2>1, <2>2, <2>3 DEF DeleteClientRow, TypeOK
<1>14. ASSUME DatabaseError(r)
       PROVE  TypeOK'
  <2>1. req' \in [Requests -> Request]
    BY <1>14, <1>f DEF DatabaseError
  <2>2. QED
    BY <1>14, <2>1 DEF DatabaseError, TypeOK
<1>15. QED
  BY <1>1, <1>2, <1>3, <1>4, <1>5, <1>6, <1>7, <1>8, <1>9, <1>10, <1>11, <1>12, <1>13,
     <1>14 DEF Resume

\* The timers preserve the types.
LEMMA BackgroundType ==
    ASSUME TypeOK, Background
    PROVE  TypeOK'
<1>1. CASE CleanupTokens
  BY <1>1, WithoutType DEF CleanupTokens, TypeOK, history
<1>2. CASE CleanupCodes
  BY <1>2, WithoutType DEF CleanupCodes, TypeOK, history
<1>3. CASE Tick
  BY <1>3 DEF Tick, TypeOK, history
<1>4. QED
  BY <1>1, <1>2, <1>3 DEF Background

\* Every store, request and history variable keeps its type.
THEOREM TypeCorrect == Spec => []TypeOK
<1>1. Init => TypeOK
  BY DEF Init, TypeOK, Request
<1>2. TypeOK /\ [Next]_vars => TypeOK'
  <2>1. TypeOK /\ UNCHANGED vars => TypeOK'
    BY DEF TypeOK, vars, store, history
  <2>2. QED
    BY <2>1, StartType, ResumeType, BackgroundType DEF Next
<1>3. QED
  BY <1>1, <1>2, PTL DEF Spec

-----------------------------------------------------------------------------
(* 2. Safety.                                                              *)

(* Orphans.                                                                *)

RowsShrink == \A i \in RowIds : rows'[i] \in {rows[i], Absent}
CodesKept ==
    \A k \in Codes : \/ codes'[k] = Absent
                     \/ codes[k] # Absent /\ codes'[k].client = codes[k].client

\* A step that registers no client, adds no row and no code leaves no orphan.
LEMMA OrphansFrame ==
    ASSUME TypeOK, NoOrphans, clients' = clients, RowsShrink, CodesKept
    PROVE  NoOrphans'
BY DEF NoOrphans, RowsShrink, CodesKept, Stored

\* Removing rows from a table shrinks it.
LEMMA WithoutShrinks ==
    ASSUME TypeOK, NEW S
    PROVE  /\ rows' = Without(rows, S) => RowsShrink
           /\ codes' = Without(codes, S) => CodesKept
           /\ rows' = rows => RowsShrink
           /\ codes' = codes => CodesKept
BY WithoutType DEF RowsShrink, CodesKept

\* A stored row belongs to a registered client, the only one added.
LEMMA StoreTokenOrphans ==
    ASSUME TypeOK, NoOrphans, NEW i \in RowIds, NEW j, NEW row, StoreToken(i, j, row),
           clients' = clients, codes' = codes
    PROVE  NoOrphans'
BY DEF StoreToken, RowAdmitted, NoOrphans, Stored, TypeOK

\* No step that resumes a handler leaves an orphan: an insert finds its client
\* registered, and the client's deletion cascades.
LEMMA OrphansResume ==
    ASSUME TypeOK, NoOrphans, NEW r \in Requests, Resume(r)
    PROVE  NoOrphans'
<1> USE DEF store, history
<1>1. ASSUME NEW k \in Codes, CreateCode(r, k)
      PROVE  NoOrphans'
  BY <1>1 DEF CreateCode, NoOrphans, Stored, TypeOK
<1>2. ASSUME ExchangeLookup(r)
      PROVE  NoOrphans'
  BY <1>2, OrphansFrame, WithoutShrinks DEF ExchangeLookup
<1>3. ASSUME ExchangeReuse(r)
      PROVE  NoOrphans'
  BY <1>3, OrphansFrame, WithoutShrinks DEF ExchangeReuse
<1>4. ASSUME ExchangeExpire(r)
      PROVE  NoOrphans'
  BY <1>4, OrphansFrame, WithoutShrinks DEF ExchangeExpire
<1>5. ASSUME ExchangeMark(r)
      PROVE  NoOrphans'
  <2>1. CodesKept
    <3>1. CASE codes[req[r].code] = Absent
      BY <1>5, <3>1, WithoutShrinks DEF ExchangeMark
    <3>2. CASE codes[req[r].code] # Absent
      <4>1. req[r].code \in Codes
        BY <1>5, ShapeOf DEF ExchangeMark, ExchangeRequest
      <4>2. codes[req[r].code] \in CodeRow
        BY <3>2, <4>1 DEF TypeOK
      <4>3. QED
        BY <1>5, <3>2, <4>1, <4>2 DEF ExchangeMark, CodesKept, CodeRow, TypeOK
    <3>3. QED
      BY <3>1, <3>2
  <2>2. QED
    BY <1>5, <2>1, OrphansFrame, WithoutShrinks DEF ExchangeMark
<1>6. ASSUME NEW i \in RowIds, NEW j \in Jtis \cup {Absent}, ExchangeStore(r, i, j)
      PROVE  NoOrphans'
  BY <1>6, StoreTokenOrphans DEF ExchangeStore
<1>7. ASSUME NEW i \in RowIds, MachineStore(r, i)
      PROVE  NoOrphans'
  BY <1>7, StoreTokenOrphans DEF MachineStore
<1>8. ASSUME RefreshLookup(r)
      PROVE  NoOrphans'
  BY <1>8, OrphansFrame, WithoutShrinks DEF RefreshLookup
<1>9. ASSUME RefreshExpire(r)
      PROVE  NoOrphans'
  BY <1>9, OrphansFrame, WithoutShrinks DEF RefreshExpire
<1>10. ASSUME NEW j \in Jtis, RefreshUpdate(r, j)
       PROVE  NoOrphans'
  <2> DEFINE n == req[r].row
             access == GenerateAccessToken(Subject(req[r].seen), req[r].seen.scopes)
             new == GenerateRefreshToken(j)
  <2>1. CASE n \in Stored /\ AccessFree(access, n)
    <3> HIDE DEF access, new
    <3>1. rows' = [rows EXCEPT ![n] = Rotate(@, access, new)]
      BY <1>10, <2>1 DEF RefreshUpdate, access, new
    <3>2. n \in RowIds /\ rows[n] \in TokenRow
      BY <2>1 DEF Stored, TypeOK
    <3>3. rows'[n].client = rows[n].client
      BY <3>1, <3>2 DEF Rotate, TokenRow, TypeOK
    <3>4. \A i \in RowIds \ {n} : rows'[i] = rows[i]
      BY <3>1 DEF TypeOK
    <3>5. codes' = codes /\ clients' = clients
      BY <1>10 DEF RefreshUpdate
    <3>6. QED
      BY <2>1, <3>2, <3>3, <3>4, <3>5 DEF NoOrphans, Stored
  <2>2. CASE ~(n \in Stored /\ AccessFree(access, n))
    BY <1>10, <2>2, OrphansFrame, WithoutShrinks DEF RefreshUpdate
  <2>3. QED
    BY <2>1, <2>2
<1>11. ASSUME RevokeBlacklist(r)
       PROVE  NoOrphans'
  BY <1>11, OrphansFrame, WithoutShrinks DEF RevokeBlacklist
<1>12. ASSUME DeleteClientCodes(r)
       PROVE  NoOrphans'
  BY <1>12, OrphansFrame, WithoutShrinks DEF DeleteClientCodes
<1>13. ASSUME DeleteClientRow(r)
       PROVE  NoOrphans'
  <2> DEFINE c == req[r].client
  <2>1. \A i \in RowIds : rows'[i] = IF i \in ClientRows(c) THEN Absent ELSE rows[i]
    BY <1>13, WithoutType DEF DeleteClientRow
  <2>2. \A k \in Codes : codes'[k] = IF k \in ClientCodes(c) THEN Absent ELSE codes[k]
    BY <1>13, WithoutType DEF DeleteClientRow
  <2>3. clients' = clients \ {c}
    BY <1>13 DEF DeleteClientRow
  <2>4. QED
    BY <2>1, <2>2, <2>3 DEF NoOrphans, Stored, ClientRows, ClientCodes
<1>14. ASSUME DatabaseError(r)
       PROVE  NoOrphans'
  BY <1>14, OrphansFrame, WithoutShrinks DEF DatabaseError
<1>15. QED
  BY <1>1, <1>2, <1>3, <1>4, <1>5, <1>6, <1>7, <1>8, <1>9, <1>10, <1>11, <1>12, <1>13,
     <1>14 DEF Resume

\* No step that starts a handler leaves an orphan.
LEMMA OrphansStart ==
    ASSUME TypeOK, NoOrphans, NEW r \in Requests, Start(r)
    PROVE  NoOrphans'
<1> USE DEF store, history
<1>1. clients' = clients /\ RowsShrink /\ CodesKept
  BY WithoutShrinks DEF Start, GenerateCode, ExchangeAuthenticate, MachineAuthenticate,
     RefreshAuthenticate, RevokeDelete, DeleteClientTokens
<1>2. QED
  BY <1>1, OrphansFrame

\* Rows and codes never outlive their client, whatever is in flight while
\* clientService.delete runs.
THEOREM OrphanFree == Spec => []NoOrphans
<1>1. Init => NoOrphans
  BY DEF Init, NoOrphans, Stored
<1>2. TypeOK /\ NoOrphans /\ [Next]_vars => NoOrphans'
  <2> SUFFICES ASSUME TypeOK, NoOrphans, [Next]_vars
               PROVE  NoOrphans'
    OBVIOUS
  <2>1. CASE UNCHANGED vars
    BY <2>1, OrphansFrame, WithoutShrinks DEF vars, store
  <2>2. CASE Background
    BY <2>2, OrphansFrame, WithoutShrinks
    DEF Background, CleanupTokens, CleanupCodes, Tick
  <2>3. QED
    BY <2>1, <2>2, OrphansStart, OrphansResume DEF Next
<1>3. QED
  BY <1>1, <1>2, TypeCorrect, PTL DEF Spec

-----------------------------------------------------------------------------
(* Dead refresh tokens: drawn, and in no row.                              *)

Dead(t) == t.jti \in drawn /\ \A i \in Stored : rows[i].refresh # t
OnlyIn(t, n) == t.jti \in drawn /\ \A i \in Stored : rows[i].refresh = t => i = n

\* The tokens in rows are drawn and in one row each.
ColumnDrawn ==
    \A i \in Stored : rows[i].refresh # Absent => rows[i].refresh.jti \in drawn
ColumnUnique ==
    \A i, k \in Stored :
        (rows[i].refresh = rows[k].refresh /\ rows[i].refresh # Absent) => i = k
HeldDrawn == \A t \in held \cap RefreshToken : t.jti \in drawn

\* What a handler in flight knows of the token it works on.
RequestKnows(r) ==
    /\ req[r].at = "refresh_lookup" => req[r].token.jti \in drawn
    /\ req[r].at \in {"refresh_expire", "refresh_update"}
         => OnlyIn(req[r].token, req[r].row)
    /\ (req[r].at = "revoke_blacklist" /\ req[r].token \in RefreshToken)
         => Dead(req[r].token)

DeadInv ==
    /\ ColumnDrawn
    /\ ColumnUnique
    /\ HeldDrawn
    /\ \A r \in Requests : RequestKnows(r)
    /\ \A p \in rotations : Dead(p[1])
    /\ \A t \in revoked \cap RefreshToken : Dead(t)

\* How a step changes the refresh tokens of the rows: only row n gets a new
\* one, and that one was not drawn before.
ColumnStep(n) ==
    /\ drawn \subseteq drawn'
    /\ \A i \in Stored' :
          \/ i \in Stored /\ rows'[i].refresh = rows[i].refresh
          \/ rows'[i].refresh = Absent
          \/ /\ i = n
             /\ rows'[i].refresh.jti \in drawn' \ drawn

\* A dead token stays dead, one confined to a row stays confined to it, and
\* the column stays drawn and unique, whatever else a step of this kind does.
LEMMA ColumnStepKeeps ==
    ASSUME TypeOK, TypeOK', ColumnDrawn, ColumnUnique, NEW n, ColumnStep(n)
    PROVE  /\ ColumnDrawn' /\ ColumnUnique'
           /\ \A t \in RefreshToken : Dead(t) => Dead(t)'
           /\ \A t \in RefreshToken, m \in RowIds : OnlyIn(t, m) => OnlyIn(t, m)'
<1>1. \A t \in RefreshToken : t # Absent
  BY AbsentAssumption
<1>2. \A i \in Stored : i \in RowIds /\ rows[i].refresh \in RefreshToken \cup {Absent}
  BY DEF TypeOK, Stored, TokenRow
<1>3. ColumnDrawn'
  BY <1>2 DEF ColumnDrawn, ColumnStep
<1>4. ColumnUnique'
  BY DEF ColumnUnique, ColumnDrawn, ColumnStep
<1>5. \A t \in RefreshToken : Dead(t) => Dead(t)'
  BY <1>1 DEF Dead, ColumnStep
<1>6. \A t \in RefreshToken, m \in RowIds : OnlyIn(t, m) => OnlyIn(t, m)'
  BY <1>1 DEF OnlyIn, ColumnStep
<1>7. QED
  BY <1>3, <1>4, <1>5, <1>6

\* The invariant survives a step when what the step adds (a held token, a
\* handler's knowledge, a rotation, a revocation) is right after it.
LEMMA DeadStep ==
    ASSUME TypeOK, TypeOK', DeadInv, NEW n, ColumnStep(n),
           \A t \in held' \cap RefreshToken : t \in held \/ t.jti \in drawn',
           \A p \in Requests : req'[p] = req[p] \/ RequestKnows(p)',
           \A x \in rotations' : x \in rotations \/ Dead(x[1])',
           \A t \in revoked' \cap RefreshToken : t \in revoked \/ Dead(t)'
    PROVE  DeadInv'
<1>1. /\ ColumnDrawn' /\ ColumnUnique'
      /\ \A t \in RefreshToken : Dead(t) => Dead(t)'
      /\ \A t \in RefreshToken, m \in RowIds : OnlyIn(t, m) => OnlyIn(t, m)'
  BY ColumnStepKeeps DEF DeadInv
<1>2. HeldDrawn'
  BY DEF DeadInv, HeldDrawn, ColumnStep
<1>3. ASSUME NEW p \in Requests
      PROVE  RequestKnows(p)'
  <2>1. CASE req'[p] = req[p]
    <3>1. RequestKnows(p)
      BY DEF DeadInv
    <3>2. req[p].at = "refresh_lookup" => req[p].token.jti \in drawn'
      BY <3>1 DEF RequestKnows, ColumnStep
    <3>3. req[p].at \in {"refresh_expire", "refresh_update"}
            => OnlyIn(req[p].token, req[p].row)'
      <4>1. req[p].at \in {"refresh_expire", "refresh_update"}
              => req[p].token \in RefreshToken /\ req[p].row \in RowIds
        BY ShapeOf DEF RefreshRequest
      <4>2. QED
        BY <1>1, <2>1, <3>1, <4>1 DEF RequestKnows, OnlyIn
    <3>4. (req[p].at = "revoke_blacklist" /\ req[p].token \in RefreshToken)
            => Dead(req[p].token)'
      BY <1>1, <2>1, <3>1 DEF RequestKnows, Dead
    <3>5. QED
      BY <2>1, <3>2, <3>3, <3>4 DEF RequestKnows, OnlyIn, Dead
  <2>2. QED
    BY <2>1
<1>4. \A x \in rotations' : Dead(x[1])'
  <2>1. \A x \in rotations : Dead(x[1]) /\ x[1] \in RefreshToken
    BY DEF DeadInv, TypeOK
  <2>2. QED
    BY <1>1, <2>1
<1>5. \A t \in revoked' \cap RefreshToken : Dead(t)'
  BY <1>1 DEF DeadInv
<1>6. QED
  BY <1>1, <1>2, <1>3, <1>4, <1>5 DEF DeadInv

\* A step that only removes rows is a column step.
LEMMA ShrinkIsColumnStep ==
    ASSUME RowsShrink, drawn \subseteq drawn'
    PROVE  \A n : ColumnStep(n)
BY DEF RowsShrink, ColumnStep, Stored

\* So is the insert of a row, whose refresh token is fresh or missing; and it
\* delivers no other token.
LEMMA StoreTokenColumn ==
    ASSUME TypeOK, NEW i \in RowIds, NEW j \in (Jtis \ drawn) \cup {Absent},
           NEW row, row.refresh = MintRefresh(j), row.access \in AccessToken,
           StoreToken(i, j, row)
    PROVE  /\ ColumnStep(i)
           /\ \A t \in held' \cap RefreshToken : t \in held \/ t.jti \in drawn'
<1>1. Absent \notin Jtis
  BY AbsentAssumption
<1>2. j # Absent => row.refresh.jti = j
  BY DEF MintRefresh, GenerateRefreshToken
<1>3. j = Absent => row.refresh = Absent
  BY DEF MintRefresh
<1>4. row.access \notin RefreshToken
  BY DEF AccessToken, RefreshToken
<1>5. CASE RowAdmitted(i, row)
  <2>1. rows' = [rows EXCEPT ![i] = row] /\ drawn' = drawn \cup ({i, j} \ {Absent})
        /\ held' = held \cup Delivered(row)
    BY <1>5 DEF StoreToken
  <2>2. rows'[i] = row /\ \A k \in RowIds \ {i} : rows'[k] = rows[k]
    BY <2>1 DEF TypeOK
  <2>3. j # Absent => j \in drawn' \ drawn
    BY <2>1
  <2>4. ColumnStep(i)
    BY <1>2, <1>3, <2>1, <2>2, <2>3 DEF ColumnStep, Stored
  <2>5. \A t \in held' \cap RefreshToken : t \in held \/ t.jti \in drawn'
    BY <1>2, <1>3, <1>4, <2>1, <2>3, AbsentAssumption DEF Delivered
  <2>6. QED
    BY <2>4, <2>5
<1>6. CASE ~RowAdmitted(i, row)
  BY <1>6 DEF StoreToken, ColumnStep, Stored
<1>7. QED
  BY <1>5, <1>6

\* A handler that ends, or goes on to a step that works on no token, keeps
\* every handler's knowledge.
LEMMA QuietRequest ==
    ASSUME TypeOK, NEW r \in Requests, NEW q, Continue(r, q),
           q.at \notin {"refresh_lookup", "refresh_expire", "refresh_update",
                        "revoke_blacklist"}
    PROVE  \A p \in Requests : req'[p] = req[p] \/ RequestKnows(p)'
<1>1. \A p \in Requests \ {r} : req'[p] = req[p]
  BY DEF Continue, TypeOK
<1>2. req'[r] = q
  BY DEF Continue, TypeOK
<1>3. RequestKnows(r)'
  BY <1>2 DEF RequestKnows
<1>4. QED
  BY <1>1, <1>3

\* The steps that start a handler preserve DeadInv: a presented refresh token
\* has been delivered, and a revoked one is removed from the only row it is in.
LEMMA DeadStart ==
    ASSUME TypeOK, TypeOK', DeadInv, NEW r \in Requests, Start(r)
    PROVE  DeadInv'
<1> USE DEF store, history
<1>1. ASSUME NEW u \in Users, NEW c \in Clients, NEW sc \in Scopes,
             GenerateCode(r, u, c, sc)
      PROVE  DeadInv'
  BY <1>1, DeadStep, QuietRequest, ShrinkIsColumnStep DEF GenerateCode, RowsShrink
<1>2. ASSUME NEW c \in Clients, NEW k \in Codes, NEW b \in BOOLEAN,
             ExchangeAuthenticate(r, c, k, b)
      PROVE  DeadInv'
  BY <1>2, DeadStep, QuietRequest, ShrinkIsColumnStep DEF ExchangeAuthenticate, RowsShrink
<1>3. ASSUME NEW c \in Clients, NEW sc \in Scopes, MachineAuthenticate(r, c, sc)
      PROVE  DeadInv'
  BY <1>3, DeadStep, QuietRequest, ShrinkIsColumnStep DEF MachineAuthenticate, RowsShrink
<1>4. ASSUME NEW c \in Clients, NEW f \in held, RefreshAuthenticate(r, c, f)
      PROVE  DeadInv'
  <2>1. f.jti \in drawn
    BY <1>4 DEF RefreshAuthenticate, DeadInv, HeldDrawn
  <2>2. req' = [req EXCEPT ![r] = [at |-> "refresh_lookup", caller |-> c, token |-> f]]
    BY <1>4 DEF RefreshAuthenticate, Continue
  <2>3. RequestKnows(r)'
    BY <1>4, <2>1, <2>2 DEF RequestKnows, RefreshAuthenticate, TypeOK
  <2>4. \A p \in Requests : req'[p] = req[p] \/ RequestKnows(p)'
    BY <2>2, <2>3 DEF TypeOK
  <2>5. QED
    BY <1>4, <2>4, DeadStep, ShrinkIsColumnStep DEF RefreshAuthenticate, RowsShrink
<1>5. ASSUME NEW t \in held, RevokeDelete(r, t)
      PROVE  DeadInv'
  <2>1. RowsShrink /\ drawn' = drawn
    BY <1>5, WithoutShrinks DEF RevokeDelete
  <2>2. \A i \in RowIds : rows'[i] = IF i \in RowsHolding(t) THEN Absent ELSE rows[i]
    BY <1>5, WithoutType DEF RevokeDelete
  <2>3. t \in RefreshToken => Dead(t)'
    <3>1. \A i \in Stored' : i \in Stored /\ rows'[i] = rows[i] /\ i \notin RowsHolding(t)
      BY <2>2 DEF Stored
    <3>2. \A i \in Stored' : rows'[i].refresh # t
      BY <3>1 DEF RowsHolding
    <3>3. QED
      BY <2>1, <3>2 DEF Dead, DeadInv, HeldDrawn
  <2>4. req' = [req EXCEPT ![r] = [at |-> "revoke_blacklist", token |-> t]]
    BY <1>5 DEF RevokeDelete, Continue
  <2>5. RequestKnows(r)'
    BY <2>3, <2>4 DEF RequestKnows, Dead, TypeOK
  <2>6. \A p \in Requests : req'[p] = req[p] \/ RequestKnows(p)'
    BY <2>4, <2>5 DEF TypeOK
  <2>7. QED
    BY <1>5, <2>1, <2>6, DeadStep, ShrinkIsColumnStep DEF RevokeDelete
<1>6. ASSUME NEW c \in Clients, DeleteClientTokens(r, c)
      PROVE  DeadInv'
  BY <1>6, DeadStep, QuietRequest, ShrinkIsColumnStep, WithoutShrinks
  DEF DeleteClientTokens
<1>7. QED
  BY <1>1, <1>2, <1>3, <1>4, <1>5, <1>6 DEF Start

\* A refresh rotates the row its token is in: the token is then in none.
LEMMA DeadRefreshUpdate ==
    ASSUME TypeOK, TypeOK', DeadInv, NEW r \in Requests, NEW j \in Jtis,
           RefreshUpdate(r, j)
    PROVE  DeadInv'
<1> DEFINE n == req[r].row
           access == GenerateAccessToken(Subject(req[r].seen), req[r].seen.scopes)
           new == GenerateRefreshToken(j)
<1>1. req[r] \in RefreshRequest
  BY ShapeOf DEF RefreshUpdate
<1>2. /\ new.jti = j /\ j \in Jtis \ drawn
      /\ access.kind = "access"
  BY DEF RefreshUpdate, GenerateRefreshToken, GenerateAccessToken
<1>3. PICK t \in RefreshToken : t = req[r].token /\ OnlyIn(t, n)
  BY <1>1 DEF RefreshUpdate, DeadInv, RequestKnows, RefreshRequest
<1>4. \A p \in Requests : req'[p] = req[p] \/ RequestKnows(p)'
  BY QuietRequest DEF RefreshUpdate, Finish, Idle
<1>5. CASE n \in Stored /\ AccessFree(access, n)
  <2> HIDE DEF access, new
  <2>1. /\ rows' = [rows EXCEPT ![n] = Rotate(@, access, new)]
        /\ drawn' = drawn \cup {j}
        /\ held' = held \cup {access, new}
        /\ rotations' = rotations \cup {<<t, new>>}
        /\ revoked' = revoked
    BY <1>3, <1>5 DEF RefreshUpdate, access, new
  <2>2. n \in RowIds /\ rows[n] \in TokenRow
    BY <1>5 DEF Stored, TypeOK
  <2>3. rows'[n].refresh = new /\ \A i \in RowIds \ {n} : rows'[i] = rows[i]
    BY <2>1, <2>2 DEF Rotate, TokenRow, TypeOK
  <2>4. ColumnStep(n)
    BY <1>2, <2>1, <2>3 DEF ColumnStep, Stored
  <2>5. Dead(t)'
    <3>1. t # new
      BY <1>2, <1>3 DEF OnlyIn
    <3>2. \A i \in Stored' : rows'[i].refresh # t
      BY <1>3, <2>2, <2>3, <3>1 DEF OnlyIn, Stored
    <3>3. QED
      BY <1>3, <2>1, <3>2 DEF OnlyIn, Dead
  <2>6. \A x \in held' \cap RefreshToken : x \in held \/ x.jti \in drawn'
    BY <1>2, <2>1 DEF RefreshToken
  <2>7. QED
    BY <1>4, <2>1, <2>4, <2>5, <2>6, DeadStep
<1>6. CASE ~(n \in Stored /\ AccessFree(access, n))
  <2>1. rows' = rows /\ drawn' = drawn /\ held' = held
        /\ rotations' = rotations /\ revoked' = revoked
    BY <1>6 DEF RefreshUpdate
  <2>2. QED
    BY <1>4, <2>1, DeadStep, ShrinkIsColumnStep DEF RowsShrink
<1>7. QED
  BY <1>5, <1>6

\* The steps that resume a handler preserve DeadInv: a lookup finds the one row
\* its token is in, and what an answered request leaves behind was dead before.
LEMMA DeadResume ==
    ASSUME TypeOK, TypeOK', DeadInv, NEW r \in Requests, Resume(r)
    PROVE  DeadInv'
<1> USE DEF store, history
<1>q. ASSUME Finish(r)
      PROVE  \A p \in Requests : req'[p] = req[p] \/ RequestKnows(p)'
  BY <1>q, QuietRequest DEF Finish, Idle
<1>1. ASSUME NEW k \in Codes, CreateCode(r, k)
      PROVE  DeadInv'
  BY <1>1, <1>q, DeadStep, ShrinkIsColumnStep DEF CreateCode, RowsShrink
<1>2. ASSUME ExchangeLookup(r)
      PROVE  DeadInv'
  <2> DEFINE next == LookupVerdict(codes[req[r].code], req[r].binds)
             q == IF next = "idle" THEN Idle
                  ELSE [at |-> next, caller |-> req[r].caller, code |-> req[r].code,
                        seen |-> codes[req[r].code]]
  <2>1. q.at \in {"idle", "exchange_reuse", "exchange_expire", "exchange_mark"}
    BY DEF LookupVerdict, Idle
  <2>2. Continue(r, q)
    BY <1>2 DEF ExchangeLookup
  <2> HIDE DEF q
  <2>3. \A p \in Requests : req'[p] = req[p] \/ RequestKnows(p)'
    BY <2>1, <2>2, QuietRequest
  <2>4. QED
    BY <1>2, <2>3, DeadStep, ShrinkIsColumnStep DEF ExchangeLookup, RowsShrink
<1>3. ASSUME ExchangeReuse(r)
      PROVE  DeadInv'
  BY <1>3, <1>q, DeadStep, ShrinkIsColumnStep, WithoutShrinks DEF ExchangeReuse
<1>4. ASSUME ExchangeExpire(r)
      PROVE  DeadInv'
  BY <1>4, <1>q, DeadStep, ShrinkIsColumnStep DEF ExchangeExpire, RowsShrink
<1>5. ASSUME ExchangeMark(r)
      PROVE  DeadInv'
  <2>1. \A p \in Requests : req'[p] = req[p] \/ RequestKnows(p)'
    <3>1. CASE Finish(r)
      BY <3>1, <1>q
    <3>2. CASE Continue(r, [req[r] EXCEPT !.at = "exchange_store"])
      <4>1. req[r] \in ExchangeRequest
        BY <1>5, ShapeOf DEF ExchangeMark
      <4>2. [req[r] EXCEPT !.at = "exchange_store"].at = "exchange_store"
        BY <4>1 DEF ExchangeRequest
      <4>3. QED
        BY <3>2, <4>2, QuietRequest
    <3>3. QED
      BY <1>5, <3>1, <3>2 DEF ExchangeMark
  <2>2. QED
    BY <1>5, <2>1, DeadStep, ShrinkIsColumnStep DEF ExchangeMark, RowsShrink
<1>6. ASSUME NEW i \in RowIds, NEW j \in Jtis \cup {Absent}, ExchangeStore(r, i, j)
      PROVE  DeadInv'
  <2> DEFINE sc == req[r].seen.scopes
             u == req[r].seen.user
             row == [access |-> GenerateAccessToken(u, sc), refresh |-> MintRefresh(j),
                     user |-> u, client |-> req[r].caller, scopes |-> sc]
  <2>1. req[r] \in ExchangeRequest
    BY <1>6, ShapeOf DEF ExchangeStore
  <2>2. u \in Users /\ sc \in Scopes
    BY <2>1 DEF ExchangeRequest, CodeRow
  <2>3. row.access \in AccessToken /\ row.refresh = MintRefresh(j)
    BY <2>2, MintType
  <2>4. j \in (Jtis \ drawn) \cup {Absent}
    BY <1>6 DEF ExchangeStore, FreshJti
  <2>5. StoreToken(i, j, row)
    BY <1>6 DEF ExchangeStore
  <2> HIDE DEF row
  <2>6. /\ ColumnStep(i)
        /\ \A t \in held' \cap RefreshToken : t \in held \/ t.jti \in drawn'
    BY <2>3, <2>4, <2>5, StoreTokenColumn
  <2>7. QED
    BY <1>6, <1>q, <2>6, DeadStep DEF ExchangeStore
<1>7. ASSUME NEW i \in RowIds, MachineStore(r, i)
      PROVE  DeadInv'
  <2> DEFINE row == [access |-> GenerateAccessToken(req[r].caller, req[r].scopes),
                     refresh |-> Absent, user |-> Absent,
                     client |-> req[r].caller, scopes |-> req[r].scopes]
  <2>1. req[r] \in MachineRequest
    BY <1>7, ShapeOf DEF MachineStore
  <2>2. row.access \in AccessToken /\ row.refresh = MintRefresh(Absent)
    BY <2>1, MintType DEF MachineRequest, MintRefresh
  <2>3. StoreToken(i, Absent, row)
    BY <1>7 DEF MachineStore
  <2> HIDE DEF row
  <2>4. /\ ColumnStep(i)
        /\ \A t \in held' \cap RefreshToken : t \in held \/ t.jti \in drawn'
    BY <2>2, <2>3, StoreTokenColumn
  <2>5. QED
    BY <1>7, <1>q, <2>4, DeadStep DEF MachineStore
<1>8. ASSUME RefreshLookup(r)
      PROVE  DeadInv'
  <2>1. \A p \in Requests : req'[p] = req[p] \/ RequestKnows(p)'
    <3>1. CASE Finish(r)
      BY <3>1, <1>q
    <3>2. ASSUME NEW i \in Stored, rows[i].refresh = req[r].token,
                 Continue(r, [at |-> IF Expiry(req[r].token) < now
                                     THEN "refresh_expire" ELSE "refresh_update",
                              token |-> req[r].token, row |-> i, seen |-> rows[i]])
          PROVE  \A p \in Requests : req'[p] = req[p] \/ RequestKnows(p)'
      <4> DEFINE q == [at |-> IF Expiry(req[r].token) < now
                              THEN "refresh_expire" ELSE "refresh_update",
                       token |-> req[r].token, row |-> i, seen |-> rows[i]]
      <4>1. q.at \in {"refresh_expire", "refresh_update"}
            /\ q.token = rows[i].refresh /\ q.row = i
        BY <3>2
      <4>2. rows[i].refresh # Absent /\ rows[i].refresh.jti \in drawn
        <5>1. req[r] \in RefreshLookupRequest
          BY <1>8, ShapeOf DEF RefreshLookup
        <5>2. rows[i].refresh # Absent
          BY <3>2, <5>1, AbsentAssumption DEF RefreshLookupRequest
        <5>3. QED
          BY <5>2 DEF DeadInv, ColumnDrawn
      <4>3. \A m \in Stored : rows[m].refresh = rows[i].refresh => m = i
        BY <4>2 DEF DeadInv, ColumnUnique
      <4>4. rows' = rows /\ drawn' = drawn
        BY <1>8 DEF RefreshLookup
      <4> HIDE DEF q
      <4>5. req'[r] = q /\ \A p \in Requests \ {r} : req'[p] = req[p]
        BY <3>2 DEF Continue, TypeOK, q
      <4>6. RequestKnows(r)'
        BY <4>1, <4>2, <4>3, <4>4, <4>5 DEF RequestKnows, OnlyIn, Stored
      <4>7. QED
        BY <4>5, <4>6
    <3>3. QED
      BY <1>8, <3>1, <3>2 DEF RefreshLookup
  <2>2. QED
    BY <1>8, <2>1, DeadStep, ShrinkIsColumnStep DEF RefreshLookup, RowsShrink
<1>9. ASSUME RefreshExpire(r)
      PROVE  DeadInv'
  BY <1>9, <1>q, DeadStep, ShrinkIsColumnStep, WithoutShrinks DEF RefreshExpire
<1>10. ASSUME NEW j \in Jtis, RefreshUpdate(r, j)
       PROVE  DeadInv'
  BY <1>10, DeadRefreshUpdate
<1>11. ASSUME RevokeBlacklist(r)
       PROVE  DeadInv'
  <2>1. rows' = rows /\ drawn' = drawn /\ held' = held /\ rotations' = rotations
    BY <1>11 DEF RevokeBlacklist
  <2>2. \A t \in revoked' \cap RefreshToken : t \in revoked \/ Dead(t)
    BY <1>11 DEF RevokeBlacklist, DeadInv, RequestKnows
  <2>3. \A t \in revoked' \cap RefreshToken : t \in revoked \/ Dead(t)'
    BY <2>1, <2>2 DEF Dead, Stored
  <2>4. \A p \in Requests : req'[p] = req[p] \/ RequestKnows(p)'
    BY <1>11, <1>q DEF RevokeBlacklist
  <2>5. QED
    BY <2>1, <2>3, <2>4, DeadStep, ShrinkIsColumnStep DEF RowsShrink
<1>12. ASSUME DeleteClientCodes(r)
       PROVE  DeadInv'
  <2>1. req[r] \in DeleteRequest
    BY <1>12, ShapeOf DEF DeleteClientCodes
  <2>2. [req[r] EXCEPT !.at = "delete_client"].at = "delete_client"
    BY <2>1 DEF DeleteRequest
  <2>3. \A p \in Requests : req'[p] = req[p] \/ RequestKnows(p)'
    BY <1>12, <2>2, QuietRequest DEF DeleteClientCodes
  <2>4. QED
    BY <1>12, <2>3, DeadStep, ShrinkIsColumnStep DEF DeleteClientCodes, RowsShrink
<1>13. ASSUME DeleteClientRow(r)
       PROVE  DeadInv'
  BY <1>13, <1>q, DeadStep, ShrinkIsColumnStep, WithoutShrinks DEF DeleteClientRow
<1>14. ASSUME DatabaseError(r)
       PROVE  DeadInv'
  BY <1>14, <1>q, DeadStep, ShrinkIsColumnStep DEF DatabaseError, RowsShrink
<1>15. QED
  BY <1>1, <1>2, <1>3, <1>4, <1>5, <1>6, <1>7, <1>8, <1>9, <1>10, <1>11, <1>12, <1>13,
     <1>14 DEF Resume

\* The strengthened invariant holds in every reachable state.
LEMMA DeadInvariant == Spec => []DeadInv
<1>1. Init => DeadInv
  BY DEF Init, DeadInv, ColumnDrawn, ColumnUnique, HeldDrawn, RequestKnows, Stored, Idle
<1>2. TypeOK /\ TypeOK' /\ DeadInv /\ [Next]_vars => DeadInv'
  <2> SUFFICES ASSUME TypeOK, TypeOK', DeadInv, [Next]_vars
               PROVE  DeadInv'
    OBVIOUS
  <2>1. CASE UNCHANGED vars
    BY <2>1, DeadStep, ShrinkIsColumnStep DEF vars, store, history, RowsShrink
  <2>2. CASE Background
    <3>1. RowsShrink
      BY <2>2, WithoutShrinks DEF Background, CleanupTokens, CleanupCodes, Tick
    <3>2. drawn' = drawn /\ held' = held /\ req' = req /\ UNCHANGED history
      BY <2>2 DEF Background, CleanupTokens, CleanupCodes, Tick
    <3>3. QED
      BY <3>1, <3>2, DeadStep, ShrinkIsColumnStep DEF history
  <2>3. QED
    BY <2>1, <2>2, DeadStart, DeadResume DEF Next
<1>3. QED
  BY <1>1, <1>2, TypeCorrect, PTL DEF Spec

\* A refresh token that has been exchanged is in no row from then on, however
\* many refreshes of it were in flight.
THEOREM SpentStayDead == Spec => []SpentTokensAreDead
<1>1. DeadInv => SpentTokensAreDead
  BY DEF DeadInv, SpentTokensAreDead, Dead
<1>2. QED
  BY <1>1, DeadInvariant, PTL

\* Once /oauth/revoke has answered for a refresh token, no exchange or refresh
\* in flight brings it back.
THEOREM RevokedStayDead == Spec => []RevokedRefreshIsDead
<1>1. DeadInv => RevokedRefreshIsDead
  BY DEF DeadInv, RevokedRefreshIsDead, Dead
<1>2. QED
  BY <1>1, DeadInvariant, PTL

-----------------------------------------------------------------------------
(* Codes and the blacklist.  What a code row may do is enough for the      *)
(* single-use mark; that a used code is only removed once expired needs to *)
(* know that a handler about to remove one has seen it expired, and that a *)
(* code value is never drawn twice.                                        *)

\* What a handler in flight knows of its code.
CodeKnown(r) ==
    /\ req[r].at = "exchange_lookup" => req[r].code \in drawn
    /\ req[r].at = "exchange_expire" =>
          /\ req[r].code \in drawn
          /\ codes[req[r].code] # Absent => codes[req[r].code].expiresAt < now

CodeInv ==
    /\ \A k \in Codes : codes[k] # Absent => k \in drawn
    /\ \A r \in Requests : CodeKnown(r)

-----------------------------------------------------------------------------
\* Time and the set of drawn identifiers only grow.
LEMMA Growth ==
    ASSUME TypeOK, [Next]_vars
    PROVE  now' \in Nat /\ now <= now' /\ drawn \subseteq drawn'
<1> USE DEF store, history
<1>1. CASE UNCHANGED vars
  BY <1>1 DEF vars, TypeOK
<1>2. CASE Background
  BY <1>2 DEF Background, CleanupTokens, CleanupCodes, Tick, TypeOK
<1>3. ASSUME NEW r \in Requests, Start(r)
      PROVE  now' = now /\ drawn' = drawn
  BY <1>3 DEF Start, GenerateCode, ExchangeAuthenticate, MachineAuthenticate,
     RefreshAuthenticate, RevokeDelete, DeleteClientTokens
<1>4. ASSUME NEW r \in Requests, Resume(r)
      PROVE  now' = now /\ drawn \subseteq drawn'
  BY <1>4 DEF Resume, CreateCode, ExchangeLookup, ExchangeReuse, ExchangeExpire,
     ExchangeMark, ExchangeStore, MachineStore, StoreToken, RefreshLookup, RefreshExpire,
     RefreshUpdate, RevokeBlacklist, DeleteClientCodes, DeleteClientRow, DatabaseError
<1>5. QED
  BY <1>1, <1>2, <1>3, <1>4 DEF Next, TypeOK

\* The steps that touch the table of codes.
CodesTouched ==
    \/ CleanupCodes
    \/ \E r \in Requests :
        \/ \E k \in Codes : CreateCode(r, k)
        \/ ExchangeExpire(r) \/ ExchangeMark(r)
        \/ DeleteClientCodes(r) \/ DeleteClientRow(r)

\* Every other step leaves the table of codes alone.
LEMMA OthersKeepCodes ==
    ASSUME [Next]_vars, ~CodesTouched
    PROVE  codes' = codes
<1> USE DEF store, history
<1>1. CASE UNCHANGED vars
  BY <1>1 DEF vars
<1>2. CASE Background
  BY <1>2 DEF Background, CleanupTokens, CodesTouched, Tick
<1>3. ASSUME NEW r \in Requests, Start(r)
      PROVE  codes' = codes
  BY <1>3 DEF Start, GenerateCode, ExchangeAuthenticate, MachineAuthenticate,
     RefreshAuthenticate, RevokeDelete, DeleteClientTokens
<1>4. ASSUME NEW r \in Requests, Resume(r)
      PROVE  codes' = codes
  BY <1>4 DEF Resume, CodesTouched, ExchangeLookup, ExchangeReuse, ExchangeStore,
     MachineStore, RefreshLookup, RefreshExpire, RefreshUpdate, RevokeBlacklist,
     DatabaseError
<1>5. QED
  BY <1>1, <1>2, <1>3, <1>4 DEF Next

\* The reasons for which a stored code goes.
MayGo(k) ==
    \/ codes[k].expiresAt < now
    \/ \E r \in Requests : /\ req[r].at \in {"delete_codes", "delete_client"}
                           /\ req[r].client = codes[k].client

\* A stored code stays as it is, is marked used, or goes for a reason; a code
\* that is not stored appears only under a value not drawn before, unused.
LEMMA CodesStep ==
    ASSUME TypeOK, CodeInv, [Next]_vars
    PROVE  \A k \in Codes :
             \/ codes'[k] = codes[k]
             \/ codes[k] # Absent /\ codes'[k] = Absent /\ MayGo(k)
             \/ codes[k] # Absent /\ codes'[k] = [codes[k] EXCEPT !.used = TRUE]
             \/ codes[k] = Absent /\ k \notin drawn /\ k \in drawn'
<1>1. CASE ~CodesTouched
  BY <1>1, OthersKeepCodes
<1>2. CASE CleanupCodes
  BY <1>2, WithoutType DEF CleanupCodes, Purgeable, MayGo
<1>3. ASSUME NEW r \in Requests, NEW k \in Codes, CreateCode(r, k)
      PROVE  /\ \A m \in Codes \ {k} : codes'[m] = codes[m]
             /\ codes'[k] = codes[k] \/ (codes[k] = Absent /\ k \notin drawn /\ k \in drawn')
  BY <1>3 DEF CreateCode, CodeInv, TypeOK
<1>4. ASSUME NEW r \in Requests, ExchangeExpire(r)
      PROVE  \A k \in Codes : codes'[k] = codes[k]
                \/ (codes[k] # Absent /\ codes'[k] = Absent /\ MayGo(k))
  <2>1. \A k \in Codes : codes'[k] = IF k = req[r].code THEN Absent ELSE codes[k]
    BY <1>4, WithoutType DEF ExchangeExpire
  <2>2. req[r].at = "exchange_expire" /\ CodeKnown(r)
    BY <1>4 DEF ExchangeExpire, CodeInv
  <2>3. QED
    BY <2>1, <2>2 DEF CodeKnown, MayGo
<1>5. ASSUME NEW r \in Requests, ExchangeMark(r)
      PROVE  \A k \in Codes : codes'[k] = codes[k]
                \/ (codes[k] # Absent /\ codes'[k] = [codes[k] EXCEPT !.used = TRUE])
  BY <1>5 DEF ExchangeMark, TypeOK
<1>6. ASSUME NEW r \in Requests, DeleteClientCodes(r)
      PROVE  \A k \in Codes : codes'[k] = codes[k]
                \/ (codes[k] # Absent /\ codes'[k] = Absent /\ MayGo(k))
  BY <1>6, WithoutType DEF DeleteClientCodes, ClientCodes, MayGo
<1>7. ASSUME NEW r \in Requests, DeleteClientRow(r)
      PROVE  \A k \in Codes : codes'[k] = codes[k]
                \/ (codes[k] # Absent /\ codes'[k] = Absent /\ MayGo(k))
  BY <1>7, WithoutType DEF DeleteClientRow, ClientCodes, MayGo
<1>8. QED
  BY <1>1, <1>2, <1>3, <1>4, <1>5, <1>6, <1>7 DEF CodesTouched

-----------------------------------------------------------------------------
\* A handler at a step that knows nothing of a code.
Codeless == {"idle", "code_create", "exchange_reuse", "exchange_mark", "exchange_store",
             "machine_store", "refresh_lookup", "refresh_expire", "refresh_update",
             "revoke_blacklist", "delete_codes", "delete_client"}

\* A handler that moves to such a step leaves every handler's knowledge as it
\* was, or trivially true.
LEMMA CodelessStep ==
    ASSUME TypeOK, NEW r \in Requests, NEW q, Continue(r, q), q.at \in Codeless
    PROVE  \A p \in Requests : req'[p] = req[p] \/ CodeKnown(p)'
<1>1. req'[r] = q /\ \A p \in Requests \ {r} : req'[p] = req[p]
  BY DEF Continue, TypeOK
<1>2. CodeKnown(r)'
  BY <1>1 DEF CodeKnown, Codeless
<1>3. QED
  BY <1>1, <1>2

\* A handler that moves in a step knows what it needs of its code.
LEMMA RequestStep ==
    ASSUME TypeOK, CodeInv, [Next]_vars
    PROVE  \A p \in Requests : req'[p] = req[p] \/ CodeKnown(p)'
<1> USE DEF store, history
<1>i. Idle.at \in Codeless
  BY DEF Idle, Codeless
<1>1. CASE UNCHANGED vars
  BY <1>1 DEF vars
<1>2. CASE Background
  BY <1>2 DEF Background, CleanupTokens, CleanupCodes, Tick
<1>3. ASSUME NEW r \in Requests, NEW c \in Clients, NEW k \in Codes, NEW b \in BOOLEAN,
             ExchangeAuthenticate(r, c, k, b)
      PROVE  \A p \in Requests : req'[p] = req[p] \/ CodeKnown(p)'
  <2>1. /\ req'[r] = [at |-> "exchange_lookup", caller |-> c, code |-> k, binds |-> b]
        /\ \A p \in Requests \ {r} : req'[p] = req[p]
        /\ k \in drawn /\ drawn' = drawn
    BY <1>3 DEF ExchangeAuthenticate, Continue, TypeOK
  <2>2. CodeKnown(r)'
    BY <2>1 DEF CodeKnown
  <2>3. QED
    BY <2>1, <2>2
<1>4. ASSUME NEW r \in Requests, Start(r),
             ~\E c \in Clients, k \in Codes, b \in BOOLEAN : ExchangeAuthenticate(r, c, k, b)
      PROVE  \A p \in Requests : req'[p] = req[p] \/ CodeKnown(p)'
  BY <1>4, CodelessStep DEF Start, GenerateCode, MachineAuthenticate,
     RefreshAuthenticate, RevokeDelete, DeleteClientTokens, Codeless
<1>5. ASSUME NEW r \in Requests, ExchangeLookup(r)
      PROVE  \A p \in Requests : req'[p] = req[p] \/ CodeKnown(p)'
  <2> DEFINE row == codes[req[r].code]
             next == LookupVerdict(row, req[r].binds)
             q == [at |-> next, caller |-> req[r].caller, code |-> req[r].code,
                   seen |-> row]
  <2>1. Continue(r, IF next = "idle" THEN Idle ELSE q)
    BY <1>5 DEF ExchangeLookup
  <2>2. CASE next = "exchange_expire"
    <3>1. row.expiresAt < now
      BY <2>2 DEF LookupVerdict
    <3>2. req[r].code \in drawn
      BY <1>5 DEF ExchangeLookup, CodeInv, CodeKnown
    <3>3. /\ req'[r].at = "exchange_expire" /\ req'[r].code = req[r].code
          /\ \A p \in Requests \ {r} : req'[p] = req[p]
      BY <2>1, <2>2 DEF Continue, TypeOK
    <3>4. codes' = codes /\ drawn' = drawn /\ now' = now
      BY <1>5 DEF ExchangeLookup
    <3>5. CodeKnown(r)'
      BY <3>1, <3>2, <3>3, <3>4 DEF CodeKnown
    <3>6. QED
      BY <3>3, <3>5
  <2>3. CASE next # "exchange_expire"
    <3>1. (IF next = "idle" THEN Idle ELSE q).at \in Codeless
      BY <1>i, <2>3 DEF LookupVerdict, Codeless
    <3>2. QED
      BY <2>1, <3>1, CodelessStep
  <2>4. QED
    BY <2>2, <2>3
<1>6. ASSUME NEW r \in Requests, Finish(r)
      PROVE  \A p \in Requests : req'[p] = req[p] \/ CodeKnown(p)'
  BY <1>6, <1>i, CodelessStep DEF Finish
<1>7. ASSUME NEW r \in Requests, ExchangeMark(r)
      PROVE  \A p \in Requests : req'[p] = req[p] \/ CodeKnown(p)'
  <2>1. [req[r] EXCEPT !.at = "exchange_store"].at \in Codeless
    BY <1>7, ShapeOf DEF ExchangeMark, ExchangeRequest, Codeless
  <2>2. QED
    BY <1>6, <1>7, <2>1, CodelessStep DEF ExchangeMark
<1>8. ASSUME NEW r \in Requests, DeleteClientCodes(r)
      PROVE  \A p \in Requests : req'[p] = req[p] \/ CodeKnown(p)'
  <2>1. [req[r] EXCEPT !.at = "delete_client"].at \in Codeless
    BY <1>8, ShapeOf DEF DeleteClientCodes, DeleteRequest, Codeless
  <2>2. QED
    BY <1>8, <2>1, CodelessStep DEF DeleteClientCodes
<1>9. ASSUME NEW r \in Requests, RefreshLookup(r)
      PROVE  \A p \in Requests : req'[p] = req[p] \/ CodeKnown(p)'
  BY <1>6, <1>9, CodelessStep DEF RefreshLookup, Codeless
<1>10. ASSUME NEW r \in Requests, Resume(r), ~ExchangeLookup(r), ~ExchangeMark(r),
              ~DeleteClientCodes(r), ~RefreshLookup(r)
       PROVE  Finish(r)
  BY <1>10 DEF Resume, CreateCode, ExchangeReuse, ExchangeExpire, ExchangeStore,
     MachineStore, RefreshExpire, RefreshUpdate, RevokeBlacklist, DeleteClientRow,
     DatabaseError
<1>11. QED
  BY <1>1, <1>2, <1>3, <1>4, <1>5, <1>6, <1>7, <1>8, <1>9, <1>10 DEF Next

\* Stored codes are drawn, and a handler about to remove an expired code has
\* seen it expired, in every reachable state.
LEMMA CodeInvariant == Spec => []CodeInv
<1>1. Init => CodeInv
  BY DEF Init, CodeInv, CodeKnown, Idle
<1>2. TypeOK /\ TypeOK' /\ CodeInv /\ [Next]_vars => CodeInv'
  <2> SUFFICES ASSUME TypeOK, TypeOK', CodeInv, [Next]_vars
               PROVE  CodeInv'
    OBVIOUS
  <2>1. now' \in Nat /\ now <= now' /\ drawn \subseteq drawn'
    BY Growth
  <2>2. \A k \in Codes : codes'[k] # Absent => k \in drawn'
    BY <2>1, CodesStep DEF CodeInv
  <2>3. ASSUME NEW p \in Requests
        PROVE  CodeKnown(p)'
    <3>1. CASE req'[p] = req[p]
      <4> DEFINE k == req[p].code
      <4>1. CodeKnown(p)
        BY DEF CodeInv
      <4>2. CASE req[p].at = "exchange_expire"
        <5>1. k \in Codes
          BY <4>2, ShapeOf DEF ExchangeRequest
        <5>2. codes[k] # Absent => codes[k] \in CodeRow
          BY <5>1 DEF TypeOK
        <5>3. k \in drawn /\ (codes[k] # Absent => codes[k].expiresAt < now)
          BY <4>1, <4>2 DEF CodeKnown
        <5>4. codes'[k] # Absent =>
                codes[k] # Absent /\ codes'[k].expiresAt = codes[k].expiresAt
          BY <5>1, <5>2, <5>3, CodesStep DEF CodeRow
        <5>5. codes'[k] # Absent => codes'[k].expiresAt < now'
          BY <2>1, <5>2, <5>3, <5>4 DEF CodeRow, TypeOK
        <5>6. QED
          BY <2>1, <3>1, <4>2, <5>3, <5>5 DEF CodeKnown
      <4>3. CASE req[p].at # "exchange_expire"
        BY <2>1, <3>1, <4>1, <4>3 DEF CodeKnown
      <4>4. QED
        BY <4>2, <4>3
    <3>2. QED
      BY <3>1, RequestStep
  <2>4. QED
    BY <2>2, <2>3 DEF CodeInv
<1>3. QED
  BY <1>1, <1>2, TypeCorrect, PTL DEF Spec

\* A used code stays in the table, still marked, until it expires or its
\* client is being deleted (cleanupExpiredTokens and the expiry branch of
\* exchangeAuthorizationCode).
THEOREM UsedCodesRemembered == Spec => UsedCodeIsRemembered
<1>1. TypeOK /\ CodeInv /\ [Next]_vars =>
        [\A k \in Codes :
            (codes[k] # Absent /\ codes[k].used /\ codes'[k] # codes[k]) =>
                /\ codes'[k] = Absent
                /\ \/ codes[k].expiresAt < now
                   \/ \E r \in Requests :
                        /\ req[r].at \in {"delete_codes", "delete_client"}
                        /\ req[r].client = codes[k].client]_vars
  <2> SUFFICES ASSUME TypeOK, CodeInv, [Next]_vars, NEW k \in Codes,
                      codes[k] # Absent, codes[k].used, codes'[k] # codes[k]
               PROVE  codes'[k] = Absent /\ MayGo(k)
    BY DEF MayGo
  <2>1. codes[k] \in CodeRow
    BY DEF TypeOK
  <2>2. codes[k].used = TRUE
    BY <2>1 DEF CodeRow
  <2>3. [codes[k] EXCEPT !.used = TRUE] = codes[k]
    BY <2>1, <2>2 DEF CodeRow
  <2>4. QED
    BY <2>3, CodesStep
<1>2. QED
  BY <1>1, TypeCorrect, CodeInvariant, PTL DEF Spec, UsedCodeIsRemembered

-----------------------------------------------------------------------------
\* A Redis that does not fail keeps every revoked token out: /oauth/revoke
\* answers only after a blacklist entry that lasts as long as the signature
\* (revokeToken's TTL).
THEOREM RevocationHolds ==
    ASSUME "redis" \notin MayFail
    PROVE  Spec => []RevokedTokenIsRejected
<1>1. Init => RevokedTokenIsRejected
  BY DEF Init, RevokedTokenIsRejected
<1>2. TypeOK /\ TypeOK' /\ RevokedTokenIsRejected /\ [Next]_vars
        => RevokedTokenIsRejected'
  <2> SUFFICES ASSUME TypeOK, TypeOK', RevokedTokenIsRejected, [Next]_vars
               PROVE  RevokedTokenIsRejected'
    OBVIOUS
  <2> USE DEF store, history
  <2>1. CASE Tick
    <3>1. \A t \in revoked : t \in blacklist \/ ~VerifyToken(t)
      BY DEF RevokedTokenIsRejected
    <3>2. \A t \in revoked : Expiry(t) \in Nat
      <4>1. \A t \in Token : t.iat \in Nat
        BY DEF Token, AccessToken, RefreshToken
      <4>2. \A t \in Token : Expiry(t) \in Nat
        BY <4>1, TTLAssumption DEF Expiry
      <4>3. QED
        BY <4>2 DEF TypeOK
    <3>3. \A t : Expiry(t)' = Expiry(t)
      BY DEF Expiry
    <3>4. \A t \in revoked : t \in blacklist' \/ ~(now' < Expiry(t))
      BY <2>1, <3>1, <3>2 DEF Tick, KeyLives, VerifyToken, TypeOK
    <3>5. QED
      BY <2>1, <3>3, <3>4 DEF Tick, RevokedTokenIsRejected, VerifyToken
  <2>2. ASSUME NEW r \in Requests, RevokeBlacklist(r)
        PROVE  RevokedTokenIsRejected'
    BY <2>2 DEF RevokeBlacklist, RevokedTokenIsRejected, VerifyToken, Expiry
  <2>3. ASSUME blacklist' = blacklist, revoked' = revoked, now' = now
        PROVE  RevokedTokenIsRejected'
    BY <2>3 DEF RevokedTokenIsRejected, VerifyToken, Expiry
  <2>4. ASSUME NEW r \in Requests, Start(r)
        PROVE  blacklist' = blacklist /\ revoked' = revoked /\ now' = now
    BY <2>4 DEF Start, GenerateCode, ExchangeAuthenticate, MachineAuthenticate,
       RefreshAuthenticate, RevokeDelete, DeleteClientTokens
  <2>5. ASSUME NEW r \in Requests, Resume(r), ~RevokeBlacklist(r)
        PROVE  blacklist' = blacklist /\ revoked' = revoked /\ now' = now
    BY <2>5 DEF Resume, CreateCode, ExchangeLookup, ExchangeReuse, ExchangeExpire,
       ExchangeMark, ExchangeStore, MachineStore, RefreshLookup, RefreshExpire,
       RefreshUpdate, DeleteClientCodes, DeleteClientRow, DatabaseError
  <2>6. CASE CleanupTokens \/ CleanupCodes \/ UNCHANGED vars
    BY <2>3, <2>6 DEF CleanupTokens, CleanupCodes, vars
  <2>7. QED
    BY <2>1, <2>2, <2>3, <2>4, <2>5, <2>6 DEF Next, Background
<1>3. QED
  BY <1>1, <1>2, TypeCorrect, PTL DEF Spec

-----------------------------------------------------------------------------
(* 3. The refinement of GrantLedger.                                       *)

Shrinks ==
    /\ RowsShrink
    /\ drawn' \cap RowIds = drawn \cap RowIds
    /\ drawn' \cap Jtis = drawn \cap Jtis

Adds(i, j, row) ==
    /\ i \in RowIds \ drawn
    /\ j \in (Jtis \ drawn) \cup {Absent}
    /\ row \in TokenRow
    /\ row.refresh = MintRefresh(j)
    /\ rows' = [rows EXCEPT ![i] = row]
    /\ drawn' = drawn \cup ({i, j} \ {Absent})

Rotates(n, j, access) ==
    /\ n \in Stored
    /\ j \in Jtis \ drawn
    /\ rows' = [rows EXCEPT ![n] = Rotate(@, access, GenerateRefreshToken(j))]
    /\ drawn' = drawn \cup {j}

RowStep ==
    \/ Shrinks
    \/ \E i \in RowIds, j \in Jtis \cup {Absent}, row \in TokenRow : Adds(i, j, row)
    \/ \E n \in RowIds, j \in Jtis, access \in AccessToken : Rotates(n, j, access)

-----------------------------------------------------------------------------
\* The insert of storeToken adds a row, or does nothing.
LEMMA StoreTokenAdds ==
    ASSUME TypeOK, NEW i \in RowIds \ drawn, NEW j \in (Jtis \ drawn) \cup {Absent},
           NEW row \in TokenRow, row.refresh = MintRefresh(j), StoreToken(i, j, row)
    PROVE  RowStep
BY DEF StoreToken, RowStep, Adds, Shrinks, RowsShrink

\* The steps that resume a handler are row steps.
LEMMA ResumeRowStep ==
    ASSUME TypeOK, NEW r \in Requests, Resume(r)
    PROVE  RowStep
<1> USE DEF store, history
<1>1. ASSUME NEW k \in Codes, CreateCode(r, k)
      PROVE  RowStep
  BY <1>1, IdentifierAssumption DEF CreateCode, RowStep, Shrinks, RowsShrink
<1>2. ASSUME NEW i \in RowIds, NEW j \in Jtis \cup {Absent}, ExchangeStore(r, i, j)
      PROVE  RowStep
  <2> DEFINE sc == req[r].seen.scopes
             u == req[r].seen.user
             row == [access |-> GenerateAccessToken(u, sc), refresh |-> MintRefresh(j),
                     user |-> u, client |-> req[r].caller, scopes |-> sc]
  <2>1. req[r] \in ExchangeRequest
    BY <1>2, ShapeOf DEF ExchangeStore
  <2>2. sc \in Scopes /\ u \in Users /\ req[r].caller \in Clients
    BY <2>1 DEF ExchangeRequest, CodeRow
  <2>3. row \in TokenRow /\ row.refresh = MintRefresh(j)
    BY <2>2, MintType DEF TokenRow
  <2>4. i \in RowIds \ drawn /\ j \in (Jtis \ drawn) \cup {Absent}
    BY <1>2 DEF ExchangeStore, FreshJti
  <2>5. StoreToken(i, j, row)
    BY <1>2 DEF ExchangeStore
  <2> HIDE DEF row
  <2>6. QED
    BY <2>3, <2>4, <2>5, StoreTokenAdds
<1>3. ASSUME NEW i \in RowIds, MachineStore(r, i)
      PROVE  RowStep
  <2> DEFINE row == [access |-> GenerateAccessToken(req[r].caller, req[r].scopes),
                     refresh |-> Absent, user |-> Absent,
                     client |-> req[r].caller, scopes |-> req[r].scopes]
  <2>1. req[r] \in MachineRequest
    BY <1>3, ShapeOf DEF MachineStore
  <2>2. row \in TokenRow /\ row.refresh = MintRefresh(Absent)
    BY <2>1, MintType DEF TokenRow, MachineRequest, MintRefresh
  <2>3. i \in RowIds \ drawn /\ StoreToken(i, Absent, row)
    BY <1>3 DEF MachineStore
  <2> HIDE DEF row
  <2>4. QED
    BY <2>2, <2>3, StoreTokenAdds
<1>4. ASSUME NEW j \in Jtis, RefreshUpdate(r, j)
      PROVE  RowStep
  <2> DEFINE n == req[r].row
             access == GenerateAccessToken(Subject(req[r].seen), req[r].seen.scopes)
  <2>1. req[r] \in RefreshRequest
    BY <1>4, ShapeOf DEF RefreshUpdate
  <2>2. access \in AccessToken
    <3>1. Subject(req[r].seen) \in Users \cup Clients /\ req[r].seen.scopes \in Scopes
      BY <2>1 DEF RefreshRequest, TokenRow, Subject
    <3>2. QED
      BY <3>1, MintType
  <2> HIDE DEF access
  <2>3. CASE n \in Stored /\ AccessFree(access, n)
    <3>1. Rotates(n, j, access) /\ n \in RowIds
      BY <1>4, <2>3 DEF RefreshUpdate, Rotates, Stored, access
    <3>2. QED
      BY <2>2, <3>1 DEF RowStep
  <2>4. CASE ~(n \in Stored /\ AccessFree(access, n))
    BY <1>4, <2>4 DEF RefreshUpdate, access, RowStep, Shrinks, RowsShrink
  <2>5. QED
    BY <2>3, <2>4
<1>5. ASSUME ~\E k \in Codes : CreateCode(r, k),
             ~\E i \in RowIds, j \in Jtis \cup {Absent} : ExchangeStore(r, i, j),
             ~\E i \in RowIds : MachineStore(r, i),
             ~\E j \in Jtis : RefreshUpdate(r, j)
      PROVE  RowsShrink /\ drawn' = drawn
  BY <1>5, WithoutShrinks DEF Resume, ExchangeLookup, ExchangeReuse, ExchangeExpire,
     ExchangeMark, RefreshLookup, RefreshExpire, RevokeBlacklist, DeleteClientCodes,
     DeleteClientRow, DatabaseError
<1>6. QED
  BY <1>1, <1>2, <1>3, <1>4, <1>5 DEF RowStep, Shrinks

\* Every step is a row step.
LEMMA NextRowStep ==
    ASSUME TypeOK, [Next]_vars
    PROVE  RowStep
<1> USE DEF store, history
<1>1. CASE UNCHANGED vars
  BY <1>1 DEF vars, RowStep, Shrinks, RowsShrink
<1>2. CASE Background
  BY <1>2, WithoutShrinks
  DEF Background, CleanupTokens, CleanupCodes, Tick, RowStep, Shrinks, RowsShrink
<1>3. ASSUME NEW r \in Requests, Start(r)
      PROVE  RowStep
  <2>1. RowsShrink /\ drawn' = drawn
    BY <1>3, WithoutShrinks DEF Start, GenerateCode, ExchangeAuthenticate,
       MachineAuthenticate, RefreshAuthenticate, RevokeDelete, DeleteClientTokens
  <2>2. QED
    BY <2>1 DEF RowStep, Shrinks
<1>4. QED
  BY <1>1, <1>2, <1>3, ResumeRowStep DEF Next

-----------------------------------------------------------------------------
RowsDrawn == Stored \subseteq drawn

\* The id of a stored row has been drawn.
LEMMA RowsDrawnInvariant == Spec => []RowsDrawn
<1>1. Init => RowsDrawn
  BY DEF Init, RowsDrawn, Stored
<1>2. TypeOK /\ RowsDrawn /\ [Next]_vars => RowsDrawn'
  <2> SUFFICES ASSUME TypeOK, RowsDrawn, [Next]_vars
               PROVE  RowsDrawn'
    OBVIOUS
  <2>1. CASE Shrinks
    BY <2>1 DEF Shrinks, RowsShrink, RowsDrawn, Stored
  <2>2. ASSUME NEW i \in RowIds, NEW j \in Jtis \cup {Absent}, NEW row \in TokenRow,
               Adds(i, j, row)
        PROVE  RowsDrawn'
    BY <2>2, AbsentAssumption DEF Adds, RowsDrawn, Stored, TypeOK
  <2>3. ASSUME NEW n \in RowIds, NEW j \in Jtis, NEW access \in AccessToken,
               Rotates(n, j, access)
        PROVE  RowsDrawn'
    BY <2>3 DEF Rotates, RowsDrawn, Stored, TypeOK
  <2>4. QED
    BY <2>1, <2>2, <2>3, NextRowStep DEF RowStep
<1>3. QED
  BY <1>1, <1>2, TypeCorrect, PTL DEF Spec

-----------------------------------------------------------------------------
(* The refinement.                                                         *)

Grant == [i \in RowIds |->
    IF i \in Stored
    THEN [status |-> "open",
          owner |-> <<rows[i].user, rows[i].client, rows[i].scopes>>,
          current |-> IF rows[i].refresh = Absent THEN Absent ELSE rows[i].refresh.jti]
    ELSE [status |-> IF i \in drawn THEN "ended" ELSE "unused"]]

\* A stored row is an open grant.
LEMMA StoredIsOpen ==
    ASSUME TypeOK, NEW i \in Stored
    PROVE  Grant[i] \in Ledger!Open
<1>1. i \in RowIds /\ rows[i] \in TokenRow
  BY DEF Stored, TypeOK
<1>2. /\ <<rows[i].user, rows[i].client, rows[i].scopes>>
           \in (Users \cup {Absent}) \X Clients \X Scopes
      /\ rows[i].refresh \in RefreshToken \cup {Absent}
  BY <1>1 DEF TokenRow
<1>3. (IF rows[i].refresh = Absent THEN Absent ELSE rows[i].refresh.jti)
        \in Jtis \cup {Absent}
  BY <1>2 DEF RefreshToken
<1>4. QED
  BY <1>1, <1>2, <1>3 DEF Grant, Ledger!Open

\* Rows that go are grants that end.
LEMMA ShrinkEnds ==
    ASSUME TypeOK, RowsDrawn, Shrinks
    PROVE  Ledger!LedgerNext
<1>1. PICK S \in SUBSET RowIds : S = {i \in Stored : rows'[i] = Absent}
  BY DEF Stored
<1>2. \A i \in S : Grant[i] \in Ledger!Open
  BY <1>1, StoredIsOpen
<1>3. \A i \in RowIds : Grant'[i] = IF i \in S THEN Ledger!Ended ELSE Grant[i]
  BY <1>1 DEF Grant, Shrinks, RowsShrink, RowsDrawn, Stored, Ledger!Ended
<1>4. Grant' = [i \in RowIds |-> IF i \in S THEN Ledger!Ended ELSE Grant[i]]
  BY <1>3 DEF Grant
<1>5. Ledger!EndGrants(S)
  BY <1>2, <1>4 DEF Shrinks, Ledger!EndGrants, Grant
<1>6. QED
  BY <1>5 DEF Ledger!LedgerNext

\* A row added is a grant opened, with a token not seen before.
LEMMA AddOpens ==
    ASSUME TypeOK, RowsDrawn, NEW i \in RowIds, NEW j \in Jtis \cup {Absent},
           NEW row \in TokenRow, Adds(i, j, row)
    PROVE  Ledger!LedgerNext
<1> DEFINE o == <<row.user, row.client, row.scopes>>
<1>1. o \in (Users \cup {Absent}) \X Clients \X Scopes
  BY DEF TokenRow
<1>2. row # Absent /\ Absent \notin Jtis /\ Absent \notin RowIds /\ j \notin RowIds
  BY AbsentAssumption, IdentifierAssumption
<1>3. Grant[i] = Ledger!Unused /\ j \notin drawn \cap Jtis
  BY <1>2 DEF Adds, RowsDrawn, Grant, Ledger!Unused
<1>4. (IF row.refresh = Absent THEN Absent ELSE row.refresh.jti) = j
  BY AbsentAssumption, MintType DEF Adds, MintRefresh, GenerateRefreshToken
<1>5. rows'[i] = row /\ \A k \in RowIds \ {i} : rows'[k] = rows[k]
  BY DEF Adds, TypeOK
<1>6. i \in Stored' /\ \A k \in RowIds \ {i} : k \in Stored' <=> k \in Stored
  BY <1>2, <1>5 DEF Stored
<1>7. \A k \in RowIds \ {i} : k \in drawn' <=> k \in drawn
  BY <1>2 DEF Adds
<1>8. Grant'[i] = [status |-> "open", owner |-> o, current |-> j]
  BY <1>4, <1>5, <1>6 DEF Grant
<1>9. \A k \in RowIds \ {i} : Grant'[k] = Grant[k]
  BY <1>5, <1>6, <1>7 DEF Grant
<1>10. Grant' = [Grant EXCEPT ![i] = [status |-> "open", owner |-> o, current |-> j]]
  BY <1>8, <1>9 DEF Grant
<1>11. drawn' \cap Jtis = (drawn \cap Jtis) \cup ({j} \ {Absent})
  BY IdentifierAssumption DEF Adds
<1>12. Ledger!OpenGrant(i, o, j)
  BY <1>3, <1>10, <1>11 DEF Ledger!OpenGrant, Grant
<1> HIDE DEF o
<1>13. QED
  BY <1>1, <1>12 DEF Ledger!LedgerNext

\* A rotation of a row is a rotation of its grant to a token not seen before.
LEMMA RotateRotates ==
    ASSUME TypeOK, NEW n \in RowIds, NEW j \in Jtis, NEW access \in AccessToken,
           Rotates(n, j, access)
    PROVE  Ledger!LedgerNext
<1>1. n \in Stored /\ rows[n] \in TokenRow
  BY DEF Rotates, Stored, TypeOK
<1>2. /\ rows'[n] = Rotate(rows[n], access, GenerateRefreshToken(j))
      /\ \A k \in RowIds \ {n} : rows'[k] = rows[k]
  BY DEF Rotates, TypeOK
<1>3. /\ rows'[n] \in TokenRow
      /\ rows'[n].user = rows[n].user /\ rows'[n].client = rows[n].client
      /\ rows'[n].scopes = rows[n].scopes
      /\ rows'[n].refresh = GenerateRefreshToken(j)
  BY <1>1, <1>2, MintType DEF Rotate, TokenRow
<1>4. rows'[n].refresh # Absent /\ rows'[n].refresh.jti = j
  BY <1>3, MintType, AbsentAssumption DEF GenerateRefreshToken
<1>5. n \in Stored' /\ \A k \in RowIds \ {n} : k \in Stored' <=> k \in Stored
  BY <1>2, <1>3, AbsentAssumption DEF Stored
<1>6. \A k \in RowIds : k \in drawn' <=> k \in drawn
  BY IdentifierAssumption DEF Rotates
<1>7. Grant'[n] = [Grant[n] EXCEPT !.current = j]
  BY <1>1, <1>3, <1>4, <1>5 DEF Grant
<1>8. \A k \in RowIds \ {n} : Grant'[k] = Grant[k]
  BY <1>2, <1>5, <1>6 DEF Grant
<1>9. Grant' = [Grant EXCEPT ![n].current = j]
  BY <1>7, <1>8 DEF Grant
<1>10. Grant[n] \in Ledger!Open
  BY <1>1, StoredIsOpen
<1>11. j \notin drawn \cap Jtis /\ drawn' \cap Jtis = (drawn \cap Jtis) \cup {j}
  BY DEF Rotates
<1>12. Ledger!RotateGrant(n, j)
  BY <1>9, <1>10, <1>11 DEF Ledger!RotateGrant, Grant
<1>13. QED
  BY <1>12 DEF Ledger!LedgerNext

\* The token table implements the ledger: no handler, in whatever order its
\* steps run, reopens a row that was removed, rotates one to a token used
\* before, or changes whom a row is bound to.
THEOREM ImplementsLedger == Spec => LedgerRefined
<1>1. Init => Ledger!LedgerInit
  BY DEF Init, Stored, Ledger!LedgerInit, Ledger!Unused
<1>2. TypeOK /\ RowsDrawn /\ [Next]_vars => Ledger!LedgerNext
  BY NextRowStep, ShrinkEnds, AddOpens, RotateRotates DEF RowStep
<1>3. QED
  BY <1>1, <1>2, TypeCorrect, RowsDrawnInvariant, PTL
  DEF Spec, LedgerRefined, Ledger!LedgerSpec

-----------------------------------------------------------------------------
(* 4. A replay.  It deletes by user and client, so it finds what was issued *)
(* for the code if those rows are the code's user's: whoever knows whose a  *)
(* code is, the table or a handler that has read it, agrees with every row  *)
(* issued for it.                                                           *)

SeenAt == {"exchange_reuse", "exchange_expire", "exchange_mark", "exchange_store"}

\* The table of codes or a handler in flight says that code k is user u's.
Says(k, u) ==
    \/ codes[k] # Absent /\ codes[k].user = u
    \/ \E r \in Requests : req[r].at \in SeenAt /\ req[r].code = k /\ req[r].seen.user = u

\* The rows issued for code k are user u's.
Owned(k, u) == \A p \in issued : p[1] = k /\ p[2] \in Stored => rows[p[2]].user = u

OwnerInv ==
    /\ \A p \in issued : p[1] \in drawn /\ p[2] \in drawn
    /\ \A k \in Codes, u \in Users : Says(k, u) =>
          k \in drawn /\ Owned(k, u) /\ \A v \in Users : Says(k, v) => v = u

-----------------------------------------------------------------------------
\* Control points that are no exchange's.
Elsewhere == {"idle", "code_create", "exchange_lookup", "machine_store", "refresh_lookup",
              "refresh_expire", "refresh_update", "revoke_blacklist", "delete_codes",
              "delete_client"}

\* What a handler has read of a code it had read before, or reads in this step.
LEMMA SeenStep ==
    ASSUME TypeOK, [Next]_vars, NEW p \in Requests, req'[p].at \in SeenAt
    PROVE  \/ /\ req[p].at \in SeenAt
              /\ req'[p].code = req[p].code /\ req'[p].seen = req[p].seen
           \/ /\ req'[p].code \in Codes /\ codes[req'[p].code] # Absent
              /\ req'[p].seen = codes[req'[p].code]
<1>1. CASE req'[p] = req[p]
  BY <1>1
<1>2. CASE req'[p] # req[p]
  <2>1. PICK r \in Requests : Start(r) \/ Resume(r)
    BY <1>2 DEF Next, vars, Background, CleanupTokens, CleanupCodes, Tick
  <2>2. ASSUME NEW q, Continue(r, q)
        PROVE  p = r /\ req'[p] = q /\ q.at \notin Elsewhere
    BY <1>2, <2>2 DEF Continue, TypeOK, Elsewhere, SeenAt
  <2>3. ~Finish(r)
    BY <2>2 DEF Finish, Idle, Elsewhere
  <2>4. ~Start(r)
    <3>1. ASSUME NEW u \in Users, NEW c \in Clients, NEW sc \in Scopes
          PROVE  ~GenerateCode(r, u, c, sc)
      BY <2>2 DEF GenerateCode, Elsewhere
    <3>2. ASSUME NEW c \in Clients, NEW m \in Codes, NEW b \in BOOLEAN
          PROVE  ~ExchangeAuthenticate(r, c, m, b)
      BY <2>2 DEF ExchangeAuthenticate, Elsewhere
    <3>3. ASSUME NEW c \in Clients, NEW sc \in Scopes
          PROVE  ~MachineAuthenticate(r, c, sc)
      BY <2>2 DEF MachineAuthenticate, Elsewhere
    <3>4. ASSUME NEW c \in Clients, NEW f \in held
          PROVE  ~RefreshAuthenticate(r, c, f)
      BY <2>2 DEF RefreshAuthenticate, Elsewhere
    <3>5. ASSUME NEW t \in held
          PROVE  ~RevokeDelete(r, t)
      BY <2>2 DEF RevokeDelete, Elsewhere
    <3>6. ASSUME NEW c \in Clients
          PROVE  ~DeleteClientTokens(r, c)
      BY <2>2 DEF DeleteClientTokens, Elsewhere
    <3>7. QED
      BY <3>1, <3>2, <3>3, <3>4, <3>5, <3>6 DEF Start
  <2>5. ~RefreshLookup(r)
    <3>1. ASSUME NEW i \in Stored
          PROVE  ~Continue(r, [at |-> IF Expiry(req[r].token) < now
                                      THEN "refresh_expire" ELSE "refresh_update",
                               token |-> req[r].token, row |-> i, seen |-> rows[i]])
      BY <2>2 DEF Elsewhere
    <3>2. QED
      BY <2>3, <3>1 DEF RefreshLookup
  <2>6. ~DeleteClientCodes(r)
    <3>1. ASSUME DeleteClientCodes(r)
          PROVE  FALSE
      <4>1. [req[r] EXCEPT !.at = "delete_client"].at = "delete_client"
        BY <3>1, ShapeOf DEF DeleteClientCodes, DeleteRequest
      <4>2. QED
        BY <2>2, <3>1, <4>1 DEF DeleteClientCodes, Elsewhere
    <3>2. QED
      BY <3>1
  <2>7. ExchangeLookup(r) \/ ExchangeMark(r)
    BY <2>1, <2>3, <2>4, <2>5, <2>6 DEF Resume, CreateCode, ExchangeReuse,
       ExchangeExpire, ExchangeStore, MachineStore, RefreshExpire, RefreshUpdate,
       RevokeBlacklist, DeleteClientRow, DatabaseError
  <2>8. CASE ExchangeLookup(r)
    <3> DEFINE row == codes[req[r].code]
               next == LookupVerdict(row, req[r].binds)
               q == [at |-> next, caller |-> req[r].caller, code |-> req[r].code,
                     seen |-> row]
    <3>1. Continue(r, IF next = "idle" THEN Idle ELSE q)
      BY <2>8 DEF ExchangeLookup
    <3>2. next # "idle" /\ req'[p] = q
      BY <2>2, <3>1 DEF Idle, Elsewhere
    <3>3. row # Absent
      BY <3>2 DEF LookupVerdict
    <3>4. req[r].code \in Codes
      BY <2>8, ShapeOf DEF ExchangeLookup, LookupRequest
    <3>5. QED
      BY <3>2, <3>3, <3>4
  <2>9. CASE ExchangeMark(r)
    <3>1. p = r /\ req'[p] = [req[r] EXCEPT !.at = "exchange_store"]
      BY <2>2, <2>3, <2>9 DEF ExchangeMark
    <3>2. req[r] \in ExchangeRequest /\ req[r].at = "exchange_mark"
      BY <2>9, ShapeOf DEF ExchangeMark
    <3>3. QED
      BY <3>1, <3>2 DEF ExchangeRequest, SeenAt
  <2>10. QED
    BY <2>7, <2>8, <2>9
<1>3. QED
  BY <1>1, <1>2

\* Whose a code is was known before, or the code has just been drawn.
LEMMA SaysStep ==
    ASSUME TypeOK, CodeInv, [Next]_vars, NEW k \in Codes, NEW u \in Users, Says(k, u)'
    PROVE  Says(k, u) \/ (k \notin drawn /\ k \in drawn' /\ codes'[k].user = u)
<1>1. CASE codes'[k] # Absent /\ codes'[k].user = u
  <2>1. codes[k] \in CodeRow \cup {Absent}
    BY DEF TypeOK
  <2>2. CASE codes[k] # Absent
    <3>1. codes[k] \in CodeRow
      BY <2>1, <2>2
    <3>2. codes'[k] = codes[k] \/ codes'[k] = [codes[k] EXCEPT !.used = TRUE]
      BY <1>1, <2>2, CodesStep
    <3>3. codes[k].user = u
      BY <1>1, <3>1, <3>2 DEF CodeRow
    <3>4. QED
      BY <2>2, <3>3 DEF Says
  <2>3. CASE codes[k] = Absent
    BY <1>1, <2>3, CodesStep
  <2>4. QED
    BY <2>2, <2>3
<1>2. ASSUME NEW r \in Requests, req'[r].at \in SeenAt, req'[r].code = k, req'[r].seen.user = u
      PROVE  Says(k, u)
  BY <1>2, SeenStep DEF Says
<1>3. QED
  BY <1>1, <1>2 DEF Says

\* A pair is issued by an exchange only, with a new row of the user it has seen.
LEMMA IssuedStep ==
    ASSUME TypeOK, [Next]_vars
    PROVE  \/ issued' = issued
           \/ \E r \in Requests, i \in RowIds :
                /\ req[r].at = "exchange_store" /\ i \notin drawn /\ i \in drawn'
                /\ issued' = issued \cup {<<req[r].code, i>>}
                /\ rows'[i].user = req[r].seen.user /\ Finish(r)
<1> USE DEF store, history
<1>1. CASE UNCHANGED vars
  BY <1>1 DEF vars
<1>2. CASE Background
  BY <1>2 DEF Background, CleanupTokens, CleanupCodes, Tick
<1>3. ASSUME NEW r \in Requests, Start(r)
      PROVE  issued' = issued
  BY <1>3 DEF Start, GenerateCode, ExchangeAuthenticate, MachineAuthenticate,
     RefreshAuthenticate, RevokeDelete, DeleteClientTokens
<1>4. ASSUME NEW r \in Requests, NEW i \in RowIds, NEW j \in Jtis \cup {Absent},
             ExchangeStore(r, i, j)
      PROVE  \/ issued' = issued
             \/ /\ req[r].at = "exchange_store" /\ i \notin drawn /\ i \in drawn'
                /\ issued' = issued \cup {<<req[r].code, i>>}
                /\ rows'[i].user = req[r].seen.user /\ Finish(r)
  <2> DEFINE sc == req[r].seen.scopes
             row == [access |-> GenerateAccessToken(req[r].seen.user, sc),
                     refresh |-> MintRefresh(j), user |-> req[r].seen.user,
                     client |-> req[r].caller, scopes |-> sc]
  <2>1. /\ req[r].at = "exchange_store" /\ i \notin drawn /\ StoreToken(i, j, row)
        /\ Finish(r)
    BY <1>4 DEF ExchangeStore
  <2>2. issued' = IF i \in drawn' THEN issued \cup {<<req[r].code, i>>} ELSE issued
    BY <1>4 DEF ExchangeStore
  <2>3. row.user = req[r].seen.user
    OBVIOUS
  <2> HIDE DEF row
  <2>4. i \in drawn' => rows' = [rows EXCEPT ![i] = row]
    BY <2>1 DEF StoreToken
  <2>5. i \in drawn' => rows'[i] = row
    BY <2>4 DEF TypeOK
  <2>6. QED
    BY <2>1, <2>2, <2>3, <2>5
<1>5. ASSUME NEW r \in Requests, Resume(r),
             ~\E i \in RowIds, j \in Jtis \cup {Absent} : ExchangeStore(r, i, j)
      PROVE  issued' = issued
  BY <1>5 DEF Resume, CreateCode, ExchangeLookup, ExchangeReuse, ExchangeExpire,
     ExchangeMark, MachineStore, RefreshLookup, RefreshExpire, RefreshUpdate,
     RevokeBlacklist, DeleteClientCodes, DeleteClientRow, DatabaseError
<1>6. QED
  BY <1>1, <1>2, <1>3, <1>4, <1>5 DEF Next

\* A row keeps its user as long as it is stored, and a new one has a new id.
LEMMA UserStays ==
    ASSUME TypeOK, RowsDrawn, [Next]_vars, NEW n \in RowIds, n \in Stored'
    PROVE  IF n \in Stored THEN rows'[n].user = rows[n].user ELSE n \notin drawn
<1>1. CASE Shrinks
  BY <1>1 DEF Shrinks, RowsShrink, Stored
<1>2. ASSUME NEW i \in RowIds, NEW j \in Jtis \cup {Absent}, NEW row \in TokenRow,
             Adds(i, j, row)
      PROVE  IF n \in Stored THEN rows'[n].user = rows[n].user ELSE n \notin drawn
  BY <1>2 DEF Adds, RowsDrawn, Stored, TypeOK
<1>3. ASSUME NEW i \in RowIds, NEW j \in Jtis, NEW access \in AccessToken,
             Rotates(i, j, access)
      PROVE  IF n \in Stored THEN rows'[n].user = rows[n].user ELSE n \notin drawn
  <2>1. rows[i] \in TokenRow
    BY <1>3 DEF Rotates, Stored, TypeOK
  <2>2. rows'[i].user = rows[i].user
    BY <1>3, <2>1 DEF Rotates, Rotate, TokenRow, TypeOK
  <2>3. \A m \in RowIds \ {i} : rows'[m] = rows[m]
    BY <1>3 DEF Rotates, TypeOK
  <2>4. QED
    BY <1>3, <2>2, <2>3 DEF Rotates, Stored
<1>4. QED
  BY <1>1, <1>2, <1>3, NextRowStep DEF RowStep

\* The rows issued for a known code stay its user's.
LEMMA OwnedStays ==
    ASSUME TypeOK, RowsDrawn, OwnerInv, [Next]_vars, NEW k \in Codes, NEW u \in Users,
           Says(k, u) \/ k \notin drawn
    PROVE  Owned(k, u)'
<1>1. issued \subseteq Codes \X RowIds
  BY DEF TypeOK
<1>2. ASSUME NEW p \in issued, p[1] = k, p[2] \in Stored'
      PROVE  rows'[p[2]].user = u
  <2>1. p[2] \in RowIds /\ p[1] \in drawn /\ p[2] \in drawn
    BY <1>1, <1>2 DEF OwnerInv
  <2>2. p[2] \in Stored /\ rows'[p[2]].user = rows[p[2]].user
    BY <1>2, <2>1, UserStays
  <2>3. Owned(k, u)
    BY <1>2, <2>1 DEF OwnerInv
  <2>4. QED
    BY <1>2, <2>2, <2>3 DEF Owned
<1>3. CASE issued' = issued
  BY <1>2, <1>3 DEF Owned
<1>4. ASSUME NEW r \in Requests, NEW i \in RowIds, req[r].at = "exchange_store",
             issued' = issued \cup {<<req[r].code, i>>}, rows'[i].user = req[r].seen.user
      PROVE  Owned(k, u)'
  <2>1. req[r].code \in Codes /\ req[r].seen.user \in Users
    BY <1>4, ShapeOf DEF ExchangeRequest, CodeRow
  <2>2. Says(req[r].code, req[r].seen.user)
    BY <1>4 DEF Says, SeenAt
  <2>3. req[r].code = k => req[r].seen.user = u
    BY <2>1, <2>2 DEF OwnerInv
  <2>4. QED
    BY <1>2, <1>4, <2>3 DEF Owned
<1>5. QED
  BY <1>3, <1>4, IssuedStep

\* Codes, handlers and rows agree on whose a code is, in every reachable state.
LEMMA OwnerInvariant == Spec => []OwnerInv
<1>1. Init => OwnerInv
  BY DEF Init, OwnerInv, Says, SeenAt, Idle
<1>2. TypeOK /\ CodeInv /\ RowsDrawn /\ OwnerInv /\ [Next]_vars => OwnerInv'
  <2> SUFFICES ASSUME TypeOK, CodeInv, RowsDrawn, OwnerInv, [Next]_vars
               PROVE  OwnerInv'
    OBVIOUS
  <2>1. drawn \subseteq drawn'
    BY Growth
  <2>2. \A p \in issued' : p[1] \in drawn' /\ p[2] \in drawn'
    <3>1. CASE issued' = issued
      BY <2>1, <3>1 DEF OwnerInv
    <3>2. ASSUME NEW r \in Requests, NEW i \in RowIds, req[r].at = "exchange_store",
                 i \in drawn', issued' = issued \cup {<<req[r].code, i>>}
          PROVE  \A p \in issued' : p[1] \in drawn' /\ p[2] \in drawn'
      <4>1. req[r].code \in Codes /\ req[r].seen.user \in Users
        BY <3>2, ShapeOf DEF ExchangeRequest, CodeRow
      <4>2. req[r].code \in drawn
        BY <3>2, <4>1 DEF OwnerInv, Says, SeenAt
      <4>3. QED
        BY <2>1, <3>2, <4>2 DEF OwnerInv
    <3>3. QED
      BY <3>1, <3>2, IssuedStep
  <2>3. ASSUME NEW k \in Codes, NEW u \in Users, Says(k, u)'
        PROVE  /\ k \in drawn' /\ Owned(k, u)'
               /\ \A v \in Users : Says(k, v)' => v = u
    <3>1. Says(k, u) \/ (k \notin drawn /\ k \in drawn' /\ codes'[k].user = u)
      BY <2>3, SaysStep
    <3>2. k \in drawn'
      BY <2>1, <3>1 DEF OwnerInv
    <3>3. Owned(k, u)'
      BY <3>1, OwnedStays
    <3>4. ASSUME NEW v \in Users, Says(k, v)'
          PROVE  v = u
      <4>1. Says(k, v) \/ (k \notin drawn /\ codes'[k].user = v)
        BY <3>4, SaysStep
      <4>2. QED
        BY <3>1, <4>1 DEF OwnerInv
    <3>5. QED
      BY <3>2, <3>3, <3>4
  <2>4. QED
    BY <2>2, <2>3 DEF OwnerInv
<1>3. QED
  BY <1>1, <1>2, TypeCorrect, CodeInvariant, RowsDrawnInvariant, PTL DEF Spec

\* A recognised replay of a code deletes every row that an exchange of the code
\* has stored for the code's client, whoever raced and whatever was rotated
\* (exchangeAuthorizationCode, the branch of a used code).
THEOREM ReplaysRevoke == Spec => ReplayRevokesStored
<1>1. TypeOK /\ OwnerInv =>
        [\A r \in Requests : ExchangeReuse(r) =>
            \A p \in issued :
                (p[1] = req[r].code /\ p[2] \in Stored') =>
                    rows'[p[2]].client # req[r].seen.client]_vars
  <2> SUFFICES ASSUME TypeOK, OwnerInv, NEW r \in Requests, ExchangeReuse(r), NEW p \in issued,
                      p[1] = req[r].code, p[2] \in Stored'
               PROVE  rows'[p[2]].client # req[r].seen.client
    OBVIOUS
  <2> DEFINE q == req[r]
  <2>1. q.at = "exchange_reuse" /\ rows' = Without(rows, RowsOf(q.seen.user, q.seen.client))
    BY DEF ExchangeReuse
  <2>2. q.code \in Codes /\ q.seen.user \in Users /\ p[2] \in RowIds
    BY <2>1, ShapeOf DEF ExchangeRequest, CodeRow, TypeOK
  <2>3. Owned(q.code, q.seen.user)
    BY <2>1, <2>2 DEF OwnerInv, Says, SeenAt
  <2>4. /\ p[2] \in Stored /\ p[2] \notin RowsOf(q.seen.user, q.seen.client)
        /\ rows'[p[2]] = rows[p[2]]
    BY <2>1, <2>2 DEF Without, Stored, TypeOK
  <2>5. rows[p[2]].user = q.seen.user
    BY <2>3, <2>4 DEF Owned
  <2>6. QED
    BY <2>4, <2>5 DEF RowsOf
<1>2. QED
  BY <1>1, TypeCorrect, OwnerInvariant, PTL DEF Spec, ReplayRevokesStored

-----------------------------------------------------------------------------
(* 5. How often a code is redeemed.  Nobody stores before the code is      *)
(* marked and nobody passes the check after it, so from the mark on the    *)
(* rows stored and the handlers past the check are together no more than   *)
(* the handlers there were.                                                *)

\* The code has been marked used, and may have been deleted since.
Spent(k) == k \in drawn /\ (codes[k] = Absent \/ codes[k].used)

\* A request stands before its insert for code k.
Storing(k) == \E r \in Requests : req[r].at = "exchange_store" /\ req[r].code = k

RedeemInv ==
    \A k \in Codes :
        /\ Spent(k) \/ (Redeemed(k) = {} /\ ~Storing(k))
        /\ IsFiniteSet(Redeemed(k))
        /\ Cardinality(Redeemed(k)) + Cardinality(Redeeming(k)) <= Cardinality(Requests)

-----------------------------------------------------------------------------
\* Whoever is redeeming was so before, or has just read the code unused, or has
\* just marked it.
LEMMA RedeemersStep ==
    ASSUME TypeOK, [Next]_vars, NEW k \in Codes, NEW p \in Redeeming(k)'
    PROVE  \/ req'[p] = req[p]
           \/ /\ p \in Redeeming(k)
              /\ codes'[k] # Absent /\ codes'[k].used
           \/ /\ codes[k] # Absent /\ ~codes[k].used
              /\ req'[p].at = "exchange_mark" /\ UNCHANGED <<codes, drawn, issued>>
<1> DEFINE Others == {"code_create", "exchange_lookup", "machine_store", "refresh_lookup",
                     "refresh_expire", "refresh_update", "revoke_blacklist", "delete_codes"}
<1>1. /\ p \in Requests
      /\ req'[p].at \in {"exchange_mark", "exchange_store"}
      /\ req'[p].code = k
  BY DEF Redeeming
<1>2. CASE req'[p] = req[p]
  BY <1>2
<1>3. CASE req'[p] # req[p]
  <2>1. PICK r \in Requests : Start(r) \/ Resume(r)
    BY <1>3 DEF Next, vars, Background, CleanupTokens, CleanupCodes, Tick
  <2>2. ASSUME NEW q, Continue(r, q)
        PROVE  p = r /\ req'[p] = q /\ q.at \notin Others
    BY <1>1, <1>3, <2>2 DEF Continue, TypeOK, Others
  <2>3. ~Finish(r)
    BY <1>1, <2>2 DEF Finish, Idle
  <2>4. ~Start(r)
    <3>1. ASSUME NEW u \in Users, NEW c \in Clients, NEW sc \in Scopes
          PROVE  ~GenerateCode(r, u, c, sc)
      BY <2>2 DEF GenerateCode, Others
    <3>2. ASSUME NEW c \in Clients, NEW m \in Codes, NEW b \in BOOLEAN
          PROVE  ~ExchangeAuthenticate(r, c, m, b)
      BY <2>2 DEF ExchangeAuthenticate, Others
    <3>3. ASSUME NEW c \in Clients, NEW sc \in Scopes
          PROVE  ~MachineAuthenticate(r, c, sc)
      BY <2>2 DEF MachineAuthenticate, Others
    <3>4. ASSUME NEW c \in Clients, NEW f \in held
          PROVE  ~RefreshAuthenticate(r, c, f)
      BY <2>2 DEF RefreshAuthenticate, Others
    <3>5. ASSUME NEW t \in held
          PROVE  ~RevokeDelete(r, t)
      BY <2>2 DEF RevokeDelete, Others
    <3>6. ASSUME NEW c \in Clients
          PROVE  ~DeleteClientTokens(r, c)
      BY <2>2 DEF DeleteClientTokens, Others
    <3>7. QED
      BY <3>1, <3>2, <3>3, <3>4, <3>5, <3>6 DEF Start
  <2>5. ~RefreshLookup(r)
    <3>1. ASSUME NEW i \in Stored
          PROVE  ~Continue(r, [at |-> IF Expiry(req[r].token) < now
                                      THEN "refresh_expire" ELSE "refresh_update",
                               token |-> req[r].token, row |-> i, seen |-> rows[i]])
      BY <2>2 DEF Others
    <3>2. QED
      BY <2>3, <3>1 DEF RefreshLookup
  <2>6. ~DeleteClientCodes(r)
    <3>1. ASSUME DeleteClientCodes(r)
          PROVE  FALSE
      <4>1. [req[r] EXCEPT !.at = "delete_client"].at = "delete_client"
        BY <3>1, ShapeOf DEF DeleteClientCodes, DeleteRequest
      <4>2. QED
        BY <1>1, <2>2, <3>1, <4>1 DEF DeleteClientCodes
    <3>2. QED
      BY <3>1
  <2>7. CASE ExchangeLookup(r)
    <3> DEFINE row == codes[req[r].code]
               next == LookupVerdict(row, req[r].binds)
               q == [at |-> next, caller |-> req[r].caller, code |-> req[r].code,
                     seen |-> row]
    <3>1. Continue(r, IF next = "idle" THEN Idle ELSE q)
      BY <2>7 DEF ExchangeLookup
    <3>2. next # "idle" /\ req'[p] = q
      BY <1>1, <2>2, <3>1 DEF Idle
    <3>3. req[r].code = k /\ next \in {"exchange_mark", "exchange_store"}
      BY <1>1, <3>2
    <3>4. next = "exchange_mark" /\ codes[k] # Absent /\ ~codes[k].used
      BY <3>3 DEF LookupVerdict
    <3>5. UNCHANGED <<codes, drawn, issued>>
      BY <2>7 DEF ExchangeLookup, store, history
    <3>6. QED
      BY <3>2, <3>4, <3>5
  <2>8. CASE ExchangeMark(r)
    <3>1. req[r] \in ExchangeRequest /\ req[r].at = "exchange_mark"
      BY <2>8, ShapeOf DEF ExchangeMark
    <3>2. p = r /\ req'[p] = [req[r] EXCEPT !.at = "exchange_store"]
      BY <2>2, <2>3, <2>8 DEF ExchangeMark
    <3>3. req[r].code = k
      BY <1>1, <3>1, <3>2 DEF ExchangeRequest
    <3>4. codes[k] # Absent /\ codes' = [codes EXCEPT ![k].used = TRUE]
      BY <2>3, <2>8, <3>3 DEF ExchangeMark
    <3>5. codes[k] \in CodeRow
      BY <3>4 DEF TypeOK
    <3>6. codes'[k] \in CodeRow /\ codes'[k].used
      BY <3>4, <3>5 DEF TypeOK, CodeRow
    <3>7. codes'[k] # Absent
      BY <3>6, AbsentAssumption
    <3>8. QED
      BY <3>1, <3>2, <3>3, <3>6, <3>7 DEF Redeeming
  <2>9. ExchangeLookup(r) \/ ExchangeMark(r)
    BY <2>1, <2>3, <2>4, <2>5, <2>6 DEF Resume, CreateCode, ExchangeReuse,
       ExchangeExpire, ExchangeStore, MachineStore, RefreshExpire, RefreshUpdate,
       RevokeBlacklist, DeleteClientRow, DatabaseError
  <2>10. QED
    BY <2>7, <2>8, <2>9
<1>4. QED
  BY <1>2, <1>3

\* A spent code stays spent: its value is never drawn again, and no step takes
\* the mark back.
LEMMA SpentStays ==
    ASSUME TypeOK, CodeInv, [Next]_vars, NEW k \in Codes, Spent(k)
    PROVE  Spent(k)'
<1>1. k \in drawn'
  BY Growth DEF Spent
<1>2. CASE codes[k] = Absent
  BY <1>1, <1>2, CodesStep DEF Spent
<1>3. CASE codes[k] # Absent
  <2>1. codes[k] \in CodeRow /\ codes[k].used
    BY <1>3 DEF Spent, TypeOK
  <2>2. [codes[k] EXCEPT !.used = TRUE].used
    BY <2>1 DEF CodeRow
  <2>3. codes'[k] = Absent \/ codes'[k].used
    BY <1>3, <2>1, <2>2, CodesStep
  <2>4. QED
    BY <1>1, <2>3 DEF Spent
<1>4. QED
  BY <1>2, <1>3

\* Who redeems is among the finitely many requests.
LEMMA RedeemingFinite ==
    ASSUME NEW k \in Codes
    PROVE  /\ IsFiniteSet(Redeeming(k)) /\ Cardinality(Redeeming(k)) \in Nat
           /\ Cardinality(Redeeming(k)) <= Cardinality(Requests)
           /\ Cardinality(Requests) \in Nat
<1>1. Redeeming(k) \in SUBSET Requests
  BY DEF Redeeming
<1>2. QED
  BY <1>1, RequestsAssumption, FS_Subset, FS_CardinalityType

\* A step that ends request r with a new row for the code it was redeeming.
LEMMA StoredIsCounted ==
    ASSUME TypeOK, TypeOK', RedeemInv, [Next]_vars, NEW k \in Codes, NEW r \in Requests,
           NEW i \in RowIds, req[r].at = "exchange_store", req[r].code = k, Finish(r),
           issued' = issued \cup {<<k, i>>}
    PROVE  /\ IsFiniteSet(Redeemed(k)')
           /\ Cardinality(Redeemed(k)') + Cardinality(Redeeming(k)') <= Cardinality(Requests)
<1>1. req' = [req EXCEPT ![r] = Idle]
  BY DEF Finish, Continue
<1>2. r \in Redeeming(k) /\ Redeeming(k)' = Redeeming(k) \ {r}
  BY <1>1 DEF Redeeming, Idle, TypeOK
<1>3. Cardinality(Redeeming(k)') = Cardinality(Redeeming(k)) - 1
  BY <1>2, RedeemingFinite, FS_RemoveElement
<1>4. Redeemed(k)' = Redeemed(k) \cup {<<k, i>>}
  BY DEF Redeemed
<1>5. /\ IsFiniteSet(Redeemed(k)) /\ Cardinality(Redeemed(k)) \in Nat
      /\ Cardinality(Redeemed(k)) + Cardinality(Redeeming(k)) <= Cardinality(Requests)
  BY FS_CardinalityType DEF RedeemInv
<1>6. /\ IsFiniteSet(Redeemed(k)')
      /\ Cardinality(Redeemed(k)') <= Cardinality(Redeemed(k)) + 1
      /\ Cardinality(Redeemed(k)') \in Nat
  <2> DEFINE p == <<k, i>>
  <2>1. /\ IsFiniteSet(Redeemed(k) \cup {p})
        /\ Cardinality(Redeemed(k) \cup {p})
              = IF p \in Redeemed(k) THEN Cardinality(Redeemed(k))
                ELSE Cardinality(Redeemed(k)) + 1
    <3> HIDE DEF p
    <3>1. QED
      BY <1>5, FS_AddElement
  <2>2. QED
    BY <1>4, <1>5, <2>1
<1>7. QED
  BY <1>3, <1>5, <1>6, RedeemingFinite

\* Rows stored and handlers past the check are counted together, in every
\* reachable state.
LEMMA RedeemInvariant == Spec => []RedeemInv
<1>1. Init => RedeemInv
  <2> SUFFICES ASSUME Init, NEW k \in Codes
               PROVE  /\ Redeemed(k) = {} /\ ~Storing(k) /\ IsFiniteSet(Redeemed(k))
                      /\ Cardinality(Redeemed(k)) + Cardinality(Redeeming(k))
                            <= Cardinality(Requests)
    BY DEF RedeemInv
  <2>1. Redeemed(k) = {} /\ ~Storing(k) /\ Redeeming(k) = {}
    BY DEF Init, Redeemed, Storing, Redeeming, Idle
  <2>2. QED
    BY <2>1, RedeemingFinite, FS_EmptySet
<1>2. TypeOK /\ TypeOK' /\ CodeInv /\ CodeInv' /\ RedeemInv /\ [Next]_vars => RedeemInv'
  <2> SUFFICES ASSUME TypeOK, TypeOK', CodeInv, CodeInv', RedeemInv, [Next]_vars, NEW k \in Codes
               PROVE  /\ Spent(k)' \/ (Redeemed(k)' = {} /\ ~Storing(k)')
                      /\ IsFiniteSet(Redeemed(k)')
                      /\ Cardinality(Redeemed(k)') + Cardinality(Redeeming(k)')
                            <= Cardinality(Requests)
    BY DEF RedeemInv
  <2>1. /\ Spent(k) \/ (Redeemed(k) = {} /\ ~Storing(k))
        /\ IsFiniteSet(Redeemed(k)) /\ Cardinality(Redeemed(k)) \in Nat
        /\ Cardinality(Redeemed(k)) + Cardinality(Redeeming(k)) <= Cardinality(Requests)
    BY FS_CardinalityType DEF RedeemInv
  <2>2. Redeemed(k)' = Redeemed(k) \/ Spent(k)
    <3>1. ASSUME NEW r \in Requests, NEW i \in RowIds, req[r].at = "exchange_store",
                 issued' = issued \cup {<<req[r].code, i>>}, ~Spent(k)
          PROVE  Redeemed(k)' = Redeemed(k)
      BY <2>1, <3>1 DEF Storing, Redeemed
    <3>2. QED
      BY <3>1, IssuedStep DEF Redeemed
  <2>3. Spent(k)' \/ (Redeemed(k)' = {} /\ ~Storing(k)')
    <3>1. CASE Spent(k)
      BY <3>1, SpentStays
    <3>2. CASE ~Spent(k) /\ Storing(k)'
      <4>1. PICK p \in Requests : req'[p].at = "exchange_store" /\ req'[p].code = k
        BY <3>2 DEF Storing
      <4>2. p \in Redeeming(k)' /\ req'[p] # req[p]
        BY <2>1, <3>2, <4>1 DEF Redeeming, Storing
      <4>3. codes'[k] # Absent /\ codes'[k].used
        BY <4>1, <4>2, RedeemersStep
      <4>4. QED
        BY <4>3 DEF Spent, CodeInv
    <3>3. CASE ~Spent(k) /\ ~Storing(k)'
      BY <2>1, <2>2, <3>3
    <3>4. QED
      BY <3>1, <3>2, <3>3
  <2>4. CASE Redeeming(k)' \subseteq Redeeming(k)
    <3>1. Cardinality(Redeeming(k)') <= Cardinality(Redeeming(k))
      BY <2>4, RedeemingFinite, FS_Subset
    <3>2. Cardinality(Redeeming(k)') \in Nat
      BY <2>4, RedeemingFinite, FS_Subset, FS_CardinalityType
    <3>3. CASE Redeemed(k)' = Redeemed(k)
      BY <2>1, <2>3, <3>1, <3>2, <3>3, RedeemingFinite
    <3>4. CASE Redeemed(k)' # Redeemed(k)
      <4>1. PICK r \in Requests, i \in RowIds :
                /\ req[r].at = "exchange_store" /\ Finish(r)
                /\ issued' = issued \cup {<<req[r].code, i>>}
        BY <3>4, IssuedStep DEF Redeemed
      <4>2. req[r].code = k
        BY <3>4, <4>1 DEF Redeemed
      <4>3. QED
        BY <2>3, <4>1, <4>2, StoredIsCounted
    <3>5. QED
      BY <3>3, <3>4
  <2>5. CASE ~(Redeeming(k)' \subseteq Redeeming(k))
    <3>1. PICK p \in Redeeming(k)' : p \notin Redeeming(k)
      BY <2>5
    <3>2. req'[p] # req[p]
      BY <3>1 DEF Redeeming
    <3>3. codes[k] # Absent /\ ~codes[k].used /\ issued' = issued
      BY <3>1, <3>2, RedeemersStep
    <3>4. Redeemed(k)' = {}
      BY <2>1, <3>3 DEF Spent, Redeemed
    <3>5. Redeeming(k)' \in SUBSET Requests
      BY DEF Redeeming
    <3>6. /\ Cardinality(Redeeming(k)') \in Nat
          /\ Cardinality(Redeeming(k)') <= Cardinality(Requests)
      BY <3>5, RequestsAssumption, FS_Subset, FS_CardinalityType
    <3>7. QED
      BY <2>3, <3>4, <3>6, FS_EmptySet
  <2>6. QED
    BY <2>3, <2>4, <2>5
<1>3. QED
  BY <1>1, <1>2, TypeCorrect, CodeInvariant, PTL DEF Spec

\* A code is redeemed no more often than handlers run side by side, whoever fails
\* and whatever deletes the code in between (exchangeAuthorizationCode, whose
\* check and mark are two calls).
THEOREM RedemptionsStayBounded == Spec => []RedemptionsBounded
<1>1. RedeemInv => RedemptionsBounded
  BY DEF RedeemInv, RedemptionsBounded
<1>2. QED
  BY <1>1, RedeemInvariant, PTL

=============================================================================
