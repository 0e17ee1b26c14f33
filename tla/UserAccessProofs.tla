-------------------------- MODULE UserAccessProofs --------------------------
(***************************************************************************)
(* Proofs about UserAccess, for every value of its constants: its types;   *)
(* what a finished revocation of a user's access had found stays refused   *)
(* and stays gone.  Neither is inductive: a revocation that is still       *)
(* running has to be followed through its five awaited calls.              *)
(***************************************************************************)
EXTENDS UserAccess, TLAPS

-----------------------------------------------------------------------------
(* Types.                                                                  *)

\* A request that moves on keeps the requests' type, and only moves itself.
LEMMA ContinueType ==
    ASSUME AccessTypeOK, NEW r \in Requests, NEW q \in Request, Continue(r, q)
    PROVE  /\ req' \in [Requests -> Request]
           /\ req'[r] = q
           /\ \A p \in Requests \ {r} : req'[p] = req[p]
BY DEF AccessTypeOK, Continue

\* The same for a request that ends.
LEMMA FinishType ==
    ASSUME AccessTypeOK, NEW r \in Requests, Finish(r)
    PROVE  /\ req' \in [Requests -> Request]
           /\ req'[r] = Idle
           /\ \A p \in Requests \ {r} : req'[p] = req[p]
<1>1. Idle \in Request
  BY DEF Request
<1>2. QED
  BY <1>1, ContinueType DEF Finish

\* The control point tells the shape.
LEMMA ShapeOf ==
    ASSUME AccessTypeOK, NEW r \in Requests
    PROVE  /\ req[r].at = "login_store" => req[r] \in LoginRequest
           /\ req[r].at = "login_session" => req[r] \in LoginSessionRequest
           /\ req[r].at \in {"session_user", "session_mint"} => req[r] \in SessionRequest
           /\ req[r].at = "authorize_code" => req[r] \in AuthorizeRequest
           /\ req[r].at \in {"exchange_mark", "exchange_store"}
                => req[r] \in ExchangeRequest
           /\ req[r].at = "refresh_update" => req[r] \in RefreshRequest
           /\ req[r].at \in {"revoke_blacklist", "revoke_rows", "revoke_scan",
                             "revoke_sessions"} => req[r] \in RevokeRequest
<1>1. req[r] \in Request
  BY DEF AccessTypeOK
<1>2. QED
  BY <1>1 DEF Request, Idle, LoginRequest, LoginSessionRequest, SessionRequest,
     AuthorizeRequest, ExchangeRequest, RefreshRequest, RevokeRequest

\* Minted tokens are tokens.
LEMMA MintType ==
    ASSUME AccessTypeOK, NEW u \in Users, NEW sc \in {"login", "app"}
    PROVE  /\ Mint(u, sc) \in Token
           /\ Mint(u, sc).user = u
BY DEF AccessTypeOK, Mint, Token

\* The code of an exchange that has passed the single-use check is there: no
\* handler of this model deletes codes.
CodesStay ==
    \A r \in Requests :
        req[r].at \in {"exchange_mark", "exchange_store"} => codes[req[r].code] # Absent

\* The steps that start a handler preserve the types.
LEMMA StartType ==
    ASSUME AccessTypeOK, NEW r \in Requests, Start(r)
    PROVE  AccessTypeOK'
<1> USE DEF store, history
<1>0. ASSUME NEW q \in Request, Continue(r, q), UNCHANGED <<now, store, history>>
      PROVE  AccessTypeOK'
  <2>1. req' \in [Requests -> Request]
    BY <1>0, ContinueType
  <2>2. QED
    BY <1>0, <2>1 DEF AccessTypeOK
<1>1. ASSUME NEW u \in Users, LoginAuthenticate(r, u)
      PROVE  AccessTypeOK'
  <2>1. [at |-> "login_store", user |-> u] \in Request
    BY DEF Request, LoginRequest
  <2>2. QED
    BY <1>1, <2>1, <1>0 DEF LoginAuthenticate
<1>2. ASSUME NEW s \in Sids, SessionRead(r, s)
      PROVE  AccessTypeOK'
  <2>1. sessions[s] \in Session
    BY <1>2 DEF SessionRead, Alive, AccessTypeOK
  <2>2. [at |-> "session_user", user |-> sessions[s].user] \in Request
    BY <2>1 DEF Request, SessionRequest, Session
  <2>3. QED
    BY <1>2, <2>2, <1>0 DEF SessionRead
<1>3. ASSUME NEW u \in Users, Authorize(r, u)
      PROVE  AccessTypeOK'
  <2>1. [at |-> "authorize_code", user |-> u] \in Request
    BY DEF Request, AuthorizeRequest
  <2>2. QED
    BY <1>3, <2>1, <1>0 DEF Authorize
<1>4. ASSUME NEW t \in held, AuthorizeBearer(r, t)
      PROVE  AccessTypeOK'
  <2>1. t.user \in Users
    BY DEF AccessTypeOK, Token
  <2>2. QED
    BY <1>4, <2>1, <1>3 DEF AuthorizeBearer
<1>5. ASSUME NEW s \in Sids, AuthorizeSession(r, s)
      PROVE  AccessTypeOK'
  <2>1. sessions[s].user \in Users
    BY <1>5 DEF AuthorizeSession, Alive, AccessTypeOK, Session
  <2>2. QED
    BY <1>5, <2>1, <1>3 DEF AuthorizeSession
<1>6. ASSUME NEW k \in Codes, ExchangeLookup(r, k)
      PROVE  AccessTypeOK'
  <2>1. codes[k].user \in Users
    BY <1>6 DEF ExchangeLookup, AccessTypeOK, Code
  <2>2. [at |-> "exchange_mark", user |-> codes[k].user, code |-> k] \in Request
    BY <2>1 DEF Request, ExchangeRequest
  <2>3. QED
    BY <1>6, <2>2, <1>0 DEF ExchangeLookup
<1>7. ASSUME NEW i \in RowIds, RefreshLookup(r, i)
      PROVE  AccessTypeOK'
  <2>1. rows[i] \in Token
    BY <1>7 DEF RefreshLookup, Stored, AccessTypeOK
  <2>2. [at |-> "refresh_update", row |-> i, seen |-> rows[i]] \in Request
    BY <2>1 DEF Request, RefreshRequest
  <2>3. QED
    BY <1>7, <2>2, <1>0 DEF RefreshLookup
<1>8. ASSUME NEW u \in Users, RevokeRead(r, u)
      PROVE  AccessTypeOK'
  <2>1. /\ TokensOf(u) \subseteq Token
        /\ {rows[i] : i \in RowsOf(u)} \subseteq Token
        /\ RowsOf(u) \cup SessionsOf(u) \subseteq Sids \cup RowIds
    BY DEF TokensOf, RowsOf, SessionsOf, Stored, AccessTypeOK
  <2>2. [at |-> "revoke_blacklist", user |-> u, tokens |-> TokensOf(u), found |-> {},
         known |-> RowsOf(u) \cup SessionsOf(u), stored |-> {rows[i] : i \in RowsOf(u)}]
            \in RevokeRequest
    BY <2>1 DEF RevokeRequest
  <2>3. QED
    BY <1>8, <2>2, <1>0 DEF RevokeRead, Request
<1>9. QED
  BY <1>1, <1>2, <1>4, <1>5, <1>6, <1>7, <1>8 DEF Start

\* The steps that resume a handler preserve the types.
LEMMA ResumeType ==
    ASSUME AccessTypeOK, CodesStay, NEW r \in Requests, Resume(r)
    PROVE  AccessTypeOK'
<1> USE DEF store, history
<1>1. ASSUME NEW i \in RowIds, LoginStore(r, i)
      PROVE  AccessTypeOK'
  <2> DEFINE t == Mint(req[r].user, "login")
  <2>1. t \in Token
    BY <1>1, ShapeOf, MintType DEF LoginStore, LoginRequest
  <2>2. CASE AccessFree(t, i)
    <3>1. [at |-> "login_session", token |-> t] \in Request
      BY <2>1 DEF Request, LoginSessionRequest
    <3> HIDE DEF t
    <3>2. req' \in [Requests -> Request]
      BY <1>1, <2>2, <3>1, ContinueType DEF LoginStore, t
    <3>3. rows' = [rows EXCEPT ![i] = t] /\ drawn' = drawn \cup {i}
      BY <1>1, <2>2 DEF LoginStore, t
    <3>4. QED
      BY <1>1, <2>1, <3>2, <3>3 DEF LoginStore, AccessTypeOK
  <2>3. CASE ~AccessFree(t, i)
    <3>1. req' \in [Requests -> Request]
      BY <1>1, <2>3, FinishType DEF LoginStore
    <3>2. QED
      BY <1>1, <2>3, <3>1 DEF LoginStore, AccessTypeOK
  <2>4. QED
    BY <2>2, <2>3
<1>2. ASSUME NEW s \in Sids, LoginSession(r, s)
      PROVE  AccessTypeOK'
  <2>1. req[r].token \in Token
    BY <1>2, ShapeOf DEF LoginSession, LoginSessionRequest
  <2>2. [user |-> req[r].token.user, until |-> now + SessionTTL] \in Session
    BY <2>1, AccessTTLAssumption DEF Token, Session, AccessTypeOK
  <2>3. req' \in [Requests -> Request]
    BY <1>2, FinishType DEF LoginSession
  <2>4. QED
    BY <1>2, <2>1, <2>2, <2>3 DEF LoginSession, AccessTypeOK
<1>3. ASSUME SessionUser(r)
      PROVE  AccessTypeOK'
  <2>1. req[r] \in SessionRequest
    BY <1>3, ShapeOf DEF SessionUser
  <2>2. (IF active[req[r].user] THEN [req[r] EXCEPT !.at = "session_mint"] ELSE Idle)
            \in Request
    BY <2>1 DEF Request, SessionRequest
  <2>3. req' \in [Requests -> Request]
    BY <1>3, <2>2, ContinueType DEF SessionUser
  <2>4. QED
    BY <1>3, <2>3 DEF SessionUser, AccessTypeOK
<1>4. ASSUME SessionMint(r)
      PROVE  AccessTypeOK'
  <2>1. Mint(req[r].user, "login") \in Token
    BY <1>4, ShapeOf, MintType DEF SessionMint, SessionRequest
  <2>2. req' \in [Requests -> Request]
    BY <1>4, FinishType DEF SessionMint
  <2>3. QED
    BY <1>4, <2>1, <2>2 DEF SessionMint, AccessTypeOK
<1>5. ASSUME NEW k \in Codes, AuthorizeCode(r, k)
      PROVE  AccessTypeOK'
  <2>1. [user |-> req[r].user, used |-> FALSE] \in Code
    BY <1>5, ShapeOf DEF AuthorizeCode, AuthorizeRequest, Code
  <2>2. req' \in [Requests -> Request]
    BY <1>5, FinishType DEF AuthorizeCode
  <2>3. QED
    BY <1>5, <2>1, <2>2 DEF AuthorizeCode, AccessTypeOK
<1>6. ASSUME ExchangeMark(r)
      PROVE  AccessTypeOK'
  <2>1. req[r] \in ExchangeRequest
    BY <1>6, ShapeOf DEF ExchangeMark
  <2>2. [req[r] EXCEPT !.at = "exchange_store"] \in Request
    BY <2>1 DEF Request, ExchangeRequest
  <2>3. req' \in [Requests -> Request]
    BY <1>6, <2>2, ContinueType DEF ExchangeMark
  <2>4. req[r].code \in Codes /\ codes[req[r].code] \in Code
    BY <1>6, <2>1 DEF ExchangeMark, CodesStay, ExchangeRequest, AccessTypeOK
  <2>5. [codes[req[r].code] EXCEPT !.used = TRUE] \in Code
    BY <2>4 DEF Code
  <2>6. codes' \in [Codes -> Code \cup {Absent}]
    BY <1>6, <2>4, <2>5 DEF ExchangeMark, AccessTypeOK
  <2>7. QED
    BY <1>6, <2>3, <2>6 DEF ExchangeMark, AccessTypeOK
<1>7. ASSUME NEW i \in RowIds, ExchangeStore(r, i)
      PROVE  AccessTypeOK'
  <2>1. Mint(req[r].user, "app") \in Token
    BY <1>7, ShapeOf, MintType DEF ExchangeStore, ExchangeRequest
  <2>2. req' \in [Requests -> Request]
    BY <1>7, FinishType DEF ExchangeStore
  <2>3. QED
    BY <1>7, <2>1, <2>2 DEF ExchangeStore, AccessTypeOK
<1>8. ASSUME RefreshUpdate(r)
      PROVE  AccessTypeOK'
  <2>1. Mint(req[r].seen.user, req[r].seen.scopes) \in Token
    BY <1>8, ShapeOf, MintType DEF RefreshUpdate, RefreshRequest, Token
  <2>2. req' \in [Requests -> Request]
    BY <1>8, FinishType DEF RefreshUpdate
  <2>3. QED
    BY <1>8, <2>1, <2>2 DEF RefreshUpdate, AccessTypeOK
<1>9. ASSUME RevokeBlacklist(r)
      PROVE  AccessTypeOK'
  <2>1. req[r] \in RevokeRequest
    BY <1>9, ShapeOf DEF RevokeBlacklist
  <2>2. [req[r] EXCEPT !.at = "revoke_rows"] \in Request
    BY <2>1 DEF Request, RevokeRequest
  <2>3. req' \in [Requests -> Request]
    BY <1>9, <2>2, ContinueType, FinishType DEF RevokeBlacklist
  <2>4. blacklist' \subseteq Token
    BY <1>9, <2>1 DEF RevokeBlacklist, RevokeRequest, AccessTypeOK
  <2>5. QED
    BY <1>9, <2>3, <2>4 DEF RevokeBlacklist, AccessTypeOK
<1>10. ASSUME RevokeRows(r)
       PROVE  AccessTypeOK'
  <2>1. req[r] \in RevokeRequest
    BY <1>10, ShapeOf DEF RevokeRows
  <2>2. [req[r] EXCEPT !.at = "revoke_scan"] \in Request
    BY <2>1 DEF Request, RevokeRequest
  <2>3. req' \in [Requests -> Request]
    BY <1>10, <2>2, ContinueType DEF RevokeRows
  <2>4. QED
    BY <1>10, <2>3 DEF RevokeRows, AccessTypeOK
<1>11. ASSUME RevokeScan(r)
       PROVE  AccessTypeOK'
  <2>1. req[r] \in RevokeRequest
    BY <1>11, ShapeOf DEF RevokeScan
  <2>2. SessionsOf(req[r].user) \subseteq Sids
    BY DEF SessionsOf
  <2>3. [req[r] EXCEPT !.at = "revoke_sessions", !.found = SessionsOf(req[r].user)]
            \in Request
    BY <2>1, <2>2 DEF Request, RevokeRequest
  <2>4. req' \in [Requests -> Request]
    BY <1>11, <2>3, ContinueType DEF RevokeScan
  <2>5. QED
    BY <1>11, <2>4 DEF RevokeScan, AccessTypeOK
<1>12. ASSUME RevokeSessions(r)
       PROVE  AccessTypeOK'
  <2>1. req[r] \in RevokeRequest
    BY <1>12, ShapeOf DEF RevokeSessions
  <2>2. req' \in [Requests -> Request]
    BY <1>12, FinishType DEF RevokeSessions
  <2>3. QED
    BY <1>12, <2>1, <2>2 DEF RevokeSessions, RevokeRequest, AccessTypeOK
<1>13. ASSUME StoreError(r)
       PROVE  AccessTypeOK'
  <2>1. req' \in [Requests -> Request]
    BY <1>13, FinishType DEF StoreError
  <2>2. QED
    BY <1>13, <2>1 DEF StoreError, AccessTypeOK
<1>14. QED
  BY <1>1, <1>2, <1>3, <1>4, <1>5, <1>6, <1>7, <1>8, <1>9, <1>10, <1>11, <1>12, <1>13
     DEF Resume

\* The single steps preserve the types.
LEMMA SingleType ==
    ASSUME AccessTypeOK, Single
    PROVE  AccessTypeOK'
<1> USE DEF store, history, AccessTypeOK
<1>1. ASSUME NEW s \in Sids, Logout(s)
      PROVE  AccessTypeOK'
  BY <1>1 DEF Logout
<1>2. ASSUME NEW u \in Users, NEW b \in BOOLEAN, SetActive(u, b)
      PROVE  AccessTypeOK'
  BY <1>2 DEF SetActive
<1>3. CASE CleanupTokens
  BY <1>3 DEF CleanupTokens
<1>4. CASE Tick
  BY <1>4 DEF Tick
<1>5. QED
  BY <1>1, <1>2, <1>3, <1>4 DEF Single

\* A handler's step moves that handler only.
LEMMA OthersWait ==
    ASSUME AccessTypeOK, NEW r \in Requests, Start(r) \/ Resume(r)
    PROVE  \A p \in Requests \ {r} : req'[p] = req[p]
<1>1. \A q : Continue(r, q) => \A p \in Requests \ {r} : req'[p] = req[p]
  BY DEF Continue, AccessTypeOK
<1>2. Finish(r) => \A p \in Requests \ {r} : req'[p] = req[p]
  BY <1>1 DEF Finish
<1>3. CASE Start(r)
  BY <1>1, <1>3 DEF Start, LoginAuthenticate, SessionRead, AuthorizeBearer,
     AuthorizeSession, Authorize, ExchangeLookup, RefreshLookup, RevokeRead
<1>4. CASE Resume(r)
  BY <1>1, <1>2, <1>4 DEF Resume, LoginStore, LoginSession, SessionUser, SessionMint,
     AuthorizeCode, ExchangeMark, ExchangeStore, RefreshUpdate, RevokeBlacklist,
     RevokeRows, RevokeScan, RevokeSessions, StoreError
<1>5. QED
  BY <1>3, <1>4

\* Where a handler that is resumed can be afterwards.
LEMMA ResumeLeaves ==
    ASSUME AccessTypeOK, NEW r \in Requests, Resume(r)
    PROVE  \/ ExchangeMark(r)
           \/ /\ RevokeBlacklist(r) \/ RevokeRows(r) \/ RevokeScan(r)
              /\ req'[r].at \in {"idle", "revoke_rows", "revoke_scan", "revoke_sessions"}
           \/ req'[r].at \in {"idle", "login_session", "session_mint"}
<1> USE DEF Idle
<1>1. \A q : Continue(r, q) => req'[r] = q
  BY DEF Continue, AccessTypeOK
<1>2. Finish(r) => req'[r].at = "idle"
  BY <1>1 DEF Finish
<1>3. ASSUME NEW i \in RowIds, LoginStore(r, i)
      PROVE  req'[r].at \in {"idle", "login_session"}
  BY <1>1, <1>2, <1>3 DEF LoginStore
<1>4. ASSUME SessionUser(r)
      PROVE  req'[r].at \in {"idle", "session_mint"}
  <2>1. req[r] \in SessionRequest
    BY <1>4, ShapeOf DEF SessionUser
  <2>2. req'[r] = Idle \/ req'[r] = [req[r] EXCEPT !.at = "session_mint"]
    BY <1>4, <1>1 DEF SessionUser
  <2>3. QED
    BY <2>1, <2>2 DEF SessionRequest
<1>5. ASSUME RevokeBlacklist(r) \/ RevokeRows(r) \/ RevokeScan(r)
      PROVE  req'[r].at \in {"idle", "revoke_rows", "revoke_scan", "revoke_sessions"}
  <2>1. req[r] \in RevokeRequest
    BY <1>5, ShapeOf DEF RevokeBlacklist, RevokeRows, RevokeScan
  <2>2. \/ req'[r].at = "idle"
        \/ req'[r] = [req[r] EXCEPT !.at = "revoke_rows"]
        \/ req'[r] = [req[r] EXCEPT !.at = "revoke_scan"]
        \/ req'[r] = [req[r] EXCEPT !.at = "revoke_sessions",
                                    !.found = SessionsOf(req[r].user)]
    BY <1>1, <1>2, <1>5 DEF RevokeBlacklist, RevokeRows, RevokeScan
  <2>3. QED
    BY <2>1, <2>2 DEF RevokeRequest
<1>6. QED
  BY <1>2, <1>3, <1>4, <1>5 DEF Resume, LoginSession, SessionMint, AuthorizeCode,
     ExchangeStore, RefreshUpdate, RevokeSessions, StoreError

\* No step takes a code away.
LEMMA CodesKept ==
    ASSUME AccessTypeOK, CodesStay, [Next]_vars
    PROVE  \A k \in Codes : codes[k] # Absent => codes'[k] # Absent
<1> USE DEF store, history
<1>a. Absent \notin Code
  BY AccessAbsentAssumption
<1>1. ASSUME NEW r \in Requests, NEW k \in Codes, AuthorizeCode(r, k)
      PROVE  \A c \in Codes : codes[c] # Absent => codes'[c] # Absent
  <2>1. [user |-> req[r].user, used |-> FALSE] \in Code
    BY <1>1, ShapeOf DEF AuthorizeCode, AuthorizeRequest, Code
  <2>2. QED
    BY <1>1, <1>a, <2>1 DEF AuthorizeCode, AccessTypeOK
<1>2. ASSUME NEW r \in Requests, ExchangeMark(r)
      PROVE  \A c \in Codes : codes[c] # Absent => codes'[c] # Absent
  <2>1. req[r].code \in Codes /\ codes[req[r].code] \in Code
    BY <1>2, ShapeOf DEF ExchangeMark, CodesStay, ExchangeRequest, AccessTypeOK
  <2>2. [codes[req[r].code] EXCEPT !.used = TRUE] \in Code
    BY <2>1 DEF Code
  <2>3. QED
    BY <1>2, <1>a, <2>1, <2>2 DEF ExchangeMark, AccessTypeOK
<1>3. ASSUME NEW r \in Requests, Start(r)
      PROVE  codes' = codes
  BY <1>3 DEF Start, LoginAuthenticate, SessionRead, AuthorizeBearer, AuthorizeSession,
     Authorize, ExchangeLookup, RefreshLookup, RevokeRead
<1>4. ASSUME NEW r \in Requests, Resume(r),
             ~\E k \in Codes : AuthorizeCode(r, k), ~ExchangeMark(r)
      PROVE  codes' = codes
  BY <1>4 DEF Resume, LoginStore, LoginSession, SessionUser, SessionMint, ExchangeStore,
     RefreshUpdate, RevokeBlacklist, RevokeRows, RevokeScan, RevokeSessions, StoreError
<1>5. Single \/ UNCHANGED vars => codes' = codes
  BY DEF Single, Logout, SetActive, CleanupTokens, Tick, vars
<1>6. QED
  BY <1>1, <1>2, <1>3, <1>4, <1>5 DEF Next

\* An exchange that moves on does so with a code that is there.
LEMMA CodesStayStep ==
    ASSUME AccessTypeOK, CodesStay, [Next]_vars
    PROVE  CodesStay'
<1> USE DEF store, history
<1> SUFFICES ASSUME NEW p \in Requests,
                    req'[p].at \in {"exchange_mark", "exchange_store"}
             PROVE  codes'[req'[p].code] # Absent
  BY DEF CodesStay
<1>1. CASE req'[p] = req[p]
  <2>1. req[p].code \in Codes
    BY <1>1, ShapeOf DEF ExchangeRequest
  <2>2. QED
    BY <1>1, <2>1, CodesKept DEF CodesStay
<1>2. ASSUME NEW r \in Requests, NEW k \in Codes, ExchangeLookup(r, k), p = r
      PROVE  codes'[req'[p].code] # Absent
  BY <1>2 DEF ExchangeLookup, Continue, AccessTypeOK
<1>3. ASSUME NEW r \in Requests, ExchangeMark(r), p = r
      PROVE  codes'[req'[p].code] # Absent
  <2>1. req[r] \in ExchangeRequest /\ codes[req[r].code] # Absent
    BY <1>3, ShapeOf DEF ExchangeMark, CodesStay
  <2>2. req'[r] = [req[r] EXCEPT !.at = "exchange_store"]
    BY <1>3 DEF ExchangeMark, Continue, AccessTypeOK
  <2>3. req'[r].code = req[r].code /\ req[r].code \in Codes
    BY <2>1, <2>2 DEF ExchangeRequest
  <2>4. QED
    BY <1>3, <2>1, <2>3, CodesKept
<1>4. ASSUME NEW r \in Requests, Start(r) \/ Resume(r), p # r
      PROVE  req'[p] = req[p]
  BY <1>4, OthersWait
<1>5. ASSUME NEW r \in Requests, Start(r), p = r,
             ~\E k \in Codes : ExchangeLookup(r, k)
      PROVE  FALSE
  BY <1>5 DEF Start, LoginAuthenticate, SessionRead, AuthorizeBearer, AuthorizeSession,
     Authorize, RefreshLookup, RevokeRead, Continue, AccessTypeOK
<1>6. ASSUME NEW r \in Requests, Resume(r), p = r, ~ExchangeMark(r)
      PROVE  FALSE
  BY <1>6, ResumeLeaves
<1>7. Single \/ UNCHANGED vars => req' = req
  BY DEF Single, Logout, SetActive, CleanupTokens, Tick, vars
<1>8. QED
  BY <1>1, <1>2, <1>3, <1>4, <1>5, <1>6, <1>7 DEF Next

\* Every variable of the access model keeps its type, whatever handlers run.
THEOREM AccessTypesCorrect == Spec => [](AccessTypeOK /\ CodesStay)
<1>1. Init => AccessTypeOK /\ CodesStay
  BY DEF Init, AccessTypeOK, CodesStay, Request, Idle
<1>2. AccessTypeOK /\ CodesStay /\ [Next]_vars => AccessTypeOK' /\ CodesStay'
  <2>1. AccessTypeOK /\ UNCHANGED vars => AccessTypeOK'
    BY DEF AccessTypeOK, vars, store, history
  <2>2. QED
    BY <2>1, StartType, ResumeType, SingleType, CodesStayStep DEF Next
<1>3. QED
  BY <1>1, <1>2, PTL DEF Spec

\* What one step can do to one request.
LEMMA RequestSteps ==
    ASSUME AccessTypeOK, [Next]_vars, NEW p \in Requests
    PROVE  \/ req'[p] = req[p]
           \/ \E u \in Users : RevokeRead(p, u)
           \/ \E i \in RowIds : RefreshLookup(p, i)
           \/ RevokeBlacklist(p)
           \/ RevokeRows(p) \/ RevokeScan(p)
           \/ req'[p].at \notin {"refresh_update", "revoke_blacklist", "revoke_rows",
                                 "revoke_scan", "revoke_sessions"}
<1> USE DEF store, history
<1>1. ASSUME NEW r \in Requests, Start(r) \/ Resume(r), p # r
      PROVE  req'[p] = req[p]
  BY <1>1, OthersWait
<1>2. ASSUME Start(p), ~\E u \in Users : RevokeRead(p, u),
             ~\E i \in RowIds : RefreshLookup(p, i)
      PROVE  req'[p].at \in {"login_store", "session_user", "authorize_code",
                             "exchange_mark"}
  BY <1>2 DEF Start, LoginAuthenticate, SessionRead, AuthorizeBearer, AuthorizeSession,
     Authorize, ExchangeLookup, Continue, AccessTypeOK
<1>3. ASSUME ExchangeMark(p)
      PROVE  req'[p].at = "exchange_store"
  <2>1. req[p] \in ExchangeRequest
    BY <1>3, ShapeOf DEF ExchangeMark
  <2>2. req'[p] = [req[p] EXCEPT !.at = "exchange_store"]
    BY <1>3 DEF ExchangeMark, Continue, AccessTypeOK
  <2>3. QED
    BY <2>1, <2>2 DEF ExchangeRequest
<1>4. Single \/ UNCHANGED vars => req' = req
  BY DEF Single, Logout, SetActive, CleanupTokens, Tick, vars
<1>5. QED
  BY <1>1, <1>2, <1>3, <1>4, ResumeLeaves DEF Next

\* Only the end of a revocation writes the history.
LEMMA HistoryStep ==
    ASSUME [Next]_vars
    PROVE  \/ swept' = swept /\ ended' = ended
           \/ \E r \in Requests : RevokeSessions(r)
<1> USE DEF store, history
<1>1. ASSUME NEW r \in Requests, Start(r)
      PROVE  swept' = swept /\ ended' = ended
  BY <1>1 DEF Start, LoginAuthenticate, SessionRead, AuthorizeBearer, AuthorizeSession,
     Authorize, ExchangeLookup, RefreshLookup, RevokeRead
<1>2. ASSUME NEW r \in Requests, Resume(r), ~RevokeSessions(r)
      PROVE  swept' = swept /\ ended' = ended
  BY <1>2 DEF Resume, LoginStore, LoginSession, SessionUser, SessionMint, AuthorizeCode,
     ExchangeMark, ExchangeStore, RefreshUpdate, RevokeBlacklist, RevokeRows, RevokeScan,
     StoreError
<1>3. Single \/ UNCHANGED vars => swept' = swept /\ ended' = ended
  BY DEF Single, Logout, SetActive, CleanupTokens, Tick, vars
<1>4. QED
  BY <1>1, <1>2, <1>3 DEF Next

-----------------------------------------------------------------------------
(* Refusal of what was swept.                                              *)

\* A token the gateway refuses is never accepted again: a blacklist key goes
\* only when its token has expired.
LEMMA RefusedStaysRefused ==
    ASSUME AccessTypeOK, CodesStay, [Next]_vars, NEW t \in Token, ~Accepted(t)
    PROVE  ~Accepted(t)'
<1> USE DEF store, history, Accepted, VerifyToken
<1>1. ASSUME now' = now, blacklist \subseteq blacklist'
      PROVE  ~Accepted(t)'
  BY <1>1
<1>2. CASE Tick
  <2>1. now' = now + 1 /\ blacklist' = {x \in blacklist : KeyLives(x, now')}
    BY <1>2 DEF Tick
  <2>2. now \in Nat /\ t.iat \in Nat /\ AccessTTL \in Nat
    BY AccessTTLAssumption DEF AccessTypeOK, Token
  <2>3. CASE t \in blacklist
    BY <2>1, <2>2, <2>3 DEF KeyLives
  <2>4. CASE ~(now < t.iat + AccessTTL)
    BY <2>1, <2>2, <2>4
  <2>5. QED
    BY <2>3, <2>4
<1>3. ASSUME NEW r \in Requests, Start(r)
      PROVE  ~Accepted(t)'
  BY <1>3, <1>1 DEF Start, LoginAuthenticate, SessionRead, AuthorizeBearer,
     AuthorizeSession, Authorize, ExchangeLookup, RefreshLookup, RevokeRead
<1>4. ASSUME NEW r \in Requests, Resume(r)
      PROVE  ~Accepted(t)'
  <2>1. CASE RevokeBlacklist(r)
    BY <2>1, <1>1 DEF RevokeBlacklist
  <2>2. CASE ~RevokeBlacklist(r)
    BY <1>4, <2>2, <1>1 DEF Resume, LoginStore, LoginSession, SessionUser, SessionMint,
       AuthorizeCode, ExchangeMark, ExchangeStore, RefreshUpdate, RevokeRows, RevokeScan,
       RevokeSessions, StoreError
  <2>3. QED
    BY <2>1, <2>2
<1>5. CASE Single /\ ~Tick
  BY <1>5, <1>1 DEF Single, Logout, SetActive, CleanupTokens
<1>6. CASE UNCHANGED vars
  BY <1>6 DEF vars
<1>7. QED
  BY <1>2, <1>3, <1>4, <1>5, <1>6 DEF Next

RevokeSteps == {"revoke_blacklist", "revoke_rows", "revoke_scan", "revoke_sessions"}

\* What a running revocation has seen to: the tokens it blacklists are all that
\* was in the rows when it began, and once past the blacklist they are refused.
SweepOf(r) ==
    /\ req[r].at \in RevokeSteps => req[r].stored \subseteq req[r].tokens
    /\ req[r].at \in RevokeSteps \ {"revoke_blacklist"}
            => \A t \in req[r].tokens : ~Accepted(t)

SweptInv == SweptTokensAreRejected /\ \A r \in Requests : SweepOf(r)

\* A step keeps what the running revocations have seen to.
LEMMA SweepKept ==
    ASSUME AccessTypeOK, CodesStay, SweptInv, [Next]_vars, NEW p \in Requests
    PROVE  SweepOf(p)'
<1> USE DEF store, history, RevokeSteps
<1>1. ASSUME req'[p] = req[p]
      PROVE  SweepOf(p)'
  <2>1. req[p].at \in RevokeSteps => req[p] \in RevokeRequest
    BY ShapeOf
  <2>2. req[p].at \in RevokeSteps \ {"revoke_blacklist"} =>
            \A t \in req[p].tokens : ~Accepted(t)'
    BY <2>1, RefusedStaysRefused DEF SweptInv, SweepOf, RevokeRequest
  <2>3. QED
    BY <1>1, <2>2 DEF SweptInv, SweepOf
<1>2. ASSUME NEW u \in Users, RevokeRead(p, u)
      PROVE  SweepOf(p)'
  BY <1>2 DEF RevokeRead, Continue, AccessTypeOK, SweepOf, TokensOf
<1>3. ASSUME RevokeBlacklist(p)
      PROVE  SweepOf(p)'
  <2>1. req[p] \in RevokeRequest
    BY <1>3, ShapeOf DEF RevokeBlacklist
  <2>2. req[p].stored \subseteq req[p].tokens
    BY <1>3 DEF RevokeBlacklist, SweptInv, SweepOf
  <2>3. CASE Finish(p)
    BY <2>3, FinishType DEF SweepOf, Idle
  <2>4. CASE /\ blacklist' = blacklist \cup {t \in req[p].tokens : VerifyToken(t)}
             /\ Continue(p, [req[p] EXCEPT !.at = "revoke_rows"])
    <3>1. req'[p] = [req[p] EXCEPT !.at = "revoke_rows"]
      BY <2>4 DEF Continue, AccessTypeOK
    <3>2. req'[p].stored = req[p].stored /\ req'[p].tokens = req[p].tokens
      BY <2>1, <3>1 DEF RevokeRequest
    <3>3. now' = now
      BY <1>3 DEF RevokeBlacklist
    <3>4. \A t \in req[p].tokens : ~Accepted(t)'
      BY <2>4, <3>3 DEF Accepted, VerifyToken
    <3>5. QED
      BY <2>2, <3>2, <3>4 DEF SweepOf
  <2>5. QED
    BY <1>3, <2>3, <2>4 DEF RevokeBlacklist
<1>4. ASSUME RevokeRows(p) \/ RevokeScan(p)
      PROVE  SweepOf(p)'
  <2>1. req[p] \in RevokeRequest
    BY <1>4, ShapeOf DEF RevokeRows, RevokeScan
  <2>2. \/ req'[p] = [req[p] EXCEPT !.at = "revoke_scan"]
        \/ req'[p] = [req[p] EXCEPT !.at = "revoke_sessions",
                                    !.found = SessionsOf(req[p].user)]
    BY <1>4 DEF RevokeRows, RevokeScan, Continue, AccessTypeOK
  <2>3. req'[p].stored = req[p].stored /\ req'[p].tokens = req[p].tokens
    BY <2>1, <2>2 DEF RevokeRequest
  <2>4. /\ req[p].stored \subseteq req[p].tokens
        /\ \A t \in req[p].tokens : ~Accepted(t)
    BY <1>4 DEF RevokeRows, RevokeScan, SweptInv, SweepOf
  <2>5. \A t \in req[p].tokens : ~Accepted(t)'
    BY <2>1, <2>4, RefusedStaysRefused DEF RevokeRequest
  <2>6. QED
    BY <2>3, <2>4, <2>5 DEF SweepOf
<1>5. ASSUME req'[p].at \notin RevokeSteps
      PROVE  SweepOf(p)'
  BY <1>5 DEF SweepOf
<1>6. ASSUME NEW i \in RowIds, RefreshLookup(p, i)
      PROVE  SweepOf(p)'
  BY <1>6, <1>5 DEF RefreshLookup, Continue, AccessTypeOK
<1>7. QED
  BY <1>1, <1>2, <1>3, <1>4, <1>5, <1>6, RequestSteps

\* A finished revocation adds only tokens that are refused.
LEMMA SweptStep ==
    ASSUME AccessTypeOK, CodesStay, SweptInv, [Next]_vars
    PROVE  SweptTokensAreRejected'
<1> USE DEF store, history
<1>1. ASSUME swept' = swept
      PROVE  SweptTokensAreRejected'
  BY <1>1, RefusedStaysRefused DEF SweptInv, SweptTokensAreRejected, AccessTypeOK
<1>2. ASSUME NEW r \in Requests, RevokeSessions(r)
      PROVE  SweptTokensAreRejected'
  <2>1. req[r] \in RevokeRequest
    BY <1>2, ShapeOf DEF RevokeSessions
  <2>2. \A t \in req[r].stored : ~Accepted(t)
    BY <1>2 DEF RevokeSessions, SweptInv, SweepOf, RevokeSteps
  <2>3. swept' = swept \cup req[r].stored
    BY <1>2 DEF RevokeSessions
  <2>4. \A t \in swept' : t \in Token /\ ~Accepted(t)
    BY <2>1, <2>2, <2>3 DEF SweptInv, SweptTokensAreRejected, AccessTypeOK, RevokeRequest
  <2>5. QED
    BY <2>4, RefusedStaysRefused DEF SweptTokensAreRejected
<1>3. QED
  BY <1>1, <1>2, HistoryStep

\* The tokens in a user's rows when a revocation began are refused by the
\* gateway once it has finished, although rows are stored and rotated in
\* between (revokeAllUserAccess).
THEOREM SweptRefused == Spec => []SweptTokensAreRejected
<1>1. Init => SweptInv
  BY DEF Init, SweptInv, SweptTokensAreRejected, SweepOf, RevokeSteps, Idle
<1>2. AccessTypeOK /\ CodesStay /\ SweptInv /\ [Next]_vars => SweptInv'
  BY SweepKept, SweptStep DEF SweptInv
<1>3. SweptInv => SweptTokensAreRejected
  BY DEF SweptInv
<1>4. QED
  BY <1>1, <1>2, <1>3, AccessTypesCorrect, PTL DEF Spec

-----------------------------------------------------------------------------
(* What has ended stays ended.                                             *)

UsedAreDrawn ==
    /\ Stored \subseteq drawn
    /\ \A s \in Sids : Alive(s) => s \in drawn
    /\ ended \subseteq drawn

\* What a handler in flight knows: a refresh, whose row it is; a revocation,
\* whose rows and sessions it found, which of them it has yet to remove.
FlightOf(r) ==
    LET q == req[r] IN
    /\ q.at = "refresh_update" =>
        /\ q.row \in drawn
        /\ q.row \in Stored => rows[q.row].user = q.seen.user
    /\ q.at \in RevokeSteps =>
        /\ q.known \subseteq drawn
        /\ \A s \in Sids : s \in q.known /\ Alive(s) => sessions[s].user = q.user
    /\ q.at \in {"revoke_blacklist", "revoke_rows"} =>
        \A i \in Stored : i \in q.known => rows[i].user = q.user
    /\ q.at \in {"revoke_scan", "revoke_sessions"} => \A i \in Stored : i \notin q.known
    /\ q.at = "revoke_sessions" => \A s \in Sids : s \in q.known /\ Alive(s) => s \in q.found

EndedInv == EndedStaysEnded /\ UsedAreDrawn /\ \A r \in Requests : FlightOf(r)

\* What a step may do to the two tables: an entry that is there afterwards is a
\* new one, or one of the same user that was there before.
TablesStep ==
    /\ drawn \subseteq drawn'
    /\ \A i \in RowIds : rows'[i] # Absent =>
        \/ rows[i] # Absent /\ rows'[i].user = rows[i].user
        \/ i \notin drawn /\ i \in drawn'
    /\ \A s \in Sids : sessions'[s] # Absent =>
        \/ sessions'[s] = sessions[s]
        \/ s \notin drawn /\ s \in drawn'

\* Every step does no more than that; a refresh writes only to a row that is
\* there, for the user it was read for.
LEMMA NextTablesStep ==
    ASSUME AccessTypeOK, CodesStay, EndedInv, [Next]_vars
    PROVE  TablesStep
<1> USE DEF store, history, TablesStep
<1>1. ASSUME NEW r \in Requests, NEW i \in RowIds, LoginStore(r, i)
      PROVE  TablesStep
  BY <1>1 DEF LoginStore, AccessTypeOK
<1>2. ASSUME NEW r \in Requests, NEW s \in Sids, LoginSession(r, s)
      PROVE  TablesStep
  BY <1>2 DEF LoginSession, AccessTypeOK
<1>3. ASSUME NEW r \in Requests, NEW i \in RowIds, ExchangeStore(r, i)
      PROVE  TablesStep
  BY <1>3 DEF ExchangeStore, AccessTypeOK
<1>4. ASSUME NEW r \in Requests, RefreshUpdate(r)
      PROVE  TablesStep
  <2> DEFINE q == req[r]
             t == Mint(q.seen.user, q.seen.scopes)
  <2>1. CASE rows' = rows
    BY <1>4, <2>1 DEF RefreshUpdate
  <2>2. CASE q.row \in Stored /\ rows' = [rows EXCEPT ![q.row] = t]
    <3>1. t.user = q.seen.user
      BY DEF Mint
    <3>2. rows[q.row].user = q.seen.user
      BY <1>4, <2>2 DEF RefreshUpdate, EndedInv, FlightOf
    <3>3. q.row \in RowIds /\ rows[q.row] # Absent
      BY <2>2 DEF Stored
    <3> HIDE DEF t
    <3>4. \A i \in RowIds : rows'[i] = IF i = q.row THEN t ELSE rows[i]
      BY <2>2 DEF AccessTypeOK
    <3>5. QED
      BY <1>4, <3>1, <3>2, <3>3, <3>4 DEF RefreshUpdate
  <2>3. QED
    BY <1>4, <2>1, <2>2 DEF RefreshUpdate
<1>5. ASSUME NEW r \in Requests, RevokeRows(r)
      PROVE  TablesStep
  BY <1>5 DEF RevokeRows, AccessTypeOK
<1>6. ASSUME NEW r \in Requests, RevokeSessions(r)
      PROVE  TablesStep
  BY <1>6 DEF RevokeSessions, AccessTypeOK
<1>7. ASSUME NEW r \in Requests, Start(r)
      PROVE  TablesStep
  BY <1>7 DEF Start, LoginAuthenticate, SessionRead, AuthorizeBearer, AuthorizeSession,
     Authorize, ExchangeLookup, RefreshLookup, RevokeRead
<1>8. ASSUME NEW r \in Requests, \/ SessionUser(r) \/ SessionMint(r)
                                 \/ \E k \in Codes : AuthorizeCode(r, k)
                                 \/ ExchangeMark(r) \/ RevokeBlacklist(r)
                                 \/ RevokeScan(r) \/ StoreError(r)
      PROVE  TablesStep
  BY <1>8 DEF SessionUser, SessionMint, AuthorizeCode, ExchangeMark, RevokeBlacklist,
     RevokeScan, StoreError
<1>9. ASSUME NEW s \in Sids, Logout(s)
      PROVE  TablesStep
  BY <1>9 DEF Logout, AccessTypeOK
<1>10. CASE CleanupTokens
  BY <1>10 DEF CleanupTokens, AccessTypeOK
<1>11. CASE Tick
  BY <1>11 DEF Tick, AccessTypeOK
<1>12. (\E u \in Users, b \in BOOLEAN : SetActive(u, b)) \/ UNCHANGED vars => TablesStep
  BY DEF SetActive, vars
<1>13. QED
  BY <1>1, <1>2, <1>3, <1>4, <1>5, <1>6, <1>7, <1>8, <1>9, <1>10, <1>11, <1>12
     DEF Next, Resume, Single

\* Hence what a waiting handler knows stays true.
LEMMA WaitingFlight ==
    ASSUME AccessTypeOK, EndedInv, TablesStep, NEW p \in Requests, req'[p] = req[p]
    PROVE  FlightOf(p)'
<1> DEFINE q == req[p]
<1> USE DEF RevokeSteps
<1>0. FlightOf(p)
  BY DEF EndedInv
<1>1. q.at = "refresh_update" =>
        /\ q.row \in drawn'
        /\ q.row \in RowIds /\ rows'[q.row] # Absent => rows'[q.row].user = q.seen.user
  BY <1>0 DEF FlightOf, TablesStep, Stored
<1>2. q.at \in RevokeSteps =>
        /\ q.known \subseteq drawn'
        /\ \A s \in Sids : s \in q.known /\ sessions'[s] # Absent
                            => sessions'[s].user = q.user
  BY <1>0 DEF FlightOf, TablesStep, Alive
<1>3. q.at \in {"revoke_blacklist", "revoke_rows"} =>
        \A i \in RowIds : rows'[i] # Absent /\ i \in q.known => rows'[i].user = q.user
  BY <1>0 DEF FlightOf, TablesStep, Stored
<1>4. q.at \in {"revoke_scan", "revoke_sessions"} =>
        \A i \in RowIds : rows'[i] # Absent => i \notin q.known
  BY <1>0 DEF FlightOf, TablesStep, Stored
<1>5. q.at = "revoke_sessions" =>
        \A s \in Sids : s \in q.known /\ sessions'[s] # Absent => s \in q.found
  BY <1>0 DEF FlightOf, TablesStep, Alive
<1>6. QED
  BY <1>1, <1>2, <1>3, <1>4, <1>5 DEF FlightOf, Stored, Alive

\* So does what a handler that moves knows.
LEMMA FlightKept ==
    ASSUME AccessTypeOK, CodesStay, EndedInv, [Next]_vars, NEW p \in Requests
    PROVE  FlightOf(p)'
<1> USE DEF store, history, RevokeSteps
<1>1. ASSUME req'[p] = req[p]
      PROVE  FlightOf(p)'
  BY <1>1, NextTablesStep, WaitingFlight
<1>2. ASSUME NEW u \in Users, RevokeRead(p, u)
      PROVE  FlightOf(p)'
  <2>1. req'[p] = [at |-> "revoke_blacklist", user |-> u, tokens |-> TokensOf(u),
                   found |-> {}, known |-> RowsOf(u) \cup SessionsOf(u),
                   stored |-> {rows[i] : i \in RowsOf(u)}]
    BY <1>2 DEF RevokeRead, Continue, AccessTypeOK
  <2>2. rows' = rows /\ sessions' = sessions /\ drawn' = drawn
    BY <1>2 DEF RevokeRead
  <2>3. /\ RowsOf(u) \cup SessionsOf(u) \subseteq drawn
        /\ \A s \in Sids : s \in RowsOf(u) \cup SessionsOf(u) => sessions[s].user = u
        /\ \A i \in RowIds : i \in RowsOf(u) \cup SessionsOf(u) => rows[i].user = u
    BY AccessIdentifierAssumption DEF RowsOf, SessionsOf, Stored, EndedInv, UsedAreDrawn
  <2>4. QED
    BY <2>1, <2>2, <2>3 DEF FlightOf, Stored, Alive
<1>3. ASSUME NEW i \in RowIds, RefreshLookup(p, i)
      PROVE  FlightOf(p)'
  <2>1. req'[p] = [at |-> "refresh_update", row |-> i, seen |-> rows[i]]
    BY <1>3 DEF RefreshLookup, Continue, AccessTypeOK
  <2>2. QED
    BY <1>3, <2>1 DEF RefreshLookup, FlightOf, EndedInv, UsedAreDrawn, Stored
<1>4. ASSUME RevokeBlacklist(p)
      PROVE  FlightOf(p)'
  <2>1. req[p] \in RevokeRequest
    BY <1>4, ShapeOf DEF RevokeBlacklist
  <2>2. req'[p] = Idle \/ req'[p] = [req[p] EXCEPT !.at = "revoke_rows"]
    BY <1>4, FinishType DEF RevokeBlacklist, Continue, AccessTypeOK
  <2>3. CASE req'[p] = [req[p] EXCEPT !.at = "revoke_rows"]
    <3>1. /\ req'[p].at = "revoke_rows" /\ req'[p].user = req[p].user
          /\ req'[p].known = req[p].known
      BY <2>1, <2>3 DEF RevokeRequest
    <3>2. rows' = rows /\ sessions' = sessions /\ drawn' = drawn
      BY <1>4 DEF RevokeBlacklist
    <3>3. FlightOf(p) /\ req[p].at = "revoke_blacklist"
      BY <1>4 DEF EndedInv, RevokeBlacklist
    <3>4. QED
      BY <3>1, <3>2, <3>3 DEF FlightOf, Stored, Alive
  <2>4. QED
    BY <2>2, <2>3 DEF FlightOf, Idle
<1>5. ASSUME RevokeRows(p)
      PROVE  FlightOf(p)'
  <2>1. req[p] \in RevokeRequest
    BY <1>5, ShapeOf DEF RevokeRows
  <2>2. req'[p] = [req[p] EXCEPT !.at = "revoke_scan"]
    BY <1>5 DEF RevokeRows, Continue, AccessTypeOK
  <2>3. /\ req'[p].at = "revoke_scan" /\ req'[p].user = req[p].user
        /\ req'[p].known = req[p].known
    BY <2>1, <2>2 DEF RevokeRequest
  <2>4. sessions' = sessions /\ drawn' = drawn
    BY <1>5 DEF RevokeRows
  <2>5. FlightOf(p) /\ req[p].at = "revoke_rows"
    BY <1>5 DEF EndedInv, RevokeRows
  <2>6. \A i \in RowIds : rows'[i] # Absent => i \notin req[p].known
    BY <1>5, <2>5 DEF RevokeRows, FlightOf, RowsOf, Stored
  <2>7. QED
    BY <2>3, <2>4, <2>5, <2>6 DEF FlightOf, Stored, Alive
<1>6. ASSUME RevokeScan(p)
      PROVE  FlightOf(p)'
  <2>1. req[p] \in RevokeRequest
    BY <1>6, ShapeOf DEF RevokeScan
  <2>2. req'[p] = [req[p] EXCEPT !.at = "revoke_sessions",
                                !.found = SessionsOf(req[p].user)]
    BY <1>6 DEF RevokeScan, Continue, AccessTypeOK
  <2>3. /\ req'[p].at = "revoke_sessions" /\ req'[p].user = req[p].user
        /\ req'[p].known = req[p].known
        /\ req'[p].found = SessionsOf(req[p].user)
    BY <2>1, <2>2 DEF RevokeRequest
  <2>4. rows' = rows /\ sessions' = sessions /\ drawn' = drawn
    BY <1>6 DEF RevokeScan
  <2>5. FlightOf(p) /\ req[p].at = "revoke_scan"
    BY <1>6 DEF EndedInv, RevokeScan
  <2>6. \A s \in Sids : s \in req[p].known /\ Alive(s) => s \in SessionsOf(req[p].user)
    BY <2>5 DEF FlightOf, SessionsOf
  <2>7. QED
    BY <2>3, <2>4, <2>5, <2>6 DEF FlightOf, Stored, Alive
<1>7. ASSUME req'[p].at \notin RevokeSteps \cup {"refresh_update"}
      PROVE  FlightOf(p)'
  BY <1>7 DEF FlightOf
<1>8. QED
  BY <1>1, <1>2, <1>3, <1>4, <1>5, <1>6, <1>7, RequestSteps

\* Identifiers in use have been drawn, and those of what has ended too.
LEMMA UsedStep ==
    ASSUME AccessTypeOK, CodesStay, EndedInv, [Next]_vars
    PROVE  UsedAreDrawn'
<1>1. TablesStep
  BY NextTablesStep
<1>2. \A i \in RowIds : rows'[i] # Absent => i \in drawn'
  BY <1>1 DEF TablesStep, EndedInv, UsedAreDrawn, Stored
<1>3. \A s \in Sids : sessions'[s] # Absent => s \in drawn'
  BY <1>1 DEF TablesStep, EndedInv, UsedAreDrawn, Alive
<1>4. ended' \subseteq drawn'
  <2>1. CASE ended' = ended
    BY <1>1, <2>1 DEF TablesStep, EndedInv, UsedAreDrawn
  <2>2. ASSUME NEW r \in Requests, RevokeSessions(r)
        PROVE  ended' \subseteq drawn'
    BY <2>2 DEF RevokeSessions, EndedInv, UsedAreDrawn, FlightOf, RevokeSteps
  <2>3. QED
    BY <2>1, <2>2, HistoryStep
<1>5. QED
  BY <1>2, <1>3, <1>4 DEF UsedAreDrawn, Stored, Alive

\* No step brings back what has ended, and a revocation leaves nothing of what
\* it adds to it.
LEMMA EndedStep ==
    ASSUME AccessTypeOK, CodesStay, EndedInv, [Next]_vars
    PROVE  EndedStaysEnded'
<1>1. CASE ended' = ended
  <2>1. TablesStep
    BY NextTablesStep
  <2>2. \A i \in RowIds : rows'[i] # Absent => i \notin ended
    BY <2>1 DEF TablesStep, EndedInv, EndedStaysEnded, UsedAreDrawn, Stored
  <2>3. \A s \in Sids : sessions'[s] # Absent => s \notin ended
    BY <2>1 DEF TablesStep, EndedInv, EndedStaysEnded, UsedAreDrawn, Alive
  <2>4. QED
    BY <1>1, <2>2, <2>3 DEF EndedStaysEnded, Stored, Alive
<1>2. ASSUME NEW r \in Requests, RevokeSessions(r)
      PROVE  EndedStaysEnded'
  <2>1. FlightOf(r) /\ req[r].at = "revoke_sessions" /\ EndedStaysEnded
    BY <1>2 DEF EndedInv, RevokeSessions
  <2>2. /\ rows' = rows /\ ended' = ended \cup req[r].known
        /\ sessions' = [s \in Sids |-> IF s \in req[r].found THEN Absent ELSE sessions[s]]
    BY <1>2 DEF RevokeSessions
  <2>3. \A i \in RowIds : rows'[i] # Absent => i \notin ended'
    BY <2>1, <2>2 DEF FlightOf, EndedStaysEnded, Stored
  <2>4. \A s \in Sids : sessions'[s] # Absent => s \notin ended'
    BY <2>1, <2>2 DEF FlightOf, EndedStaysEnded, Alive
  <2>5. QED
    BY <2>3, <2>4 DEF EndedStaysEnded, Stored, Alive
<1>3. QED
  BY <1>1, <1>2, HistoryStep

\* No row and no session of the user from before a finished revocation is there
\* afterwards, whatever handlers were in flight (revokeAllUserAccess against
\* refreshTokenGrant).
THEOREM EndedForGood == Spec => []EndedStaysEnded
<1>1. Init => EndedInv
  BY DEF Init, EndedInv, EndedStaysEnded, UsedAreDrawn, FlightOf, RevokeSteps, Idle,
     Stored, Alive
<1>2. AccessTypeOK /\ CodesStay /\ EndedInv /\ [Next]_vars => EndedInv'
  BY FlightKept, UsedStep, EndedStep DEF EndedInv
<1>3. EndedInv => EndedStaysEnded
  BY DEF EndedInv
<1>4. QED
  BY <1>1, <1>2, <1>3, AccessTypesCorrect, PTL DEF Spec

=============================================================================
