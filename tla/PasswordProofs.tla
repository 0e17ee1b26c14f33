--------------------------- MODULE PasswordProofs ---------------------------
(***************************************************************************)
(* Proofs about PasswordChange, for every value of its constants: its      *)
(* types, the bound on guesses of the old password, that a block ends, and *)
(* that the administrator's requirement holds; and about PasswordExpiry,   *)
(* for every instant, age and warning period.                              *)
(***************************************************************************)
EXTENDS PasswordChange, PasswordExpiry, FiniteSetTheorems, TLAPS

-----------------------------------------------------------------------------
(* Types.                                                                  *)

\* The control points of a change.
ChangePoints == {"ticket_user", "attempts", "zimbra", "incr", "expire", "del", "record",
                 "sweep", "issue", "ticket_del"}

\* A request that moves on keeps the requests' type, and only moves itself.
LEMMA ContinueType ==
    ASSUME PasswordTypeOK, NEW r \in Requests, NEW q \in Request, Continue(r, q)
    PROVE  /\ req' \in [Requests -> Request]
           /\ req'[r] = q
           /\ \A p \in Requests \ {r} : req'[p] = req[p]
BY DEF PasswordTypeOK, Continue

LEMMA FinishType ==
    ASSUME PasswordTypeOK, NEW r \in Requests, Finish(r)
    PROVE  /\ req' \in [Requests -> Request]
           /\ req'[r] = Idle
           /\ \A p \in Requests \ {r} : req'[p] = req[p]
           /\ overtaken' = overtaken \ {r}
<1>1. Idle \in Request
  BY DEF Request
<1>2. QED
  BY <1>1, ContinueType DEF Finish

\* The control point tells the shape.
LEMMA ShapeOf ==
    ASSUME PasswordTypeOK, NEW r \in Requests
    PROVE  /\ req[r].at \in {"ticket_set", "login_issue", "require_write", "require_sweep"}
                 => req[r] \in PlainRequest
           /\ req[r].at \in ChangePoints => req[r] \in ChangeRequest
           /\ req[r].at # "idle" => req[r].user \in Users
<1>1. req[r] \in Request
  BY DEF PasswordTypeOK
<1>2. QED
  BY <1>1 DEF Request, Idle, PlainRequest, ChangeRequest, ChangePoints

\* A change that goes on stays the same change.
LEMMA GoType ==
    ASSUME PasswordTypeOK, NEW r \in Requests, req[r] \in ChangeRequest,
           NEW at \in ChangePoints, Go(r, at)
    PROVE  /\ req' \in [Requests -> Request]
           /\ req'[r].at = at
           /\ req'[r].user = req[r].user
           /\ \A p \in Requests \ {r} : req'[p] = req[p]
<1>1. [req[r] EXCEPT !.at = at] \in ChangeRequest
  BY DEF ChangeRequest, ChangePoints
<1>2. [req[r] EXCEPT !.at = at].at = at /\ [req[r] EXCEPT !.at = at].user = req[r].user
  BY DEF ChangeRequest
<1>3. QED
  BY <1>1, <1>2, ContinueType DEF Go, Request

\* The login issued is one.
LEMMA IssueType ==
    ASSUME PasswordTypeOK, NEW r \in Requests, NEW l \in Logins, req[r].user \in Users,
           Issue(r, l)
    PROVE  /\ logins' \in [Logins -> Login \cup {Absent}]
           /\ drawn' \subseteq Tickets \cup Logins
<1>1. [user |-> req[r].user, late |-> r \in overtaken] \in Login
  BY DEF Login
<1>2. QED
  BY <1>1 DEF Issue, PasswordTypeOK

LEMMA SweepType ==
    ASSUME PasswordTypeOK, NEW u \in Users, Sweep(u)
    PROVE  logins' \in [Logins -> Login \cup {Absent}]
BY DEF PasswordTypeOK, Sweep

\* The first step of a handler keeps the types.
LEMMA StartType ==
    ASSUME PasswordTypeOK, NEW r \in Requests, Start(r)
    PROVE  PasswordTypeOK'
<1> USE DEF store, history
<1>1. ASSUME NEW u \in Users, SignIn(r, u)
      PROVE  PasswordTypeOK'
  <2>1. PICK old \in {aged[u], FALSE} :
            /\ aged' = [aged EXCEPT ![u] = old]
            /\ Continue(r, [at |-> IF Expired(u, old) THEN "ticket_set" ELSE "login_issue",
                            user |-> u])
    BY <1>1 DEF SignIn
  <2>2. [at |-> IF Expired(u, old) THEN "ticket_set" ELSE "login_issue", user |-> u]
            \in Request
    BY DEF Request, PlainRequest
  <2>3. req' \in [Requests -> Request]
    BY <2>1, <2>2, ContinueType
  <2>4. aged' \in [Users -> BOOLEAN]
    BY <2>1 DEF PasswordTypeOK
  <2>5. QED
    BY <1>1, <2>3, <2>4 DEF SignIn, PasswordTypeOK
<1>2. ASSUME NEW u \in Users, Require(r, u)
      PROVE  PasswordTypeOK'
  <2>1. [at |-> "require_write", user |-> u] \in Request
    BY DEF Request, PlainRequest
  <2>2. req' \in [Requests -> Request]
    BY <1>2, <2>1, ContinueType DEF Require
  <2>3. QED
    BY <1>2, <2>2 DEF Require, PasswordTypeOK
<1>3. ASSUME NEW old \in Passwords, NEW new \in Passwords, NEW t \in Tickets,
             ChangeExpired(r, t, old, new)
      PROVE  PasswordTypeOK'
  <2>1. tickets[t] \in Users
    BY <1>3 DEF ChangeExpired, PasswordTypeOK
  <2>2. [at |-> "ticket_user", user |-> tickets[t], ticket |-> t, old |-> old, new |-> new]
            \in Request
    BY <2>1 DEF Request, ChangeRequest
  <2>3. req' \in [Requests -> Request]
    BY <1>3, <2>2, ContinueType DEF ChangeExpired
  <2>4. QED
    BY <1>3, <2>3 DEF ChangeExpired, PasswordTypeOK
<1>4. ASSUME NEW old \in Passwords, NEW new \in Passwords, NEW u \in Users,
             ChangeVoluntarily(r, u, old, new)
      PROVE  PasswordTypeOK'
  <2>1. [at |-> "ticket_user", user |-> u, ticket |-> Absent, old |-> old, new |-> new]
            \in Request
    BY DEF Request, ChangeRequest
  <2>2. req' \in [Requests -> Request]
    BY <1>4, <2>1, ContinueType DEF ChangeVoluntarily
  <2>3. QED
    BY <1>4, <2>2 DEF ChangeVoluntarily, PasswordTypeOK
<1>5. QED
  BY <1>1, <1>2, <1>3, <1>4 DEF Start

\* The steps of a login and of the administrator's request keep the types.
LEMMA PlainType ==
    ASSUME PasswordTypeOK, NEW r \in Requests
    PROVE  /\ \A t \in Tickets : SetTicket(r, t) => PasswordTypeOK'
           /\ \A l \in Logins : IssueLogin(r, l) => PasswordTypeOK'
           /\ RequireWrite(r) => PasswordTypeOK'
           /\ RequireSweep(r) => PasswordTypeOK'
<1> USE DEF store, history
<1>1. ASSUME NEW t \in Tickets, SetTicket(r, t)
      PROVE  PasswordTypeOK'
  <2>1. req[r].user \in Users
    BY <1>1, ShapeOf DEF SetTicket
  <2>2. req' \in [Requests -> Request] /\ overtaken' = overtaken \ {r}
    BY <1>1, FinishType DEF SetTicket
  <2>3. tickets' \in [Tickets -> Users \cup {Absent}] /\ drawn' \subseteq Tickets \cup Logins
    BY <1>1, <2>1 DEF SetTicket, PasswordTypeOK
  <2>4. QED
    BY <1>1, <2>2, <2>3 DEF SetTicket, PasswordTypeOK
<1>2. ASSUME NEW l \in Logins, IssueLogin(r, l)
      PROVE  PasswordTypeOK'
  <2>1. req[r].user \in Users
    BY <1>2, ShapeOf DEF IssueLogin
  <2>2. req' \in [Requests -> Request] /\ overtaken' = overtaken \ {r}
    BY <1>2, FinishType DEF IssueLogin
  <2>3. logins' \in [Logins -> Login \cup {Absent}] /\ drawn' \subseteq Tickets \cup Logins
    BY <1>2, <2>1, IssueType DEF IssueLogin
  <2>4. QED
    BY <1>2, <2>2, <2>3 DEF IssueLogin, PasswordTypeOK
<1>3. ASSUME RequireWrite(r)
      PROVE  PasswordTypeOK'
  <2>1. req[r] \in PlainRequest
    BY <1>3, ShapeOf DEF RequireWrite
  <2>2. req[r].user \in Users /\ [req[r] EXCEPT !.at = "require_sweep"] \in Request
    BY <2>1 DEF PlainRequest, Request
  <2>3. req' \in [Requests -> Request]
    BY <1>3, <2>2, ContinueType DEF RequireWrite, Go
  <2>4. must' \in [Users -> BOOLEAN] /\ required' \in [Users -> {"no", "written", "answered"}]
    BY <1>3, <2>2 DEF RequireWrite, PasswordTypeOK
  <2>5. overtaken' \subseteq Requests
    BY <1>3 DEF RequireWrite, PasswordTypeOK
  <2>6. QED
    BY <1>3, <2>3, <2>4, <2>5 DEF RequireWrite, PasswordTypeOK
<1>4. ASSUME RequireSweep(r)
      PROVE  PasswordTypeOK'
  <2>1. req[r].user \in Users
    BY <1>4, ShapeOf DEF RequireSweep
  <2>2. req' \in [Requests -> Request] /\ overtaken' = overtaken \ {r}
    BY <1>4, FinishType DEF RequireSweep
  <2>3. logins' \in [Logins -> Login \cup {Absent}]
    BY <1>4, <2>1, SweepType DEF RequireSweep
  <2>4. required' \in [Users -> {"no", "written", "answered"}]
    BY <1>4, <2>1 DEF RequireSweep, PasswordTypeOK
  <2>5. QED
    BY <1>4, <2>2, <2>3, <2>4 DEF RequireSweep, PasswordTypeOK
<1>5. QED
  BY <1>1, <1>2, <1>3, <1>4

\* The steps of a change up to Zimbra's answer keep the types.
LEMMA GuessingType ==
    ASSUME PasswordTypeOK, NEW r \in Requests
    PROVE  /\ ReadUser(r) => PasswordTypeOK'
           /\ ReadAttempts(r) => PasswordTypeOK'
           /\ CallZimbra(r) => PasswordTypeOK'
           /\ ZimbraFails(r) => PasswordTypeOK'
           /\ CountWrong(r) => PasswordTypeOK'
           /\ StartWindow(r) => PasswordTypeOK'
<1> USE DEF store, history
<1>1. ASSUME ReadUser(r)
      PROVE  PasswordTypeOK'
  <2>1. req[r] \in ChangeRequest
    BY <1>1, ShapeOf DEF ReadUser, ChangePoints
  <2>2. req' \in [Requests -> Request] /\ overtaken' \subseteq Requests
    BY <1>1, <2>1, GoType, FinishType DEF ReadUser, ChangePoints, PasswordTypeOK
  <2>3. QED
    BY <1>1, <2>2 DEF ReadUser, PasswordTypeOK
<1>2. ASSUME ReadAttempts(r)
      PROVE  PasswordTypeOK'
  <2>1. req[r] \in ChangeRequest
    BY <1>2, ShapeOf DEF ReadAttempts, ChangePoints
  <2>2. req' \in [Requests -> Request] /\ overtaken' \subseteq Requests
    BY <1>2, <2>1, GoType, FinishType DEF ReadAttempts, ChangePoints, PasswordTypeOK
  <2>3. QED
    BY <1>2, <2>2 DEF ReadAttempts, PasswordTypeOK
<1>3. ASSUME CallZimbra(r)
      PROVE  PasswordTypeOK'
  <2>1. req[r] \in ChangeRequest
    BY <1>3, ShapeOf DEF CallZimbra, ChangePoints
  <2>2. req[r].user \in Users /\ req[r].new \in Passwords
    BY <2>1 DEF ChangeRequest
  <2>3. req' \in [Requests -> Request] /\ overtaken' \subseteq Requests
    BY <1>3, <2>1, GoType, FinishType DEF CallZimbra, ChangePoints, PasswordTypeOK
  <2>4. /\ password' \in [Users -> Passwords]
        /\ required' \in [Users -> {"no", "written", "answered"}]
        /\ guesses' \in [Users -> Nat]
    BY <1>3, <2>2 DEF CallZimbra, PasswordTypeOK
  <2>5. QED
    BY <1>3, <2>3, <2>4 DEF CallZimbra, PasswordTypeOK
<1>4. ASSUME ZimbraFails(r)
      PROVE  PasswordTypeOK'
  <2>1. req[r] \in ChangeRequest
    BY <1>4, ShapeOf DEF ZimbraFails, ChangePoints
  <2>2. req[r].user \in Users /\ req[r].new \in Passwords
    BY <2>1 DEF ChangeRequest
  <2>3. req' \in [Requests -> Request] /\ overtaken' = overtaken \ {r}
    BY <1>4, FinishType DEF ZimbraFails
  <2>4. password' \in [Users -> Passwords] /\ lost' \subseteq Users
    BY <1>4, <2>2 DEF ZimbraFails, PasswordTypeOK
  <2>5. QED
    BY <1>4, <2>3, <2>4 DEF ZimbraFails, PasswordTypeOK
<1>5. ASSUME CountWrong(r)
      PROVE  PasswordTypeOK'
  <2>1. req[r] \in ChangeRequest
    BY <1>5, ShapeOf DEF CountWrong, ChangePoints
  <2>2. req' \in [Requests -> Request] /\ overtaken' \subseteq Requests
    BY <1>5, <2>1, GoType, FinishType DEF CountWrong, ChangePoints, PasswordTypeOK
  <2>3. wrong' \in [Users -> Nat]
    BY <1>5, <2>1 DEF CountWrong, ChangeRequest, PasswordTypeOK
  <2>4. QED
    BY <1>5, <2>2, <2>3 DEF CountWrong, PasswordTypeOK
<1>6. ASSUME StartWindow(r)
      PROVE  PasswordTypeOK'
  <2>1. req' \in [Requests -> Request] /\ overtaken' = overtaken \ {r}
    BY <1>6, FinishType DEF StartWindow
  <2>2. \A b \in BOOLEAN : [window EXCEPT ![req[r].user] = b] \in [Users -> BOOLEAN]
    BY DEF PasswordTypeOK
  <2>3. (wrong[req[r].user] > 0) \in BOOLEAN
    OBVIOUS
  <2>4. window' = [window EXCEPT ![req[r].user] = wrong[req[r].user] > 0]
    BY <1>6 DEF StartWindow
  <2>5. window' \in [Users -> BOOLEAN]
    BY <2>2, <2>3, <2>4, Zenon
  <2>6. QED
    BY <1>6, <2>1, <2>5 DEF StartWindow, PasswordTypeOK
<1>7. QED
  BY <1>1, <1>2, <1>3, <1>4, <1>5, <1>6

\* The counter's end.
LEMMA ClearType ==
    ASSUME PasswordTypeOK, NEW u \in Users, ClearWrong(u)
    PROVE  /\ wrong' \in [Users -> Nat] /\ window' \in [Users -> BOOLEAN]
           /\ guesses' \in [Users -> Nat]
           /\ lost' \subseteq Users
BY DEF ClearWrong, PasswordTypeOK

\* The steps of a change after Zimbra's answer keep the types.
LEMMA RecordingType ==
    ASSUME PasswordTypeOK, NEW r \in Requests
    PROVE  /\ ForgetWrong(r) => PasswordTypeOK'
           /\ RecordChange(r) => PasswordTypeOK'
           /\ SweepLogins(r) => PasswordTypeOK'
           /\ \A l \in Logins : IssueAfterChange(r, l) => PasswordTypeOK'
           /\ DeleteTicket(r) => PasswordTypeOK'
           /\ StoreFails(r) => PasswordTypeOK'
<1> USE DEF store, history
<1>1. ASSUME ForgetWrong(r)
      PROVE  PasswordTypeOK'
  <2>1. req[r] \in ChangeRequest
    BY <1>1, ShapeOf DEF ForgetWrong, ChangePoints
  <2>2. req[r].user \in Users
    BY <2>1 DEF ChangeRequest
  <2>3. req' \in [Requests -> Request]
    BY <1>1, <2>1, GoType DEF ForgetWrong, ChangePoints
  <2>4. QED
    BY <1>1, <2>2, <2>3, ClearType DEF ForgetWrong, PasswordTypeOK
<1>2. ASSUME RecordChange(r)
      PROVE  PasswordTypeOK'
  <2>1. req[r] \in ChangeRequest
    BY <1>2, ShapeOf DEF RecordChange, ChangePoints
  <2>2. req[r].user \in Users
    BY <2>1 DEF ChangeRequest
  <2>3. req' \in [Requests -> Request]
    BY <1>2, <2>1, GoType DEF RecordChange, ChangePoints
  <2>4. /\ aged' \in [Users -> BOOLEAN] /\ must' \in [Users -> BOOLEAN]
        /\ required' \in [Users -> {"no", "written", "answered"}]
    BY <1>2, <2>2 DEF RecordChange, PasswordTypeOK
  <2>5. QED
    BY <1>2, <2>3, <2>4 DEF RecordChange, PasswordTypeOK
<1>3. ASSUME SweepLogins(r)
      PROVE  PasswordTypeOK'
  <2>1. req[r] \in ChangeRequest
    BY <1>3, ShapeOf DEF SweepLogins, ChangePoints
  <2>2. req' \in [Requests -> Request]
    BY <1>3, <2>1, GoType DEF SweepLogins, ChangePoints
  <2>3. logins' \in [Logins -> Login \cup {Absent}]
    BY <1>3, <2>1, SweepType DEF SweepLogins, ChangeRequest
  <2>4. QED
    BY <1>3, <2>2, <2>3 DEF SweepLogins, PasswordTypeOK
<1>4. ASSUME NEW l \in Logins, IssueAfterChange(r, l)
      PROVE  PasswordTypeOK'
  <2>1. req[r] \in ChangeRequest
    BY <1>4, ShapeOf DEF IssueAfterChange, ChangePoints
  <2>2. req' \in [Requests -> Request] /\ overtaken' \subseteq Requests
    BY <1>4, <2>1, GoType, FinishType DEF IssueAfterChange, ChangePoints, PasswordTypeOK
  <2>3. logins' \in [Logins -> Login \cup {Absent}] /\ drawn' \subseteq Tickets \cup Logins
    BY <1>4, <2>1, IssueType DEF IssueAfterChange, ChangeRequest
  <2>4. QED
    BY <1>4, <2>2, <2>3 DEF IssueAfterChange, PasswordTypeOK
<1>5. ASSUME DeleteTicket(r)
      PROVE  PasswordTypeOK'
  <2>1. req' \in [Requests -> Request] /\ overtaken' = overtaken \ {r}
    BY <1>5, FinishType DEF DeleteTicket
  <2>2. tickets' \in [Tickets -> Users \cup {Absent}]
    BY <1>5 DEF DeleteTicket, PasswordTypeOK
  <2>3. QED
    BY <1>5, <2>1, <2>2 DEF DeleteTicket, PasswordTypeOK
<1>6. ASSUME StoreFails(r)
      PROVE  PasswordTypeOK'
  <2>1. req' \in [Requests -> Request] /\ overtaken' = overtaken \ {r}
    BY <1>6, FinishType DEF StoreFails
  <2>2. req[r].user \in Users
    BY <1>6, ShapeOf DEF StoreFails
  <2>3. lost' \subseteq Users
    BY <1>6, <2>2 DEF StoreFails, PasswordTypeOK
  <2>4. QED
    BY <1>6, <2>1, <2>3 DEF StoreFails, PasswordTypeOK
<1>7. QED
  BY <1>1, <1>2, <1>3, <1>4, <1>5, <1>6

\* Every step of a handler keeps the types.
LEMMA ResumeType ==
    ASSUME PasswordTypeOK, NEW r \in Requests, Resume(r)
    PROVE  PasswordTypeOK'
BY PlainType, GuessingType, RecordingType DEF Resume

\* What happens outside keeps them.
LEMMA WorldType ==
    ASSUME PasswordTypeOK, World
    PROVE  PasswordTypeOK'
<1> USE DEF store, history
<1>1. ASSUME NEW u \in Users, NEW new \in Passwords, WebmailChange(u, new)
      PROVE  PasswordTypeOK'
  BY <1>1 DEF WebmailChange, PasswordTypeOK
<1>2. ASSUME NEW u \in Users, PasswordAges(u)
      PROVE  PasswordTypeOK'
  BY <1>2 DEF PasswordAges, PasswordTypeOK
<1>3. ASSUME NEW u \in Users, WindowEnds(u)
      PROVE  PasswordTypeOK'
  BY <1>3, ClearType DEF WindowEnds, PasswordTypeOK
<1>4. ASSUME NEW t \in Tickets, TicketExpires(t)
      PROVE  PasswordTypeOK'
  BY <1>4 DEF TicketExpires, PasswordTypeOK
<1>5. QED
  BY <1>1, <1>2, <1>3, <1>4 DEF World

\* The stores, the running handlers and the history always have their types.
THEOREM PasswordTypesCorrect == Spec => []PasswordTypeOK
<1>1. Init => PasswordTypeOK
  BY DEF Init, PasswordTypeOK, Request
<1>2. PasswordTypeOK /\ [Next]_vars => PasswordTypeOK'
  <2> SUFFICES ASSUME PasswordTypeOK, [Next]_vars PROVE PasswordTypeOK'
    OBVIOUS
  <2>1. CASE UNCHANGED vars
    BY <2>1 DEF vars, store, history, PasswordTypeOK
  <2>2. CASE Next
    BY <2>2, StartType, ResumeType, WorldType DEF Next
  <2>3. QED
    BY <2>1, <2>2
<1>3. QED
  BY <1>1, <1>2, PTL DEF Spec

-----------------------------------------------------------------------------
(* The counter of wrong old passwords.                                     *)

\* Handlers past the counter's check, and those of them about to count.
Evaluating(u) == {r \in Requests : req[r].at \in {"zimbra", "incr"} /\ req[r].user = u}
Counting(u) == {r \in Requests : req[r].at = "incr" /\ req[r].user = u}

\* Every wrong password is counted or about to be; whoever passed the check
\* still found room; and a block has its window or is about to get it.
CounterInv ==
    /\ \A u \in Users \ lost : guesses[u] <= wrong[u] + Cardinality(Counting(u))
    /\ \A u \in Users :
           wrong[u] + Cardinality(Evaluating(u)) < MaxWrong + Cardinality(Requests)
    /\ BlocksEnd

\* The sets of handlers are finite and no larger than Requests.
LEMMA SetSizes ==
    ASSUME NEW u
    PROVE  /\ IsFiniteSet(Counting(u)) /\ Cardinality(Counting(u)) \in Nat
           /\ IsFiniteSet(Evaluating(u)) /\ Cardinality(Evaluating(u)) \in Nat
           /\ Cardinality(Requests) \in Nat
           /\ Cardinality(Evaluating(u)) <= Cardinality(Requests)
           /\ Cardinality(Counting(u)) <= Cardinality(Evaluating(u))
<1>1. Evaluating(u) \in SUBSET Requests /\ Counting(u) \in SUBSET Evaluating(u)
  BY DEF Evaluating, Counting
<1>2. /\ IsFiniteSet(Evaluating(u))
      /\ Cardinality(Evaluating(u)) <= Cardinality(Requests)
  BY <1>1, FS_Subset, ChangeRequestsAssumption
<1>3. /\ IsFiniteSet(Counting(u))
      /\ Cardinality(Counting(u)) <= Cardinality(Evaluating(u))
  BY <1>1, <1>2, FS_Subset
<1>4. QED
  BY <1>2, <1>3, FS_CardinalityType, ChangeRequestsAssumption

\* The same sets after a step.
LEMMA NextSizes ==
    ASSUME NEW u
    PROVE  /\ Cardinality(Counting(u)') \in Nat /\ Cardinality(Evaluating(u)') \in Nat
           /\ Cardinality(Evaluating(u)') <= Cardinality(Requests)
<1>1. Evaluating(u)' \in SUBSET Requests /\ Counting(u)' \in SUBSET Requests
  BY DEF Evaluating, Counting
<1>2. QED
  BY <1>1, FS_Subset, FS_CardinalityType, ChangeRequestsAssumption

\* A step of one handler that counts nothing and does not pass the check.
LEMMA BystanderKeepsCounter ==
    ASSUME PasswordTypeOK, CounterInv, NEW r \in Requests,
           \A p \in Requests \ {r} : req'[p] = req[p],
           req[r].at = "incr" => req[r].user \in lost',
           req[r].at = "expire" => req[r].user \in lost',
           req'[r].at \notin {"zimbra", "incr"},
           UNCHANGED <<wrong, window, guesses>>, lost \subseteq lost'
    PROVE  CounterInv'
<1>1. ASSUME NEW u \in Users
      PROVE  /\ Evaluating(u)' \subseteq Evaluating(u)
             /\ u \notin lost' => Counting(u)' = Counting(u)
  BY DEF Evaluating, Counting
<1>2. ASSUME NEW u \in Users
      PROVE  (wrong[u] + Cardinality(Evaluating(u)) < MaxWrong + Cardinality(Requests))'
  <2>1. Cardinality(Evaluating(u)') <= Cardinality(Evaluating(u))
    BY <1>1, SetSizes, FS_Subset
  <2>2. QED
    BY <2>1, SetSizes, NextSizes, ChangeBoundsAssumption DEF CounterInv, PasswordTypeOK
<1>3. ASSUME NEW u \in Users \ lost'
      PROVE  (guesses[u] <= wrong[u] + Cardinality(Counting(u)))'
  BY <1>1 DEF CounterInv
<1>4. BlocksEnd'
  BY DEF CounterInv, BlocksEnd
<1>5. QED
  BY <1>2, <1>3, <1>4 DEF CounterInv

\* Passing the check: the handler found room, and the others leave it one.
LEMMA CheckKeepsCounter ==
    ASSUME PasswordTypeOK, CounterInv, NEW r \in Requests, ReadAttempts(r)
    PROVE  CounterInv'
<1> req[r] \in ChangeRequest /\ req[r].user \in Users
  BY ShapeOf DEF ReadAttempts, ChangePoints
<1> PICK v \in Users : v = req[r].user
  OBVIOUS
<1>2. CASE Finish(r)
  BY <1>2, FinishType, BystanderKeepsCounter DEF ReadAttempts, store, Idle
<1>3. CASE wrong[v] < MaxWrong /\ Go(r, "zimbra")
  <2>1. /\ req'[r].at = "zimbra" /\ req'[r].user = v
        /\ \A p \in Requests \ {r} : req'[p] = req[p]
    BY <1>3, GoType DEF ChangePoints
  <2>2. UNCHANGED <<wrong, window, guesses, lost>>
    BY DEF ReadAttempts, store
  <2>3. ASSUME NEW u \in Users
        PROVE  /\ Counting(u)' = Counting(u)
               /\ u # v => Evaluating(u)' = Evaluating(u)
    BY <2>1 DEF Counting, Evaluating, ReadAttempts
  <2>4. ASSUME NEW u \in Users
        PROVE  (wrong[u] + Cardinality(Evaluating(u)) < MaxWrong + Cardinality(Requests))'
    <3>1. CASE u = v
      <4>1. wrong'[v] = wrong[v] /\ wrong[v] \in Nat /\ wrong[v] < MaxWrong
        BY <1>3, <2>2 DEF PasswordTypeOK
      <4>2. /\ Cardinality(Evaluating(v)') \in Nat /\ Cardinality(Requests) \in Nat
            /\ Cardinality(Evaluating(v)') <= Cardinality(Requests)
        BY SetSizes, NextSizes
      <4>3. wrong'[v] + Cardinality(Evaluating(v)') < MaxWrong + Cardinality(Requests)
        BY <4>1, <4>2, ChangeBoundsAssumption
      <4>4. QED
        BY <3>1, <4>3
    <3>2. CASE u # v
      BY <3>2, <2>2, <2>3 DEF CounterInv
    <3>3. QED
      BY <3>1, <3>2
  <2>5. BlocksEnd'
    BY <2>1, <2>2 DEF CounterInv, BlocksEnd, ReadAttempts
  <2>6. QED
    BY <2>2, <2>3, <2>4, <2>5 DEF CounterInv
<1>4. QED
  BY <1>2, <1>3 DEF ReadAttempts

\* A wrong password evaluated: the handler is about to count it.
LEMMA ZimbraKeepsCounter ==
    ASSUME PasswordTypeOK, CounterInv, NEW r \in Requests, CallZimbra(r)
    PROVE  CounterInv'
<1> req[r] \in ChangeRequest /\ req[r].user \in Users
  BY ShapeOf DEF CallZimbra, ChangePoints
<1> PICK v \in Users : v = req[r].user
  OBVIOUS
<1>2. req[r].at = "zimbra" /\ UNCHANGED <<wrong, window, lost>>
  BY DEF CallZimbra
<1>3. CASE UNCHANGED guesses /\ (Finish(r) \/ Go(r, "del"))
  <2>1. req'[r].at \in {"idle", "del"} /\ \A p \in Requests \ {r} : req'[p] = req[p]
    BY <1>3, FinishType, GoType DEF Idle, ChangePoints
  <2>2. QED
    BY <2>1, <1>2, <1>3, BystanderKeepsCounter
<1>4. CASE /\ guesses' = IF v \in lost THEN guesses ELSE [guesses EXCEPT ![v] = @ + 1]
           /\ Go(r, "incr")
  <2>1. /\ req'[r].at = "incr" /\ req'[r].user = v
        /\ \A p \in Requests \ {r} : req'[p] = req[p]
    BY <1>4, GoType DEF ChangePoints
  <2>2. ASSUME NEW u \in Users
        PROVE  /\ Evaluating(u)' = Evaluating(u)
               /\ Counting(u)' = IF u = v THEN Counting(u) \cup {r} ELSE Counting(u)
    BY <2>1, <1>2 DEF Evaluating, Counting
  <2>3. Cardinality(Counting(v)') = Cardinality(Counting(v)) + 1
    <3>1. r \notin Counting(v)
      BY <1>2 DEF Counting
    <3>2. QED
      BY <3>1, <2>2, SetSizes, FS_AddElement
  <2>4. ASSUME NEW u \in Users \ lost'
        PROVE  (guesses[u] <= wrong[u] + Cardinality(Counting(u)))'
    <3>1. guesses[u] <= wrong[u] + Cardinality(Counting(u))
      BY <1>2 DEF CounterInv
    <3>2. CASE u = v
      <4>1. guesses'[v] = guesses[v] + 1
        BY <3>2, <1>2, <1>4 DEF PasswordTypeOK
      <4>2. QED
        <5>1. /\ guesses[v] \in Nat /\ wrong[v] \in Nat
              /\ Cardinality(Counting(v)) \in Nat
          BY SetSizes DEF PasswordTypeOK
        <5>2. guesses'[v] <= wrong[v] + Cardinality(Counting(v)')
          BY <3>1, <3>2, <4>1, <2>3, <5>1
        <5>3. QED
          BY <5>2, <3>2, <1>2
    <3>3. CASE u # v
      BY <3>1, <3>3, <2>2, <1>2, <1>4 DEF PasswordTypeOK
    <3>4. QED
      BY <3>2, <3>3
  <2>5. BlocksEnd'
    BY <2>1, <1>2 DEF CounterInv, BlocksEnd
  <2>6. QED
    BY <2>2, <2>4, <2>5, <1>2 DEF CounterInv
<1>5. QED
  BY <1>3, <1>4 DEF CallZimbra

\* The count itself.
LEMMA CountKeepsCounter ==
    ASSUME PasswordTypeOK, CounterInv, NEW r \in Requests, CountWrong(r)
    PROVE  CounterInv'
<1>1. req[r] \in ChangeRequest /\ req[r].user \in Users /\ req[r].at = "incr"
  BY ShapeOf DEF CountWrong, ChangePoints
<1> PICK v \in Users : v = req[r].user
  BY <1>1
<1>2. /\ wrong' = [wrong EXCEPT ![v] = @ + 1]
      /\ UNCHANGED <<window, guesses, lost>>
      /\ IF wrong[v] = 0 THEN Go(r, "expire") ELSE Finish(r)
  BY DEF CountWrong
<1>3. /\ req'[r].at \in {"expire", "idle"}
      /\ wrong[v] = 0 => req'[r].at = "expire" /\ req'[r].user = v
      /\ \A p \in Requests \ {r} : req'[p] = req[p]
  BY <1>1, <1>2, FinishType, GoType DEF Idle, ChangePoints
<1>4. ASSUME NEW u \in Users
      PROVE  /\ Evaluating(u)' = IF u = v THEN Evaluating(u) \ {r} ELSE Evaluating(u)
             /\ Counting(u)' = IF u = v THEN Counting(u) \ {r} ELSE Counting(u)
  BY <1>1, <1>3 DEF Evaluating, Counting
<1>5. /\ Cardinality(Evaluating(v)') = Cardinality(Evaluating(v)) - 1
      /\ Cardinality(Counting(v)') = Cardinality(Counting(v)) - 1
  <2>1. r \in Evaluating(v) /\ r \in Counting(v)
    BY <1>1 DEF Evaluating, Counting
  <2>2. QED
    BY <2>1, <1>1, <1>4, SetSizes, FS_RemoveElement
<1>6. ASSUME NEW u \in Users
      PROVE  /\ u \notin lost' => (guesses[u] <= wrong[u] + Cardinality(Counting(u)))'
             /\ (wrong[u] + Cardinality(Evaluating(u)) < MaxWrong + Cardinality(Requests))'
  <2>1. /\ u \notin lost' => guesses[u] <= wrong[u] + Cardinality(Counting(u))
        /\ wrong[u] + Cardinality(Evaluating(u)) < MaxWrong + Cardinality(Requests)
    BY <1>2 DEF CounterInv
  <2>2. CASE u = v
    <3>1. wrong'[v] = wrong[v] + 1
      BY <1>1, <1>2 DEF PasswordTypeOK
    <3>2. /\ wrong[v] \in Nat /\ guesses[v] \in Nat
          /\ Cardinality(Evaluating(v)) \in Nat /\ Cardinality(Counting(v)) \in Nat
          /\ Cardinality(Requests) \in Nat
      BY SetSizes DEF PasswordTypeOK
    <3>3. /\ wrong'[v] + Cardinality(Counting(v)') = wrong[v] + Cardinality(Counting(v))
          /\ wrong'[v] + Cardinality(Evaluating(v)') = wrong[v] + Cardinality(Evaluating(v))
      BY <3>1, <3>2, <1>5
    <3>4. QED
      BY <2>1, <2>2, <3>3, <1>2
  <2>3. CASE u # v
    BY <2>1, <2>3, <1>2, <1>4 DEF PasswordTypeOK
  <2>4. QED
    BY <2>2, <2>3
<1>7. BlocksEnd'
  <2>1. SUFFICES ASSUME NEW u \in Users \ lost', wrong'[u] > 0
                 PROVE  window'[u] \/ \E p \in Requests : req'[p].at = "expire"
                                                          /\ req'[p].user = u
    BY DEF BlocksEnd
  <2>2. CASE wrong[u] > 0
    <3>1. window[u] \/ \E p \in Requests : req[p].at = "expire" /\ req[p].user = u
      BY <2>2, <1>2 DEF CounterInv, BlocksEnd
    <3>2. QED
      BY <3>1, <1>1, <1>2, <1>3
  <2>3. CASE ~ (wrong[u] > 0)
    <3>1. u = v /\ wrong[v] = 0
      BY <2>1, <2>3, <1>1, <1>2 DEF PasswordTypeOK
    <3>2. QED
      BY <3>1, <1>3
  <2>4. QED
    BY <2>2, <2>3
<1>8. QED
  BY <1>6, <1>7 DEF CounterInv

\* The window starts, or the key has gone.
LEMMA WindowKeepsCounter ==
    ASSUME PasswordTypeOK, CounterInv, NEW r \in Requests, StartWindow(r)
    PROVE  CounterInv'
<1>1. req[r].user \in Users /\ req[r].at = "expire"
  BY ShapeOf DEF StartWindow
<1> PICK v \in Users : v = req[r].user
  BY <1>1
<1>2. /\ req'[r].at = "idle"
      /\ \A p \in Requests \ {r} : req'[p] = req[p]
  BY FinishType DEF StartWindow, Idle
<1>3. UNCHANGED <<wrong, guesses, lost>> /\ window' = [window EXCEPT ![v] = wrong[v] > 0]
  BY DEF StartWindow
<1>4. ASSUME NEW u \in Users
      PROVE  Evaluating(u)' = Evaluating(u) /\ Counting(u)' = Counting(u)
  BY <1>1, <1>2 DEF Evaluating, Counting
<1>5. BlocksEnd'
  <2>1. SUFFICES ASSUME NEW u \in Users \ lost, wrong[u] > 0
                 PROVE  window'[u] \/ \E p \in Requests : req'[p].at = "expire"
                                                          /\ req'[p].user = u
    BY <1>3 DEF BlocksEnd
  <2>2. CASE u = v
    BY <2>1, <2>2, <1>3 DEF PasswordTypeOK
  <2>3. CASE u # v
    <3>1. window'[u] = window[u]
      BY <2>3, <1>3 DEF PasswordTypeOK
    <3>2. window[u] \/ \E p \in Requests : req[p].at = "expire" /\ req[p].user = u
      BY <2>1 DEF CounterInv, BlocksEnd
    <3>3. QED
      BY <3>1, <3>2, <2>3, <1>2
  <2>4. QED
    BY <2>2, <2>3
<1>6. QED
  BY <1>3, <1>4, <1>5 DEF CounterInv

\* The key goes: nothing is counted and everyone fits.
LEMMA ClearKeepsCounter ==
    ASSUME PasswordTypeOK, CounterInv, NEW v \in Users, ClearWrong(v),
           \A p \in Requests : \/ req'[p] = req[p]
                               \/ /\ req[p].at \notin {"zimbra", "incr", "expire"}
                                  /\ req'[p].at \notin {"zimbra", "incr", "expire"}
    PROVE  CounterInv'
<1>1. ASSUME NEW u \in Users
      PROVE  Evaluating(u)' = Evaluating(u) /\ Counting(u)' = Counting(u)
  BY DEF Evaluating, Counting
<1>2. /\ wrong'[v] = 0 /\ guesses'[v] = 0
      /\ \A u \in Users \ {v} : /\ wrong'[u] = wrong[u] /\ window'[u] = window[u]
                                /\ guesses'[u] = guesses[u]
                                /\ u \in lost <=> u \in lost'
  BY DEF ClearWrong, PasswordTypeOK
<1>3. ASSUME NEW u \in Users
      PROVE  /\ u \notin lost' => (guesses[u] <= wrong[u] + Cardinality(Counting(u)))'
             /\ (wrong[u] + Cardinality(Evaluating(u)) < MaxWrong + Cardinality(Requests))'
  <2>1. CASE u = v
    BY <2>1, <1>1, <1>2, SetSizes, ChangeBoundsAssumption
  <2>2. CASE u # v
    BY <2>2, <1>1, <1>2 DEF CounterInv
  <2>3. QED
    BY <2>1, <2>2
<1>4. BlocksEnd'
  <2>1. SUFFICES ASSUME NEW u \in Users \ lost', wrong'[u] > 0
                 PROVE  window'[u] \/ \E p \in Requests : req'[p].at = "expire"
                                                          /\ req'[p].user = u
    BY DEF BlocksEnd
  <2>2. u # v
    BY <2>1, <1>2
  <2>3. window[u] \/ \E p \in Requests : req[p].at = "expire" /\ req[p].user = u
    BY <2>1, <2>2, <1>2 DEF CounterInv, BlocksEnd
  <2>4. QED
    BY <2>2, <2>3, <1>2
<1>5. QED
  BY <1>3, <1>4 DEF CounterInv

\* A first step only moves its own request.
LEMMA StartMoves ==
    ASSUME PasswordTypeOK, NEW r \in Requests, Start(r)
    PROVE  /\ req[r].at = "idle"
           /\ \A p \in Requests \ {r} : req'[p] = req[p]
           /\ req'[r].at \in {"ticket_set", "login_issue", "require_write", "ticket_user"}
           /\ UNCHANGED <<password, must, tickets, wrong, window, logins, drawn, history>>
<1> USE DEF store, history, Idle
<1>1. ASSUME NEW q, Continue(r, q)
      PROVE  req'[r] = q /\ \A p \in Requests \ {r} : req'[p] = req[p]
  BY <1>1 DEF Continue, PasswordTypeOK
<1>2. ASSUME NEW u \in Users, SignIn(r, u)
      PROVE  /\ req[r].at = "idle"
             /\ \A p \in Requests \ {r} : req'[p] = req[p]
             /\ req'[r].at \in {"ticket_set", "login_issue"}
             /\ UNCHANGED <<password, must, tickets, wrong, window, logins, drawn, history>>
  <2>1. PICK old \in {aged[u], FALSE} :
            Continue(r, [at |-> IF Expired(u, old) THEN "ticket_set" ELSE "login_issue",
                         user |-> u])
    BY <1>2 DEF SignIn
  <2>2. QED
    BY <2>1, <1>1, <1>2 DEF SignIn
<1>3. ASSUME NEW u \in Users, Require(r, u)
      PROVE  /\ req[r].at = "idle"
             /\ \A p \in Requests \ {r} : req'[p] = req[p]
             /\ req'[r].at = "require_write"
             /\ UNCHANGED <<store, history>>
  BY <1>1, <1>3 DEF Require
<1>4. ASSUME NEW old \in Passwords, NEW new \in Passwords, NEW t \in Tickets,
             ChangeExpired(r, t, old, new)
      PROVE  /\ req[r].at = "idle"
             /\ \A p \in Requests \ {r} : req'[p] = req[p]
             /\ req'[r].at = "ticket_user"
             /\ UNCHANGED <<store, history>>
  BY <1>1, <1>4 DEF ChangeExpired
<1>5. ASSUME NEW old \in Passwords, NEW new \in Passwords, NEW u \in Users,
             ChangeVoluntarily(r, u, old, new)
      PROVE  /\ req[r].at = "idle"
             /\ \A p \in Requests \ {r} : req'[p] = req[p]
             /\ req'[r].at = "ticket_user"
             /\ UNCHANGED <<store, history>>
  BY <1>1, <1>5 DEF ChangeVoluntarily
<1>6. QED
  BY <1>2, <1>3, <1>4, <1>5 DEF Start

\* The first steps of handlers count nothing.
LEMMA StartKeepsCounter ==
    ASSUME PasswordTypeOK, CounterInv, NEW r \in Requests, Start(r)
    PROVE  CounterInv'
BY StartMoves, BystanderKeepsCounter DEF history

\* No step of a handler breaks the counter.
LEMMA ResumeKeepsCounter ==
    ASSUME PasswordTypeOK, CounterInv, NEW r \in Requests, Resume(r)
    PROVE  CounterInv'
<1>1. ASSUME \/ \E t \in Tickets : SetTicket(r, t)
             \/ \E l \in Logins : IssueLogin(r, l)
             \/ ZimbraFails(r) \/ DeleteTicket(r) \/ RequireSweep(r) \/ StoreFails(r)
      PROVE  CounterInv'
  <2>1. Finish(r)
    BY <1>1 DEF SetTicket, IssueLogin, ZimbraFails, DeleteTicket, RequireSweep, StoreFails
  <2>2. req'[r].at = "idle" /\ \A p \in Requests \ {r} : req'[p] = req[p]
    BY <2>1, FinishType DEF Idle
  <2>3. UNCHANGED <<wrong, window, guesses>> /\ lost \subseteq lost'
    BY <1>1 DEF SetTicket, IssueLogin, ZimbraFails, DeleteTicket, RequireSweep, StoreFails,
       store
  <2>4. req[r].at \in {"incr", "expire"} => req[r].user \in lost'
    BY <1>1 DEF SetTicket, IssueLogin, ZimbraFails, DeleteTicket, RequireSweep, StoreFails
  <2>5. QED
    BY <2>2, <2>3, <2>4, BystanderKeepsCounter
<1>2. ASSUME \/ ReadUser(r) \/ RecordChange(r) \/ SweepLogins(r)
             \/ \E l \in Logins : IssueAfterChange(r, l)
      PROVE  CounterInv'
  <2>1. /\ req[r].at \in {"ticket_user", "record", "sweep", "issue"}
        /\ UNCHANGED <<wrong, window, guesses, lost>>
        /\ \/ Finish(r)
           \/ Go(r, "attempts") \/ Go(r, "sweep") \/ Go(r, "issue") \/ Go(r, "ticket_del")
    BY <1>2 DEF ReadUser, RecordChange, SweepLogins, IssueAfterChange, store, history
  <2>2. req[r] \in ChangeRequest
    BY <2>1, ShapeOf DEF ChangePoints
  <2>3. /\ req'[r].at \notin {"zimbra", "incr"}
        /\ \A p \in Requests \ {r} : req'[p] = req[p]
    BY <2>1, <2>2, FinishType, GoType DEF Idle, ChangePoints
  <2>4. QED
    BY <2>1, <2>3, BystanderKeepsCounter
<1>3. ASSUME RequireWrite(r)
      PROVE  CounterInv'
  <2>1. req[r] \in PlainRequest /\ req[r].at = "require_write"
    BY <1>3, ShapeOf DEF RequireWrite
  <2>2. /\ req'[r].at = "require_sweep"
        /\ \A p \in Requests \ {r} : req'[p] = req[p]
        /\ UNCHANGED <<wrong, window, guesses, lost>>
    BY <1>3, <2>1 DEF RequireWrite, Go, Continue, PasswordTypeOK, PlainRequest
  <2>3. QED
    BY <2>1, <2>2, BystanderKeepsCounter
<1>4. ASSUME ForgetWrong(r)
      PROVE  CounterInv'
  <2>1. req[r] \in ChangeRequest /\ req[r].at = "del" /\ req[r].user \in Users
    BY <1>4, ShapeOf DEF ForgetWrong, ChangePoints
  <2>2. req'[r].at = "record" /\ \A p \in Requests \ {r} : req'[p] = req[p]
    BY <1>4, <2>1, GoType DEF ForgetWrong, ChangePoints
  <2>3. PICK v \in Users : v = req[r].user
    BY <2>1
  <2>4. ClearWrong(v)
    BY <1>4, <2>3 DEF ForgetWrong
  <2>5. QED
    BY <2>1, <2>2, <2>4, ClearKeepsCounter
<1>5. QED
  BY <1>1, <1>2, <1>3, <1>4, CheckKeepsCounter, ZimbraKeepsCounter, CountKeepsCounter,
     WindowKeepsCounter DEF Resume

LEMMA WorldKeepsCounter ==
    ASSUME PasswordTypeOK, CounterInv, World
    PROVE  CounterInv'
<1>1. ASSUME NEW u \in Users, WindowEnds(u)
      PROVE  CounterInv'
  BY <1>1, ClearKeepsCounter DEF WindowEnds
<1>2. ASSUME UNCHANGED <<wrong, window, guesses, lost, req>>
      PROVE  CounterInv'
  BY <1>2 DEF CounterInv, BlocksEnd, Counting, Evaluating
<1>3. QED
  BY <1>1, <1>2 DEF World, WebmailChange, PasswordAges, TicketExpires, history

LEMMA CounterAlways == Spec => [](PasswordTypeOK /\ CounterInv)
<1>1. Init => CounterInv
  <2>1. SUFFICES ASSUME Init PROVE CounterInv
    OBVIOUS
  <2>2. ASSUME NEW u \in Users
        PROVE  Evaluating(u) = {} /\ wrong[u] = 0 /\ guesses[u] = 0
    BY <2>1 DEF Init, Evaluating, Idle
  <2>3. ASSUME NEW u \in Users
        PROVE  /\ guesses[u] <= wrong[u] + Cardinality(Counting(u))
               /\ wrong[u] + Cardinality(Evaluating(u)) < MaxWrong + Cardinality(Requests)
    BY <2>2, SetSizes, FS_EmptySet, ChangeBoundsAssumption
  <2>4. BlocksEnd
    BY <2>2 DEF BlocksEnd
  <2>5. QED
    BY <2>3, <2>4 DEF CounterInv
<1>2. PasswordTypeOK /\ CounterInv /\ [Next]_vars => CounterInv'
  <2>1. SUFFICES ASSUME PasswordTypeOK, CounterInv, [Next]_vars PROVE CounterInv'
    OBVIOUS
  <2>2. CASE UNCHANGED vars
    BY <2>1, <2>2 DEF vars, store, history, CounterInv, BlocksEnd, Counting, Evaluating
  <2>3. CASE Next
    BY <2>1, <2>3, StartKeepsCounter, ResumeKeepsCounter, WorldKeepsCounter DEF Next
  <2>4. QED
    BY <2>1, <2>2, <2>3
<1>3. QED
  BY <1>1, <1>2, PasswordTypesCorrect, PTL DEF Spec

\* Between two ends of a user's counter Zimbra evaluates no more wrong old
\* passwords than the limit and one for each other handler in flight
\* (password.routes 84-116).
THEOREM GuessesStayBounded == Spec => []OldPasswordGuessesBounded
<1>1. PasswordTypeOK /\ CounterInv => OldPasswordGuessesBounded
  <2>1. SUFFICES ASSUME PasswordTypeOK, CounterInv, NEW u \in Users \ lost
                 PROVE  guesses[u] < MaxWrong + Cardinality(Requests)
    BY DEF OldPasswordGuessesBounded
  <2>2. /\ guesses[u] <= wrong[u] + Cardinality(Counting(u))
        /\ wrong[u] + Cardinality(Evaluating(u)) < MaxWrong + Cardinality(Requests)
    BY <2>1 DEF CounterInv
  <2>3. guesses[u] \in Nat /\ wrong[u] \in Nat
    BY <2>1 DEF PasswordTypeOK
  <2>4. QED
    BY <2>2, <2>3, SetSizes, ChangeBoundsAssumption
<1>2. QED
  BY <1>1, CounterAlways, PTL

\* A block always ends (password.routes 114-115).
THEOREM BlocksHaveAnEnd == Spec => []BlocksEnd
<1>1. CounterInv => BlocksEnd
  BY DEF CounterInv
<1>2. QED
  BY <1>1, CounterAlways, PTL

-----------------------------------------------------------------------------
(* The administrator's requirement.                                        *)

\* The control points past the gate, or past Zimbra.
GatePoints == {"login_issue", "del", "record", "sweep", "issue"}

\* Whoever is past the gate and was not overtaken works for a user of whom
\* nothing is required.
GateInv ==
    \A r \in Requests :
        req[r].at \in GatePoints /\ r \notin overtaken => required[req[r].user] = "no"

RequirementInv == GateInv /\ RequirementHolds

\* A step that requires nothing new, whose handler passes the gate only when
\* nothing is required, and whose new logins are late or of such users.
LEMMA QuietKeepsRequirement ==
    ASSUME PasswordTypeOK, RequirementInv, NEW r \in Requests,
           \A p \in Requests \ {r} : req'[p] = req[p] /\ (p \in overtaken' <=> p \in overtaken),
           \A u \in Users : /\ required'[u] \in {required[u], "no"}
                            /\ must'[u] = must[u] \/ required'[u] = "no",
           req'[r].at \in GatePoints /\ r \notin overtaken' => required'[req'[r].user] = "no",
           \A l \in Logins : logins'[l] = Absent \/ logins'[l] = logins[l]
                                \/ logins'[l].late \/ required'[logins'[l].user] = "no"
    PROVE  RequirementInv'
<1>1. GateInv'
  <2>1. SUFFICES ASSUME NEW p \in Requests, req'[p].at \in GatePoints, p \notin overtaken'
                 PROVE  required'[req'[p].user] = "no"
    BY DEF GateInv
  <2>2. CASE p = r
    BY <2>1, <2>2
  <2>3. CASE p # r
    <3>1. req[p].at \in GatePoints /\ p \notin overtaken /\ req'[p].user = req[p].user
      BY <2>1, <2>3
    <3>2. required[req[p].user] = "no" /\ req[p].user \in Users
      BY <3>1, ShapeOf DEF RequirementInv, GateInv, GatePoints
    <3>3. QED
      BY <3>1, <3>2
  <2>4. QED
    BY <2>2, <2>3
<1>2. RequirementHolds'
  <2>1. SUFFICES ASSUME NEW u \in Users, required'[u] # "no"
                 PROVE  /\ must'[u]
                        /\ required'[u] = "answered" =>
                               \A l \in Logins : logins'[l] # Absent /\ logins'[l].user = u
                                                    => logins'[l].late
    BY DEF RequirementHolds, LoginsOf
  <2>2. required'[u] = required[u] /\ must'[u] = must[u]
    BY <2>1
  <2>3. /\ must[u]
        /\ required[u] = "answered" => \A l \in Logins : logins[l] # Absent /\ logins[l].user = u
                                                            => logins[l].late
    BY <2>1, <2>2 DEF RequirementInv, RequirementHolds, LoginsOf
  <2>4. QED
    BY <2>1, <2>2, <2>3
<1>3. QED
  BY <1>1, <1>2 DEF RequirementInv

\* What a handler issues is late, or nothing is required of its user.
LEMMA IssueIsQuiet ==
    ASSUME PasswordTypeOK, RequirementInv, NEW r \in Requests, NEW l \in Logins,
           req[r].at \in GatePoints, Issue(r, l)
    PROVE  \A k \in Logins : logins'[k] = logins[k] \/ logins'[k].late
                                \/ required[logins'[k].user] = "no"
<1>1. logins'[l] = [user |-> req[r].user, late |-> r \in overtaken]
  BY DEF Issue, PasswordTypeOK
<1>2. \A k \in Logins \ {l} : logins'[k] = logins[k]
  BY DEF Issue, PasswordTypeOK
<1>3. CASE r \in overtaken
  <2>1. logins'[l].late = (r \in overtaken)
    BY <1>1
  <2>2. logins'[l].late
    BY <2>1, <1>3
  <2>3. QED
    BY <2>2, <1>2
<1>4. CASE r \notin overtaken
  <2>1. required[req[r].user] = "no"
    BY <1>4 DEF RequirementInv, GateInv
  <2>2. logins'[l].user = req[r].user
    BY <1>1
  <2>3. QED
    BY <2>1, <2>2, <1>2
<1>5. QED
  BY <1>3, <1>4

\* A login passes the gate only when nothing is required of its user.
LEMMA StartKeepsRequirement ==
    ASSUME PasswordTypeOK, RequirementInv, NEW r \in Requests, Start(r)
    PROVE  RequirementInv'
<1>1. req'[r].at \in GatePoints => required[req'[r].user] = "no"
  <2>1. ASSUME NEW u \in Users, SignIn(r, u), req'[r].at \in GatePoints
        PROVE  required[req'[r].user] = "no"
    <3>1. PICK old \in {aged[u], FALSE} :
              Continue(r, [at |-> IF Expired(u, old) THEN "ticket_set" ELSE "login_issue",
                           user |-> u])
      BY <2>1 DEF SignIn
    <3>2. req'[r] = [at |-> IF Expired(u, old) THEN "ticket_set" ELSE "login_issue",
                     user |-> u]
      BY <3>1 DEF Continue, PasswordTypeOK
    <3>3. ~Expired(u, old) /\ req'[r].user = u
      BY <3>2, <2>1 DEF GatePoints
    <3>4. QED
      BY <3>3 DEF Expired, RequirementInv, RequirementHolds
  <2>2. ASSUME ~ \E u \in Users : SignIn(r, u)
        PROVE  req'[r].at \notin GatePoints
    <3>1. ASSUME NEW q, Continue(r, q)
          PROVE  req'[r] = q
      BY <3>1 DEF Continue, PasswordTypeOK
    <3>2. ASSUME NEW u \in Users, Require(r, u)
          PROVE  req'[r].at = "require_write"
      BY <3>1, <3>2 DEF Require
    <3>3. ASSUME NEW old \in Passwords, NEW new \in Passwords, NEW t \in Tickets,
                 ChangeExpired(r, t, old, new)
          PROVE  req'[r].at = "ticket_user"
      BY <3>1, <3>3 DEF ChangeExpired
    <3>4. ASSUME NEW old \in Passwords, NEW new \in Passwords, NEW u \in Users,
                 ChangeVoluntarily(r, u, old, new)
          PROVE  req'[r].at = "ticket_user"
      BY <3>1, <3>4 DEF ChangeVoluntarily
    <3>5. QED
      BY <2>2, <3>2, <3>3, <3>4 DEF Start, GatePoints
  <2>3. QED
    BY <2>1, <2>2
<1>2. UNCHANGED <<must, logins, required, overtaken>>
  BY StartMoves DEF history
<1>3. QED
  BY <1>1, <1>2, StartMoves, QuietKeepsRequirement

\* A handler that ends, or goes on, without passing the gate or Zimbra.
LEMMA OtherKeepsRequirement ==
    ASSUME PasswordTypeOK, RequirementInv, NEW r \in Requests,
           UNCHANGED <<must, required>>,
           \/ Finish(r)
           \/ /\ UNCHANGED overtaken /\ req[r] \in ChangeRequest
              /\ \E at \in ChangePoints :
                    Go(r, at) /\ (at \in GatePoints => req[r].at \in GatePoints),
           \A l \in Logins : logins'[l] = Absent \/ logins'[l] = logins[l]
                                \/ logins'[l].late \/ required'[logins'[l].user] = "no"
    PROVE  RequirementInv'
<1>1. CASE Finish(r)
  <2>1. /\ req'[r].at = "idle"
        /\ \A p \in Requests \ {r} : req'[p] = req[p] /\ (p \in overtaken' <=> p \in overtaken)
    BY <1>1, FinishType DEF Idle
  <2>2. QED
    BY <2>1, QuietKeepsRequirement DEF GatePoints
<1>2. ASSUME req[r] \in ChangeRequest, UNCHANGED overtaken, NEW at \in ChangePoints,
             Go(r, at), at \in GatePoints => req[r].at \in GatePoints
      PROVE  RequirementInv'
  <2>1. /\ req'[r].at = at /\ req'[r].user = req[r].user
        /\ \A p \in Requests \ {r} : req'[p] = req[p]
    BY <1>2, GoType
  <2>2. req'[r].at \in GatePoints /\ r \notin overtaken' => required'[req'[r].user] = "no"
    BY <2>1, <1>2 DEF RequirementInv, GateInv
  <2>3. QED
    BY <2>1, <2>2, <1>2, QuietKeepsRequirement
<1>3. QED
  BY <1>1, <1>2

\* Zimbra's success ends the requirement.
LEMMA ZimbraKeepsRequirement ==
    ASSUME PasswordTypeOK, RequirementInv, NEW r \in Requests, CallZimbra(r)
    PROVE  RequirementInv'
<1>1. req[r] \in ChangeRequest /\ req[r].user \in Users /\ UNCHANGED <<must, logins>>
  BY ShapeOf DEF CallZimbra, ChangePoints
<1>2. CASE UNCHANGED required /\ (Finish(r) \/ (Go(r, "incr") /\ UNCHANGED overtaken))
  BY <1>1, <1>2, OtherKeepsRequirement DEF ChangePoints, GatePoints
<1>3. CASE /\ required' = [required EXCEPT ![req[r].user] = "no"]
           /\ Go(r, "del") /\ UNCHANGED overtaken
  <2>1. /\ req'[r].user = req[r].user
        /\ \A p \in Requests \ {r} : req'[p] = req[p]
    BY <1>1, <1>3, GoType DEF ChangePoints
  <2>2. /\ required'[req[r].user] = "no"
        /\ \A u \in Users : required'[u] \in {required[u], "no"}
    BY <1>1, <1>3 DEF PasswordTypeOK
  <2>3. QED
    BY <1>1, <1>3, <2>1, <2>2, QuietKeepsRequirement
<1>4. QED
  BY <1>2, <1>3 DEF CallZimbra

\* Clearing the flag: nothing was required, or the handler was overtaken.
LEMMA RecordKeepsRequirement ==
    ASSUME PasswordTypeOK, RequirementInv, NEW r \in Requests, RecordChange(r)
    PROVE  RequirementInv'
<1>1. req[r] \in ChangeRequest /\ req[r].user \in Users /\ req[r].at = "record"
  BY ShapeOf DEF RecordChange, ChangePoints
<1>2. /\ req'[r].user = req[r].user
      /\ \A p \in Requests \ {r} : req'[p] = req[p]
  BY <1>1, GoType DEF RecordChange, ChangePoints
<1>3. /\ UNCHANGED <<logins, overtaken>>
      /\ must' = [must EXCEPT ![req[r].user] = FALSE]
      /\ required' = IF r \in overtaken THEN [required EXCEPT ![req[r].user] = "no"]
                     ELSE required
  BY DEF RecordChange
<1>4. required'[req[r].user] = "no"
  BY <1>1, <1>3 DEF RequirementInv, GateInv, GatePoints, PasswordTypeOK
<1>5. \A u \in Users : /\ required'[u] \in {required[u], "no"}
                       /\ must'[u] = must[u] \/ required'[u] = "no"
  BY <1>1, <1>3, <1>4 DEF PasswordTypeOK
<1>6. QED
  BY <1>2, <1>3, <1>4, <1>5, QuietKeepsRequirement

\* Writing the flag overtakes everyone past the gate.
LEMMA RequireWriteKeepsRequirement ==
    ASSUME PasswordTypeOK, RequirementInv, NEW r \in Requests, RequireWrite(r)
    PROVE  RequirementInv'
<1>1. req[r] \in PlainRequest /\ req[r].user \in Users
  BY ShapeOf DEF RequireWrite
<1> PICK v \in Users : v = req[r].user
  BY <1>1
<1>2. /\ must' = [must EXCEPT ![v] = TRUE]
      /\ overtaken' = overtaken \cup {p \in Requests : PastTheGate(p, v)}
      /\ required' = [required EXCEPT ![v] = "written"]
      /\ UNCHANGED logins
  BY DEF RequireWrite
<1>3. req'[r].at = "require_sweep" /\ \A p \in Requests \ {r} : req'[p] = req[p]
  BY <1>1 DEF RequireWrite, Go, Continue, PasswordTypeOK, PlainRequest
<1>4. GateInv'
  <2>1. SUFFICES ASSUME NEW p \in Requests, req'[p].at \in GatePoints, p \notin overtaken'
                 PROVE  required'[req'[p].user] = "no"
    BY DEF GateInv
  <2>2. req'[p] = req[p]
    BY <2>1, <1>3 DEF GatePoints
  <2>3. required[req[p].user] = "no" /\ req[p].user \in Users
    BY <2>1, <2>2, <1>2, ShapeOf DEF RequirementInv, GateInv, GatePoints
  <2>4. req[p].user # v
    BY <2>1, <2>2, <1>2 DEF PastTheGate, GatePoints, Idle
  <2>5. QED
    BY <2>2, <2>3, <2>4, <1>2 DEF PasswordTypeOK
<1>5. RequirementHolds'
  <2>1. ASSUME NEW u \in Users, required'[u] # "no"
        PROVE  must'[u]
    BY <2>1, <1>2 DEF RequirementInv, RequirementHolds, PasswordTypeOK
  <2>2. ASSUME NEW u \in Users, required'[u] = "answered"
        PROVE  \A l \in LoginsOf(u)' : logins'[l].late
    <3>1. required[u] = "answered"
      BY <2>2, <1>2 DEF PasswordTypeOK
    <3>2. QED
      BY <3>1, <1>2 DEF RequirementInv, RequirementHolds, LoginsOf
  <2>3. QED
    BY <2>1, <2>2 DEF RequirementHolds
<1>6. QED
  BY <1>4, <1>5 DEF RequirementInv

\* Before the administrator has the answer every login of the user is gone.
LEMMA RequireSweepKeepsRequirement ==
    ASSUME PasswordTypeOK, RequirementInv, NEW r \in Requests, RequireSweep(r)
    PROVE  RequirementInv'
<1>1. req[r].user \in Users
  BY ShapeOf DEF RequireSweep
<1> PICK v \in Users : v = req[r].user
  BY <1>1
<1>2. /\ Sweep(v) /\ UNCHANGED must
      /\ required' = [required EXCEPT ![v] = IF @ = "written" THEN "answered" ELSE @]
  BY DEF RequireSweep
<1>3. /\ req'[r].at = "idle" /\ overtaken' = overtaken \ {r}
      /\ \A p \in Requests \ {r} : req'[p] = req[p]
  BY FinishType DEF RequireSweep, Idle
<1>4. \A u \in Users : (required[u] = "no" <=> required'[u] = "no")
                          /\ (u # v => required'[u] = required[u])
  BY <1>2 DEF PasswordTypeOK
<1>5. GateInv'
  <2>1. SUFFICES ASSUME NEW p \in Requests, req'[p].at \in GatePoints, p \notin overtaken'
                 PROVE  required'[req'[p].user] = "no"
    BY DEF GateInv
  <2>2. req'[p] = req[p] /\ p \notin overtaken
    BY <2>1, <1>3 DEF GatePoints
  <2>3. required[req[p].user] = "no" /\ req[p].user \in Users
    BY <2>1, <2>2, ShapeOf DEF RequirementInv, GateInv, GatePoints
  <2>4. QED
    BY <2>2, <2>3, <1>4
<1>6. RequirementHolds'
  <2>1. ASSUME NEW u \in Users, required'[u] # "no"
        PROVE  must'[u]
    BY <2>1, <1>2, <1>4 DEF RequirementInv, RequirementHolds
  <2>2. ASSUME NEW u \in Users, required'[u] = "answered", NEW l \in Logins,
               logins'[l] # Absent, logins'[l].user = u
        PROVE  logins'[l].late
    <3>1. logins'[l] = logins[l] /\ l \notin LoginsOf(v)
      BY <2>2, <1>2 DEF Sweep
    <3>2. u # v
      BY <3>1, <2>2 DEF LoginsOf
    <3>3. required[u] = "answered"
      BY <3>2, <2>2, <1>4
    <3>4. QED
      BY <3>1, <3>3, <2>2 DEF RequirementInv, RequirementHolds, LoginsOf
  <2>3. QED
    BY <2>1, <2>2 DEF RequirementHolds, LoginsOf
<1>7. QED
  BY <1>5, <1>6 DEF RequirementInv

LEMMA ResumeKeepsRequirement ==
    ASSUME PasswordTypeOK, RequirementInv, NEW r \in Requests, Resume(r)
    PROVE  RequirementInv'
<1> USE DEF store, history
<1>1. ASSUME \/ \E t \in Tickets : SetTicket(r, t)
             \/ ZimbraFails(r) \/ CountWrong(r) \/ StartWindow(r) \/ DeleteTicket(r)
             \/ StoreFails(r) \/ ReadUser(r) \/ ReadAttempts(r) \/ ForgetWrong(r)
      PROVE  RequirementInv'
  <2>1. /\ UNCHANGED <<must, required, logins>>
        /\ \/ Finish(r)
           \/ /\ UNCHANGED overtaken
              /\ \/ Go(r, "expire") /\ req[r].at = "incr"
                 \/ Go(r, "attempts") /\ req[r].at = "ticket_user"
                 \/ Go(r, "zimbra") /\ req[r].at = "attempts"
                 \/ Go(r, "record") /\ req[r].at = "del"
    BY <1>1 DEF SetTicket, ZimbraFails, CountWrong, StartWindow, DeleteTicket, StoreFails,
       ReadUser, ReadAttempts, ForgetWrong
  <2>2. CASE Finish(r)
    BY <2>1, <2>2, OtherKeepsRequirement
  <2>3. CASE /\ UNCHANGED overtaken
             /\ \/ Go(r, "expire") /\ req[r].at = "incr"
                \/ Go(r, "attempts") /\ req[r].at = "ticket_user"
                \/ Go(r, "zimbra") /\ req[r].at = "attempts"
                \/ Go(r, "record") /\ req[r].at = "del"
    <3>1. req[r] \in ChangeRequest
      BY <2>3, ShapeOf DEF ChangePoints
    <3>2. \E at \in ChangePoints :
              Go(r, at) /\ (at \in GatePoints => req[r].at \in GatePoints)
      BY <2>3 DEF ChangePoints, GatePoints
    <3>3. QED
      BY <2>1, <2>3, <3>1, <3>2, OtherKeepsRequirement
  <2>4. QED
    BY <2>1, <2>2, <2>3
<1>2. ASSUME NEW l \in Logins, IssueLogin(r, l)
      PROVE  RequirementInv'
  <2>1. /\ Issue(r, l) /\ req[r].at \in GatePoints /\ Finish(r)
        /\ UNCHANGED <<must, required>>
    BY <1>2 DEF IssueLogin, GatePoints
  <2>2. QED
    BY <2>1, IssueIsQuiet, OtherKeepsRequirement
<1>3. ASSUME NEW l \in Logins, IssueAfterChange(r, l)
      PROVE  RequirementInv'
  <2>1. /\ Issue(r, l) /\ req[r].at \in GatePoints /\ UNCHANGED <<must, required>>
        /\ Finish(r) \/ (Go(r, "ticket_del") /\ UNCHANGED overtaken)
        /\ req[r] \in ChangeRequest
    BY <1>3, ShapeOf DEF IssueAfterChange, GatePoints, ChangePoints
  <2>2. QED
    BY <2>1, IssueIsQuiet, OtherKeepsRequirement DEF ChangePoints, GatePoints
<1>4. ASSUME SweepLogins(r)
      PROVE  RequirementInv'
  <2>1. /\ req[r].at \in GatePoints /\ UNCHANGED <<must, required, overtaken>>
        /\ Go(r, "issue") /\ req[r] \in ChangeRequest
    BY <1>4, ShapeOf DEF SweepLogins, GatePoints, ChangePoints
  <2>2. \A l \in Logins : logins'[l] = Absent \/ logins'[l] = logins[l]
    BY <1>4 DEF SweepLogins, Sweep
  <2>3. QED
    BY <2>1, <2>2, OtherKeepsRequirement DEF ChangePoints, GatePoints
<1>5. QED
  BY <1>1, <1>2, <1>3, <1>4, ZimbraKeepsRequirement, RecordKeepsRequirement,
     RequireWriteKeepsRequirement, RequireSweepKeepsRequirement DEF Resume

\* Until Zimbra has changed the password the required flag stays, and once the
\* administrator has the answer only logins of handlers that were past the gate
\* live (user.routes 214-241, password.routes 96-139).
THEOREM RequiredStaysRequired == Spec => []RequirementHolds
<1>1. Init => RequirementInv
  BY DEF Init, RequirementInv, GateInv, RequirementHolds, LoginsOf, GatePoints, Idle
<1>2. PasswordTypeOK /\ RequirementInv /\ [Next]_vars => RequirementInv'
  <2>1. SUFFICES ASSUME PasswordTypeOK, RequirementInv, [Next]_vars PROVE RequirementInv'
    OBVIOUS
  <2>2. CASE UNCHANGED <<must, logins, req, required, overtaken>>
    BY <2>1, <2>2 DEF RequirementInv, GateInv, RequirementHolds, LoginsOf
  <2>3. CASE World
    BY <2>1, <2>2, <2>3 DEF World, WebmailChange, PasswordAges, WindowEnds, TicketExpires,
       history
  <2>4. CASE \E r \in Requests : Start(r) \/ Resume(r)
    BY <2>1, <2>4, StartKeepsRequirement, ResumeKeepsRequirement
  <2>5. QED
    BY <2>1, <2>2, <2>3, <2>4 DEF Next, vars, store, history
<1>3. RequirementInv => RequirementHolds
  BY DEF RequirementInv
<1>4. QED
  BY <1>1, <1>2, <1>3, PasswordTypesCorrect, PTL DEF Spec

-----------------------------------------------------------------------------
(* The validity period.                                                    *)

\* The counting point of an internal user with the feature on is a date, not
\* before the start and not before the last change, and is one of the two.
LEMMA CountFromFacts ==
    ASSUME NEW u \in User, NEW c \in Config, c.start # NoDate
    PROVE  /\ CountFrom(u, c) \in Int /\ c.start \in Int
           /\ CountFrom(u, c) >= c.start
           /\ \A cutoff \in Int :
                CountFromAtOrBefore(u, cutoff, c) <=> CountFrom(u, c) <= cutoff
<1>1. c.start \in Int /\ u.passwordChangedAt \in Int \cup {NoDate}
  BY TimesAssumption DEF Config, User
<1>2. QED
  BY <1>1, TimesAssumption DEF CountFrom, CountFromAtOrBefore

\* Rounding the remaining time up to days does not move the warning boundary.
LEMMA CeilingOfDays ==
    ASSUME NEW late \in Int, NEW days \in Int
    PROVE  -(late \div DAY) <= days <=> late >= -days * DAY
BY DEF DAY

\* Both computations compare the same instants.
LEMMA Boundaries ==
    ASSUME NEW u \in User, NEW c \in Config, NEW t \in Times, c.start # NoDate
    PROVE  /\ ExpiredByAge(u, t, c) <=> Past(u, t, c)
           /\ WarnByAge(u, t, c) <=> DaysLeft(u, t, c) <= c.warningDays
           /\ Past(u, t, c) => WarnByAge(u, t, c)
<1> DEFINE from == CountFrom(u, c)
           age == c.maxAgeDays
           warning == c.warningDays
<1>1. t \in Int /\ age \in Nat /\ warning \in Nat /\ warning > 0
  <2>1. age \in DayCounts /\ warning \in DayCounts
    BY DEF Config
  <2>2. \A d \in DayCounts : d \in Nat /\ d > 0
    BY DayCountsAssumption
  <2>3. QED
    BY <2>1, <2>2, TimesAssumption
<1>2. from \in Int /\ (\A cutoff \in Int :
                          CountFromAtOrBefore(u, cutoff, c) <=> from <= cutoff)
  BY CountFromFacts
<1> HIDE DEF from
<1>3. ExpiredByAge(u, t, c) <=> from <= t - age * DAY
  <2>1. t - age * DAY \in Int
    BY <1>1 DEF DAY
  <2>2. QED
    BY <1>2, <2>1 DEF ExpiredByAge
<1>4. WarnByAge(u, t, c) <=> from <= t - (age - warning) * DAY
  <2>1. t - (age - warning) * DAY \in Int
    BY <1>1 DEF DAY
  <2>2. QED
    BY <1>2, <2>1 DEF WarnByAge
<1>5. ExpiresAt(u, c) = from + age * DAY
  BY DEF ExpiresAt, from
<1>6. Past(u, t, c) <=> t >= from + age * DAY
  BY <1>5 DEF Past
<1>7. DaysLeft(u, t, c) <= warning <=> t - (from + age * DAY) >= -warning * DAY
  <2>1. t - (from + age * DAY) \in Int
    BY <1>1, <1>2 DEF DAY
  <2>2. QED
    BY <1>1, <1>5, <2>1, CeilingOfDays DEF DaysLeft
<1>8. QED
  BY <1>1, <1>2, <1>3, <1>4, <1>6, <1>7 DEF DAY

\* The user row and the configuration keep their types.
THEOREM ExpiryTypeCorrect == ExpirySpec => []ExpiryTypeOK
<1>1. ExpiryInit => ExpiryTypeOK
  BY DEF ExpiryInit, ExpiryTypeOK
<1>2. ExpiryTypeOK /\ [TimePasses]_expiryVars => ExpiryTypeOK'
  BY DEF ExpiryTypeOK, TimePasses, expiryVars
<1>3. QED
  BY <1>1, <1>2, PTL DEF ExpirySpec

\* For every user, configuration and instant, the admin filter selects the
\* user under exactly the status the gate computes.
LEMMA Agreement ==
    ASSUME ExpiryTypeOK
    PROVE  FilterAgrees
<1> SUFFICES ASSUME NEW s \in Statuses
             PROVE  PasswordStatusWhere(s, user, now, config)
                      <=> GetPasswordExpiry(user, now, config) = s
  BY DEF FilterAgrees
<1>1. CASE config.start = NoDate
  BY <1>1 DEF PasswordStatusWhere, GetPasswordExpiry, Statuses
<1>2. CASE config.start # NoDate
  <2>1. /\ ExpiredByAge(user, now, config) <=> Past(user, now, config)
        /\ WarnByAge(user, now, config) <=> DaysLeft(user, now, config) <= config.warningDays
        /\ Past(user, now, config) => WarnByAge(user, now, config)
    BY <1>2, Boundaries DEF ExpiryTypeOK
  <2>2. QED
    BY <1>2, <2>1 DEF PasswordStatusWhere, GetPasswordExpiry, ExpiredWhere, Statuses
<1>3. QED
  BY <1>1, <1>2

\* The two computations agree in every reachable state.
THEOREM FilterCorrect == ExpirySpec => []FilterAgrees
BY ExpiryTypeCorrect, Agreement, PTL

\* The go-live date grants everybody a full maximum age.
THEOREM GraceCorrect == ExpirySpec => []GraceAfterStart
<1>1. ExpiryTypeOK => GraceAfterStart
  <2> SUFFICES ASSUME ExpiryTypeOK, ~user.passwordMustChange,
                      GetPasswordExpiry(user, now, config) = "expired"
               PROVE  now >= config.start + config.maxAgeDays * DAY
    BY DEF GraceAfterStart
  <2>1. config.start # NoDate /\ Past(user, now, config)
    BY DEF GetPasswordExpiry
  <2>2. /\ CountFrom(user, config) \in Int /\ config.start \in Int
        /\ CountFrom(user, config) >= config.start
    BY <2>1, CountFromFacts DEF ExpiryTypeOK
  <2>3. now \in Int /\ config.maxAgeDays \in Nat
    BY TimesAssumption, DayCountsAssumption DEF ExpiryTypeOK, Config
  <2>4. now >= CountFrom(user, config) + config.maxAgeDays * DAY
    BY <2>1 DEF Past, ExpiresAt
  <2>5. QED
    BY <2>2, <2>3, <2>4 DEF DAY
<1>2. QED
  BY <1>1, ExpiryTypeCorrect, PTL

\* Time alone never improves a status.
THEOREM OnlyWorsens == ExpirySpec => StatusOnlyWorsens
<1>1. ExpiryTypeOK /\ [TimePasses]_expiryVars =>
        [GetPasswordExpiry(user', now', config') \in
            Worse(GetPasswordExpiry(user, now, config))]_expiryVars
  <2> SUFFICES ASSUME ExpiryTypeOK, TimePasses
               PROVE  GetPasswordExpiry(user, now', config) \in
                        Worse(GetPasswordExpiry(user, now, config))
    BY DEF TimePasses, expiryVars
  <2>1. now' \in Times /\ now' > now
    BY DEF TimePasses
  <2>2. CASE ~user.internal \/ config.start = NoDate
    BY <2>2 DEF GetPasswordExpiry, Worse, Statuses
  <2>3. CASE user.internal /\ config.start # NoDate
    <3>1. /\ WarnByAge(user, now, config) <=> DaysLeft(user, now, config) <= config.warningDays
          /\ WarnByAge(user, now', config) <=> DaysLeft(user, now', config) <= config.warningDays
      BY <2>1, <2>3, Boundaries DEF ExpiryTypeOK
    <3>2. now \in Int /\ now' \in Int /\ config.maxAgeDays \in Nat /\ config.warningDays \in Nat
      BY <2>1, TimesAssumption, DayCountsAssumption DEF ExpiryTypeOK, Config
    <3>3. \A cutoff \in Int : CountFromAtOrBefore(user, cutoff, config)
                                <=> CountFrom(user, config) <= cutoff
      BY <2>3, CountFromFacts DEF ExpiryTypeOK
    <3>4. CountFrom(user, config) \in Int
      BY <2>3, CountFromFacts DEF ExpiryTypeOK
    <3>5. WarnByAge(user, now, config) => WarnByAge(user, now', config)
      <4>1. now - (config.maxAgeDays - config.warningDays) * DAY \in Int
        BY <3>2 DEF DAY
      <4>2. now' - (config.maxAgeDays - config.warningDays) * DAY \in Int
        BY <3>2 DEF DAY
      <4>3. now - (config.maxAgeDays - config.warningDays) * DAY
              <= now' - (config.maxAgeDays - config.warningDays) * DAY
        BY <2>1, <3>2 DEF DAY
      <4>4. QED
        BY <3>3, <3>4, <4>1, <4>2, <4>3 DEF WarnByAge
    <3>6. Past(user, now, config) => Past(user, now', config)
      <4>1. ExpiresAt(user, config) \in Int
        BY <3>2, <3>4 DEF ExpiresAt, DAY
      <4>2. QED
        BY <2>1, <3>2, <4>1 DEF Past
    <3>7. QED
      BY <2>3, <3>1, <3>5, <3>6 DEF GetPasswordExpiry, Worse, Statuses
  <2>4. QED
    BY <2>2, <2>3
<1>2. QED
  BY <1>1, ExpiryTypeCorrect, PTL DEF ExpirySpec, StatusOnlyWorsens

\* What is left before the expiry rounds up to a day at least.
LEMMA OneDayLeft ==
    ASSUME NEW late \in Int, late < 0
    PROVE  -(late \div DAY) \in Int /\ -(late \div DAY) >= 1
BY DEF DAY

\* A user who is warned has a day left at least, and no more than the warning
\* period: nobody is warned on the day the password has already expired.
THEOREM WarningCorrect == ExpirySpec => []WarningComesInTime
<1>1. ExpiryTypeOK => WarningComesInTime
  <2> SUFFICES ASSUME ExpiryTypeOK, GetPasswordExpiry(user, now, config) = "warning"
               PROVE  DaysLeft(user, now, config) \in 1..config.warningDays
    BY DEF WarningComesInTime
  <2>1. /\ config.start # NoDate /\ ~Past(user, now, config)
        /\ DaysLeft(user, now, config) <= config.warningDays
    BY DEF GetPasswordExpiry
  <2>2. CountFrom(user, config) \in Int
    BY <2>1, CountFromFacts DEF ExpiryTypeOK
  <2>3. now \in Int /\ config.maxAgeDays \in Nat /\ config.warningDays \in Nat
    BY TimesAssumption, DayCountsAssumption DEF ExpiryTypeOK, Config
  <2>4. ExpiresAt(user, config) \in Int
    BY <2>2, <2>3 DEF ExpiresAt, DAY
  <2>5. now - ExpiresAt(user, config) \in Int /\ now - ExpiresAt(user, config) < 0
    BY <2>1, <2>3, <2>4 DEF Past
  <2>6. DaysLeft(user, now, config) \in Int /\ DaysLeft(user, now, config) >= 1
    BY <2>5, OneDayLeft DEF DaysLeft
  <2>7. QED
    BY <2>1, <2>3, <2>6
<1>2. QED
  BY <1>1, ExpiryTypeCorrect, PTL

=============================================================================
