--------------------------- MODULE MfaLoginProofs ---------------------------
(***************************************************************************)
(* Proofs about MfaLogin, for every value of its constants: its types, no  *)
(* account demands a code without having a secret, a factor that was       *)
(* used, replaced or erased stays dead, and no ticket takes more guesses   *)
(* than the limit and one for each other handler in flight. Dead factors   *)
(* need that no two users share one, the lists that handlers in flight     *)
(* have read included. The guesses are counted by the handlers about to    *)
(* count them; their bound needs that Redis answers.                       *)
(***************************************************************************)
EXTENDS MfaLogin, FiniteSetTheorems, TLAPS

-----------------------------------------------------------------------------
(* Types.                                                                  *)

\* A request that moves on keeps the requests' type, and only moves itself.
LEMMA ContinueType ==
    ASSUME MfaTypeOK, NEW r \in Requests, NEW q \in Request, Continue(r, q)
    PROVE  /\ req' \in [Requests -> Request]
           /\ req'[r] = q
           /\ \A p \in Requests \ {r} : req'[p] = req[p]
BY DEF MfaTypeOK, Continue

LEMMA FinishType ==
    ASSUME MfaTypeOK, NEW r \in Requests, Finish(r)
    PROVE  /\ req' \in [Requests -> Request]
           /\ req'[r] = Idle
           /\ \A p \in Requests \ {r} : req'[p] = req[p]
<1>1. Idle \in Request
  BY DEF Request
<1>2. QED
  BY <1>1, ContinueType DEF Finish

\* The control point tells the shape.
LEMMA ShapeOf ==
    ASSUME MfaTypeOK, NEW r \in Requests
    PROVE  /\ req[r].at = "login_ticket" => req[r] \in LoginRequest
           /\ req[r].at \in {"verify_user", "setup_write", "enable_user", "bump", "drop",
                            "spend"} => req[r] \in PeekedRequest
           /\ req[r].at = "consume" => req[r] \in ConsumeRequest
           /\ req[r].at = "enable_write" => req[r] \in EnableRequest
           /\ req[r].at \in {"disable_write", "gate"} => req[r] \in UserRequest
<1>1. req[r] \in Request
  BY DEF MfaTypeOK
<1>2. QED
  BY <1>1 DEF Request, Idle, LoginRequest, PeekedRequest, ConsumeRequest, EnableRequest,
     UserRequest

\* Presented codes that match something are factors.
LEMMA FactorType ==
    ASSUME MfaTypeOK, NEW u \in Users, NEW c
    PROVE  /\ TotpOk(secret[u], c) => c \in Secrets
           /\ c \in backup[u] => c \in BackupCodes
BY DEF MfaTypeOK, TotpOk

\* A handler that goes on with the ticket it peeked at.
LEMMA PeekedMoves ==
    ASSUME MfaTypeOK, NEW r \in Requests, req[r] \in PeekedRequest,
           NEW at \in {"bump", "drop", "spend"}
    PROVE  [req[r] EXCEPT !.at = at] \in Request
BY DEF PeekedRequest, Request

\* A wrong code keeps the types of what it counts and of the requests.
LEMMA GuessType ==
    ASSUME MfaTypeOK, NEW r \in Requests, req[r] \in PeekedRequest, Guess(r)
    PROVE  /\ req' \in [Requests -> Request]
           /\ guesses' \in [Tickets -> Nat]
           /\ req'[r] = [req[r] EXCEPT !.at = "bump"]
<1>1. [req[r] EXCEPT !.at = "bump"] \in Request
  BY PeekedMoves
<1>2. req' \in [Requests -> Request] /\ req'[r] = [req[r] EXCEPT !.at = "bump"]
  BY <1>1, ContinueType DEF Guess
<1>3. req[r].ticket \in Tickets
  BY DEF PeekedRequest
<1>4. guesses' \in [Tickets -> Nat]
  BY <1>3 DEF Guess, MfaTypeOK
<1>5. QED
  BY <1>2, <1>4

\* The steps of a login keep the types.
LEMMA LoginType ==
    ASSUME MfaTypeOK, NEW r \in Requests
    PROVE  /\ \A u \in Users : Login(r, u) => MfaTypeOK'
           /\ \A t \in Tickets : LoginTicket(r, t) => MfaTypeOK'
           /\ PasswordGate(r) => MfaTypeOK'
           /\ \A t \in Tickets : VerifyPeek(r, t) \/ SetupPeek(r, t) \/ EnablePeek(r, t)
                                    => MfaTypeOK'
<1> USE DEF store, history
<1>1. ASSUME NEW u \in Users, Login(r, u)
      PROVE  MfaTypeOK'
  <2>1. /\ [at |-> "login_ticket", user |-> u, enabled |-> enabled[u]] \in Request
        /\ [at |-> "gate", user |-> u] \in Request
    BY DEF MfaTypeOK, Request, LoginRequest, UserRequest
  <2>2. req' \in [Requests -> Request]
    BY <1>1, <2>1, ContinueType DEF Login
  <2>3. QED
    BY <1>1, <2>2 DEF Login, MfaTypeOK
<1>2. ASSUME NEW t \in Tickets, LoginTicket(r, t)
      PROVE  MfaTypeOK'
  <2>1. req[r].user \in Users
    BY <1>2, ShapeOf DEF LoginTicket, LoginRequest
  <2>2. [kind |-> IF req[r].enabled THEN "pending" ELSE "setup", user |-> req[r].user]
            \in Ticket
    BY <2>1 DEF Ticket
  <2>3. req' \in [Requests -> Request]
    BY <1>2, FinishType DEF LoginTicket
  <2>4. QED
    BY <1>2, <2>2, <2>3 DEF LoginTicket, MfaTypeOK
<1>3. ASSUME PasswordGate(r)
      PROVE  MfaTypeOK'
  <2>1. [kind |-> "password", user |-> req[r].user] \in Ticket
    BY <1>3, ShapeOf DEF PasswordGate, UserRequest, Ticket
  <2>2. req' \in [Requests -> Request]
    BY <1>3, FinishType DEF PasswordGate
  <2>3. tickets' \in [Tickets -> Ticket \cup {Absent}]
    BY <1>3, <2>1 DEF PasswordGate, MfaTypeOK
  <2>4. drawn' \subseteq Tickets \cup Secrets \cup BackupCodes
    BY <1>3 DEF PasswordGate, MfaTypeOK
  <2>5. QED
    BY <1>3, <2>2, <2>3, <2>4 DEF PasswordGate, MfaTypeOK
<1>4. ASSUME NEW t \in Tickets, NEW kind, NEW at \in {"verify_user", "setup_write",
             "enable_user"}, Peek(r, t, kind, at)
      PROVE  MfaTypeOK'
  <2>1. tickets[t].user \in Users
    BY <1>4 DEF Peek, Holds, MfaTypeOK, Ticket
  <2>2. [at |-> at, user |-> tickets[t].user, ticket |-> t] \in Request
    BY <2>1 DEF Request, PeekedRequest
  <2>3. req' \in [Requests -> Request]
    BY <1>4, <2>2, ContinueType DEF Peek
  <2>4. QED
    BY <1>4, <2>3 DEF Peek, MfaTypeOK
<1>5. QED
  BY <1>1, <1>2, <1>3, <1>4 DEF VerifyPeek, SetupPeek, EnablePeek

\* A backup code that is matched.
LEMMA MatchType ==
    ASSUME MfaTypeOK, NEW r \in Requests, NEW u \in Users, NEW c \in backup[u],
           NEW t \in Tickets \cup {Absent}, MatchBackup(r, u, c, t)
    PROVE  req' \in [Requests -> Request]
<1>1. [at |-> "consume", user |-> u, ticket |-> t, code |-> c, seen |-> backup[u]]
          \in ConsumeRequest
  BY DEF MfaTypeOK, ConsumeRequest
<1>2. QED
  BY <1>1, ContinueType DEF MatchBackup, Request

\* The steps that check a code keep the types.
LEMMA CheckType ==
    ASSUME MfaTypeOK, NEW r \in Requests, NEW c
    PROVE  /\ VerifyUser(r, c) => MfaTypeOK'
           /\ EnableUser(r, c) => MfaTypeOK'
           /\ \A u \in Users : DisableUser(r, u, c) => MfaTypeOK'
<1> USE DEF store, history
<1>1. ASSUME VerifyUser(r, c)
      PROVE  MfaTypeOK'
  <2>1. req[r] \in PeekedRequest /\ req[r].user \in Users /\ req[r].ticket \in Tickets
    BY <1>1, ShapeOf DEF VerifyUser, PeekedRequest
  <2>2. /\ [req[r] EXCEPT !.at = "drop"] \in Request
        /\ [req[r] EXCEPT !.at = "spend"] \in Request
    BY <2>1, PeekedMoves
  <2>3. req' \in [Requests -> Request] /\ guesses' \in [Tickets -> Nat]
    <3>1. CASE Guess(r)
      BY <2>1, <3>1, GuessType
    <3>2. CASE Continue(r, [req[r] EXCEPT !.at = "drop"]) /\ UNCHANGED guesses
      BY <2>2, <3>2, ContinueType DEF MfaTypeOK
    <3>3. CASE Continue(r, [req[r] EXCEPT !.at = "spend"]) /\ UNCHANGED guesses
      BY <2>2, <3>3, ContinueType DEF MfaTypeOK
    <3>4. CASE c \in backup[req[r].user] /\ MatchBackup(r, req[r].user, c, req[r].ticket)
               /\ UNCHANGED guesses
      <4>1. PICK u \in Users, t \in Tickets : u = req[r].user /\ t = req[r].ticket
        BY <2>1
      <4>2. req' \in [Requests -> Request]
        BY <3>4, <4>1, MatchType
      <4>3. QED
        BY <3>4, <4>2 DEF MfaTypeOK
    <3>5. QED
      BY <1>1, <3>1, <3>2, <3>3, <3>4 DEF VerifyUser
  <2>4. QED
    BY <1>1, <2>3 DEF VerifyUser, MfaTypeOK
<1>2. ASSUME EnableUser(r, c)
      PROVE  MfaTypeOK'
  <2>1. req[r] \in PeekedRequest /\ req[r].user \in Users /\ req[r].ticket \in Tickets
    BY <1>2, ShapeOf DEF EnableUser, PeekedRequest
  <2>2. req' \in [Requests -> Request] /\ guesses' \in [Tickets -> Nat]
    <3>1. CASE Guess(r)
      BY <2>1, <3>1, GuessType
    <3>2. CASE Finish(r) /\ UNCHANGED guesses
      BY <3>2, FinishType DEF MfaTypeOK
    <3>3. CASE /\ TotpOk(secret[req[r].user], c)
               /\ Continue(r, [at |-> "enable_write", user |-> req[r].user,
                               ticket |-> req[r].ticket, code |-> c])
               /\ UNCHANGED guesses
      <4>1. c \in Secrets
        BY <2>1, <3>3, FactorType
      <4>2. [at |-> "enable_write", user |-> req[r].user, ticket |-> req[r].ticket,
             code |-> c] \in Request
        BY <2>1, <4>1 DEF Request, EnableRequest
      <4>3. QED
        BY <3>3, <4>2, ContinueType DEF MfaTypeOK
    <3>4. QED
      BY <1>2, <3>1, <3>2, <3>3 DEF EnableUser
  <2>3. QED
    BY <1>2, <2>2 DEF EnableUser, MfaTypeOK
<1>3. ASSUME NEW u \in Users, DisableUser(r, u, c)
      PROVE  MfaTypeOK'
  <2>1. [at |-> "disable_write", user |-> u] \in Request
    BY DEF Request, UserRequest
  <2>2. req' \in [Requests -> Request]
    BY <1>3, <2>1, ContinueType, MatchType DEF DisableUser
  <2>3. QED
    BY <1>3, <2>2 DEF DisableUser, MfaTypeOK
<1>4. QED
  BY <1>1, <1>2, <1>3

\* The steps that write keep the types.
LEMMA WriteType ==
    ASSUME MfaTypeOK, NEW r \in Requests
    PROVE  /\ \A x \in Secrets : SetupWrite(r, x) => MfaTypeOK'
           /\ \A list \in SUBSET BackupCodes : EnableWrite(r, list) => MfaTypeOK'
           /\ Consume(r) \/ Bump(r) \/ Drop(r) \/ Spend(r) => MfaTypeOK'
           /\ DisableWrite(r) \/ StoreFails(r) => MfaTypeOK'
<1> USE DEF store, history
<1>1. ASSUME NEW x \in Secrets, SetupWrite(r, x)
      PROVE  MfaTypeOK'
  <2>1. req[r].user \in Users
    BY <1>1, ShapeOf DEF SetupWrite, PeekedRequest
  <2>2. req' \in [Requests -> Request]
    BY <1>1, FinishType DEF SetupWrite
  <2>3. QED
    BY <1>1, <2>1, <2>2 DEF SetupWrite, MfaTypeOK
<1>2. ASSUME NEW list \in SUBSET BackupCodes, EnableWrite(r, list)
      PROVE  MfaTypeOK'
  <2>1. req[r] \in EnableRequest
    BY <1>2, ShapeOf DEF EnableWrite
  <2>2. [at |-> "spend", user |-> req[r].user, ticket |-> req[r].ticket] \in Request
    BY <2>1 DEF Request, EnableRequest, PeekedRequest
  <2>3. req' \in [Requests -> Request]
    BY <1>2, <2>2, ContinueType DEF EnableWrite
  <2>4. QED
    BY <1>2, <2>1, <2>3 DEF EnableWrite, WriteRow, EnableRequest, MfaTypeOK
<1>3. ASSUME Consume(r)
      PROVE  MfaTypeOK'
  <2>1. req[r] \in ConsumeRequest
    BY <1>3, ShapeOf DEF Consume
  <2>2. (IF req[r].ticket = Absent
         THEN [at |-> "disable_write", user |-> req[r].user]
         ELSE [at |-> "spend", user |-> req[r].user, ticket |-> req[r].ticket]) \in Request
    BY <2>1 DEF Request, ConsumeRequest, PeekedRequest, UserRequest
  <2>3. req' \in [Requests -> Request]
    BY <1>3, <2>2, ContinueType DEF Consume
  <2>4. QED
    BY <1>3, <2>1, <2>3 DEF Consume, WriteRow, ConsumeRequest, MfaTypeOK
<1>4. ASSUME Bump(r)
      PROVE  MfaTypeOK'
  <2>1. req[r] \in PeekedRequest /\ req[r].ticket \in Tickets
    BY <1>4, ShapeOf DEF Bump, PeekedRequest
  <2>2. [req[r] EXCEPT !.at = "drop"] \in Request
    BY <2>1, PeekedMoves
  <2>3. req' \in [Requests -> Request]
    BY <1>4, <2>2, ContinueType DEF Bump, Request
  <2>4. QED
    BY <1>4, <2>1, <2>3 DEF Bump, MfaTypeOK
<1>5. ASSUME Drop(r)
      PROVE  MfaTypeOK'
  <2>1. req' \in [Requests -> Request]
    BY <1>5, FinishType DEF Drop
  <2>2. QED
    BY <1>5, <2>1 DEF Drop, DeleteTicket, MfaTypeOK
<1>6. ASSUME Spend(r)
      PROVE  MfaTypeOK'
  <2>1. [at |-> "gate", user |-> req[r].user] \in Request
    BY <1>6, ShapeOf DEF Spend, PeekedRequest, UserRequest, Request
  <2>2. req' \in [Requests -> Request]
    BY <1>6, <2>1, ContinueType DEF Spend
  <2>3. QED
    BY <1>6, <2>2 DEF Spend, DeleteTicket, MfaTypeOK
<1>7. ASSUME DisableWrite(r) \/ StoreFails(r)
      PROVE  MfaTypeOK'
  <2>1. req' \in [Requests -> Request]
    BY <1>7, FinishType DEF DisableWrite, StoreFails
  <2>2. DisableWrite(r) => retired' \subseteq Secrets \cup BackupCodes
    <3>1. ASSUME DisableWrite(r)
          PROVE  req[r].user \in Users
      BY <3>1, ShapeOf DEF DisableWrite, UserRequest
    <3>2. QED
      BY <3>1 DEF DisableWrite, Erase, MfaTypeOK
  <2>3. QED
    BY <1>7, <2>1, <2>2 DEF DisableWrite, StoreFails, Erase, MfaTypeOK
<1>8. QED
  BY <1>1, <1>2, <1>3, <1>4, <1>5, <1>6, <1>7

\* Every step keeps the types.
LEMMA MfaTypeStep ==
    ASSUME MfaTypeOK, [Next]_vars
    PROVE  MfaTypeOK'
<1> USE DEF store, history
<1>1. ASSUME NEW r \in Requests, RequestNext(r)
      PROVE  MfaTypeOK'
  BY <1>1, LoginType, CheckType, WriteType DEF RequestNext
<1>2. ASSUME NEW t \in Tickets, TicketExpires(t)
      PROVE  MfaTypeOK'
  BY <1>2 DEF TicketExpires, MfaTypeOK
<1>3. ASSUME NEW u \in Users, AdminReset(u)
      PROVE  MfaTypeOK'
  BY <1>3 DEF AdminReset, Erase, MfaTypeOK
<1>4. CASE UNCHANGED vars
  BY <1>4 DEF vars, MfaTypeOK
<1>5. QED
  BY <1>1, <1>2, <1>3, <1>4 DEF Next

\* Every variable of the MFA model keeps its type.
THEOREM MfaTypesCorrect == Spec => []MfaTypeOK
<1>1. Init => MfaTypeOK
  BY DEF Init, MfaTypeOK, Request
<1>2. QED
  BY <1>1, MfaTypeStep, PTL DEF Spec

-----------------------------------------------------------------------------
(* An account that demands a code has a secret: inductive with the types.  *)

LEMMA SecretStep ==
    ASSUME MfaTypeOK, EnabledHasSecret, [Next]_vars
    PROVE  EnabledHasSecret'
<1> USE DEF store, history, EnabledHasSecret
<1>1. ASSUME NEW r \in Requests, RequestNext(r)
      PROVE  EnabledHasSecret'
  <2>1. ASSUME UNCHANGED <<enabled, secret, stale>>
        PROVE  EnabledHasSecret'
    BY <2>1
  <2>2. ASSUME Consume(r)
        PROVE  EnabledHasSecret'
    BY <2>2 DEF Consume, WriteRow
  <2>3. ASSUME NEW x \in Secrets, SetupWrite(r, x)
        PROVE  EnabledHasSecret'
    BY <2>3, MfaCodesAssumption DEF SetupWrite, MfaTypeOK
  <2>4. ASSUME NEW list \in SUBSET BackupCodes, EnableWrite(r, list)
        PROVE  EnabledHasSecret'
    <3>1. req[r].code \in Secrets
      BY <2>4, ShapeOf DEF EnableWrite, EnableRequest
    <3>2. QED
      BY <2>4, <3>1, MfaCodesAssumption DEF EnableWrite, WriteRow, MfaTypeOK
  <2>5. ASSUME DisableWrite(r)
        PROVE  EnabledHasSecret'
    BY <2>5 DEF DisableWrite, Erase, MfaTypeOK
  <2>6. QED
    BY <1>1, <2>1, <2>2, <2>3, <2>4, <2>5 DEF RequestNext, Login, LoginTicket,
       VerifyPeek, SetupPeek, EnablePeek, Peek, VerifyUser, EnableUser, DisableUser,
       Bump, Drop, Spend, PasswordGate, StoreFails
<1>2. ASSUME NEW t \in Tickets, TicketExpires(t)
      PROVE  EnabledHasSecret'
  BY <1>2 DEF TicketExpires
<1>3. ASSUME NEW u \in Users, AdminReset(u)
      PROVE  EnabledHasSecret'
  BY <1>3 DEF AdminReset, Erase, MfaTypeOK
<1>4. CASE UNCHANGED vars
  BY <1>4 DEF vars
<1>5. QED
  BY <1>1, <1>2, <1>3, <1>4 DEF Next

\* No account demands a code without a secret to verify it with
\* (mfa.routes 96-99), unless an enable overlapped a reset of the same row.
THEOREM CodesCanBeGiven == Spec => []EnabledHasSecret
<1>1. Init => EnabledHasSecret
  BY DEF Init, EnabledHasSecret
<1>2. QED
  BY <1>1, SecretStep, MfaTypesCorrect, PTL DEF Spec

-----------------------------------------------------------------------------
(* Dead factors.  That a retired factor stays dead is not inductive: a     *)
(* handler writes back the list it read, and what one user gives up could  *)
(* be what another still holds.  FactorInv adds that factors are drawn     *)
(* before they are stored and that nothing is shared between users.        *)

Consuming(r) == req[r].at = "consume"

StoredAreDrawn ==
    /\ retired \subseteq drawn
    /\ \A u \in Users : secret[u] # Absent => secret[u] \in drawn
    /\ \A u \in Users : backup[u] \subseteq drawn

NothingShared ==
    \A u, v \in Users :
        u # v => /\ secret[u] = secret[v] => secret[u] = Absent
                 /\ backup[u] \cap backup[v] = {}

\* The list a handler read is its user's alone.
SeenIsOwn ==
    \A r \in Requests :
        Consuming(r) =>
            /\ req[r].code \in req[r].seen
            /\ req[r].seen \subseteq drawn
            /\ \A v \in Users : v # req[r].user => req[r].seen \cap backup[v] = {}
            /\ \A p \in Requests : Consuming(p) /\ req[p].user # req[r].user
                                       => req[r].seen \cap req[p].seen = {}

FactorInv == StoredAreDrawn /\ NothingShared /\ SeenIsOwn /\ RetiredFactorsAreDead

\* A step after which no handler is about to consume that was not before.
NoNewConsumer == \A p \in Requests : Consuming(p)' => req'[p] = req[p]

LEMMA ContinueIsNoConsumer ==
    ASSUME MfaTypeOK, NEW r \in Requests, NEW q, q.at # "consume", Continue(r, q)
    PROVE  NoNewConsumer
BY DEF MfaTypeOK, Continue, NoNewConsumer, Consuming

LEMMA FinishIsNoConsumer ==
    ASSUME MfaTypeOK, NEW r \in Requests, Finish(r)
    PROVE  NoNewConsumer
BY ContinueIsNoConsumer DEF Finish, Idle

\* Steps that store no factor.
LEMMA FactorsKept ==
    ASSUME FactorInv, NoNewConsumer, UNCHANGED <<secret, backup, retired, stale>>,
           drawn \subseteq drawn'
    PROVE  FactorInv'
<1>1. StoredAreDrawn' /\ NothingShared' /\ RetiredFactorsAreDead'
  BY DEF FactorInv, StoredAreDrawn, NothingShared, RetiredFactorsAreDead
<1>2. \A p \in Requests : Consuming(p)' => Consuming(p) /\ req'[p] = req[p]
  BY DEF NoNewConsumer, Consuming
<1>3. SeenIsOwn'
  BY <1>2 DEF FactorInv, SeenIsOwn
<1>4. QED
  BY <1>1, <1>3 DEF FactorInv

\* A handler reads its user's list.
LEMMA FactorsMatched ==
    ASSUME MfaTypeOK, FactorInv, NEW r \in Requests, NEW u \in Users,
           NEW c \in backup[u], NEW t, MatchBackup(r, u, c, t), UNCHANGED store,
           UNCHANGED <<retired, stale>>
    PROVE  FactorInv'
<1> USE DEF store
<1>1. StoredAreDrawn' /\ NothingShared' /\ RetiredFactorsAreDead'
  BY DEF FactorInv, StoredAreDrawn, NothingShared, RetiredFactorsAreDead
<1>2. /\ req'[r].user = u /\ req'[r].code = c /\ req'[r].seen = backup[u]
      /\ \A p \in Requests \ {r} : req'[p] = req[p]
  BY DEF MatchBackup, Continue, MfaTypeOK
<1>3. SeenIsOwn'
  <2>1. ASSUME NEW p \in Requests, Consuming(p)'
        PROVE  /\ req'[p].code \in req'[p].seen
               /\ req'[p].seen \subseteq drawn
               /\ \A v \in Users : v # req'[p].user => req'[p].seen \cap backup[v] = {}
    <3>1. CASE p = r
      BY <1>2, <3>1 DEF FactorInv, StoredAreDrawn, NothingShared
    <3>2. CASE p # r
      BY <1>2, <2>1, <3>2 DEF FactorInv, SeenIsOwn, Consuming
    <3>3. QED
      BY <3>1, <3>2
  <2>2. ASSUME NEW p \in Requests, Consuming(p)', NEW s \in Requests, Consuming(s)',
               req'[s].user # req'[p].user
        PROVE  req'[p].seen \cap req'[s].seen = {}
    <3>1. CASE p = r
      BY <1>2, <2>1, <2>2, <3>1
    <3>2. CASE s = r
      BY <1>2, <2>1, <2>2, <3>2
    <3>3. CASE p # r /\ s # r
      BY <1>2, <2>2, <3>3 DEF FactorInv, SeenIsOwn, Consuming
    <3>4. QED
      BY <3>1, <3>2, <3>3
  <2>3. QED
    BY <2>1, <2>2 DEF SeenIsOwn
<1>4. QED
  BY <1>1, <1>3 DEF FactorInv

\* A handler writes back the list it read, without the code.
LEMMA FactorsConsumed ==
    ASSUME MfaTypeOK, FactorInv, NEW r \in Requests, Consume(r)
    PROVE  FactorInv'
<1> DEFINE u == req[r].user
           seen == req[r].seen
           code == req[r].code
<1>1. /\ u \in Users /\ seen \subseteq BackupCodes /\ code \in seen /\ seen \subseteq drawn
      /\ \A v \in Users : v # u => seen \cap backup[v] = {}
  BY ShapeOf DEF Consume, ConsumeRequest, FactorInv, SeenIsOwn, Consuming
<1>2. /\ backup' = [backup EXCEPT ![u] = seen \ {code}]
      /\ retired' = retired \cup {code}
      /\ stale' = IF backup[u] = seen THEN stale ELSE stale \cup {u}
      /\ UNCHANGED <<secret, drawn>>
  BY DEF Consume, WriteRow
<1>3. /\ backup'[u] = seen \ {code}
      /\ \A v \in Users : v # u => backup'[v] = backup[v]
  BY <1>1, <1>2 DEF MfaTypeOK
<1>4. NoNewConsumer
  <2>1. CASE req[r].ticket = Absent
    BY <2>1, ContinueIsNoConsumer DEF Consume
  <2>2. CASE req[r].ticket # Absent
    BY <2>2, ContinueIsNoConsumer DEF Consume
  <2>3. QED
    BY <2>1, <2>2
<1>5. StoredAreDrawn'
  BY <1>1, <1>2, <1>3 DEF FactorInv, StoredAreDrawn
<1>6. NothingShared'
  BY <1>1, <1>2, <1>3 DEF FactorInv, NothingShared
<1>7. SeenIsOwn'
  <2>1. ASSUME NEW p \in Requests, Consuming(p)'
        PROVE  Consuming(p) /\ req'[p] = req[p]
    BY <2>1, <1>4 DEF NoNewConsumer, Consuming
  <2>2. ASSUME NEW p \in Requests, Consuming(p), NEW v \in Users, v # req[p].user
        PROVE  req[p].seen \cap backup'[v] = {}
    <3>1. CASE v = u
      BY <1>1, <1>3, <2>2, <3>1 DEF FactorInv, SeenIsOwn, Consuming, Consume
    <3>2. CASE v # u
      BY <1>3, <2>2, <3>2 DEF FactorInv, SeenIsOwn
    <3>3. QED
      BY <3>1, <3>2
  <2>3. QED
    BY <1>2, <2>1, <2>2 DEF FactorInv, SeenIsOwn
<1>8. RetiredFactorsAreDead'
  <2>1. ASSUME NEW v \in Users, v \notin stale'
        PROVE  ({secret[v]} \cup backup'[v]) \cap retired' = {}
    <3>1. v \notin stale
      BY <1>2, <2>1
    <3>2. ({secret[v]} \cup backup[v]) \cap retired = {}
      BY <3>1 DEF FactorInv, RetiredFactorsAreDead
    <3>3. secret[v] # code
      BY <1>1, MfaCodesAssumption DEF MfaTypeOK
    <3>4. code \notin backup'[v] /\ backup'[v] \subseteq backup[v]
      <4>1. CASE v = u
        BY <1>2, <1>3, <2>1, <4>1
      <4>2. CASE v # u
        BY <1>1, <1>3, <4>2
      <4>3. QED
        BY <4>1, <4>2
    <3>5. QED
      BY <1>2, <3>2, <3>3, <3>4
  <2>2. QED
    BY <1>2, <2>1 DEF RetiredFactorsAreDead
<1>9. QED
  BY <1>5, <1>6, <1>7, <1>8 DEF FactorInv

\* A new list of codes: fresh, so neither retired nor anyone else's.
LEMMA FactorsEnabled ==
    ASSUME MfaTypeOK, FactorInv, NEW r \in Requests, NEW list \in SUBSET BackupCodes,
           EnableWrite(r, list)
    PROVE  FactorInv'
<1> DEFINE u == req[r].user
<1>1. u \in Users
  BY ShapeOf DEF EnableWrite, EnableRequest
<1>2. /\ backup'[u] = list
      /\ \A v \in Users : v # u => backup'[v] = backup[v]
      /\ drawn' = drawn \cup list /\ list \cap drawn = {}
      /\ retired' = retired \cup backup[u]
      /\ stale \subseteq stale'
      /\ UNCHANGED secret
  BY <1>1 DEF EnableWrite, WriteRow, MfaTypeOK
<1>3. NoNewConsumer
  BY ContinueIsNoConsumer DEF EnableWrite
<1>4. StoredAreDrawn'
  BY <1>1, <1>2 DEF FactorInv, StoredAreDrawn
<1>5. NothingShared'
  BY <1>1, <1>2 DEF FactorInv, NothingShared, StoredAreDrawn
<1>6. SeenIsOwn'
  <2>1. ASSUME NEW p \in Requests, Consuming(p)'
        PROVE  Consuming(p) /\ req'[p] = req[p]
    BY <2>1, <1>3 DEF NoNewConsumer, Consuming
  <2>2. ASSUME NEW p \in Requests, Consuming(p), NEW v \in Users, v # req[p].user
        PROVE  req[p].seen \cap backup'[v] = {}
    BY <1>2, <2>2 DEF FactorInv, SeenIsOwn
  <2>3. QED
    BY <1>2, <2>1, <2>2 DEF FactorInv, SeenIsOwn
<1>7. RetiredFactorsAreDead'
  <2>1. ASSUME NEW v \in Users, v \notin stale'
        PROVE  ({secret[v]} \cup backup'[v]) \cap retired' = {}
    <3>1. ({secret[v]} \cup backup[v]) \cap retired = {}
      BY <1>2, <2>1 DEF FactorInv, RetiredFactorsAreDead
    <3>2. secret[v] \notin backup[u]
      BY <1>1, MfaCodesAssumption DEF MfaTypeOK
    <3>3. backup'[v] \cap retired' = {}
      <4>1. CASE v = u
        BY <1>1, <1>2, <4>1 DEF FactorInv, StoredAreDrawn
      <4>2. CASE v # u
        BY <1>1, <1>2, <3>1, <4>2 DEF FactorInv, NothingShared
      <4>3. QED
        BY <4>1, <4>2
    <3>4. QED
      BY <1>2, <3>1, <3>2, <3>3
  <2>2. QED
    BY <1>2, <2>1 DEF RetiredFactorsAreDead
<1>8. QED
  BY <1>4, <1>5, <1>6, <1>7 DEF FactorInv

\* A new secret: fresh likewise.
LEMMA FactorsSetUp ==
    ASSUME MfaTypeOK, FactorInv, NEW r \in Requests, NEW x \in Secrets, SetupWrite(r, x)
    PROVE  FactorInv'
<1> DEFINE u == req[r].user
<1>1. u \in Users
  BY ShapeOf DEF SetupWrite, PeekedRequest
<1>2. /\ secret'[u] = x
      /\ \A v \in Users : v # u => secret'[v] = secret[v]
      /\ drawn' = drawn \cup {x} /\ x \notin drawn
      /\ retired' = retired \cup ({secret[u]} \ {Absent})
      /\ UNCHANGED <<backup, stale>>
  BY <1>1 DEF SetupWrite, MfaTypeOK
<1>3. NoNewConsumer
  BY FinishIsNoConsumer DEF SetupWrite
<1>4. StoredAreDrawn'
  BY <1>1, <1>2 DEF FactorInv, StoredAreDrawn
<1>5. NothingShared'
  BY <1>1, <1>2, MfaCodesAssumption DEF FactorInv, NothingShared, StoredAreDrawn
<1>6. SeenIsOwn'
  <2>1. ASSUME NEW p \in Requests, Consuming(p)'
        PROVE  Consuming(p) /\ req'[p] = req[p]
    BY <2>1, <1>3 DEF NoNewConsumer, Consuming
  <2>2. QED
    BY <1>2, <2>1 DEF FactorInv, SeenIsOwn
<1>7. RetiredFactorsAreDead'
  <2>1. ASSUME NEW v \in Users, v \notin stale
        PROVE  ({secret'[v]} \cup backup[v]) \cap retired' = {}
    <3>1. ({secret[v]} \cup backup[v]) \cap retired = {}
      BY <2>1 DEF FactorInv, RetiredFactorsAreDead
    <3>2. backup[v] \cap retired' = {}
      BY <1>1, <1>2, <3>1, MfaCodesAssumption DEF MfaTypeOK
    <3>3. secret'[v] \notin retired'
      <4>1. CASE v = u
        BY <1>1, <1>2, <4>1 DEF FactorInv, StoredAreDrawn
      <4>2. CASE v # u
        BY <1>1, <1>2, <3>1, <4>2 DEF FactorInv, NothingShared
      <4>3. QED
        BY <4>1, <4>2
    <3>4. QED
      BY <3>2, <3>3
  <2>2. QED
    BY <1>2, <2>1 DEF RetiredFactorsAreDead
<1>8. QED
  BY <1>4, <1>5, <1>6, <1>7 DEF FactorInv

\* Both factors go.
LEMMA FactorsErased ==
    ASSUME MfaTypeOK, FactorInv, NEW u \in Users, Erase(u), NoNewConsumer,
           UNCHANGED <<drawn, stale>>
    PROVE  FactorInv'
<1>1. /\ secret'[u] = Absent /\ backup'[u] = {}
      /\ \A v \in Users : v # u => secret'[v] = secret[v] /\ backup'[v] = backup[v]
      /\ retired' = retired \cup backup[u] \cup ({secret[u]} \ {Absent})
  BY DEF Erase, MfaTypeOK
<1>2. StoredAreDrawn'
  BY <1>1 DEF FactorInv, StoredAreDrawn
<1>3. NothingShared'
  BY <1>1 DEF FactorInv, NothingShared
<1>4. SeenIsOwn'
  <2>1. ASSUME NEW p \in Requests, Consuming(p)'
        PROVE  Consuming(p) /\ req'[p] = req[p]
    BY <2>1 DEF NoNewConsumer, Consuming
  <2>2. \A v \in Users : backup'[v] \subseteq backup[v]
    BY <1>1
  <2>3. QED
    BY <2>1, <2>2 DEF FactorInv, SeenIsOwn
<1>5. RetiredFactorsAreDead'
  <2>1. ASSUME NEW v \in Users, v \notin stale
        PROVE  ({secret'[v]} \cup backup'[v]) \cap retired' = {}
    <3>1. CASE v = u
      BY <1>1, <3>1, MfaCodesAssumption DEF MfaTypeOK
    <3>2. CASE v # u
      <4>1. ({secret[v]} \cup backup[v]) \cap retired = {}
        BY <2>1 DEF FactorInv, RetiredFactorsAreDead
      <4>2. secret[v] \notin backup[u] /\ backup[v] \cap ({secret[u]} \ {Absent}) = {}
        BY MfaCodesAssumption DEF MfaTypeOK
      <4>3. backup[v] \cap backup[u] = {} /\ secret[v] \notin {secret[u]} \ {Absent}
        BY <3>2 DEF FactorInv, NothingShared
      <4>4. QED
        BY <1>1, <3>2, <4>1, <4>2, <4>3
    <3>3. QED
      BY <3>1, <3>2
  <2>2. QED
    BY <2>1 DEF RetiredFactorsAreDead
<1>6. QED
  BY <1>2, <1>3, <1>4, <1>5 DEF FactorInv

\* The steps that check a code match it, or leave the factors alone.
LEMMA FactorsChecked ==
    ASSUME MfaTypeOK, FactorInv, NEW r \in Requests, NEW c,
           VerifyUser(r, c) \/ EnableUser(r, c) \/ \E u \in Users : DisableUser(r, u, c)
    PROVE  FactorInv'
<1> USE DEF store, history
<1>1. UNCHANGED <<secret, backup, retired, stale, drawn>>
  BY DEF VerifyUser, EnableUser, DisableUser
<1>2. ASSUME NEW u \in Users, NEW t, c \in backup[u], MatchBackup(r, u, c, t)
      PROVE  FactorInv'
  <2>1. UNCHANGED store
    BY DEF VerifyUser, EnableUser, DisableUser
  <2>2. QED
    BY <1>1, <1>2, <2>1, FactorsMatched
<1>3. ASSUME NoNewConsumer
      PROVE  FactorInv'
  BY <1>1, <1>3, FactorsKept
<1>4. CASE VerifyUser(r, c)
  <2>1. req[r] \in PeekedRequest /\ req[r].user \in Users
    BY <1>4, ShapeOf DEF VerifyUser, PeekedRequest
  <2>2. ASSUME NEW at \in {"bump", "drop", "spend"},
               Continue(r, [req[r] EXCEPT !.at = at])
        PROVE  NoNewConsumer
    BY <2>1, <2>2, ContinueIsNoConsumer DEF PeekedRequest
  <2>3. QED
    BY <1>2, <1>3, <1>4, <2>1, <2>2 DEF VerifyUser, Guess
<1>5. CASE EnableUser(r, c)
  <2>1. req[r] \in PeekedRequest
    BY <1>5, ShapeOf DEF EnableUser
  <2>2. Guess(r) => NoNewConsumer
    BY <2>1, ContinueIsNoConsumer DEF Guess, PeekedRequest
  <2>3. Finish(r) => NoNewConsumer
    BY FinishIsNoConsumer
  <2>4. Continue(r, [at |-> "enable_write", user |-> req[r].user,
                     ticket |-> req[r].ticket, code |-> c]) => NoNewConsumer
    BY ContinueIsNoConsumer
  <2>5. QED
    BY <1>3, <1>5, <2>2, <2>3, <2>4 DEF EnableUser
<1>6. CASE \E u \in Users : DisableUser(r, u, c)
  <2>1. PICK u \in Users : DisableUser(r, u, c)
    BY <1>6
  <2>2. Continue(r, [at |-> "disable_write", user |-> u]) => NoNewConsumer
    BY ContinueIsNoConsumer
  <2>3. QED
    BY <1>2, <1>3, <2>1, <2>2 DEF DisableUser
<1>7. QED
  BY <1>4, <1>5, <1>6

\* The remaining steps of a handler store no factor.
LEMMA FactorsUntouched ==
    ASSUME MfaTypeOK, FactorInv, NEW r \in Requests,
           \/ \E u \in Users : Login(r, u)
           \/ \E t \in Tickets : \/ LoginTicket(r, t) \/ VerifyPeek(r, t)
                                 \/ SetupPeek(r, t) \/ EnablePeek(r, t)
           \/ Bump(r) \/ Drop(r) \/ Spend(r) \/ PasswordGate(r) \/ StoreFails(r)
    PROVE  FactorInv'
<1> USE DEF store, history
<1>1. UNCHANGED <<secret, backup, retired, stale>> /\ drawn \subseteq drawn'
  BY DEF Login, LoginTicket, VerifyPeek, SetupPeek, EnablePeek, Peek, Bump, Drop, Spend,
     PasswordGate, StoreFails
<1>2. ASSUME NEW u \in Users, Login(r, u)
      PROVE  NoNewConsumer
  <2>1. \/ Continue(r, [at |-> "login_ticket", user |-> u, enabled |-> enabled[u]])
        \/ Continue(r, [at |-> "gate", user |-> u])
    BY <1>2 DEF Login
  <2>2. QED
    BY <2>1, ContinueIsNoConsumer
<1>3. ASSUME NEW t \in Tickets, VerifyPeek(r, t) \/ SetupPeek(r, t) \/ EnablePeek(r, t)
      PROVE  NoNewConsumer
  BY <1>3, ContinueIsNoConsumer DEF VerifyPeek, SetupPeek, EnablePeek, Peek
<1>4. ASSUME Bump(r)
      PROVE  NoNewConsumer
  <2>1. [req[r] EXCEPT !.at = "drop"].at # "consume"
    BY <1>4, ShapeOf DEF Bump, PeekedRequest
  <2>2. Continue(r, [req[r] EXCEPT !.at = "drop"]) \/ Continue(r, Idle)
    BY <1>4 DEF Bump
  <2>3. QED
    BY <2>1, <2>2, ContinueIsNoConsumer DEF Idle
<1>5. ASSUME Spend(r)
      PROVE  NoNewConsumer
  BY <1>5, ContinueIsNoConsumer DEF Spend
<1>6. ASSUME Finish(r)
      PROVE  NoNewConsumer
  BY <1>6, FinishIsNoConsumer
<1>7. NoNewConsumer
  BY <1>2, <1>3, <1>4, <1>5, <1>6 DEF LoginTicket, Drop, PasswordGate, StoreFails
<1>8. QED
  BY <1>1, <1>7, FactorsKept

\* Every step keeps FactorInv.
LEMMA FactorStep ==
    ASSUME MfaTypeOK, FactorInv, [Next]_vars
    PROVE  FactorInv'
<1> USE DEF store, history
<1>1. ASSUME NEW r \in Requests, RequestNext(r)
      PROVE  FactorInv'
  <2>1. ASSUME DisableWrite(r)
        PROVE  FactorInv'
    <3>1. PICK u \in Users : u = req[r].user
      BY <2>1, ShapeOf DEF DisableWrite, UserRequest
    <3>2. NoNewConsumer
      BY <2>1, FinishIsNoConsumer DEF DisableWrite
    <3>3. QED
      BY <2>1, <3>1, <3>2, FactorsErased DEF DisableWrite
  <2>2. QED
    BY <1>1, <2>1, FactorsChecked, FactorsUntouched, FactorsConsumed, FactorsEnabled,
       FactorsSetUp DEF RequestNext
<1>2. ASSUME NEW t \in Tickets, TicketExpires(t)
      PROVE  FactorInv'
  <2>1. NoNewConsumer
    BY <1>2 DEF TicketExpires, NoNewConsumer
  <2>2. QED
    BY <1>2, <2>1, FactorsKept DEF TicketExpires
<1>3. ASSUME NEW u \in Users, AdminReset(u)
      PROVE  FactorInv'
  <2>1. NoNewConsumer
    BY <1>3 DEF AdminReset, NoNewConsumer
  <2>2. QED
    BY <1>3, <2>1, FactorsErased DEF AdminReset
<1>4. CASE UNCHANGED vars
  <2>1. NoNewConsumer
    BY <1>4 DEF vars, NoNewConsumer
  <2>2. QED
    BY <1>4, <2>1, FactorsKept DEF vars
<1>5. QED
  BY <1>1, <1>2, <1>3, <1>4 DEF Next

\* A used backup code, a replaced or erased secret and a replaced or erased
\* list never become valid again (mfa.routes 51-70, 152-155, 192-195,
\* 279-282) for a user whose row no two handlers wrote over each other.
THEOREM DeadFactorsStayDead == Spec => []RetiredFactorsAreDead
<1>1. Init => FactorInv
  BY DEF Init, FactorInv, StoredAreDrawn, NothingShared, SeenIsOwn, RetiredFactorsAreDead,
     Consuming, Idle
<1>2. FactorInv => RetiredFactorsAreDead
  BY DEF FactorInv
<1>3. QED
  BY <1>1, <1>2, FactorStep, MfaTypesCorrect, PTL DEF Spec

-----------------------------------------------------------------------------
(* The guesses of a ticket, when Redis does not fail.                      *)

\* The handlers at one of some control points, with the ticket.
Guessing(t) == {r \in Requests : req[r].at \in {"verify_user", "enable_user"} /\ req[r].ticket = t}
Bumping(t) == {r \in Requests : req[r].at = "bump" /\ req[r].ticket = t}
Dropping(t) == {r \in Requests : req[r].at = "drop" /\ req[r].ticket = t}

\* A live ticket's guesses are counted or about to be, and at the limit somebody
\* is about to drop it; a dead one has only the guesses in flight left.
TicketInv(t) ==
    /\ t \notin drawn => /\ tickets[t] = Absent /\ guesses[t] = 0 /\ attempts[t] = 0
                         /\ Guessing(t) = {} /\ Bumping(t) = {} /\ Dropping(t) = {}
    /\ tickets[t] # Absent => /\ guesses[t] = attempts[t] + Cardinality(Bumping(t))
                              /\ attempts[t] < MaxAttempts + Cardinality(Dropping(t))
    /\ tickets[t] = Absent => guesses[t] + Cardinality(Guessing(t))
                                 < MaxAttempts + Cardinality(Requests)

LEMMA DisjointSizes ==
    ASSUME NEW S, IsFiniteSet(S), NEW T, IsFiniteSet(T), S \cap T = {}
    PROVE  /\ IsFiniteSet(S \cup T)
           /\ Cardinality(S \cup T) = Cardinality(S) + Cardinality(T)
<1>1. /\ IsFiniteSet(S \cup T)
      /\ Cardinality(S \cup T) = Cardinality(S) + Cardinality(T) - Cardinality(S \cap T)
  BY FS_Union
<1>2. Cardinality(S \cap T) = 0
  BY FS_EmptySet
<1>3. Cardinality(S) \in Nat /\ Cardinality(T) \in Nat
  BY FS_CardinalityType
<1>4. QED
  BY <1>1, <1>2, <1>3

\* The sets of handlers are finite and disjoint.
LEMMA TicketSizes ==
    ASSUME NEW t
    PROVE  /\ IsFiniteSet(Guessing(t)) /\ Cardinality(Guessing(t)) \in Nat
           /\ IsFiniteSet(Bumping(t)) /\ Cardinality(Bumping(t)) \in Nat
           /\ IsFiniteSet(Dropping(t)) /\ Cardinality(Dropping(t)) \in Nat
           /\ Cardinality(Requests) \in Nat
           /\ Cardinality(Guessing(t)) + Cardinality(Bumping(t)) + Cardinality(Dropping(t))
                  <= Cardinality(Requests)
<1>1. /\ Guessing(t) \in SUBSET Requests /\ Bumping(t) \in SUBSET Requests
      /\ Dropping(t) \in SUBSET Requests
  BY DEF Guessing, Bumping, Dropping
<1>2. /\ IsFiniteSet(Guessing(t)) /\ IsFiniteSet(Bumping(t)) /\ IsFiniteSet(Dropping(t))
      /\ Cardinality(Guessing(t)) \in Nat /\ Cardinality(Bumping(t)) \in Nat
      /\ Cardinality(Dropping(t)) \in Nat /\ Cardinality(Requests) \in Nat
  BY <1>1, FS_Subset, FS_CardinalityType, MfaRequestsAssumption
<1> DEFINE GB == Guessing(t) \cup Bumping(t)
<1>3. /\ Guessing(t) \cap Bumping(t) = {} /\ GB \cap Dropping(t) = {}
      /\ GB \cup Dropping(t) \in SUBSET Requests
  BY DEF Guessing, Bumping, Dropping
<1>5. /\ IsFiniteSet(GB)
      /\ Cardinality(GB) = Cardinality(Guessing(t)) + Cardinality(Bumping(t))
  BY <1>2, <1>3, DisjointSizes
<1>6. Cardinality(GB \cup Dropping(t)) = Cardinality(GB) + Cardinality(Dropping(t))
  <2> HIDE DEF GB
  <2>1. QED
    BY <1>2, <1>3, <1>5, DisjointSizes
<1>7. Cardinality(GB \cup Dropping(t)) <= Cardinality(Requests)
  <2> HIDE DEF GB
  <2>1. QED
    BY <1>3, FS_Subset, MfaRequestsAssumption
<1>8. QED
  BY <1>2, <1>5, <1>6, <1>7

\* While a ticket lives its guesses leave room for those in flight too.
LEMMA LiveHasRoom ==
    ASSUME MfaTypeOK, NEW t \in Tickets, TicketInv(t)
    PROVE  guesses[t] + Cardinality(Guessing(t)) < MaxAttempts + Cardinality(Requests)
<1>1. guesses[t] \in Nat /\ attempts[t] \in Nat
  BY DEF MfaTypeOK
<1>2. QED
  BY <1>1, TicketSizes, MfaBoundsAssumption DEF TicketInv

\* A step that does not touch the ticket, nor its counter, nor who counts.
LEMMA CalmKeepsTicket ==
    ASSUME MfaTypeOK, MfaTypeOK', NEW t \in Tickets, TicketInv(t),
           tickets'[t] = tickets[t], attempts'[t] = attempts[t], guesses'[t] = guesses[t],
           drawn \subseteq drawn',
           Bumping(t)' = Bumping(t), Dropping(t) \subseteq Dropping(t)',
           Dropping(t)' \subseteq Dropping(t) \cup Guessing(t),
           Guessing(t)' \subseteq Guessing(t) \/ tickets[t] # Absent
    PROVE  TicketInv(t)'
<1>1. /\ IsFiniteSet(Dropping(t)') /\ Cardinality(Dropping(t)') \in Nat
      /\ Cardinality(Guessing(t)') \in Nat
  <2>1. Guessing(t)' \in SUBSET Requests /\ Dropping(t)' \in SUBSET Requests
    BY DEF Guessing, Dropping
  <2>2. QED
    BY <2>1, FS_Subset, FS_CardinalityType, MfaRequestsAssumption
<1>2. Cardinality(Dropping(t)) <= Cardinality(Dropping(t)')
  BY <1>1, FS_Subset
<1>3. guesses[t] \in Nat /\ attempts[t] \in Nat
  BY DEF MfaTypeOK
<1>4. t \notin drawn' => /\ Guessing(t)' = {} /\ Bumping(t)' = {} /\ Dropping(t)' = {}
  BY DEF TicketInv
<1>5. tickets[t] = Absent => Cardinality(Guessing(t)') <= Cardinality(Guessing(t))
  BY TicketSizes, FS_Subset
<1>6. tickets[t] # Absent => attempts[t] < MaxAttempts + Cardinality(Dropping(t)')
  BY <1>1, <1>2, <1>3, TicketSizes, MfaBoundsAssumption DEF TicketInv
<1>7. tickets[t] = Absent => guesses[t] + Cardinality(Guessing(t)')
                                < MaxAttempts + Cardinality(Requests)
  BY <1>1, <1>3, <1>5, TicketSizes, MfaBoundsAssumption DEF TicketInv
<1>8. QED
  BY <1>4, <1>6, <1>7 DEF TicketInv

\* The ticket goes.
LEMMA KillKeepsTicket ==
    ASSUME MfaTypeOK, NEW t \in Tickets, TicketInv(t),
           tickets'[t] = Absent, attempts'[t] \in {0, attempts[t]}, guesses'[t] = guesses[t],
           drawn \subseteq drawn',
           Bumping(t)' \subseteq Bumping(t), Dropping(t)' \subseteq Dropping(t),
           Guessing(t)' \subseteq Guessing(t)
    PROVE  TicketInv(t)'
<1>1. Cardinality(Guessing(t)') <= Cardinality(Guessing(t)) /\ Cardinality(Guessing(t)') \in Nat
  BY TicketSizes, FS_Subset, FS_CardinalityType
<1>2. guesses[t] \in Nat
  BY DEF MfaTypeOK
<1>3. guesses'[t] + Cardinality(Guessing(t)') < MaxAttempts + Cardinality(Requests)
  BY <1>1, <1>2, LiveHasRoom, TicketSizes, MfaBoundsAssumption
<1>4. t \notin drawn' => /\ Guessing(t)' = {} /\ Bumping(t)' = {} /\ Dropping(t)' = {}
                         /\ attempts'[t] = 0 /\ guesses'[t] = 0
  BY DEF TicketInv
<1>5. QED
  BY <1>3, <1>4 DEF TicketInv

\* A ticket is handed out.
LEMMA OpenKeepsTicket ==
    ASSUME MfaTypeOK, NEW t \in Tickets, TicketInv(t), t \notin drawn, t \in drawn',
           tickets'[t] # Absent, attempts'[t] = attempts[t], guesses'[t] = guesses[t],
           Bumping(t)' = Bumping(t), Dropping(t)' = Dropping(t)
    PROVE  TicketInv(t)'
<1>1. Cardinality(Bumping(t)') = 0 /\ Cardinality(Dropping(t)') = 0
  BY FS_EmptySet DEF TicketInv
<1>2. attempts'[t] = 0 /\ guesses'[t] = 0
  BY DEF TicketInv
<1>3. QED
  BY <1>1, <1>2, MfaBoundsAssumption DEF TicketInv

\* A handler that neither counts nor drops, and may give up guessing.
LEMMA MoverKeepsTickets ==
    ASSUME MfaTypeOK, MfaTypeOK', \A t \in Tickets : TicketInv(t), NEW r \in Requests,
           \A p \in Requests \ {r} : req'[p] = req[p],
           req[r].at \notin {"bump", "drop"},
           req'[r].at \notin {"bump", "verify_user", "enable_user"},
           req'[r].at = "drop" => /\ req[r].at \in {"verify_user", "enable_user"}
                                  /\ req'[r].ticket = req[r].ticket,
           UNCHANGED <<tickets, attempts, guesses>>, drawn \subseteq drawn'
    PROVE  \A t \in Tickets : TicketInv(t)'
<1>1. ASSUME NEW t \in Tickets
      PROVE  TicketInv(t)'
  <2>1. Bumping(t)' = Bumping(t)
    BY DEF Bumping
  <2>2. Dropping(t) \subseteq Dropping(t)' /\ Dropping(t)' \subseteq Dropping(t) \cup Guessing(t)
    BY DEF Dropping, Guessing
  <2>3. Guessing(t)' \subseteq Guessing(t)
    BY DEF Guessing
  <2>4. QED
    BY <2>1, <2>2, <2>3, CalmKeepsTicket
<1>2. QED
  BY <1>1

LEMMA PeekKeepsTickets ==
    ASSUME MfaTypeOK, MfaTypeOK', \A t \in Tickets : TicketInv(t), NEW r \in Requests,
           NEW k \in Tickets, NEW kind, NEW at \in {"verify_user", "setup_write",
           "enable_user"}, Peek(r, k, kind, at)
    PROVE  \A t \in Tickets : TicketInv(t)'
<1>1. /\ req[r].at = "idle" /\ tickets[k] # Absent
      /\ req'[r].at = at /\ req'[r].ticket = k
      /\ \A p \in Requests \ {r} : req'[p] = req[p]
  BY DEF Peek, Holds, Continue, Idle, MfaTypeOK
<1>2. UNCHANGED <<tickets, attempts, guesses, drawn>>
  BY DEF Peek, store, history
<1>3. ASSUME NEW t \in Tickets
      PROVE  TicketInv(t)'
  <2>1. Bumping(t)' = Bumping(t) /\ Dropping(t)' = Dropping(t)
    BY <1>1 DEF Bumping, Dropping
  <2>2. Guessing(t)' \subseteq Guessing(t) \/ tickets[t] # Absent
    BY <1>1 DEF Guessing
  <2>3. QED
    BY <1>2, <2>1, <2>2, CalmKeepsTicket
<1>4. QED
  BY <1>3

\* A wrong code: one guess more, one handler about to count it.
LEMMA GuessKeepsTickets ==
    ASSUME MfaTypeOK, MfaTypeOK', \A t \in Tickets : TicketInv(t), NEW r \in Requests,
           req[r].at \in {"verify_user", "enable_user"}, Guess(r), UNCHANGED store
    PROVE  \A t \in Tickets : TicketInv(t)'
<1>1. req[r] \in PeekedRequest
  BY ShapeOf
<1>2. PICK k \in Tickets : k = req[r].ticket
  BY <1>1 DEF PeekedRequest
<1>3. /\ req'[r].at = "bump" /\ req'[r].ticket = k
      /\ \A p \in Requests \ {r} : req'[p] = req[p]
  BY <1>1, <1>2 DEF Guess, Continue, MfaTypeOK, PeekedRequest
<1>4. /\ guesses' = [guesses EXCEPT ![k] = @ + 1]
      /\ UNCHANGED <<tickets, attempts, drawn>>
  BY <1>2 DEF Guess, store
<1>5. ASSUME NEW t \in Tickets \ {k}
      PROVE  TicketInv(t)'
  <2>1. /\ Bumping(t)' = Bumping(t) /\ Dropping(t)' = Dropping(t)
        /\ Guessing(t)' = Guessing(t)
    BY <1>2, <1>3 DEF Bumping, Dropping, Guessing
  <2>2. guesses'[t] = guesses[t]
    BY <1>4 DEF MfaTypeOK
  <2>3. QED
    BY <1>4, <2>1, <2>2, CalmKeepsTicket
<1>6. TicketInv(k)'
  <2>1. /\ Guessing(k)' = Guessing(k) \ {r} /\ r \in Guessing(k)
        /\ Bumping(k)' = Bumping(k) \cup {r} /\ r \notin Bumping(k)
        /\ Dropping(k)' = Dropping(k)
    BY <1>2, <1>3 DEF Bumping, Dropping, Guessing
  <2>2. /\ Cardinality(Guessing(k)') = Cardinality(Guessing(k)) - 1
        /\ Cardinality(Bumping(k)') = Cardinality(Bumping(k)) + 1
        /\ Cardinality(Dropping(k)') = Cardinality(Dropping(k))
    BY <2>1, TicketSizes, FS_AddElement, FS_RemoveElement
  <2>3. guesses'[k] = guesses[k] + 1 /\ guesses[k] \in Nat /\ attempts[k] \in Nat
    BY <1>4 DEF MfaTypeOK
  <2>4. k \in drawn
    BY <2>1 DEF TicketInv
  <2>5. tickets[k] # Absent => /\ guesses'[k] = attempts[k] + Cardinality(Bumping(k)')
                               /\ attempts[k] < MaxAttempts + Cardinality(Dropping(k)')
    BY <2>2, <2>3, TicketSizes DEF TicketInv
  <2>6. tickets[k] = Absent => guesses'[k] + Cardinality(Guessing(k)')
                                  < MaxAttempts + Cardinality(Requests)
    <3>1. tickets[k] = Absent => guesses[k] + Cardinality(Guessing(k))
                                    < MaxAttempts + Cardinality(Requests)
      BY DEF TicketInv
    <3>2. guesses'[k] + Cardinality(Guessing(k)') = guesses[k] + Cardinality(Guessing(k))
      BY <2>2, <2>3, TicketSizes
    <3>3. QED
      BY <3>1, <3>2
  <2>7. QED
    BY <1>4, <2>4, <2>5, <2>6 DEF TicketInv
<1>7. QED
  BY <1>5, <1>6

\* The count: at the limit the handler goes on to drop the ticket.
LEMMA BumpKeepsTickets ==
    ASSUME MfaTypeOK, MfaTypeOK', \A t \in Tickets : TicketInv(t), NEW r \in Requests, Bump(r)
    PROVE  \A t \in Tickets : TicketInv(t)'
<1>1. req[r] \in PeekedRequest /\ req[r].at = "bump"
  BY ShapeOf DEF Bump
<1>2. PICK k \in Tickets : k = req[r].ticket
  BY <1>1 DEF PeekedRequest
<1>3. /\ \A p \in Requests \ {r} : req'[p] = req[p]
      /\ IF attempts[k] + 1 >= MaxAttempts THEN req'[r].at = "drop" /\ req'[r].ticket = k
         ELSE req'[r].at = "idle"
  BY <1>1, <1>2 DEF Bump, Continue, MfaTypeOK, PeekedRequest, Idle
<1>4. /\ attempts' = [attempts EXCEPT ![k] = attempts[k] + 1]
      /\ UNCHANGED <<tickets, guesses, drawn>>
  BY <1>2 DEF Bump, history
<1>5. ASSUME NEW t \in Tickets \ {k}
      PROVE  TicketInv(t)'
  <2>1. /\ Bumping(t)' = Bumping(t) /\ Dropping(t)' = Dropping(t)
        /\ Guessing(t)' = Guessing(t)
    BY <1>1, <1>2, <1>3 DEF Bumping, Dropping, Guessing
  <2>2. attempts'[t] = attempts[t]
    BY <1>4 DEF MfaTypeOK
  <2>3. QED
    BY <1>4, <2>1, <2>2, CalmKeepsTicket
<1>6. TicketInv(k)'
  <2>1. /\ Guessing(k)' = Guessing(k)
        /\ Bumping(k)' = Bumping(k) \ {r} /\ r \in Bumping(k)
        /\ r \notin Dropping(k)
        /\ Dropping(k)' = IF attempts[k] + 1 >= MaxAttempts THEN Dropping(k) \cup {r}
                          ELSE Dropping(k)
    BY <1>1, <1>2, <1>3 DEF Bumping, Dropping, Guessing
  <2>2. /\ Cardinality(Bumping(k)') = Cardinality(Bumping(k)) - 1
        /\ Cardinality(Dropping(k)') = IF attempts[k] + 1 >= MaxAttempts
                                       THEN Cardinality(Dropping(k)) + 1
                                       ELSE Cardinality(Dropping(k))
    BY <2>1, TicketSizes, FS_AddElement, FS_RemoveElement
  <2>3. attempts'[k] = attempts[k] + 1 /\ attempts[k] \in Nat /\ guesses[k] \in Nat
    BY <1>4 DEF MfaTypeOK
  <2>4. k \in drawn
    BY <2>1 DEF TicketInv
  <2>5. ASSUME tickets[k] # Absent
        PROVE  /\ guesses[k] = attempts'[k] + Cardinality(Bumping(k)')
               /\ attempts'[k] < MaxAttempts + Cardinality(Dropping(k)')
    <3>1. /\ guesses[k] = attempts[k] + Cardinality(Bumping(k))
          /\ attempts[k] < MaxAttempts + Cardinality(Dropping(k))
      BY <2>5 DEF TicketInv
    <3>2. Cardinality(Bumping(k)) \in Nat /\ Cardinality(Dropping(k)) \in Nat
      BY TicketSizes
    <3>3. guesses[k] = attempts'[k] + Cardinality(Bumping(k)')
      BY <3>1, <3>2, <2>2, <2>3
    <3>4. attempts'[k] < MaxAttempts + Cardinality(Dropping(k)')
      BY <3>1, <3>2, <2>2, <2>3, MfaBoundsAssumption
    <3>5. QED
      BY <3>3, <3>4
  <2>6. QED
    BY <1>4, <2>1, <2>4, <2>5 DEF TicketInv
<1>7. QED
  BY <1>5, <1>6

\* The ticket is deleted, at the limit or once it is spent.
LEMMA DeleteKeepsTickets ==
    ASSUME MfaTypeOK, MfaTypeOK', \A t \in Tickets : TicketInv(t), NEW r \in Requests,
           Drop(r) \/ Spend(r)
    PROVE  \A t \in Tickets : TicketInv(t)'
<1>1. req[r] \in PeekedRequest /\ req[r].at \in {"drop", "spend"}
  BY ShapeOf DEF Drop, Spend
<1>2. PICK k \in Tickets : k = req[r].ticket
  BY <1>1 DEF PeekedRequest
<1>3. /\ \A p \in Requests \ {r} : req'[p] = req[p]
      /\ req'[r].at \in {"idle", "gate"}
  BY DEF Drop, Spend, Finish, Continue, MfaTypeOK, Idle
<1>4. DeleteTicket(k) /\ UNCHANGED <<guesses, drawn>>
  BY <1>2 DEF Drop, Spend, history
<1>5. ASSUME NEW t \in Tickets \ {k}
      PROVE  TicketInv(t)'
  <2>1. /\ Bumping(t)' = Bumping(t) /\ Dropping(t)' = Dropping(t)
        /\ Guessing(t)' = Guessing(t)
    BY <1>1, <1>2, <1>3 DEF Bumping, Dropping, Guessing
  <2>2. tickets'[t] = tickets[t] /\ attempts'[t] = attempts[t]
    BY <1>4 DEF DeleteTicket, MfaTypeOK
  <2>3. QED
    BY <1>4, <2>1, <2>2, CalmKeepsTicket
<1>6. TicketInv(k)'
  <2>1. /\ Guessing(k)' \subseteq Guessing(k) /\ Bumping(k)' \subseteq Bumping(k)
        /\ Dropping(k)' \subseteq Dropping(k)
    BY <1>3 DEF Bumping, Dropping, Guessing
  <2>2. tickets'[k] = Absent /\ attempts'[k] = 0
    BY <1>4 DEF DeleteTicket, MfaTypeOK
  <2>3. QED
    BY <1>4, <2>1, <2>2, KillKeepsTicket
<1>7. QED
  BY <1>5, <1>6

\* A ticket is handed out by a handler that then is idle.
LEMMA GiveKeepsTickets ==
    ASSUME MfaTypeOK, MfaTypeOK', \A t \in Tickets : TicketInv(t), NEW r \in Requests,
           req[r].at \in {"login_ticket", "gate"}, Finish(r), NEW k \in Tickets \ drawn,
           NEW v, v # Absent, tickets' = [tickets EXCEPT ![k] = v],
           drawn' = drawn \cup {k}, UNCHANGED <<attempts, guesses>>
    PROVE  \A t \in Tickets : TicketInv(t)'
<1>1. req'[r].at = "idle" /\ \A p \in Requests \ {r} : req'[p] = req[p]
  BY FinishType DEF Idle
<1>2. ASSUME NEW t \in Tickets
      PROVE  /\ Bumping(t)' = Bumping(t) /\ Dropping(t)' = Dropping(t)
             /\ Guessing(t)' = Guessing(t)
  BY <1>1 DEF Bumping, Dropping, Guessing
<1>3. ASSUME NEW t \in Tickets \ {k}
      PROVE  TicketInv(t)'
  <2>1. tickets'[t] = tickets[t]
    BY DEF MfaTypeOK
  <2>2. QED
    BY <1>2, <2>1, CalmKeepsTicket
<1>4. TicketInv(k)'
  <2>1. tickets'[k] # Absent
    BY DEF MfaTypeOK
  <2>2. QED
    BY <1>2, <2>1, OpenKeepsTicket
<1>5. QED
  BY <1>3, <1>4

\* No step of a handler breaks the tickets.
LEMMA RequestKeepsTickets ==
    ASSUME "redis" \notin MayFail, MfaTypeOK, MfaTypeOK', \A t \in Tickets : TicketInv(t),
           NEW r \in Requests, RequestNext(r)
    PROVE  \A t \in Tickets : TicketInv(t)'
<1> USE DEF store, history
<1>1. ASSUME NEW q, Continue(r, q)
      PROVE  req'[r] = q /\ \A p \in Requests \ {r} : req'[p] = req[p]
  BY <1>1 DEF Continue, MfaTypeOK
<1>2. ASSUME NEW u \in Users, Login(r, u)
      PROVE  \A t \in Tickets : TicketInv(t)'
  <2>1. /\ req'[r].at \in {"login_ticket", "gate"}
        /\ \A p \in Requests \ {r} : req'[p] = req[p]
    BY <1>1, <1>2 DEF Login
  <2>2. QED
    BY <1>2, <2>1, MoverKeepsTickets DEF Login, Idle
<1>3. ASSUME NEW k \in Tickets, LoginTicket(r, k)
      PROVE  \A t \in Tickets : TicketInv(t)'
  <2>1. PICK v \in Ticket : tickets' = [tickets EXCEPT ![k] = v]
    <3>1. req[r].user \in Users
      BY <1>3, ShapeOf DEF LoginTicket, LoginRequest
    <3>2. [kind |-> IF req[r].enabled THEN "pending" ELSE "setup", user |-> req[r].user]
              \in Ticket
      BY <3>1 DEF Ticket
    <3>3. QED
      BY <3>2, <1>3 DEF LoginTicket
  <2>2. v # Absent
    BY MfaCodesAssumption
  <2>3. QED
    BY <1>3, <2>1, <2>2, GiveKeepsTickets DEF LoginTicket
<1>4. ASSUME PasswordGate(r)
      PROVE  \A t \in Tickets : TicketInv(t)'
  <2>1. CASE UNCHANGED <<tickets, drawn>>
    <3>1. req'[r].at = "idle" /\ \A p \in Requests \ {r} : req'[p] = req[p]
      BY <1>4, FinishType DEF PasswordGate, Idle
    <3>2. QED
      BY <1>4, <2>1, <3>1, MoverKeepsTickets DEF PasswordGate
  <2>2. ASSUME NEW k \in Tickets \ drawn, drawn' = drawn \cup {k},
               tickets' = [tickets EXCEPT ![k] = [kind |-> "password", user |-> req[r].user]]
        PROVE  \A t \in Tickets : TicketInv(t)'
    <3>1. [kind |-> "password", user |-> req[r].user] \in Ticket
      BY <1>4, ShapeOf DEF PasswordGate, UserRequest, Ticket
    <3>2. [kind |-> "password", user |-> req[r].user] # Absent
      BY <3>1, MfaCodesAssumption
    <3>3. QED
      BY <1>4, <2>2, <3>2, GiveKeepsTickets DEF PasswordGate
  <2>3. QED
    BY <1>4, <2>1, <2>2 DEF PasswordGate
<1>5. ASSUME NEW k \in Tickets, VerifyPeek(r, k) \/ SetupPeek(r, k) \/ EnablePeek(r, k)
      PROVE  \A t \in Tickets : TicketInv(t)'
  BY <1>5, PeekKeepsTickets DEF VerifyPeek, SetupPeek, EnablePeek
<1>6. ASSUME NEW c, VerifyUser(r, c)
      PROVE  \A t \in Tickets : TicketInv(t)'
  <2>1. CASE Guess(r)
    BY <1>6, <2>1, GuessKeepsTickets DEF VerifyUser
  <2>2. CASE ~Guess(r)
    <3>1. req[r] \in PeekedRequest /\ req[r].at = "verify_user"
      BY <1>6, ShapeOf DEF VerifyUser
    <3>2. /\ [req[r] EXCEPT !.at = "drop"].at = "drop"
          /\ [req[r] EXCEPT !.at = "drop"].ticket = req[r].ticket
          /\ [req[r] EXCEPT !.at = "spend"].at = "spend"
      BY <3>1 DEF PeekedRequest
    <3>3. UNCHANGED guesses /\ \/ Continue(r, [req[r] EXCEPT !.at = "drop"])
                               \/ Continue(r, [req[r] EXCEPT !.at = "spend"])
                               \/ MatchBackup(r, req[r].user, c, req[r].ticket)
      BY <1>6, <2>2 DEF VerifyUser
    <3>4. /\ \A p \in Requests \ {r} : req'[p] = req[p]
          /\ req'[r].at \in {"drop", "spend", "consume"}
          /\ req'[r].at = "drop" => req'[r].ticket = req[r].ticket
      <4>1. CASE Continue(r, [req[r] EXCEPT !.at = "drop"])
        BY <1>1, <3>2, <4>1
      <4>2. CASE Continue(r, [req[r] EXCEPT !.at = "spend"])
        <5>1. /\ req'[r] = [req[r] EXCEPT !.at = "spend"]
              /\ \A p \in Requests \ {r} : req'[p] = req[p]
          BY <1>1, <4>2
        <5>2. QED
          BY <5>1, <3>2
      <4>3. CASE MatchBackup(r, req[r].user, c, req[r].ticket)
        BY <1>1, <4>3 DEF MatchBackup
      <4>4. QED
        BY <3>3, <4>1, <4>2, <4>3
    <3>5. QED
      BY <1>6, <3>1, <3>3, <3>4, MoverKeepsTickets DEF VerifyUser
  <2>3. QED
    BY <2>1, <2>2
<1>7. ASSUME NEW c, EnableUser(r, c)
      PROVE  \A t \in Tickets : TicketInv(t)'
  <2>1. CASE Guess(r)
    BY <1>7, <2>1, GuessKeepsTickets DEF EnableUser
  <2>2. CASE ~Guess(r)
    <3>1. /\ UNCHANGED guesses
          /\ \/ Continue(r, Idle)
             \/ Continue(r, [at |-> "enable_write", user |-> req[r].user,
                             ticket |-> req[r].ticket, code |-> c])
      BY <1>7, <2>2 DEF EnableUser, Finish
    <3>2. /\ \A p \in Requests \ {r} : req'[p] = req[p]
          /\ req'[r].at \in {"idle", "enable_write"}
      BY <1>1, <3>1 DEF Idle
    <3>3. QED
      BY <1>7, <3>1, <3>2, MoverKeepsTickets DEF EnableUser
  <2>3. QED
    BY <2>1, <2>2
<1>8. ASSUME NEW u \in Users, NEW c, DisableUser(r, u, c)
      PROVE  \A t \in Tickets : TicketInv(t)'
  <2>1. /\ \A p \in Requests \ {r} : req'[p] = req[p]
        /\ req'[r].at \in {"disable_write", "consume"}
    BY <1>1, <1>8 DEF DisableUser, MatchBackup
  <2>2. QED
    BY <1>8, <2>1, MoverKeepsTickets DEF DisableUser, Idle
<1>9. ASSUME \/ \E x \in Secrets : SetupWrite(r, x)
             \/ DisableWrite(r)
             \/ \E list \in SUBSET BackupCodes : EnableWrite(r, list)
             \/ Consume(r)
      PROVE  \A t \in Tickets : TicketInv(t)'
  <2>1. /\ req[r].at \in {"setup_write", "disable_write", "enable_write", "consume"}
        /\ UNCHANGED <<tickets, attempts, guesses>> /\ drawn \subseteq drawn'
    BY <1>9 DEF SetupWrite, DisableWrite, EnableWrite, Consume
  <2>2. \/ Continue(r, Idle)
        \/ Continue(r, [at |-> "spend", user |-> req[r].user, ticket |-> req[r].ticket])
        \/ Continue(r, [at |-> "disable_write", user |-> req[r].user])
    BY <1>9 DEF SetupWrite, DisableWrite, EnableWrite, Consume, Finish
  <2>3. /\ \A p \in Requests \ {r} : req'[p] = req[p]
        /\ req'[r].at \in {"idle", "spend", "disable_write"}
    BY <1>1, <2>2 DEF Idle
  <2>4. QED
    BY <2>1, <2>3, MoverKeepsTickets
<1>10. ASSUME StoreFails(r)
       PROVE  \A t \in Tickets : TicketInv(t)'
  <2>1. req[r].at \notin {"bump", "drop"}
    BY <1>10 DEF StoreFails, StoreOf
  <2>2. req'[r].at = "idle" /\ \A p \in Requests \ {r} : req'[p] = req[p]
    BY <1>10, FinishType DEF StoreFails, Idle
  <2>3. QED
    BY <1>10, <2>1, <2>2, MoverKeepsTickets DEF StoreFails
<1>11. QED
  BY <1>2, <1>3, <1>4, <1>5, <1>6, <1>7, <1>8, <1>9, <1>10, BumpKeepsTickets,
     DeleteKeepsTickets DEF RequestNext

LEMMA TicketStep ==
    ASSUME "redis" \notin MayFail, MfaTypeOK, \A t \in Tickets : TicketInv(t), [Next]_vars
    PROVE  \A t \in Tickets : TicketInv(t)'
<1>1. MfaTypeOK'
  BY MfaTypeStep
<1>2. ASSUME UNCHANGED <<tickets, attempts, guesses, drawn, req>>
      PROVE  \A t \in Tickets : TicketInv(t)'
  <2>1. ASSUME NEW t
        PROVE  /\ Bumping(t)' = Bumping(t) /\ Dropping(t)' = Dropping(t)
               /\ Guessing(t)' = Guessing(t)
    BY <1>2 DEF Bumping, Dropping, Guessing
  <2>2. QED
    BY <1>2, <2>1 DEF TicketInv
<1>3. ASSUME NEW k \in Tickets, TicketExpires(k)
      PROVE  \A t \in Tickets : TicketInv(t)'
  <2>1. /\ tickets' = [tickets EXCEPT ![k] = Absent]
        /\ UNCHANGED <<attempts, guesses, drawn, req>>
    BY <1>3 DEF TicketExpires, history
  <2>2. ASSUME NEW t \in Tickets
        PROVE  /\ Bumping(t)' = Bumping(t) /\ Dropping(t)' = Dropping(t)
               /\ Guessing(t)' = Guessing(t)
    BY <2>1 DEF Bumping, Dropping, Guessing
  <2>3. ASSUME NEW t \in Tickets \ {k}
        PROVE  TicketInv(t)'
    <3>1. tickets'[t] = tickets[t]
      BY <2>1 DEF MfaTypeOK
    <3>2. QED
      BY <1>1, <2>1, <2>2, <3>1, CalmKeepsTicket
  <2>4. TicketInv(k)'
    <3>1. tickets'[k] = Absent
      BY <2>1 DEF MfaTypeOK
    <3>2. QED
      BY <2>1, <2>2, <3>1, KillKeepsTicket
  <2>5. QED
    BY <2>3, <2>4
<1>4. QED
  BY <1>1, <1>2, <1>3, RequestKeepsTickets DEF Next, AdminReset, vars, store, history

\* While Redis answers, no ticket is good for more wrong codes than the limit
\* and one for each other handler in flight (mfa.routes 102-105, 185-188).
THEOREM GuessesStayBounded == "redis" \notin MayFail => (Spec => []GuessesBounded)
<1> SUFFICES ASSUME "redis" \notin MayFail PROVE Spec => []GuessesBounded
  OBVIOUS
<1> DEFINE TicketsInv == \A t \in Tickets : TicketInv(t)
<1>1. Init => TicketsInv
  <2>1. SUFFICES ASSUME Init, NEW t \in Tickets PROVE TicketInv(t)
    OBVIOUS
  <2>2. Guessing(t) = {} /\ Bumping(t) = {} /\ Dropping(t) = {}
    BY <2>1 DEF Init, Idle, Guessing, Bumping, Dropping
  <2>3. guesses[t] = 0 /\ attempts[t] = 0 /\ tickets[t] = Absent
    BY <2>1 DEF Init
  <2>4. Cardinality(Guessing(t)) = 0 /\ Cardinality(Requests) \in Nat
    BY <2>2, FS_EmptySet, TicketSizes
  <2>5. guesses[t] + Cardinality(Guessing(t)) < MaxAttempts + Cardinality(Requests)
    BY <2>3, <2>4, MfaBoundsAssumption
  <2>6. QED
    BY <2>2, <2>3, <2>5 DEF TicketInv
<1>2. MfaTypeOK /\ TicketsInv /\ [Next]_vars => TicketsInv'
  BY TicketStep
<1>3. MfaTypeOK /\ TicketsInv => GuessesBounded
  <2>1. SUFFICES ASSUME MfaTypeOK, TicketsInv, NEW t \in Tickets
                 PROVE  guesses[t] < MaxAttempts + Cardinality(Requests)
    BY DEF GuessesBounded
  <2>2. guesses[t] + Cardinality(Guessing(t)) < MaxAttempts + Cardinality(Requests)
    BY <2>1, LiveHasRoom
  <2>3. guesses[t] \in Nat
    BY <2>1 DEF MfaTypeOK
  <2>4. QED
    BY <2>2, <2>3, TicketSizes, MfaBoundsAssumption
<1> HIDE DEF TicketsInv
<1>4. QED
  BY <1>1, <1>2, <1>3, MfaTypesCorrect, PTL DEF Spec

=============================================================================
